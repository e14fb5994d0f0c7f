---------------------------- MODULE BackupProofs ----------------------------
(***************************************************************************)
(* Proofs about Backup, for any scenario (calls of another thread, kills,  *)
(* failures, several exports, devices of any size), and any sharing that   *)
(* BackupAssumption admits.                                                *)
(***************************************************************************)
EXTENDS Backup, FiniteSetTheorems, TLAPS

(* Types.                                                                  *)

Flags == {"BACKUPABLE", "INJECTABLE"}

\* A slot that is not LOADED has neither a key nor a policy; one that was read from a
\* file has no key in hardware.
SlotRecs ==
  {r \in [state : {"UNINIT", "EMPTY", "LOADED"}, gen : Nat, key : Nat, policy : SUBSET Flags,
          hw : BOOLEAN] :
     r.state # "LOADED" => r.key = 0 /\ r.policy = {} /\ r.hw = FALSE}
StoredRecs == {r \in SlotRecs : r.hw = FALSE}

\* An item holds what is written of the slot.
Items ==
  {e \in [slot : Nat, rec : StoredRecs, checked : Nat, was : SlotRecs] :
     e.rec = slot_serialize_locked(e.was)}
ExpRec == [pc : {"idle", "check", "read", "split", "done"}, no : Nat, i : Nat, gen : Nat,
           recs : Seq(Items), rmk : Nat]
FileRec == [no : Nat, recs : Seq(Items), rmk : Nat]
LastRec == [no : Nat, recs : Seq(Items)]
RstRec(given) == [pc : {"idle", "load", "done"}, with : SUBSET given, i : Nat,
                  st : {"OK", "INTEGRITY", "NOMEM", "CRYPTO"}]
InjRec == [pc : {"idle", "find", "probe", "destroy", "load"}, slot : Nat, auth : BOOLEAN,
           policy : SUBSET Flags, i : Nat, gen : Nat, seen : SUBSET Flags,
           sess : {"user", "public", "closed"}]

TypesOK ==
  /\ app \in Scenarios
  /\ tok \in [DOMAIN tok -> SlotRecs] /\ DOMAIN tok \subseteq Nat
  /\ disk \in [DOMAIN disk -> StoredRecs] /\ DOMAIN disk \subseteq Nat
  /\ exp \in ExpRec /\ file \in FileRec /\ last \in LastRec
  /\ rst \in RstRec(shares) /\ inj \in InjRec
  /\ nkeys \in Nat /\ nexp \in Nat /\ spoilt \in BOOLEAN
-----------------------------------------------------------------------------
(* The inductive invariant.                                                *)

\* A restore runs alone; outside it the file holds what is written of memory.
AloneOK ==
  /\ rst.pc # "idle" => exp.pc = "idle" /\ inj.pc = "idle"
  /\ rst.pc = "idle" => disk = Written(tok)

Permitted(r) == "BACKUPABLE" \in r.rec.policy \/ r.rec.gen > r.checked

\* Between the look at a slot and its record the key cannot be exchanged within a
\* generation.
SealedOK ==
  /\ \A i \in DOMAIN exp.recs : Permitted(exp.recs[i])
  /\ \A i \in DOMAIN file.recs : Permitted(file.recs[i])
  /\ exp.pc = "read" =>
       /\ exp.i \in DOMAIN tok
       /\ tok[exp.i].gen > exp.gen \/ (tok[exp.i].gen = exp.gen /\ Backupable(tok[exp.i]))

\* The same for an injection, which also remembers the policy it saw.
InjectOK ==
  inj.pc # "idle" =>
    /\ inj.auth /\ inj.slot \in DOMAIN tok
    /\ inj.pc \in {"probe", "destroy"} =>
         /\ inj.i \in DOMAIN tok
         /\ \/ tok[inj.i].gen > inj.gen
            \/ /\ tok[inj.i].gen = inj.gen /\ tok[inj.i].state = "LOADED"
               /\ tok[inj.i].policy = inj.seen
    /\ inj.pc = "destroy" => "INJECTABLE" \in inj.seen

\* An export takes the slots in their order, each once.
Ordered(recs) == \A i, j \in DOMAIN recs : i < j => recs[i].slot < recs[j].slot

\* The shares of an export exist when it has answered, and belong to its file until
\* another export replaces it.
SharesOK ==
  /\ \A sh \in shares : sh.no \in 1 .. nexp
  /\ nexp <= app.exports /\ last.no <= nexp
  /\ Ordered(file.recs) /\ Ordered(exp.recs)
  /\ \A i \in DOMAIN exp.recs : exp.recs[i].slot < exp.i
  /\ exp.pc # "idle" => exp.no = nexp /\ nexp >= 1 /\ exp.rmk \in app.rmks
  /\ exp.pc \in {"check", "read", "split"} =>
       last.no # nexp /\ \A sh \in shares : sh.no # nexp
  /\ exp.pc = "split" => file = [no |-> exp.no, recs |-> exp.recs, rmk |-> exp.rmk]
  /\ ~spoilt /\ exp.pc # "split" /\ last.no > 0 =>
       /\ file.no = last.no /\ file.recs = last.recs /\ file.rmk \in app.rmks
       /\ \E c \in RandomCoefs(app.m, app.coefs) :
            {sh \in shares : sh.no = last.no} \subseteq Handed(last.no, file.rmk, c, app.n)

\* A restore has installed the records before the one it is at.
RestoreOK ==
  rst.pc = "load" =>
    /\ rst.i >= 1
    /\ \A j \in DOMAIN file.recs :
         j < rst.i => /\ file.recs[j].slot \in DOMAIN tok
                      /\ tok[file.recs[j].slot] = file.recs[j].rec

BkInv == /\ TypesOK /\ AloneOK /\ SealedOK /\ InjectOK /\ SharesOK /\ RestoreOK
         /\ QuorumBringsBack
-----------------------------------------------------------------------------
(* Slots.                                                                  *)

USE DEF Up, Does, exportVars, exportRest, injectRest, restoreRest

\* What a call does to a slot while exports and injections are under way: a new key
\* within a generation comes only to a slot that had none.
Moves(r, q) == q = r \/ q.gen > r.gen \/ (q.gen = r.gen /\ r.state # "LOADED")

\* The values that variables are set to have their types.
LEMMA Initials ==
  /\ <<>> \in Seq(Items) /\ Len(<<>>) = 0 /\ DOMAIN <<>> = {}
  /\ BlankSlot \in StoredRecs /\ [BlankSlot EXCEPT !.state = "EMPTY"] \in StoredRecs
  /\ NoExport \in ExpRec /\ NoFile \in FileRec /\ NoInject \in InjRec
  /\ \A given : NoRestore \in RstRec(given)
<1>1. <<>> \in Seq(Items) /\ Len(<<>>) = 0 /\ DOMAIN <<>> = {}
  OBVIOUS
<1>2. BlankSlot \in StoredRecs /\ [BlankSlot EXCEPT !.state = "EMPTY"] \in StoredRecs
  BY DEF BlankSlot, SlotRecs, StoredRecs
<1>3. NoExport \in ExpRec /\ NoFile \in FileRec
  BY <1>1 DEF NoExport, ExpRec, NoFile, FileRec
<1>4. NoInject \in InjRec
  BY DEF NoInject, InjRec
<1>5. \A given : NoRestore \in RstRec(given)
  BY DEF NoRestore, RstRec
<1> QED BY <1>1, <1>2, <1>3, <1>4, <1>5

\* What is written of a slot has no key in hardware, and is written again as it is.
LEMMA Serialized ==
  ASSUME NEW r \in SlotRecs
  PROVE  /\ slot_serialize_locked(r) \in StoredRecs
         /\ slot_serialize_locked(r).gen = r.gen
         /\ slot_serialize_locked(r).policy = r.policy
         /\ r.hw = FALSE => slot_serialize_locked(r) = r
<1>1. CASE r.hw = FALSE
  BY <1>1 DEF slot_serialize_locked, StoredRecs
<1>2. CASE r.hw = TRUE
  <2>1. slot_serialize_locked(r) = [r EXCEPT !.key = 0, !.hw = FALSE]
    BY <1>2 DEF slot_serialize_locked
  <2>2. PICK q : q = [r EXCEPT !.key = 0, !.hw = FALSE]
    OBVIOUS
  <2>3. /\ q \in SlotRecs /\ q.gen = r.gen /\ q.policy = r.policy /\ q.hw = FALSE
    BY <2>2 DEF SlotRecs
  <2> QED BY <1>2, <2>1, <2>2, <2>3 DEF StoredRecs
<1> QED BY <1>1, <1>2 DEF SlotRecs

\* The same of all the slots of a token.
LEMMA WrittenOK ==
  ASSUME NEW t, t \in [DOMAIN t -> SlotRecs]
  PROVE  /\ Written(t) \in [DOMAIN t -> StoredRecs] /\ DOMAIN Written(t) = DOMAIN t
         /\ t \in [DOMAIN t -> StoredRecs] => Written(t) = t
<1>1. \A s \in DOMAIN t : t[s] \in SlotRecs
  OBVIOUS
<1>2. Written(t) \in [DOMAIN t -> StoredRecs] /\ DOMAIN Written(t) = DOMAIN t
  BY <1>1, Serialized DEF Written
<1>3. ASSUME t \in [DOMAIN t -> StoredRecs] PROVE Written(t) = t
  <2>1. \A s \in DOMAIN t : slot_serialize_locked(t[s]) = t[s]
    BY <1>1, <1>3, Serialized DEF StoredRecs
  <2> QED BY <1>3, <2>1 DEF Written
<1> QED BY <1>2, <1>3

\* A token read from a file is one that is written as it is.
LEMMA StoredIsSlot ==
  ASSUME NEW t, t \in [DOMAIN t -> StoredRecs]
  PROVE  t \in [DOMAIN t -> SlotRecs] /\ Written(t) = t
<1>1. t \in [DOMAIN t -> SlotRecs]
  BY DEF StoredRecs
<1> QED BY <1>1, WrittenOK

\* The operations on a slot keep it one.
LEMMA SlotOps ==
  ASSUME NEW r \in SlotRecs, NEW k \in Nat, NEW p \in SUBSET Flags, NEW hw \in BOOLEAN
  PROVE  /\ create_object(r, k, p, hw) \in SlotRecs
         /\ r.state = "EMPTY" => Moves(r, create_object(r, k, p, hw))
         /\ destroy(r) \in SlotRecs /\ Moves(r, destroy(r))
         /\ do_zeroize(r) \in SlotRecs /\ Moves(r, do_zeroize(r))
         /\ r.state = "UNINIT" => /\ [r EXCEPT !.state = "EMPTY"] \in SlotRecs
                                  /\ Moves(r, [r EXCEPT !.state = "EMPTY"])
<1>1. r.gen \in Nat /\ r.gen + 1 \in Nat /\ r.gen + 1 > r.gen
  BY DEF SlotRecs
<1>2. /\ create_object(r, k, p, hw) \in SlotRecs
      /\ r.state = "EMPTY" => Moves(r, create_object(r, k, p, hw))
  BY DEF create_object, SlotRecs, Moves
<1>3. destroy(r) \in SlotRecs /\ destroy(r).gen = r.gen + 1
  BY <1>1 DEF destroy, SlotRecs
<1>4. do_zeroize(r) \in SlotRecs /\ do_zeroize(r).gen = r.gen + 1
  <2>1. PICK d : d = destroy(r)
    OBVIOUS
  <2>2. d \in SlotRecs /\ d.gen = r.gen + 1 /\ d.key = 0 /\ d.policy = {} /\ d.hw = FALSE
    BY <1>3, <2>1 DEF destroy, SlotRecs
  <2>3. do_zeroize(r) = [d EXCEPT !.state = "UNINIT"]
    BY <2>1 DEF do_zeroize
  <2> QED BY <2>2, <2>3 DEF SlotRecs
<1>5. r.state = "UNINIT" => /\ [r EXCEPT !.state = "EMPTY"] \in SlotRecs
                            /\ Moves(r, [r EXCEPT !.state = "EMPTY"])
  BY DEF SlotRecs, Moves
<1> QED BY <1>1, <1>2, <1>3, <1>4, <1>5 DEF Moves

\* A slot changes and the key store is saved.
LEMMA SlotSaved ==
  ASSUME TypesOK, NEW s \in DOMAIN tok, NEW q \in SlotRecs, Moves(tok[s], q), Commit(s, q)
  PROVE  /\ DOMAIN tok' = DOMAIN tok /\ disk' = Written(tok') /\ tok'[s] = q
         /\ tok' \in [DOMAIN tok -> SlotRecs]
         /\ \A t \in DOMAIN tok : Moves(tok[t], tok'[t])
         /\ \A t \in DOMAIN tok \ {s} : tok'[t] = tok[t]
BY DEF Commit, TypesOK, Moves

\* Whatever another thread does to the slots, an export that has looked at one may still
\* take it, and an injection knows what it looked at.
LEMMA LooksHold ==
  ASSUME BkInv, UNCHANGED <<exp, file>>, DOMAIN tok' = DOMAIN tok,
         tok' \in [DOMAIN tok -> SlotRecs],
         \A t \in DOMAIN tok : Moves(tok[t], tok'[t])
  PROVE  SealedOK' /\ (UNCHANGED inj => InjectOK')
<1> USE DEF BkInv
<1>1. ASSUME NEW t \in DOMAIN tok, NEW g \in Nat, tok[t].gen > g
      PROVE  tok'[t].gen > g
  <2>1. tok[t] \in SlotRecs /\ tok'[t] \in SlotRecs /\ Moves(tok[t], tok'[t])
    BY DEF TypesOK
  <2>2. tok[t].gen \in Nat /\ tok'[t].gen \in Nat
    BY <2>1 DEF SlotRecs
  <2> QED BY <1>1, <2>1, <2>2 DEF Moves
<1>2. ASSUME NEW t \in DOMAIN tok, NEW g \in Nat, tok[t].gen = g, tok[t].state = "LOADED"
      PROVE  tok'[t] = tok[t] \/ tok'[t].gen > g
  BY <1>2 DEF Moves
<1>3. SealedOK'
  <2>1. ASSUME exp.pc = "read"
        PROVE  tok'[exp.i].gen > exp.gen \/ (tok'[exp.i].gen = exp.gen /\ Backupable(tok'[exp.i]))
    <3>1. exp.i \in DOMAIN tok /\ exp.gen \in Nat /\ tok[exp.i] \in SlotRecs
      BY <2>1 DEF SealedOK, TypesOK, ExpRec
    <3>2. Backupable(tok[exp.i]) => tok[exp.i].state = "LOADED"
      BY <3>1 DEF Backupable, SlotRecs
    <3> QED BY <1>1, <1>2, <2>1, <3>1, <3>2 DEF SealedOK
  <2> QED BY <2>1 DEF SealedOK
<1>4. ASSUME UNCHANGED inj PROVE InjectOK'
  <2>1. ASSUME inj.pc \in {"probe", "destroy"}
        PROVE  \/ tok'[inj.i].gen > inj.gen
               \/ /\ tok'[inj.i].gen = inj.gen /\ tok'[inj.i].state = "LOADED"
                  /\ tok'[inj.i].policy = inj.seen
    BY <1>1, <1>2, <2>1 DEF InjectOK, TypesOK, InjRec
  <2> QED BY <1>4, <2>1 DEF InjectOK
<1> QED BY <1>3, <1>4

\* A step of the application that changes no more than slots and the injection.
LEMMA SlotsStep ==
  ASSUME BkInv, rst.pc = "idle", UNCHANGED <<app, exportVars, rst>>,
         DOMAIN tok' = DOMAIN tok, tok' \in [DOMAIN tok -> SlotRecs], disk' = Written(tok'),
         \A t \in DOMAIN tok : Moves(tok[t], tok'[t]),
         nkeys' \in Nat, inj' \in InjRec, inj' = inj \/ InjectOK'
  PROVE  BkInv'
<1> USE DEF BkInv
<1>1. SealedOK' /\ InjectOK'
  BY LooksHold
<1>2. TypesOK'
  <2>1. disk' \in [DOMAIN disk' -> StoredRecs] /\ DOMAIN disk' = DOMAIN tok
    <3>1. PICK t : t = tok'
      OBVIOUS
    <3>2. t \in [DOMAIN t -> SlotRecs] /\ disk' = Written(t) /\ DOMAIN t = DOMAIN tok
      BY <3>1
    <3> QED BY <3>2, WrittenOK
  <2> QED BY <2>1 DEF TypesOK
<1>3. AloneOK' /\ SharesOK' /\ RestoreOK' /\ QuorumBringsBack'
  BY DEF AloneOK, SharesOK, RestoreOK, QuorumBringsBack, Restorable
<1> QED BY <1>1, <1>2, <1>3

\* The same with one slot changed and saved.
LEMMA SlotStep ==
  ASSUME BkInv, NEW s \in DOMAIN tok, NEW q \in SlotRecs, Moves(tok[s], q), Commit(s, q),
         rst.pc = "idle", UNCHANGED <<app, exportVars, rst>>,
         nkeys' \in Nat, inj' \in InjRec, inj' = inj \/ InjectOK'
  PROVE  BkInv'
BY SlotSaved, SlotsStep DEF BkInv

\* And with none: an injection looks at the slots.
LEMMA InjectStep ==
  ASSUME BkInv, rst.pc = "idle", UNCHANGED <<app, exportVars, rst, tok, disk, nkeys>>,
         inj' \in InjRec, InjectOK'
  PROVE  BkInv'
<1>1. disk' = Written(tok') /\ \A t \in DOMAIN tok : Moves(tok[t], tok'[t])
  BY DEF BkInv, AloneOK, Moves
<1> QED BY <1>1, SlotsStep DEF BkInv, TypesOK
-----------------------------------------------------------------------------
(* Calls of another thread.                                                *)

\* A key is made, in an empty slot.
LEMMA CreateOK ==
  ASSUME BkInv, NEW s \in DOMAIN tok, NEW p \in app.policies, NEW hw \in BOOLEAN,
         Create(s, p, hw)
  PROVE  BkInv'
<1>1. /\ tok[s] \in SlotRecs /\ nkeys + 1 \in Nat /\ p \in SUBSET Flags /\ inj \in InjRec
  BY BackupAssumption DEF BkInv, TypesOK, Flags
<1>2. PICK q : q = create_object(tok[s], nkeys + 1, p, hw)
  OBVIOUS
<1>3. q \in SlotRecs /\ Moves(tok[s], q)
  BY <1>1, <1>2, SlotOps DEF Create
<1> QED BY <1>1, <1>2, <1>3, SlotStep DEF Create

\* A key is destroyed, or a slot zeroized.
LEMMA EraseOK == ASSUME BkInv, NEW s \in DOMAIN tok, Erase(s) PROVE BkInv'
<1>1. tok[s] \in SlotRecs /\ nkeys \in Nat /\ inj \in InjRec /\ {} \in SUBSET Flags
  BY DEF BkInv, TypesOK
<1>2. PICK q \in {destroy(tok[s]), do_zeroize(tok[s])} : Commit(s, q)
  BY DEF Erase
<1>3. q \in SlotRecs /\ Moves(tok[s], q)
  BY <1>1, <1>2, SlotOps
<1> QED BY <1>1, <1>2, <1>3, SlotStep DEF Erase

\* A zeroized slot is initialised again.
LEMMA InitTokenOK == ASSUME BkInv, NEW s \in DOMAIN tok, InitToken(s) PROVE BkInv'
<1>1. tok[s] \in SlotRecs /\ nkeys \in Nat /\ inj \in InjRec /\ {} \in SUBSET Flags
  BY DEF BkInv, TypesOK
<1>2. PICK q : q = [tok[s] EXCEPT !.state = "EMPTY"]
  OBVIOUS
<1>3. q \in SlotRecs /\ Moves(tok[s], q)
  BY <1>1, <1>2, SlotOps DEF InitToken
<1> QED BY <1>1, <1>2, <1>3, SlotStep DEF InitToken

\* A plain text injection: a key is made like any other.
LEMMA InjectPlaintextOK ==
  ASSUME BkInv, NEW s \in DOMAIN tok, NEW p \in app.policies, InjectPlaintext(s, p)
  PROVE  BkInv'
<1>1. /\ tok[s] \in SlotRecs /\ nkeys + 1 \in Nat /\ p \in SUBSET Flags /\ inj \in InjRec
  BY BackupAssumption DEF BkInv, TypesOK, Flags
<1>2. PICK q : q = create_object(tok[s], nkeys + 1, p, FALSE)
  OBVIOUS
<1>3. q \in SlotRecs /\ Moves(tok[s], q)
  BY <1>1, <1>2, SlotOps DEF InjectPlaintext
<1> QED BY <1>1, <1>2, <1>3, SlotStep DEF InjectPlaintext

\* Manufacturing mode is nobody's concern here.
LEMMA SetManufacturingOK ==
  ASSUME BkInv, NEW on \in BOOLEAN, SetManufacturing(on)
  PROVE  BkInv'
<1>1. disk' = Written(tok') /\ \A t \in DOMAIN tok : Moves(tok[t], tok'[t])
  BY DEF SetManufacturing, BkInv, AloneOK, Moves
<1> QED BY <1>1, SlotsStep DEF SetManufacturing, BkInv, TypesOK
-----------------------------------------------------------------------------
(* An injection.                                                           *)

\* Where an injection is, no restore is.
LEMMA Injecting ==
  ASSUME BkInv, inj.pc # "idle"
  PROVE  /\ rst.pc = "idle" /\ inj \in InjRec /\ inj.auth
         /\ inj.slot \in DOMAIN tok /\ inj.slot \in Nat
         /\ DOMAIN tok \subseteq Nat /\ \A t \in DOMAIN tok : tok[t] \in SlotRecs
BY DEF BkInv, AloneOK, TypesOK, InjectOK

\* A blob is accepted.
LEMMA InjectBeginOK ==
  ASSUME BkInv, NEW s \in DOMAIN tok, NEW p \in app.policies, NEW auth \in BOOLEAN,
         InjectBegin(s, auth, p)
  PROVE  BkInv'
<1>1. p \in SUBSET Flags /\ s \in Nat
  BY BackupAssumption DEF BkInv, TypesOK, Flags
<1>2. /\ inj' \in InjRec /\ inj'.pc = "find" /\ inj'.auth = TRUE /\ inj'.slot = s
  BY <1>1, Initials DEF InjectBegin, Authentic, InjRec, NoInject
<1>3. InjectOK'
  BY <1>2 DEF InjectBegin, InjectOK
<1> QED BY <1>2, <1>3, InjectStep DEF InjectBegin

\* A slot is looked at.
LEMMA InjectFindOK == ASSUME BkInv, InjectFind PROVE BkInv'
<1>1. /\ inj.pc = "find" /\ rst.pc = "idle" /\ inj \in InjRec /\ inj.auth
      /\ inj.slot \in DOMAIN tok /\ \A t \in DOMAIN tok : tok[t] \in SlotRecs
      /\ UNCHANGED <<app, exportVars, rst, tok, disk, nkeys>>
  BY Injecting DEF InjectFind
<1>2. CASE inj' = [inj EXCEPT !.pc = "load"]
  <2>1. /\ inj' \in InjRec /\ inj'.pc = "load" /\ inj'.auth = inj.auth /\ inj'.slot = inj.slot
    BY <1>1, <1>2 DEF InjRec
  <2> QED BY <1>1, <2>1, InjectStep DEF InjectOK
<1>3. CASE /\ inj.i \in DOMAIN tok /\ tok[inj.i].state = "LOADED"
           /\ inj' = [inj EXCEPT !.pc = "probe", !.gen = tok[inj.i].gen, !.seen = tok[inj.i].policy]
  <2>1. tok[inj.i].gen \in Nat /\ tok[inj.i].policy \in SUBSET Flags
    BY <1>1, <1>3 DEF SlotRecs
  <2>2. /\ inj' \in InjRec /\ inj'.pc = "probe" /\ inj'.auth = inj.auth /\ inj'.slot = inj.slot
        /\ inj'.i = inj.i /\ inj'.gen = tok[inj.i].gen /\ inj'.seen = tok[inj.i].policy
    BY <1>1, <1>3, <2>1 DEF InjRec
  <2> QED BY <1>1, <1>3, <2>2, InjectStep DEF InjectOK
<1>4. CASE inj' = [inj EXCEPT !.i = @ + 1]
  <2>1. PICK j \in Nat : inj' = [inj EXCEPT !.i = j]
    BY <1>1, <1>4 DEF InjRec
  <2>2. /\ inj' \in InjRec /\ inj'.pc = "find" /\ inj'.auth = inj.auth /\ inj'.slot = inj.slot
    BY <1>1, <2>1 DEF InjRec
  <2> QED BY <1>1, <2>2, InjectStep DEF InjectOK
<1> QED BY <1>1, <1>2, <1>3, <1>4 DEF InjectFind

\* And asked for its public key.
LEMMA InjectProbeOK == ASSUME BkInv, InjectProbe PROVE BkInv'
<1>1. /\ inj.pc = "probe" /\ rst.pc = "idle" /\ inj \in InjRec /\ inj.auth
      /\ inj.slot \in DOMAIN tok
      /\ UNCHANGED <<app, exportVars, rst, tok, disk, nkeys>>
  BY Injecting DEF InjectProbe
<1>2. CASE inj' = [inj EXCEPT !.pc = "find", !.i = @ + 1]
  <2>1. PICK j \in Nat : inj' = [inj EXCEPT !.pc = "find", !.i = j]
    <3>1. inj.i + 1 \in Nat
      BY <1>1 DEF InjRec
    <3> QED BY <1>2, <3>1
  <2>2. /\ inj' \in InjRec /\ inj'.pc = "find" /\ inj'.auth = inj.auth /\ inj'.slot = inj.slot
    BY <1>1, <2>1 DEF InjRec
  <2> QED BY <1>1, <2>2, InjectStep DEF InjectOK
<1>3. CASE "INJECTABLE" \in inj.seen /\ inj' = [inj EXCEPT !.pc = "destroy"]
  <2>1. /\ inj' \in InjRec /\ inj'.pc = "destroy" /\ inj'.auth = inj.auth /\ inj'.slot = inj.slot
        /\ inj'.i = inj.i /\ inj'.gen = inj.gen /\ inj'.seen = inj.seen
    BY <1>1, <1>3 DEF InjRec
  <2> QED BY <1>1, <1>3, <2>1, InjectStep DEF InjectOK, BkInv
<1>4. CASE inj' = NoInject
  <2>1. inj' \in InjRec /\ inj'.pc = "idle"
    BY <1>4, Initials DEF NoInject
  <2> QED BY <1>1, <2>1, InjectStep DEF InjectOK
<1> QED BY <1>2, <1>3, <1>4 DEF InjectProbe

\* The key found is destroyed.
LEMMA InjectDestroyOK == ASSUME BkInv, InjectDestroy PROVE BkInv'
<1>1. /\ inj.pc = "destroy" /\ rst.pc = "idle" /\ inj \in InjRec /\ inj.auth
      /\ inj.slot \in DOMAIN tok /\ tok[inj.slot] \in SlotRecs /\ nkeys \in Nat
      /\ UNCHANGED <<app, exportVars, rst, nkeys>>
  BY Injecting DEF InjectDestroy, BkInv, TypesOK
<1>2. CASE Commit(inj.slot, destroy(tok[inj.slot])) /\ inj' = [inj EXCEPT !.pc = "load"]
  <2>1. /\ inj' \in InjRec /\ inj'.pc = "load" /\ inj'.auth = inj.auth /\ inj'.slot = inj.slot
    BY <1>1, <1>2 DEF InjRec
  <2>2. PICK q : q = destroy(tok[inj.slot])
    OBVIOUS
  <2>3. q \in SlotRecs /\ Moves(tok[inj.slot], q)
    BY <1>1, <2>2, SlotOps
  <2>4. DOMAIN tok' = DOMAIN tok
    BY <1>2 DEF Commit
  <2>5. InjectOK'
    BY <1>1, <2>1, <2>4 DEF InjectOK
  <2> QED BY <1>1, <1>2, <2>1, <2>2, <2>3, <2>5, SlotStep
<1>3. CASE inj' = NoInject /\ UNCHANGED <<tok, disk>>
  <2>1. inj' \in InjRec /\ inj'.pc = "idle"
    BY <1>3, Initials DEF NoInject
  <2> QED BY <1>1, <1>3, <2>1, InjectStep DEF InjectOK
<1> QED BY <1>2, <1>3 DEF InjectDestroy

\* The new key is loaded, when its slot is empty.
LEMMA InjectLoadOK == ASSUME BkInv, InjectLoad PROVE BkInv'
<1>1. /\ inj.pc = "load" /\ rst.pc = "idle" /\ inj \in InjRec
      /\ inj.slot \in DOMAIN tok /\ tok[inj.slot] \in SlotRecs /\ nkeys + 1 \in Nat
      /\ inj.policy \in SUBSET Flags /\ UNCHANGED <<app, exportVars, rst>>
  BY Injecting DEF InjectLoad, BkInv, TypesOK, InjRec
<1>2. inj' \in InjRec /\ inj'.pc = "idle" /\ InjectOK'
  BY Initials DEF InjectLoad, NoInject, InjectOK
<1>3. CASE /\ tok[inj.slot].state = "EMPTY" /\ nkeys' = nkeys + 1
           /\ Commit(inj.slot, create_object(tok[inj.slot], nkeys + 1, inj.policy, FALSE))
  <2>1. PICK q : q = create_object(tok[inj.slot], nkeys + 1, inj.policy, FALSE)
    OBVIOUS
  <2>2. q \in SlotRecs /\ Moves(tok[inj.slot], q)
    BY <1>1, <1>3, <2>1, SlotOps
  <2> QED BY <1>1, <1>2, <1>3, <2>1, <2>2, SlotStep
<1>4. CASE UNCHANGED <<tok, disk, nkeys>>
  BY <1>1, <1>2, <1>4, InjectStep
<1> QED BY <1>3, <1>4 DEF InjectLoad

\* Its session is logged out or closed.
LEMMA SessionEndsOK == ASSUME BkInv, SessionEnds PROVE BkInv'
<1>1. /\ inj.pc # "idle" /\ rst.pc = "idle" /\ inj \in InjRec
      /\ UNCHANGED <<app, exportVars, rst, tok, disk, nkeys>>
  BY Injecting DEF SessionEnds
<1>2. PICK how \in {"public", "closed"} : inj' = [inj EXCEPT !.sess = how]
  BY DEF SessionEnds
<1>3. /\ inj' \in InjRec /\ inj'.pc = inj.pc /\ inj'.auth = inj.auth /\ inj'.slot = inj.slot
      /\ inj'.i = inj.i /\ inj'.gen = inj.gen /\ inj'.seen = inj.seen
  BY <1>1, <1>2 DEF InjRec
<1>4. InjectOK'
  BY <1>1, <1>3 DEF InjectOK, BkInv
<1> QED BY <1>1, <1>3, <1>4, InjectStep
-----------------------------------------------------------------------------
(* An export.                                                              *)

\* What is left to show of a step of an export.
LEMMA ExportStep ==
  ASSUME BkInv, rst.pc = "idle", UNCHANGED exportRest,
         exp' \in ExpRec, file' \in FileRec, last' \in LastRec, shares \subseteq shares',
         nexp' \in Nat, spoilt' \in BOOLEAN, SealedOK', SharesOK'
  PROVE  BkInv'
<1> USE DEF BkInv
<1>1. rst' \in RstRec(shares')
  BY DEF TypesOK, RstRec
<1>2. TypesOK'
  BY <1>1 DEF TypesOK
<1>3. AloneOK' /\ InjectOK' /\ RestoreOK' /\ QuorumBringsBack'
  BY DEF AloneOK, InjectOK, RestoreOK, QuorumBringsBack, Restorable
<1> QED BY <1>2, <1>3

\* Where an export is, no restore is.
LEMMA Exporting ==
  ASSUME BkInv, exp.pc # "idle"
  PROVE  /\ rst.pc = "idle" /\ exp \in ExpRec /\ file \in FileRec /\ last \in LastRec
         /\ nexp \in Nat /\ spoilt \in BOOLEAN
         /\ DOMAIN tok \subseteq Nat /\ \A t \in DOMAIN tok : tok[t] \in SlotRecs
BY DEF BkInv, AloneOK, TypesOK

\* One more record, of a slot that comes after all those taken.
LEMMA OneMoreItem ==
  ASSUME NEW recs \in Seq(Items), NEW e \in Items, Permitted(e),
         \A i \in DOMAIN recs : recs[i].slot < e.slot /\ Permitted(recs[i]), Ordered(recs),
         NEW t, t = Append(recs, e)
  PROVE  /\ t \in Seq(Items) /\ Ordered(t) /\ \A i \in DOMAIN t : t[i].slot < e.slot + 1
         /\ \A i \in DOMAIN t : Permitted(t[i])
<1>1. t \in Seq(Items) /\ Len(t) = Len(recs) + 1 /\ Len(recs) \in Nat
  OBVIOUS
<1>2. DOMAIN t = 1 .. Len(recs) + 1 /\ DOMAIN recs = 1 .. Len(recs)
  BY <1>1
<1>3. \A i \in 1 .. Len(recs) : t[i] = recs[i]
  OBVIOUS
<1>4. t[Len(recs) + 1] = e
  OBVIOUS
<1>5. \A i \in DOMAIN t : (i \in DOMAIN recs /\ t[i] = recs[i]) \/ (i = Len(recs) + 1 /\ t[i] = e)
  BY <1>1, <1>2, <1>3, <1>4
<1>6. e.slot \in Nat /\ \A i \in DOMAIN recs : recs[i].slot \in Nat
  <2>1. \A i \in DOMAIN recs : recs[i] \in Items
    OBVIOUS
  <2> QED BY <2>1 DEF Items
<1>7. \A i \in DOMAIN t : t[i].slot < e.slot + 1
  BY <1>5, <1>6
<1>8. Ordered(t)
  <2> SUFFICES ASSUME NEW i \in DOMAIN t, NEW j \in DOMAIN t, i < j PROVE t[i].slot < t[j].slot
    BY DEF Ordered
  <2>1. i \in DOMAIN recs /\ t[i] = recs[i]
    BY <1>1, <1>2, <1>5
  <2> QED BY <1>5, <2>1 DEF Ordered
<1>9. \A i \in DOMAIN t : Permitted(t[i])
  BY <1>5
<1> QED BY <1>1, <1>7, <1>8, <1>9

\* The RMK is drawn.
LEMMA ExportBeginOK == ASSUME BkInv, ExportBegin PROVE BkInv'
<1> USE DEF BkInv
<1>1. /\ exp.pc = "idle" /\ rst.pc = "idle" /\ nexp \in Nat /\ app.exports \in Nat
      /\ nexp < app.exports /\ nexp' = nexp + 1 /\ app.rmks \subseteq Nat
      /\ file \in FileRec /\ last \in LastRec /\ spoilt \in BOOLEAN
      /\ UNCHANGED <<exportRest, file, shares, last, spoilt>>
  BY BackupAssumption DEF ExportBegin, TypesOK
<1>2. PICK k \in app.rmks :
        exp' = [NoExport EXCEPT !.pc = "check", !.no = nexp + 1, !.i = 1, !.rmk = k]
  BY DEF ExportBegin
<1>3. /\ exp' \in ExpRec /\ exp'.pc = "check" /\ exp'.no = nexp + 1 /\ exp'.recs = <<>>
      /\ exp'.rmk = k
  <2>1. nexp + 1 \in Nat /\ k \in Nat
    BY <1>1
  <2>2. PICK n : n = nexp + 1
    OBVIOUS
  <2>3. /\ NoExport \in ExpRec /\ NoExport.recs = <<>>
        /\ exp' = [NoExport EXCEPT !.pc = "check", !.no = n, !.i = 1, !.rmk = k]
    BY <1>2, <2>2, Initials DEF NoExport
  <2> QED BY <2>1, <2>2, <2>3 DEF ExpRec
<1>4. DOMAIN exp'.recs = {}
  BY <1>3, Initials
<1>5. SealedOK'
  BY <1>1, <1>3, <1>4 DEF SealedOK
<1>6. SharesOK'
  <2>1. last.no \in Nat /\ last.no <= nexp /\ \A sh \in shares : sh.no \in 1 .. nexp
    BY <1>1 DEF SharesOK, LastRec
  <2>2. last.no # nexp + 1 /\ \A sh \in shares : sh.no # nexp + 1 /\ sh.no \in 1 .. nexp + 1
    BY <1>1, <2>1
  <2>3. nexp + 1 <= app.exports /\ last.no <= nexp + 1 /\ nexp + 1 >= 1
    BY <1>1, <2>1
  <2> QED BY <1>1, <1>2, <1>3, <1>4, <2>2, <2>3 DEF SharesOK, Ordered
<1> QED BY <1>1, <1>3, <1>5, <1>6, ExportStep

\* The policy of a slot is looked at.
LEMMA ExportCheckOK == ASSUME BkInv, ExportCheck PROVE BkInv'
<1> USE DEF BkInv
<1>1. /\ rst.pc = "idle" /\ exp \in ExpRec /\ file \in FileRec /\ last \in LastRec
      /\ nexp \in Nat /\ spoilt \in BOOLEAN
      /\ exp.pc = "check" /\ exp.i \in DOMAIN tok /\ tok[exp.i] \in SlotRecs
      /\ UNCHANGED <<exportRest, file, shares, nexp, last, spoilt>>
  BY Exporting DEF ExportCheck
<1>2. CASE Backupable(tok[exp.i]) /\ exp' = [exp EXCEPT !.pc = "read", !.gen = tok[exp.i].gen]
  <2>1. tok[exp.i].gen \in Nat
    BY <1>1 DEF SlotRecs
  <2>2. /\ exp' \in ExpRec /\ exp'.pc = "read" /\ exp'.gen = tok[exp.i].gen /\ exp'.i = exp.i
        /\ exp'.no = exp.no /\ exp'.recs = exp.recs /\ exp'.rmk = exp.rmk
    BY <1>1, <1>2, <2>1 DEF ExpRec
  <2>3. SealedOK'
    BY <1>1, <1>2, <2>2 DEF SealedOK
  <2>4. SharesOK'
    BY <1>1, <2>2 DEF SharesOK
  <2> QED BY <1>1, <2>2, <2>3, <2>4, ExportStep
<1>3. CASE exp' = [exp EXCEPT !.i = @ + 1]
  <2>1. PICK j \in Nat : exp' = [exp EXCEPT !.i = j] /\ j > exp.i
    <3>1. exp.i + 1 \in Nat /\ exp.i + 1 > exp.i
      BY <1>1 DEF ExpRec
    <3> QED BY <1>3, <3>1
  <2>2. /\ exp' \in ExpRec /\ exp'.pc = "check" /\ exp'.i = j
        /\ exp'.no = exp.no /\ exp'.recs = exp.recs /\ exp'.rmk = exp.rmk
    BY <1>1, <2>1 DEF ExpRec
  <2>3. SealedOK'
    BY <1>1, <2>2 DEF SealedOK
  <2>4. \A i \in DOMAIN exp.recs : exp.recs[i].slot < j
    <3>1. \A i \in DOMAIN exp.recs : exp.recs[i] \in Items
      BY <1>1 DEF ExpRec
    <3> QED BY <1>1, <2>1, <3>1 DEF SharesOK, ExpRec, Items
  <2>5. SharesOK'
    BY <1>1, <2>2, <2>4 DEF SharesOK
  <2> QED BY <1>1, <2>2, <2>3, <2>5, ExportStep
<1> QED BY <1>1, <1>2, <1>3 DEF ExportCheck

\* The slot is written out: what was looked at, or a key of a later generation.
LEMMA ExportReadOK == ASSUME BkInv, ExportRead PROVE BkInv'
<1> USE DEF BkInv
<1> DEFINE e == [slot |-> exp.i, rec |-> slot_serialize_locked(tok[exp.i]),
                 checked |-> exp.gen, was |-> tok[exp.i]]
<1>1. /\ rst.pc = "idle" /\ exp \in ExpRec /\ file \in FileRec /\ last \in LastRec
      /\ nexp \in Nat /\ spoilt \in BOOLEAN
      /\ exp.pc = "read" /\ exp.i \in DOMAIN tok /\ tok[exp.i] \in SlotRecs
      /\ exp.recs \in Seq(Items) /\ exp.i \in Nat /\ exp.i + 1 \in Nat
      /\ UNCHANGED <<exportRest, file, shares, nexp, last, spoilt>>
  BY Exporting DEF ExportRead, SealedOK, ExpRec
<1>2. e \in Items /\ e.slot = exp.i /\ Permitted(e)
  BY <1>1, Serialized DEF Items, ExpRec, Permitted, SealedOK, Backupable
<1>3. PICK t : t = Append(exp.recs, e)
  OBVIOUS
<1>4. exp' = [exp EXCEPT !.pc = "check", !.i = exp.i + 1, !.recs = t]
  BY <1>3 DEF ExportRead
<1> HIDE DEF e
<1>5. /\ t \in Seq(Items) /\ Ordered(t) /\ \A i \in DOMAIN t : t[i].slot < exp.i + 1
      /\ \A i \in DOMAIN t : Permitted(t[i])
  BY <1>1, <1>2, <1>3, OneMoreItem DEF SharesOK, SealedOK
<1>6. /\ exp' \in ExpRec /\ exp'.pc = "check" /\ exp'.i = exp.i + 1 /\ exp'.recs = t
      /\ exp'.no = exp.no /\ exp'.rmk = exp.rmk
  BY <1>1, <1>4, <1>5 DEF ExpRec
<1>7. SealedOK'
  BY <1>1, <1>5, <1>6 DEF SealedOK
<1>8. SharesOK'
  BY <1>1, <1>5, <1>6 DEF SharesOK
<1> QED BY <1>1, <1>6, <1>7, <1>8, ExportStep

\* The file is written, or stays what it was.
LEMMA ExportWriteOK == ASSUME BkInv, ExportWrite PROVE BkInv'
<1> USE DEF BkInv
<1>1. /\ rst.pc = "idle" /\ exp \in ExpRec /\ file \in FileRec /\ last \in LastRec
      /\ nexp \in Nat /\ spoilt \in BOOLEAN /\ exp.pc = "check"
      /\ UNCHANGED <<exportRest, shares, nexp, last, spoilt>>
  BY Exporting DEF ExportWrite
<1>2. CASE /\ file' = [no |-> exp.no, recs |-> exp.recs, rmk |-> exp.rmk]
           /\ exp' = [exp EXCEPT !.pc = "split"]
  <2>1. /\ exp' \in ExpRec /\ exp'.pc = "split" /\ exp'.i = exp.i
        /\ exp'.no = exp.no /\ exp'.recs = exp.recs /\ exp'.rmk = exp.rmk
    BY <1>1, <1>2 DEF ExpRec
  <2>2. file' \in FileRec /\ file'.recs = exp.recs
    BY <1>1, <1>2 DEF ExpRec, FileRec
  <2>3. SealedOK'
    BY <1>1, <2>1, <2>2 DEF SealedOK
  <2>4. SharesOK'
    BY <1>1, <1>2, <2>1, <2>2 DEF SharesOK
  <2> QED BY <1>1, <2>1, <2>2, <2>3, <2>4, ExportStep
<1>3. CASE file' = file /\ exp' = NoExport
  <2>1. exp' \in ExpRec /\ exp'.pc = "idle" /\ DOMAIN exp'.recs = {}
    BY <1>3, Initials DEF NoExport
  <2>2. SealedOK'
    BY <1>1, <1>3, <2>1 DEF SealedOK
  <2>3. SharesOK'
    BY <1>1, <1>3, <2>1 DEF SharesOK, Ordered
  <2> QED BY <1>1, <1>3, <2>1, <2>2, <2>3, ExportStep
<1> QED BY <1>2, <1>3 DEF ExportWrite, FileAfterFailedWrite

\* The shares are made, or the file is removed.
LEMMA ExportSplitOK == ASSUME BkInv, ExportSplit PROVE BkInv'
<1> USE DEF BkInv
<1>1. /\ rst.pc = "idle" /\ exp \in ExpRec /\ file \in FileRec /\ last \in LastRec
      /\ nexp \in Nat /\ spoilt \in BOOLEAN /\ exp.pc = "split"
      /\ exp.no = nexp /\ nexp >= 1 /\ exp.rmk \in app.rmks
      /\ file = [no |-> exp.no, recs |-> exp.recs, rmk |-> exp.rmk]
      /\ \A sh \in shares : sh.no # nexp
      /\ UNCHANGED <<exportRest, nexp>>
  BY Exporting DEF ExportSplit, SharesOK
<1>2. ASSUME NEW c \in RandomCoefs(app.m, app.coefs),
             shares' = shares \cup Handed(exp.no, exp.rmk, c, app.n),
             exp' = [exp EXCEPT !.pc = "done"], last' = [no |-> exp.no, recs |-> exp.recs],
             spoilt' = FALSE, UNCHANGED file
      PROVE  BkInv'
  <2>1. /\ exp' \in ExpRec /\ exp'.pc = "done" /\ exp'.i = exp.i
        /\ exp'.no = exp.no /\ exp'.recs = exp.recs /\ exp'.rmk = exp.rmk
    BY <1>1, <1>2 DEF ExpRec
  <2>2. last' \in LastRec /\ last'.no = nexp /\ last'.recs = exp.recs
    BY <1>1, <1>2 DEF ExpRec, LastRec
  <2>3. \A sh \in Handed(exp.no, exp.rmk, c, app.n) : sh.no = exp.no
    BY DEF Handed
  <2>4. {sh \in shares' : sh.no = last'.no} \subseteq Handed(last'.no, file'.rmk, c, app.n)
    BY <1>1, <1>2, <2>2, <2>3
  <2>5. \A sh \in shares' : sh.no \in 1 .. nexp
    BY <1>1, <1>2, <2>3 DEF SharesOK
  <2>6. SealedOK'
    BY <1>1, <1>2, <2>1 DEF SealedOK
  <2>7. SharesOK'
    BY <1>1, <1>2, <2>1, <2>2, <2>4, <2>5 DEF SharesOK
  <2> QED BY <1>1, <1>2, <2>1, <2>2, <2>6, <2>7, ExportStep
<1>3. CASE file' = NoFile /\ exp' = NoExport /\ spoilt' = TRUE /\ UNCHANGED <<shares, last>>
  <2>1. /\ exp' \in ExpRec /\ exp'.pc = "idle" /\ DOMAIN exp'.recs = {}
        /\ file' \in FileRec /\ DOMAIN file'.recs = {}
    BY <1>3, Initials DEF NoExport, NoFile
  <2>2. SealedOK'
    BY <1>1, <1>3, <2>1 DEF SealedOK
  <2>3. SharesOK'
    BY <1>1, <1>3, <2>1 DEF SharesOK, Ordered
  <2> QED BY <1>1, <1>3, <2>1, <2>2, <2>3, ExportStep
<1> QED BY <1>2, <1>3 DEF ExportSplit

\* The caller has its answer.
LEMMA ExportReturnOK == ASSUME BkInv, ExportReturn PROVE BkInv'
<1> USE DEF BkInv
<1>1. /\ rst.pc = "idle" /\ file \in FileRec /\ last \in LastRec
      /\ nexp \in Nat /\ spoilt \in BOOLEAN /\ exp.pc = "done" /\ exp' = NoExport
      /\ UNCHANGED <<exportRest, file, shares, nexp, last, spoilt>>
  BY Exporting DEF ExportReturn
<1>2. exp' \in ExpRec /\ exp'.pc = "idle" /\ DOMAIN exp'.recs = {}
  BY <1>1, Initials DEF NoExport
<1>3. SealedOK'
  BY <1>1, <1>2 DEF SealedOK
<1>4. SharesOK'
  BY <1>1, <1>2 DEF SharesOK, Ordered
<1> QED BY <1>1, <1>2, <1>3, <1>4, ExportStep
-----------------------------------------------------------------------------
(* A restore.                                                              *)

\* What is left to show of a step of a restore.
LEMMA RestoreStep ==
  ASSUME BkInv, exp.pc = "idle", inj.pc = "idle",
         UNCHANGED <<app, exp, file, shares, inj, nkeys, nexp, last, spoilt>>,
         tok' \in [DOMAIN tok' -> SlotRecs], DOMAIN tok' \subseteq Nat,
         disk' \in [DOMAIN disk' -> StoredRecs], DOMAIN disk' \subseteq Nat,
         rst' \in RstRec(shares), rst'.pc = "idle" => disk' = Written(tok'),
         RestoreOK', QuorumBringsBack'
  PROVE  BkInv'
<1> USE DEF BkInv
<1>1. TypesOK'
  BY DEF TypesOK
<1>2. AloneOK' /\ SealedOK' /\ InjectOK' /\ SharesOK'
  BY DEF AloneOK, SealedOK, InjectOK, SharesOK
<1> QED BY <1>1, <1>2

\* As many shares of the latest export as its threshold open its file, which holds what
\* was exported, unless an export has spoilt it since.
LEMMA QuorumOpens ==
  ASSUME BkInv, ~spoilt, exp.pc = "idle", NEW S \in SUBSET shares,
         Cardinality(S) >= app.m, \A sh \in S : sh.no = last.no
  PROVE  Opens(S) /\ file.recs = last.recs
<1> USE DEF BkInv
<1>1. /\ app \in Scenarios /\ app.m \in Nat /\ app.m >= 2 /\ app.exports \in Nat
      /\ nexp \in Nat /\ last.no \in Nat
  BY BackupAssumption DEF TypesOK, LastRec
<1>2. S # {}
  BY <1>1, FS_EmptySet
<1>3. last.no \in 1 .. app.exports
  BY <1>1, <1>2 DEF SharesOK
<1>4. /\ file.no = last.no /\ file.recs = last.recs /\ file.rmk \in app.rmks
  BY <1>1, <1>3 DEF SharesOK
<1>5. PICK c \in RandomCoefs(app.m, app.coefs) :
        {sh \in shares : sh.no = last.no} \subseteq Handed(last.no, file.rmk, c, app.n)
  BY <1>1, <1>3 DEF SharesOK
<1>6. S \in SUBSET Handed(last.no, file.rmk, c, app.n)
  BY <1>5
<1>7. IndicesDiffer(S) /\ Combine(S) = file.rmk
  BY <1>1, <1>3, <1>4, <1>6, BackupAssumption
<1>8. file # NoFile
  BY <1>3, <1>4 DEF NoFile
<1> QED BY <1>2, <1>4, <1>7, <1>8 DEF Opens

\* The file is opened, or the restore has its answer.
LEMMA RestoreBeginOK ==
  ASSUME BkInv, NEW S \in SUBSET shares, NEW intact \in BOOLEAN, RestoreBegin(S, intact)
  PROVE  BkInv'
<1> USE DEF BkInv
<1>1. /\ exp.pc = "idle" /\ inj.pc = "idle" /\ rst.pc = "idle"
      /\ UNCHANGED <<app, exp, file, shares, inj, nkeys, nexp, last, spoilt, disk>>
      /\ tok' = disk
  BY DEF RestoreBegin
<1>2. /\ rst' \in RstRec(shares) /\ rst'.i = 1 /\ rst'.pc \in {"load", "done"}
      /\ rst'.with = IF intact THEN S ELSE {}
      /\ rst'.pc = "done" => ~(intact /\ Opens(S))
  BY DEF RestoreBegin, RstRec
<1>3. RestoreOK'
  <2>1. \A j \in DOMAIN file.recs : ~(j < 1)
    BY DEF TypesOK, FileRec
  <2> QED BY <1>1, <1>2, <2>1 DEF RestoreOK
<1>4. QuorumBringsBack'
  <2> SUFFICES ASSUME rst'.pc = "done", ~spoilt, Cardinality(rst'.with) >= app.m,
                      \A sh \in rst'.with : sh.no = last.no
               PROVE  FALSE
    BY <1>1 DEF QuorumBringsBack, Restorable
  <2>1. CASE intact
    BY <1>1, <1>2, <2>1, QuorumOpens
  <2>2. CASE ~intact
    <3>1. Cardinality(rst'.with) = 0
      BY <1>2, <2>2, FS_EmptySet
    <3> QED BY <3>1, BackupAssumption DEF TypesOK
  <2> QED BY <2>1, <2>2
<1>5. /\ tok' \in [DOMAIN tok' -> SlotRecs] /\ DOMAIN tok' \subseteq Nat
      /\ disk' \in [DOMAIN disk' -> StoredRecs] /\ DOMAIN disk' \subseteq Nat
  BY <1>1, StoredIsSlot DEF TypesOK
<1> QED BY <1>1, <1>2, <1>3, <1>4, <1>5, RestoreStep

\* A restore is alone, and its shares may be a quorum.
LEMMA Restoring ==
  ASSUME BkInv, rst.pc # "idle"
  PROVE  /\ exp.pc = "idle" /\ inj.pc = "idle" /\ rst \in RstRec(shares)
         /\ tok \in [DOMAIN tok -> SlotRecs] /\ DOMAIN tok \subseteq Nat
         /\ disk \in [DOMAIN disk -> StoredRecs] /\ DOMAIN disk \subseteq Nat
         /\ file.recs \in Seq(Items) /\ \A i \in DOMAIN file.recs : file.recs[i] \in Items
         /\ ~spoilt /\ Cardinality(rst.with) >= app.m /\ (\A sh \in rst.with : sh.no = last.no)
              => file.recs = last.recs
<1>1. /\ exp.pc = "idle" /\ inj.pc = "idle" /\ rst \in RstRec(shares)
      /\ tok \in [DOMAIN tok -> SlotRecs] /\ DOMAIN tok \subseteq Nat
      /\ disk \in [DOMAIN disk -> StoredRecs] /\ DOMAIN disk \subseteq Nat
      /\ file.recs \in Seq(Items)
  BY DEF BkInv, AloneOK, TypesOK, FileRec
<1>2. \A i \in DOMAIN file.recs : file.recs[i] \in Items
  BY <1>1
<1>3. rst.with \in SUBSET shares
  BY <1>1 DEF RstRec
<1> QED BY <1>1, <1>2, <1>3, QuorumOpens

\* A record is installed, or there is no slot or no memory for it.
LEMMA RestoreRecordOK == ASSUME BkInv, RestoreRecord PROVE BkInv'
<1> DEFINE r == file.recs[rst.i]
<1>1. /\ rst.pc = "load" /\ rst.i \in DOMAIN file.recs /\ r \in Items
      /\ exp.pc = "idle" /\ inj.pc = "idle" /\ rst \in RstRec(shares)
      /\ tok \in [DOMAIN tok -> SlotRecs] /\ DOMAIN tok \subseteq Nat
      /\ disk \in [DOMAIN disk -> StoredRecs] /\ DOMAIN disk \subseteq Nat
      /\ file.recs \in Seq(Items) /\ UNCHANGED <<restoreRest, disk>>
  BY Restoring DEF RestoreRecord
<1>2. CASE r.slot \notin DOMAIN tok /\ rst' = [rst EXCEPT !.pc = "done"] /\ UNCHANGED tok
  <2>1. /\ rst' \in RstRec(shares) /\ rst'.pc = "done" /\ rst'.with = rst.with
    BY <1>1, <1>2 DEF RstRec
  <2>2. RestoreOK'
    BY <2>1 DEF RestoreOK
  <2>3. QuorumBringsBack'
    BY <1>1, <1>2, <2>1, Restoring DEF QuorumBringsBack, Restorable
  <2> QED BY <1>1, <1>2, <2>1, <2>2, <2>3, RestoreStep
<1>3. CASE /\ r.slot \in DOMAIN tok /\ tok' = [tok EXCEPT ![r.slot] = r.rec]
           /\ rst' = [rst EXCEPT !.i = @ + 1, !.st = "OK"]
  <2>1. PICK n : n = rst.i + 1
    OBVIOUS
  <2>2. n \in Nat /\ n >= 1 /\ \A j \in Nat : j < n => j < rst.i \/ j = rst.i
    BY <1>1, <2>1 DEF RstRec, BkInv, RestoreOK
  <2>3. /\ rst' \in RstRec(shares) /\ rst'.pc = "load" /\ rst'.i = n
    <3>1. rst' = [rst EXCEPT !.i = n, !.st = "OK"]
      BY <1>3, <2>1
    <3> QED BY <1>1, <2>2, <3>1 DEF RstRec
  <2>4. /\ tok' \in [DOMAIN tok -> SlotRecs] /\ DOMAIN tok' = DOMAIN tok
        /\ tok'[r.slot] = r.rec
        /\ \A t \in DOMAIN tok : t # r.slot => tok'[t] = tok[t]
    BY <1>1, <1>3 DEF Items, StoredRecs
  <2>5. ASSUME NEW j \in DOMAIN file.recs, j < n
        PROVE  file.recs[j].slot \in DOMAIN tok /\ tok'[file.recs[j].slot] = file.recs[j].rec
    <3>1. CASE j = rst.i
      BY <1>3, <2>4, <3>1
    <3>2. CASE j < rst.i
      <4>1. file.recs[j].slot \in DOMAIN tok /\ tok[file.recs[j].slot] = file.recs[j].rec
        BY <1>1, <3>2 DEF BkInv, RestoreOK
      <4>2. file.recs[j].slot < r.slot
        BY <1>1, <3>2 DEF BkInv, SharesOK, Ordered
      <4>3. file.recs[j].slot # r.slot
        BY <1>1, <4>1, <4>2 DEF Items
      <4> QED BY <2>4, <4>1, <4>3
    <3> QED BY <1>1, <2>2, <2>5, <3>1, <3>2
  <2> HIDE DEF r
  <2>6. RestoreOK'
    BY <1>1, <2>2, <2>3, <2>4, <2>5 DEF RestoreOK
  <2>7. QuorumBringsBack'
    BY <2>3 DEF QuorumBringsBack, Restorable
  <2> QED BY <1>1, <2>3, <2>4, <2>6, <2>7, RestoreStep
<1>4. CASE rst' = [rst EXCEPT !.pc = "done", !.st = "NOMEM"] /\ UNCHANGED tok
  <2>1. /\ rst' \in RstRec(shares) /\ rst'.pc = "done" /\ rst'.st = "NOMEM"
    BY <1>1, <1>4 DEF RstRec
  <2>2. RestoreOK' /\ QuorumBringsBack'
    BY <2>1 DEF RestoreOK, QuorumBringsBack, Restorable
  <2> QED BY <1>1, <1>4, <2>1, <2>2, RestoreStep
<1>5. CASE /\ r.slot \in DOMAIN tok /\ tok' = [tok EXCEPT ![r.slot] = r.rec]
           /\ rst' = [rst EXCEPT !.pc = "done", !.st = "CRYPTO"]
  <2>1. /\ rst' \in RstRec(shares) /\ rst'.pc = "done" /\ rst'.st = "CRYPTO"
    BY <1>1, <1>5 DEF RstRec
  <2>2. RestoreOK' /\ QuorumBringsBack'
    BY <2>1 DEF RestoreOK, QuorumBringsBack, Restorable
  <2>3. tok' \in [DOMAIN tok -> SlotRecs] /\ DOMAIN tok' = DOMAIN tok
    BY <1>1, <1>5 DEF Items, StoredRecs
  <2> QED BY <1>1, <2>1, <2>2, <2>3, RestoreStep
<1> QED BY <1>2, <1>3, <1>4, <1>5 DEF RestoreRecord

\* All records are installed.
LEMMA RestoreEndOK == ASSUME BkInv, RestoreEnd PROVE BkInv'
<1>1. /\ rst.pc = "load" /\ rst.i \notin DOMAIN file.recs
      /\ exp.pc = "idle" /\ inj.pc = "idle" /\ rst \in RstRec(shares)
      /\ tok \in [DOMAIN tok -> SlotRecs] /\ DOMAIN tok \subseteq Nat
      /\ disk \in [DOMAIN disk -> StoredRecs] /\ DOMAIN disk \subseteq Nat
      /\ file.recs \in Seq(Items) /\ UNCHANGED <<restoreRest, tok, disk>>
  BY Restoring DEF RestoreEnd
<1>2. /\ rst' \in RstRec(shares) /\ rst'.pc = "done" /\ rst'.st = "OK" /\ rst'.with = rst.with
  BY <1>1 DEF RestoreEnd, RstRec
<1>3. \A j \in DOMAIN file.recs : j < rst.i
  <2>1. rst.i \in Nat /\ rst.i >= 1
    BY <1>1 DEF RstRec, BkInv, RestoreOK
  <2>2. Len(file.recs) \in Nat /\ DOMAIN file.recs = 1 .. Len(file.recs)
    BY <1>1
  <2> QED BY <1>1, <2>1, <2>2
<1>4. RestoreOK'
  BY <1>2 DEF RestoreOK
<1>5. \A j \in DOMAIN file.recs : tok[file.recs[j].slot] = file.recs[j].rec
  BY <1>1, <1>3 DEF BkInv, RestoreOK
<1>6. QuorumBringsBack'
  <2>1. \A j \in DOMAIN file.recs : file.recs[j].was.hw = FALSE => file.recs[j].rec = file.recs[j].was
    <3>1. \A j \in DOMAIN file.recs : file.recs[j] \in Items
      BY <1>1
    <3> QED BY <3>1, Serialized DEF Items
  <2> QED BY <1>1, <1>2, <1>5, <2>1, Restoring DEF QuorumBringsBack, Restorable
<1> QED BY <1>1, <1>2, <1>4, <1>6, RestoreStep

\* The tool ends, and the application starts again from the file.
LEMMA RestoreSaveOK == ASSUME BkInv, RestoreSave PROVE BkInv'
<1>1. /\ exp.pc = "idle" /\ inj.pc = "idle"
      /\ tok \in [DOMAIN tok -> SlotRecs] /\ DOMAIN tok \subseteq Nat
      /\ disk \in [DOMAIN disk -> StoredRecs] /\ DOMAIN disk \subseteq Nat
      /\ UNCHANGED restoreRest
  BY Restoring DEF RestoreSave
<1>2. tok' = disk' /\ (disk' = Written(tok) \/ disk' = disk) /\ rst' = NoRestore
  BY DEF RestoreSave
<1>3. rst' \in RstRec(shares) /\ rst'.pc = "idle"
  BY <1>2, Initials DEF NoRestore
<1>4. RestoreOK' /\ QuorumBringsBack'
  BY <1>3 DEF RestoreOK, QuorumBringsBack, Restorable
<1>5. PICK t : t = disk'
  OBVIOUS
<1>6. t \in [DOMAIN t -> StoredRecs] /\ DOMAIN t \subseteq Nat
  BY <1>1, <1>2, <1>5, WrittenOK
<1>7. t \in [DOMAIN t -> SlotRecs] /\ Written(t) = t
  BY <1>6, StoredIsSlot
<1> QED BY <1>1, <1>2, <1>3, <1>4, <1>5, <1>6, <1>7, RestoreStep
-----------------------------------------------------------------------------
(* The environment, and the whole.                                         *)

\* A kill: everything under way ends, and memory is what the file holds.
LEMMA CrashOK == ASSUME BkInv, Crash PROVE BkInv'
<1> USE DEF BkInv
<1>1. /\ exp' \in ExpRec /\ exp'.pc = "idle" /\ DOMAIN exp'.recs = {}
      /\ rst' \in RstRec(shares) /\ rst'.pc = "idle"
      /\ inj' \in InjRec /\ inj'.pc = "idle"
  BY Initials DEF Crash, NoExport, NoRestore, NoInject
<1>2. tok' = disk /\ UNCHANGED <<app, disk, file, shares, nkeys, nexp, last>>
  BY DEF Crash
<1>3. spoilt' \in BOOLEAN /\ (~spoilt' => ~spoilt /\ exp.pc # "split")
  BY DEF Crash, TypesOK
<1>4. TypesOK' /\ disk' = Written(tok')
  <2>1. disk \in [DOMAIN disk -> SlotRecs] /\ Written(disk) = disk
    BY StoredIsSlot DEF TypesOK
  <2> QED BY <1>1, <1>2, <1>3, <2>1 DEF TypesOK
<1>5. AloneOK' /\ SealedOK' /\ InjectOK' /\ RestoreOK' /\ QuorumBringsBack'
  BY <1>1, <1>2, <1>4 DEF AloneOK, SealedOK, InjectOK, RestoreOK, QuorumBringsBack, Restorable
<1>6. SharesOK'
  BY <1>1, <1>2, <1>3 DEF SharesOK, Ordered
<1> QED BY <1>4, <1>5, <1>6

\* A blank device takes the place of the lost one.
LEMMA ReplaceOK == ASSUME BkInv, NEW n \in app.successors, Replace(n) PROVE BkInv'
<1> USE DEF BkInv
<1>1. /\ rst.pc = "idle" /\ exp.pc = "idle" /\ inj.pc = "idle"
      /\ tok' = [s \in 1 .. n |-> BlankSlot] /\ disk' = Written(tok')
      /\ UNCHANGED <<app, exportVars, rst, inj, nkeys>>
  BY DEF Replace
<1>2. n \in Nat
  BY BackupAssumption DEF TypesOK
<1>3. /\ tok' \in [DOMAIN tok' -> SlotRecs] /\ DOMAIN tok' \subseteq Nat
      /\ disk' \in [DOMAIN disk' -> StoredRecs] /\ DOMAIN disk' \subseteq Nat
  <2>1. PICK t : t = [s \in 1 .. n |-> BlankSlot]
    OBVIOUS
  <2>2. t \in [DOMAIN t -> StoredRecs] /\ DOMAIN t \subseteq Nat
    BY <1>2, <2>1, Initials
  <2>3. t \in [DOMAIN t -> SlotRecs] /\ Written(t) = t
    BY <2>2, StoredIsSlot
  <2> QED BY <1>1, <2>1, <2>2, <2>3
<1>4. RestoreOK' /\ QuorumBringsBack'
  BY <1>1 DEF RestoreOK, QuorumBringsBack, Restorable
<1> QED BY <1>1, <1>3, <1>4, RestoreStep DEF TypesOK

\* A device with empty slots and no backup.
LEMMA InitOK == Init => BkInv
<1> SUFFICES ASSUME Init PROVE BkInv
  OBVIOUS
<1>1. app \in Scenarios /\ app.size \in Nat /\ app.exports \in Nat
  BY BackupAssumption DEF Init
<1>2. /\ tok \in [DOMAIN tok -> SlotRecs] /\ DOMAIN tok \subseteq Nat /\ disk = tok
      /\ disk \in [DOMAIN disk -> StoredRecs] /\ disk = Written(tok)
  <2>1. PICK b \in StoredRecs : b = [BlankSlot EXCEPT !.state = "EMPTY"]
    BY Initials
  <2>2. tok = [s \in 1 .. app.size |-> b] /\ disk = tok
    BY <2>1 DEF Init
  <2>3. DOMAIN tok = 1 .. app.size /\ 1 .. app.size \subseteq Nat
    BY <1>1, <2>2
  <2>4. tok \in [DOMAIN tok -> StoredRecs]
    BY <2>1, <2>2
  <2> QED BY <2>2, <2>3, <2>4, StoredIsSlot
<1>3. /\ exp = NoExport /\ exp \in ExpRec /\ exp.pc = "idle" /\ DOMAIN exp.recs = {}
      /\ file \in FileRec /\ DOMAIN file.recs = {}
      /\ rst \in RstRec(shares) /\ rst.pc = "idle" /\ inj \in InjRec /\ inj.pc = "idle"
  BY Initials DEF Init, NoExport, NoFile, NoRestore, NoInject
<1>4. last \in LastRec /\ last.no = 0 /\ shares = {} /\ nkeys = 0 /\ nexp = 0 /\ spoilt = FALSE
  BY Initials DEF Init, LastRec
<1>5. TypesOK
  BY <1>1, <1>2, <1>3, <1>4 DEF TypesOK
<1>6. AloneOK /\ SealedOK /\ InjectOK /\ RestoreOK /\ QuorumBringsBack
  BY <1>2, <1>3 DEF AloneOK, SealedOK, InjectOK, RestoreOK, QuorumBringsBack, Restorable
<1>7. SharesOK
  BY <1>1, <1>3, <1>4 DEF SharesOK, Ordered
<1> QED BY <1>5, <1>6, <1>7 DEF BkInv

\* A step that changes nothing.
LEMMA StutterOK == ASSUME BkInv, UNCHANGED vars PROVE BkInv'
BY DEF vars, BkInv, TypesOK, AloneOK, SealedOK, Permitted, InjectOK, SharesOK, RestoreOK,
       QuorumBringsBack, Restorable, Ordered

\* Every step keeps the invariant.
LEMMA NextOK == BkInv /\ [Next]_vars => BkInv'
<1> SUFFICES ASSUME BkInv, [Next]_vars PROVE BkInv'
  OBVIOUS
<1>1. CASE UNCHANGED vars
  BY <1>1, StutterOK
<1>2. ASSUME NEW s \in DOMAIN tok, Erase(s) \/ InitToken(s)
      PROVE  BkInv'
  BY <1>2, EraseOK, InitTokenOK
<1>3. ASSUME NEW s \in DOMAIN tok, NEW p \in app.policies,
             InjectPlaintext(s, p) \/ \E hw \in BOOLEAN : Create(s, p, hw)
      PROVE  BkInv'
  BY <1>3, CreateOK, InjectPlaintextOK
<1>4. ASSUME NEW s \in DOMAIN tok, NEW p \in app.policies, NEW auth \in BOOLEAN,
             InjectBegin(s, auth, p)
      PROVE  BkInv'
  BY <1>4, InjectBeginOK
<1>5. CASE ExportBegin \/ ExportCheck \/ ExportRead \/ ExportWrite \/ ExportSplit \/ ExportReturn
  BY <1>5, ExportBeginOK, ExportCheckOK, ExportReadOK, ExportWriteOK, ExportSplitOK,
     ExportReturnOK
<1>6. CASE InjectFind \/ InjectProbe \/ InjectDestroy \/ InjectLoad \/ SessionEnds
  BY <1>6, InjectFindOK, InjectProbeOK, InjectDestroyOK, InjectLoadOK, SessionEndsOK
<1>7. ASSUME NEW on \in BOOLEAN, SetManufacturing(on)
      PROVE  BkInv'
  BY <1>7, SetManufacturingOK
<1>8. ASSUME NEW S \in SUBSET shares, NEW intact \in BOOLEAN, RestoreBegin(S, intact)
      PROVE  BkInv'
  BY <1>8, RestoreBeginOK
<1>9. CASE RestoreRecord \/ RestoreEnd \/ RestoreSave
  BY <1>9, RestoreRecordOK, RestoreEndOK, RestoreSaveOK
<1>10. CASE Crash
  BY <1>10, CrashOK
<1>11. ASSUME NEW n \in app.successors, Replace(n)
       PROVE  BkInv'
  BY <1>11, ReplaceOK
<1> QED BY <1>1, <1>2, <1>3, <1>4, <1>5, <1>6, <1>7, <1>8, <1>9, <1>10, <1>11 DEF Next

\* The invariant holds in every state.
LEMMA Invariance == Spec => []BkInv
<1>1. Init => BkInv
  BY InitOK
<1>2. BkInv /\ [Next]_vars => BkInv'
  BY NextOK
<1> QED BY <1>1, <1>2, PTL DEF Spec
-----------------------------------------------------------------------------
(* The theorems.                                                           *)

\* The records of backup.c, inject.c and the slots have their types.
THEOREM BackupTypes == Spec => []TypesOK
<1>1. BkInv => TypesOK
  BY DEF BkInv
<1> QED BY <1>1, Invariance, PTL

\* A key that hsm_backup_export saw to be sealed is in no file it writes, whatever
\* another thread does between its two looks at the slot, unless it replaced the key.
THEOREM SealedKeysStayHome == Spec => []SealedStaysHome
<1>1. BkInv => SealedStaysHome
  BY DEF BkInv, SealedOK, Permitted, SealedStaysHome
<1> QED BY <1>1, Invariance, PTL

\* hsm_backup_restore brings every exported slot back from a quorum of the shares of the
\* latest export, however the exports, kills and failures before it went.
THEOREM AQuorumRestores == Spec => []QuorumBringsBack
<1>1. BkInv => QuorumBringsBack
  BY DEF BkInv
<1> QED BY <1>1, Invariance, PTL

\* A step of an injection other than its destroy and its load leaves the key store alone.
LEMMA OnlyInjectionsMoveBoth ==
  ASSUME BkInv, [Next]_vars, inj.pc # "idle", inj' # inj, disk' # disk
  PROVE  InjectDestroy \/ InjectLoad
<1>1. /\ ~UNCHANGED vars /\ ~ExportBegin /\ ~ExportCheck /\ ~ExportRead /\ ~ExportWrite
      /\ ~ExportSplit /\ ~ExportReturn /\ ~InjectFind /\ ~InjectProbe /\ ~SessionEnds
      /\ ~RestoreRecord /\ ~RestoreEnd /\ ~RestoreSave
  BY DEF vars, ExportBegin, ExportCheck, ExportRead, ExportWrite, ExportSplit, ExportReturn,
         InjectFind, InjectProbe, SessionEnds, RestoreRecord, RestoreEnd, RestoreSave
<1>2. ~Crash
  BY DEF Crash
<1>3. \A s, p, hw, auth : ~Erase(s) /\ ~InitToken(s) /\ ~Create(s, p, hw) /\ ~InjectPlaintext(s, p)
                      /\ ~InjectBegin(s, auth, p)
  BY DEF Erase, InitToken, Create, InjectPlaintext, InjectBegin
<1>4. \A on, S, intact, n : ~SetManufacturing(on) /\ ~RestoreBegin(S, intact) /\ ~Replace(n)
  BY DEF SetManufacturing, RestoreBegin, Replace
<1> QED BY <1>1, <1>2, <1>3, <1>4 DEF Next

\* hsm_inject_apply takes away no key but one whose policy it saw to be INJECTABLE, in its
\* session's slot and for an authentic blob, whatever another thread does meanwhile.
THEOREM InjectionsTakeInjectable == Spec => InjectTakesInjectable
<1> DEFINE Takes ==
      inj.pc # "idle" /\ inj' # inj /\ disk' # disk =>
        /\ inj.auth
        /\ \A s \in DOMAIN tok : tok'[s] # tok[s] =>
             s = inj.slot /\ (tok[s].key # 0 => "INJECTABLE" \in tok[s].policy)
<1>1. ASSUME BkInv, [Next]_vars PROVE Takes
  <2> SUFFICES ASSUME inj.pc # "idle", inj' # inj, disk' # disk,
                      NEW s \in DOMAIN tok, tok'[s] # tok[s]
               PROVE  /\ inj.auth /\ s = inj.slot
                      /\ tok[s].key # 0 => "INJECTABLE" \in tok[s].policy
    BY <1>1, Injecting
  <2>1. inj.auth /\ inj.slot \in DOMAIN tok /\ tok[inj.slot] \in SlotRecs /\ inj \in InjRec
    BY <1>1, Injecting
  <2>2. CASE InjectDestroy
    <3>1. /\ inj.pc = "destroy" /\ inj.i = inj.slot /\ check_handle(tok[inj.slot], inj.gen)
          /\ tok' = [tok EXCEPT ![inj.slot] = destroy(tok[inj.slot])]
      BY <2>2 DEF InjectDestroy, Commit
    <3>2. s = inj.slot
      BY <3>1
    <3>3. tok[inj.slot].policy = inj.seen /\ "INJECTABLE" \in inj.seen
      <4>1. /\ tok[inj.slot].gen = inj.gen /\ inj.gen \in Nat
        BY <2>1, <3>1 DEF check_handle, InjRec
      <4> QED BY <1>1, <3>1, <4>1 DEF BkInv, InjectOK
    <3> QED BY <2>1, <3>2, <3>3
  <2>3. CASE InjectLoad
    <3>1. /\ tok[inj.slot].state = "EMPTY"
          /\ tok' = [tok EXCEPT ![inj.slot] = create_object(tok[inj.slot], nkeys + 1, inj.policy, FALSE)]
      BY <2>3 DEF InjectLoad, Commit
    <3>2. s = inj.slot /\ tok[s].key = 0
      BY <2>1, <3>1 DEF SlotRecs
    <3> QED BY <2>1, <3>2
  <2> QED BY <1>1, <2>2, <2>3, OnlyInjectionsMoveBoth
<1>2. BkInv /\ [Next]_vars => [Takes]_vars
  BY <1>1
<1> QED BY <1>2, Invariance, PTL DEF Spec, InjectTakesInjectable
-----------------------------------------------------------------------------
(* Secrecy of the shares.                                                  *)

\* An export that is done is the latest that answered OK, and nothing spoilt its file yet.
DoneOK == exp.pc = "done" => last.no = exp.no /\ ~spoilt

\* Only an export ends as one, and nothing but a kill comes between that and its answer.
LEMMA DoneStep == BkInv /\ DoneOK /\ [Next]_vars => DoneOK'
<1> SUFFICES ASSUME BkInv, DoneOK, [Next]_vars PROVE DoneOK'
  OBVIOUS
<1>1. CASE UNCHANGED <<exp, last, spoilt>>
  BY <1>1 DEF DoneOK
<1>2. CASE exp'.pc # "done"
  BY <1>2 DEF DoneOK
<1>3. exp \in ExpRec
  BY DEF BkInv, TypesOK
<1>4. CASE ExportBegin \/ ExportCheck \/ ExportRead \/ ExportWrite \/ ExportReturn
  <2>1. exp'.pc # "done"
    <3>1. CASE ExportBegin
      BY <3>1 DEF ExportBegin, NoExport
    <3>2. CASE ExportCheck
      BY <1>3, <3>2 DEF ExportCheck, ExpRec
    <3>3. CASE ExportRead
      BY <1>3, <3>3 DEF ExportRead, ExpRec
    <3>4. CASE ExportWrite \/ ExportReturn
      BY <1>3, <3>4 DEF ExportWrite, ExportReturn, NoExport, ExpRec
    <3> QED BY <1>4, <3>1, <3>2, <3>3, <3>4
  <2> QED BY <1>2, <2>1
<1>5. CASE ExportSplit
  <2>1. CASE exp' = [exp EXCEPT !.pc = "done"] /\ last' = [no |-> exp.no, recs |-> exp.recs]
             /\ spoilt' = FALSE
    <3>1. exp'.no = exp.no /\ last'.no = exp.no
      BY <1>3, <2>1 DEF ExpRec
    <3> QED BY <2>1, <3>1 DEF DoneOK
  <2>2. CASE exp' = NoExport
    BY <1>2, <2>2 DEF NoExport
  <2> QED BY <1>5, <2>1, <2>2 DEF ExportSplit
<1>6. CASE Crash
  BY <1>2, <1>6 DEF Crash, NoExport
<1>7. CASE InjectFind \/ InjectProbe \/ InjectDestroy \/ InjectLoad \/ SessionEnds
           \/ RestoreRecord \/ RestoreEnd \/ RestoreSave
  BY <1>1, <1>7 DEF InjectFind, InjectProbe, InjectDestroy, InjectLoad, SessionEnds,
                    RestoreRecord, RestoreEnd, RestoreSave
<1>8. \A s, p, hw, auth : Erase(s) \/ InitToken(s) \/ Create(s, p, hw) \/ InjectPlaintext(s, p)
                      \/ InjectBegin(s, auth, p) => UNCHANGED <<exp, last, spoilt>>
  BY DEF Erase, InitToken, Create, InjectPlaintext, InjectBegin
<1>9. \A on, S, intact, n : SetManufacturing(on) \/ RestoreBegin(S, intact) \/ Replace(n)
                            => UNCHANGED <<exp, last, spoilt>>
  BY DEF SetManufacturing, RestoreBegin, Replace
<1>10. UNCHANGED vars => UNCHANGED <<exp, last, spoilt>>
  BY DEF vars
<1> QED BY <1>1, <1>4, <1>5, <1>6, <1>7, <1>8, <1>9, <1>10 DEF Next

\* Lines stand for points: as few lines of a split as are below the threshold are lines of
\* a split of any other secret.
LEMMA FewLines ==
  ASSUME NEW a \in Scenarios, NEW no, NEW k \in a.rmks, NEW c \in RandomCoefs(a.m, a.coefs),
         NEW T \in SUBSET Handed(no, k, c, a.n), Cardinality(T) = a.m - 1,
         NEW secret \in Secrets
  PROVE  \E d \in RandomCoefs(a.m, Bytes) : T \subseteq Handed(no, secret, d, a.n)
<1> DEFINE D == Split(k, c, a.n)
           line(p) == [no |-> no, x |-> p.x, y |-> p.y]
           f == [p \in D |-> line(p)]
           g == [t \in T |-> CHOOSE p \in D : t = line(p)]
           P == {g[t] : t \in T}
<1>1. a.m \in Nat /\ a.m >= 2 /\ c \in [1..(a.m - 1) -> a.coefs]
  BY BackupAssumption DEF RandomCoefs
<1>2. IsFiniteSet(D)
  BY <1>1, SharingAssumption
<1>3. \A t \in T : \E p \in D : t = line(p)
  BY DEF Handed
<1>4. \A t \in T : g[t] \in D /\ t = line(g[t])
  BY <1>3
<1>5. IsFiniteSet(T)
  <2>1. f \in Surjection(D, {line(p) : p \in D})
    BY DEF Surjection
  <2>2. IsFiniteSet({line(p) : p \in D})
    BY <1>2, <2>1, FS_Surjection
  <2>3. T \subseteq {line(p) : p \in D}
    BY <1>3
  <2> QED BY <2>2, <2>3, FS_Subset
<1>6. IsFiniteSet(P) /\ Cardinality(P) <= Cardinality(T)
  <2>1. g \in Surjection(T, P)
    BY DEF Surjection
  <2> HIDE DEF g, P
  <2> QED BY <1>5, <2>1, FS_Surjection
<1>7. Cardinality(P) < a.m /\ P \in SUBSET D
  <2>1. Cardinality(P) \in Nat
    BY <1>6, FS_CardinalityType
  <2>2. P \in SUBSET D
    BY <1>4
  <2> HIDE DEF P
  <2> QED BY <1>1, <1>6, <2>1, <2>2
<1>8. PICK d \in [1..(a.m - 1) -> Bytes] : P \subseteq Split(secret, d, a.n)
  <2> HIDE DEF P
  <2> QED BY <1>1, <1>7, SharingAssumption
<1>9. ASSUME NEW t \in T PROVE t \in Handed(no, secret, d, a.n)
  <2>1. g[t] \in Split(secret, d, a.n)
    BY <1>8
  <2>2. t = line(g[t])
    BY <1>4
  <2> HIDE DEF g
  <2> QED BY <2>1, <2>2 DEF Handed
<1> QED BY <1>8, <1>9 DEF RandomCoefs

\* As few shares of an export as are below its threshold fit every RMK, if points of the
\* sharing do: all the lines that hsm_backup_export hands out for one backup come from one
\* polynomial of the full degree, whatever exports, failures and kills came before.
THEOREM FewSharesAreNothing == Spec => []FewSharesTellNothing
<1>1. Init => DoneOK
  BY DEF Init, NoExport, DoneOK
<1>2. BkInv /\ DoneOK /\ [Next]_vars => DoneOK'
  BY DoneStep
<1>3. BkInv /\ DoneOK => FewSharesTellNothing
  <2> SUFFICES ASSUME BkInv, DoneOK, exp.pc = "done",
                      NEW T \in kSubset(app.m - 1, {sh \in shares : sh.no = exp.no}),
                      NEW secret \in Secrets
               PROVE  \E c \in RandomCoefs(app.m, Bytes) : T \subseteq Handed(exp.no, secret, c, app.n)
    BY DEF FewSharesTellNothing
  <2>1. /\ app \in Scenarios /\ nexp \in Nat /\ exp.no = nexp /\ nexp >= 1
        /\ last.no = exp.no /\ ~spoilt
    BY DEF BkInv, TypesOK, SharesOK, DoneOK
  <2>2. /\ file.rmk \in app.rmks
        /\ \E c \in RandomCoefs(app.m, app.coefs) :
             {sh \in shares : sh.no = last.no} \subseteq Handed(last.no, file.rmk, c, app.n)
    BY <2>1 DEF BkInv, SharesOK
  <2>3. PICK c \in RandomCoefs(app.m, app.coefs) :
          {sh \in shares : sh.no = exp.no} \subseteq Handed(exp.no, file.rmk, c, app.n)
    BY <2>1, <2>2
  <2>4. T \in SUBSET Handed(exp.no, file.rmk, c, app.n) /\ Cardinality(T) = app.m - 1
    BY <2>3 DEF kSubset
  <2>5. app \in Scenarios /\ file.rmk \in app.rmks /\ secret \in Secrets
    BY <2>1, <2>2
  <2>6. PICK a, no, k : a = app /\ no = exp.no /\ k = file.rmk
    OBVIOUS
  <2>7. /\ a \in Scenarios /\ k \in a.rmks /\ c \in RandomCoefs(a.m, a.coefs)
        /\ T \in SUBSET Handed(no, k, c, a.n) /\ Cardinality(T) = a.m - 1
    BY <2>4, <2>5, <2>6
  <2>8. \E d \in RandomCoefs(a.m, Bytes) : T \subseteq Handed(no, secret, d, a.n)
    BY <2>7, FewLines
  <2> QED BY <2>6, <2>8
<1> QED BY <1>1, <1>2, <1>3, Invariance, PTL DEF Spec
====
