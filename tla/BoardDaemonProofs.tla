------------------------- MODULE BoardDaemonProofs -------------------------
(***************************************************************************)
(* Proofs about BoardDaemon, for any environment (requests, other clients  *)
(* of the application, late runs, outages and kills together), any number  *)
(* of handles, vault slots and words of a seed.                            *)
(***************************************************************************)
EXTENDS BoardDaemon, SequenceTheorems, WellFoundedInduction, TLAPS

(* Types.                                                                  *)

\* What a run can be of: a request, nothing, or a run whose MODE was written meanwhile.
Ops == Requestable \cup {"none", "mixed"}
SymOps == {"symgen", "symload", "symuse"}
SeedCmds == {"SEED_NEW", "SEED_TO_PL", "SEED_REPLAY"}
SymCmds == {"SYMKEY_NEW", "SYMKEY_LOAD"}

\* Where the daemon is: starting, before anything was asked of a core, with a run on one,
\* ending a connection.
Booting == {"boot", "bootSeed", "bootTa", "bootClr"}
Clean == {"check", "op", "clr", "clrW", "undo", "undoW", "ta", "taWait"}
Running == {"exp", "mode", "feed", "start", "poll", "drain"}
Ending == {"end", "endD", "zeroK", "zeroD", "endS"}
Places == Booting \cup Clean \cup Running \cup Ending
          \cup {"exit", "accept", "recv", "reply", "endW"}

\* The registers and structures.
OutRec == [op : Ops, key : Seq(Nat), mine : BOOLEAN, sure : BOOLEAN]
CoreRec == [busy : BOOLEAN, job : OutRec, out : OutRec, staged : Seq(Nat),
            refused : BOOLEAN, wiping : BOOLEAN, expWiping : BOOLEAN]
KeyRec == [seed : Nat, by : {"none", "daemon", "before", "other"}]
BlobRec == [kek : {"none", "foreign", "fixed", "other"}, kind : Cores \cup {"sym", "none"}, seed : Nat]
EntryRec == [used : BOOLEAN, blob : BlobRec]
RespRec == [st : {"none", "OK", "HARDFAIL", "UNKNOWERR", "KEYNOTEXIST", "dry", "fail"},
            out : OutRec]
TaRec == [who : {"none", "daemon", "other"}, cmd : SeedCmds \cup SymCmds \cup {"none"},
          tgt : Cores \cup SymSlots, seed : Nat, n : Nat,
          res : {"none", "push", "ok", "fail", "dry"}]
ReqRec == [op : Requestable \cup {"none"}, c : Cores, h : Handles \cup SymSlots, blob : BlobRec]

TypesOK ==
  /\ core \in [Cores -> CoreRec] /\ vault \in [SymSlots -> KeyRec] /\ ta \in TaRec
  /\ kek \in {"none", "fixed", "other"} /\ hw \in BOOLEAN /\ hung \in {"no", "ta", "daemon"}
  /\ pc \in Places /\ req \in ReqRec /\ resp \in RespRec /\ fault \in BOOLEAN
  /\ keys \in [Cores -> [Handles -> EntryRec]] /\ held \subseteq BlobRec
  /\ env \in Scenarios /\ late \subseteq Cores /\ unwiped \in BOOLEAN
  /\ nseed \in Nat /\ outages \in Nat /\ kills \in Nat

-----------------------------------------------------------------------------
(* The inductive invariant.                                                *)

\* The words of k are those of one seed.
OneSeed(k) == \A i, j \in DOMAIN k : k[i] = k[j]
\* k is the whole of one seed.
Whole(k, seed) == Len(k) = Words /\ \A i \in 1 .. Words : k[i] = seed

\* A request in progress is one that gets there, its number fits its table, and nothing
\* has failed before the first access to its core.
RequestOK ==
  /\ req.op \notin SymOps => req.h \in Handles
  /\ req.op \in SymOps => req.h \in SymSlots
  /\ pc \in {"clr", "clrW", "undo", "undoW"} => req.op \in SeedOps
  /\ pc \in {"ta", "taWait"} => req.op \in SeedOps \cup {"symgen", "symload"}
  /\ pc \in Running => req.op \in CoreOps
  /\ pc \in Clean => ~fault

\* Check has seen both wipes end, and only ZEROIZE, of the daemon alone, starts one.
WipesOK ==
  /\ pc \in (Clean \ {"check"}) \cup Running => \A c \in Cores : ~core[c].wiping
  /\ pc \in Booting /\ kills = 0 => \A c \in Cores : ~core[c].wiping
  /\ pc = "zeroK" => ~core["mlkem"].wiping
  /\ pc = "zeroD" => ~core["mldsa"].wiping

\* A core runs for the request that waits for it, or for nobody since the daemon gave up
\* or was killed; a request that nothing has failed finds an idle ML-DSA.
RunsOK ==
  /\ \A c \in Cores : core[c].busy => c \in late \/ (pc = "poll" /\ req.c = c)
  /\ pc \in {"exp", "feed", "start"} /\ req.c = "mldsa" /\ ~fault => ~core["mldsa"].busy
  /\ pc = "feed" /\ req.c = "mldsa" => ~fault

\* Where the daemon is during a connection.
Connected == (Places \ Booting) \ {"exit", "accept", "endW"}

\* A key of the daemon is in the vault during the connection that loaded it, and one of
\* an earlier connection not at all, unless the last wipe was lost.
VaultOK ==
  \A s \in SymSlots : /\ vault[s].by = "daemon" => pc \in Connected \/ unwiped
                      /\ vault[s].by = "before" => unwiped

\* The command that serves a request.
CmdOf == [op \in SeedOps \cup {"symgen", "symload"} |->
            CASE op = "keygen" -> "SEED_NEW" [] op = "use" -> "SEED_REPLAY"
              [] op = "symgen" -> "SYMKEY_NEW" [] op = "symload" -> "SYMKEY_LOAD"]

\* The words of the command under way are the last ones on the staging port.
Pushed(k) ==
  /\ ta.n <= Len(k)
  /\ \A i \in 1 .. Len(k) : i > Len(k) - ta.n => k[i] = ta.seed
  /\ ta.res = "ok" => ta.n = Words

\* The application executes the command of the request in progress, or somebody else's;
\* the words it has pushed for the daemon have stayed where they are.
TaOK ==
  /\ ta.who = "none" <=> ta.res = "none"
  /\ ta.who # "none" => IF ta.cmd \in SeedCmds THEN ta.tgt \in Cores
                        ELSE ta.cmd \in SymCmds /\ ta.tgt \in SymSlots
  /\ ta.who = "daemon" /\ ta.cmd = "SEED_TO_PL" => pc = "bootTa"
  /\ ta.who = "daemon" /\ ta.cmd # "SEED_TO_PL" =>
       /\ pc = "taWait" /\ ta.cmd = CmdOf[req.op]
       /\ req.op \in SeedOps =>
            /\ ta.tgt = req.c /\ Pushed(core[req.c].staged)
            /\ req.op = "use" => ta.seed = keys[req.c][req.h].blob.seed

\* A run computes with one seed, if it was started after accesses that all succeeded.
Pure(r) == r.sure => OneSeed(r.key)

\* The staging port holds no more than a seed, and between the application's answer and
\* START the whole seed of the handle.
SeedsOK ==
  /\ \A c \in Cores : /\ Len(core[c].staged) <= Words
                      /\ Pure(core[c].job) /\ Pure(core[c].out)
  /\ pc \in {"exp", "mode", "feed", "start"} /\ req.op \in SeedOps /\ ~fault =>
       Whole(core[req.c].staged, keys[req.c][req.h].blob.seed)

\* A result this request asked for.
Own(o) ==
  /\ o.op = req.op /\ o.mine
  /\ req.op # "pub" => Whole(o.key, keys[req.c][req.h].blob.seed)

\* The run waited for, and the result read, are those of this request.
ResultOK ==
  /\ pc \in {"poll", "drain"} /\ ~fault /\ "mlkem" \notin late =>
       LET k == core[req.c] IN
       /\ k.busy => pc = "poll" /\ Own(k.job)
       /\ ~k.busy => (k.out = NoOut /\ pc = "poll") \/ (k.refused /\ pc = "poll") \/ Own(k.out)
  /\ pc = "reply" /\ resp.st = "OK" => ~fault

\* The inductive invariant: it implies the four properties and is kept by every step.
BInv == /\ TypesOK /\ RequestOK /\ WipesOK /\ RunsOK /\ VaultOK /\ TaOK
        /\ SeedsOK /\ ResultOK /\ ReplyIsOwn /\ NoInheritedSymKey /\ DaemonNeverHangs
-----------------------------------------------------------------------------
(* The operators of the model.                                             *)

USE DEF Alive, Goto, KeepResp, boardVars, daemonVars, leftVars, countVars

\* The values that variables are set to have their types.
LEMMA Initials ==
  /\ <<>> \in Seq(Nat) /\ Len(<<>>) = 0 /\ OneSeed(<<>>)
  /\ NoOut \in OutRec /\ Pure(NoOut) /\ NoResp \in RespRec /\ NoKey \in KeyRec
  /\ NoBlob \in BlobRec /\ Forged \in BlobRec
  /\ 0 \in Handles /\ NoReq \in ReqRec /\ IdleTa \in TaRec
  /\ NoKeys \in [Cores -> [Handles -> EntryRec]]
  /\ ResetCore \in CoreRec
<1>1. /\ <<>> \in Seq(Nat) /\ Len(<<>>) = 0 /\ DOMAIN <<>> = {}
  OBVIOUS
<1>2. 0 \in Handles
  BY BoardAssumption DEF Handles
<1>3. NoOut \in OutRec /\ Pure(NoOut)
  BY <1>1 DEF NoOut, OutRec, Ops, Pure
<1>4. NoBlob \in BlobRec /\ Forged \in BlobRec
  BY DEF NoBlob, Forged, BlobRec, Cores
<1>5. NoResp \in RespRec
  BY <1>3 DEF NoResp, RespRec
<1>6. NoKey \in KeyRec
  BY DEF NoKey, KeyRec
<1>7. NoReq \in ReqRec
  BY <1>2, <1>4 DEF NoReq, ReqRec, Cores
<1>8. IdleTa \in TaRec
  BY DEF IdleTa, TaRec, Cores
<1>9. NoKeys \in [Cores -> [Handles -> EntryRec]]
  BY <1>4 DEF NoKeys, EntryRec
<1>10. ResetCore \in CoreRec
  BY <1>1, <1>3 DEF ResetCore, CoreRec
<1> QED BY <1>1, <1>2, <1>3, <1>4, <1>5, <1>6, <1>7, <1>8, <1>9, <1>10 DEF OneSeed

\* A table that is not full has a first free entry.
LEMMA FirstFreeIsHandle ==
  ASSUME NEW c \in Cores, FirstFree(c) # NKeys
  PROVE  FirstFree(c) \in Handles
<1> DEFINE free == {h \in Handles : ~keys[c][h].used}
<1>1. free # {} /\ free \subseteq Nat
  BY DEF FirstFree, Handles
<1> DEFINE less == {ss \in Nat \X Nat : ss[1] < ss[2]}
<1>2. IsWellFoundedOn(less, Nat)
  BY ONLY NatLessThanWellFounded DEF OpToRel
<1>3. \E h \in free : \A g \in free : ~(<<g, h>> \in less)
  <2> HIDE DEF free, less
  <2> QED BY <1>1, <1>2, WFMin
<1>4. \E h \in free : \A g \in free : h <= g
  <2>1. ASSUME NEW g \in Nat, NEW h \in Nat, <<g, h>> \notin less PROVE h <= g
    BY <2>1
  <2> HIDE DEF free, less
  <2> QED BY <1>1, <1>3, <2>1
<1>5. FirstFree(c) = CHOOSE h \in free : \A g \in free : h <= g
  BY <1>1 DEF FirstFree
<1> QED
  <2> HIDE DEF free
  <2>1. FirstFree(c) \in free
    BY <1>4, <1>5
  <2> QED BY <2>1 DEF free

\* An answer; one that says OK is built on accesses that succeeded.
LEMMA Answers ==
  ASSUME NEW st \in {"OK", "HARDFAIL", "UNKNOWERR", "KEYNOTEXIST"}, NEW out \in OutRec,
         Return(st, out)
  PROVE  /\ pc' = "reply" /\ resp' \in RespRec /\ resp'.out = out
         /\ resp'.st = "OK" => st = "OK" /\ ~fault'
BY DEF Return, RespRec

\* A failure is answered as one.
LEMMA Fails ==
  ASSUME Fail
  PROVE  pc' = "reply" /\ resp' \in RespRec /\ resp'.st # "OK"
BY Initials DEF Fail, Return, RespRec

\* One core changes.
LEMMA OneCore ==
  ASSUME core \in [Cores -> CoreRec], NEW c \in Cores, NEW q \in CoreRec,
         core' = [core EXCEPT ![c] = q]
  PROVE  /\ core' \in [Cores -> CoreRec] /\ core'[c] = q
         /\ \A d \in Cores \ {c} : core'[d] = core[d]
OBVIOUS

\* A command begins.
LEMMA CallBegins ==
  ASSUME NEW who \in {"daemon", "other"}, NEW cmd \in SeedCmds \cup SymCmds,
         NEW tgt \in Cores \cup SymSlots, NEW blob \in BlobRec, nseed \in Nat,
         TaCall(who, cmd, tgt, blob)
  PROVE  /\ ta.who = "none" /\ ta' \in TaRec /\ nseed' \in Nat
         /\ ta'.who = who /\ ta'.cmd = cmd /\ ta'.tgt = tgt /\ ta'.n = 0
         /\ ta'.res \in {"push", "dry", "fail"}
         /\ cmd \in {"SEED_REPLAY", "SYMKEY_LOAD"} => ta'.seed = blob.seed
<1> DEFINE run(seed, res) ==
      [who |-> who, cmd |-> cmd, tgt |-> tgt, seed |-> seed, n |-> 0, res |-> res]
<1>1. /\ ta.who = "none" /\ nseed' \in Nat
      /\ \E seed \in Nat, res \in {"push", "dry", "fail"} :
           /\ ta' = run(seed, res)
           /\ cmd \in {"SEED_REPLAY", "SYMKEY_LOAD"} => seed = blob.seed
  <2>1. blob.seed \in Nat
    BY DEF BlobRec
  <2>2. CASE cmd \in {"SEED_NEW", "SYMKEY_NEW"}
    BY <2>2 DEF TaCall
  <2>3. CASE cmd = "SEED_TO_PL"
    BY <2>3 DEF TaCall
  <2>4. CASE cmd \in {"SEED_REPLAY", "SYMKEY_LOAD"}
    BY <2>1, <2>4 DEF TaCall
  <2> QED BY <2>2, <2>3, <2>4 DEF SeedCmds, SymCmds
<1> QED BY <1>1 DEF TaRec

\* A sequence that ends in n times e and gets another e.
LEMMA OneMoreWord ==
  ASSUME NEW s \in Seq(Nat), NEW e \in Nat, NEW n \in Nat, n <= Len(s),
         \A i \in 1 .. Len(s) : i > Len(s) - n => s[i] = e,
         NEW t, t = Append(s, e)
  PROVE  n + 1 <= Len(t) /\ \A i \in 1 .. Len(t) : i > Len(t) - (n + 1) => t[i] = e
<1>1. Len(t) = Len(s) + 1 /\ Len(s) \in Nat
  OBVIOUS
<1>2. \A i \in 1 .. Len(s) : t[i] = s[i]
  OBVIOUS
<1>3. t[Len(s) + 1] = e
  OBVIOUS
<1>4. ASSUME NEW i \in 1 .. Len(t), i > Len(t) - (n + 1) PROVE t[i] = e
  <2>1. CASE i = Len(s) + 1
    BY <1>3, <2>1
  <2>2. CASE i # Len(s) + 1
    <3>1. i \in 1 .. Len(s) /\ i > Len(s) - n
      BY <1>1, <1>4, <2>2
    <3> QED BY <1>2, <3>1
  <2> QED BY <2>1, <2>2
<1> QED BY <1>1, <1>4

-----------------------------------------------------------------------------
(* The hardware.                                                           *)

\* A run ends.
LEMMA CoreFinishOK == ASSUME BInv, NEW c \in Cores, CoreFinish(c) PROVE BInv'
<1> USE DEF BInv, CoreFinish
<1> DEFINE q == [core[c] EXCEPT !.busy = FALSE, !.out = core[c].job, !.job = NoOut,
                                !.expWiping = TRUE]
<1>1. core[c] \in CoreRec /\ core \in [Cores -> CoreRec] /\ core[c].busy
  BY DEF TypesOK
<1>2. core' = [core EXCEPT ![c] = q]
  BY <1>1
<1>3. /\ q \in CoreRec /\ q.busy = FALSE /\ q.out = core[c].job /\ q.job = NoOut
      /\ q.staged = core[c].staged /\ q.wiping = core[c].wiping /\ q.refused = core[c].refused
  BY <1>1, Initials DEF CoreRec
<1> HIDE DEF q
<1>4. core' \in [Cores -> CoreRec] /\ core'[c] = q /\ \A d \in Cores \ {c} : core'[d] = core[d]
  BY <1>1, <1>2, <1>3, OneCore
<1>5. TypesOK' /\ RequestOK'
  BY <1>4 DEF TypesOK, RequestOK
<1>6. WipesOK'
  BY <1>3, <1>4 DEF WipesOK, Cores
<1>7. RunsOK'
  BY <1>3, <1>4 DEF RunsOK, Cores
<1>8. VaultOK' /\ TaOK'
  BY <1>3, <1>4 DEF VaultOK, TaOK, TypesOK, ReqRec, Pushed
<1>9. SeedsOK'
  BY <1>3, <1>4, Initials DEF SeedsOK, TypesOK, ReqRec
<1>10. ResultOK'
  BY <1>1, <1>3, <1>4 DEF ResultOK, Own, TypesOK, ReqRec
<1>11. ReplyIsOwn' /\ NoInheritedSymKey' /\ DaemonNeverHangs'
  BY DEF ReplyIsOwn, NoInheritedSymKey, DaemonNeverHangs
<1> QED BY <1>5, <1>6, <1>7, <1>8, <1>9, <1>10, <1>11

\* A wipe ends.
LEMMA CoreWipedOK == ASSUME BInv, NEW c \in Cores, CoreWiped(c) PROVE BInv'
<1> USE DEF BInv
<1>1. core[c] \in CoreRec /\ core \in [Cores -> CoreRec]
  BY DEF TypesOK
<1>2. PICK q : /\ core' = [core EXCEPT ![c] = q]
               /\ q \in {[core[c] EXCEPT !.wiping = FALSE], [core[c] EXCEPT !.expWiping = FALSE]}
  BY <1>1 DEF CoreWiped
<1>3. /\ q \in CoreRec /\ q.busy = core[c].busy /\ q.out = core[c].out /\ q.job = core[c].job
      /\ q.staged = core[c].staged /\ q.refused = core[c].refused
      /\ core[c].wiping = FALSE => q.wiping = FALSE
  BY <1>1, <1>2 DEF CoreRec
<1>4. core' \in [Cores -> CoreRec] /\ core'[c] = q /\ \A d \in Cores \ {c} : core'[d] = core[d]
  BY <1>1, <1>2, <1>3, OneCore
<1>5. TypesOK' /\ RequestOK'
  BY <1>4 DEF CoreWiped, TypesOK, RequestOK
<1>6. WipesOK'
  BY <1>1, <1>3, <1>4 DEF CoreWiped, WipesOK, CoreRec, Cores
<1>7. RunsOK'
  BY <1>3, <1>4 DEF CoreWiped, RunsOK, Cores
<1>8. VaultOK' /\ TaOK'
  BY <1>3, <1>4 DEF CoreWiped, VaultOK, TaOK, TypesOK, ReqRec, Pushed
<1>9. SeedsOK'
  BY <1>3, <1>4 DEF CoreWiped, SeedsOK, TypesOK, ReqRec
<1>10. ResultOK'
  BY <1>1, <1>3, <1>4 DEF CoreWiped, ResultOK, Own, TypesOK, ReqRec
<1>11. ReplyIsOwn' /\ NoInheritedSymKey' /\ DaemonNeverHangs'
  BY DEF CoreWiped, ReplyIsOwn, NoInheritedSymKey, DaemonNeverHangs
<1> QED BY <1>5, <1>6, <1>7, <1>8, <1>9, <1>10, <1>11

\* The monitor stops answering.
LEMMA OutageOK == ASSUME BInv, Outage PROVE BInv'
<1> USE DEF BInv, Outage
<1>1. TypesOK'
  <2>1. outages' \in Nat
    BY DEF TypesOK
  <2>2. hw' \in BOOLEAN
    OBVIOUS
  <2> QED BY <2>1, <2>2 DEF TypesOK
<1>2. RequestOK' /\ WipesOK' /\ VaultOK'
  BY DEF RequestOK, WipesOK, VaultOK
<1>3. RunsOK' /\ TaOK' /\ SeedsOK'
  BY DEF RunsOK, TaOK, Pushed, SeedsOK
<1>4. ResultOK' /\ ReplyIsOwn' /\ NoInheritedSymKey' /\ DaemonNeverHangs'
  BY DEF ResultOK, Own, ReplyIsOwn, NoInheritedSymKey, DaemonNeverHangs
<1> QED BY <1>1, <1>2, <1>3, <1>4

\* It answers again.
LEMMA RecoverOK == ASSUME BInv, Recover PROVE BInv'
<1> USE DEF BInv, Recover
<1>1. TypesOK'
  <2>1. hw' \in BOOLEAN
    OBVIOUS
  <2> QED BY <2>1 DEF TypesOK
<1>2. RequestOK' /\ WipesOK' /\ VaultOK'
  BY DEF RequestOK, WipesOK, VaultOK
<1>3. RunsOK' /\ TaOK' /\ SeedsOK'
  BY DEF RunsOK, TaOK, Pushed, SeedsOK
<1>4. ResultOK' /\ ReplyIsOwn' /\ NoInheritedSymKey' /\ DaemonNeverHangs'
  BY DEF ResultOK, Own, ReplyIsOwn, NoInheritedSymKey, DaemonNeverHangs
<1> QED BY <1>1, <1>2, <1>3, <1>4

\* The bitstream is loaded again: what a request under way has not noticed yet it has met
\* as a failed access before.
LEMMA ReloadOK == ASSUME BInv, Reload PROVE BInv'
<1> USE DEF BInv, Reload
<1>1. \A c \in Cores : core'[c] = ResetCore
  OBVIOUS
<1>2. /\ ResetCore.busy = FALSE /\ ResetCore.wiping = FALSE /\ ResetCore.staged = <<>>
      /\ ResetCore.job = NoOut /\ ResetCore.out = NoOut
  BY DEF ResetCore
<1>3. TypesOK'
  BY <1>1, Initials DEF TypesOK
<1>4. RequestOK' /\ WipesOK' /\ RunsOK'
  BY <1>1, <1>2 DEF RequestOK, WipesOK, RunsOK, Cores
<1>5. VaultOK'
  BY DEF VaultOK, NoKey
<1>6. TaOK'
  BY DEF TaOK, RequestOK, Clean
<1>7. SeedsOK'
  BY <1>1, <1>2, Initials, BoardAssumption DEF SeedsOK
<1>8. ResultOK' /\ ReplyIsOwn' /\ NoInheritedSymKey' /\ DaemonNeverHangs'
  BY DEF ResultOK, ReplyIsOwn, NoInheritedSymKey, DaemonNeverHangs
<1> QED BY <1>3, <1>4, <1>5, <1>6, <1>7, <1>8
-----------------------------------------------------------------------------
(* The application.                                                        *)

\* The board hangs on a refused write; the daemon is not told.
LEMMA HangOK ==
  ASSUME BInv, NEW who \in {"ta", "daemon"}, Hang(who),
         who = "daemon" => "mldsa" \in late \/ kills > 0
  PROVE  BInv'
<1> USE DEF BInv, Hang
<1>1. TypesOK' /\ RequestOK' /\ WipesOK' /\ RunsOK'
  BY DEF TypesOK, RequestOK, WipesOK, RunsOK
<1>2. VaultOK' /\ TaOK' /\ SeedsOK' /\ ResultOK'
  BY DEF VaultOK, TaOK, Pushed, SeedsOK, ResultOK, Own
<1>3. ReplyIsOwn' /\ NoInheritedSymKey' /\ DaemonNeverHangs'
  BY DEF ReplyIsOwn, NoInheritedSymKey, DaemonNeverHangs
<1> QED BY <1>1, <1>2, <1>3

\* What the application does without touching a core leaves all but its command alone.
LEMMA TaOnly ==
  ASSUME BInv, ta' \in TaRec, TaOK', nseed' \in Nat, kek' \in {"none", "fixed", "other"},
         UNCHANGED <<core, vault, hw, hung, daemonVars, held, env, leftVars, outages, kills>>
  PROVE  BInv'
<1> USE DEF BInv
<1>1. TypesOK' /\ RequestOK' /\ WipesOK' /\ RunsOK'
  BY DEF TypesOK, RequestOK, WipesOK, RunsOK
<1>2. VaultOK' /\ SeedsOK' /\ ResultOK'
  BY DEF VaultOK, SeedsOK, ResultOK, Own
<1>3. ReplyIsOwn' /\ NoInheritedSymKey' /\ DaemonNeverHangs'
  BY DEF ReplyIsOwn, NoInheritedSymKey, DaemonNeverHangs
<1> QED BY <1>1, <1>2, <1>3

\* A word of a seed: refused, taken as the last one on the port, or the write that hangs
\* the board.
LEMMA TaSeedWordOK == ASSUME BInv, TaSeedWord PROVE BInv'
<1> USE DEF BInv
<1> DEFINE c == ta.tgt
           q == [core[c] EXCEPT !.staged = Append(@, ta.seed)]
<1>1. /\ c \in Cores /\ ta.who # "none" /\ ta.res = "push" /\ ta \in TaRec
      /\ ta.cmd \in SeedCmds /\ core[c] \in CoreRec
  BY DEF TaSeedWord, TaOK, TypesOK, SeedCmds
<1>2. CASE WordRefused /\ UNCHANGED <<core, vault, kek, hw, hung, daemonVars, held, env, leftVars, countVars>>
  <2>1. ta' = [ta EXCEPT !.res = "fail"] /\ ta' \in TaRec /\ nseed' \in Nat
    BY <1>1, <1>2 DEF WordRefused, TaRec, TypesOK
  <2>2. /\ ta'.who = ta.who /\ ta'.cmd = ta.cmd /\ ta'.tgt = ta.tgt /\ ta'.seed = ta.seed
        /\ ta'.n = ta.n /\ ta'.res = "fail"
    BY <1>1, <2>1 DEF TaRec
  <2>3. TaOK'
    BY <1>1, <1>2, <2>2 DEF TaOK, Pushed
  <2> QED BY <1>2, <2>1, <2>3, TaOnly DEF TypesOK
<1>3. CASE hw /\ ~Full(c) /\ core[c].wiping /\ Hang("ta")
  BY <1>3, HangOK
<1>4. CASE /\ hw /\ ~Full(c) /\ ~core[c].wiping
           /\ core' = [core EXCEPT ![c].staged = Append(@, ta.seed)]
           /\ ta' = [ta EXCEPT !.n = @ + 1, !.res = IF ta.n + 1 = Words THEN "ok" ELSE "push"]
           /\ UNCHANGED <<vault, kek, hw, hung, daemonVars, held, env, leftVars, countVars>>
  <2>1. /\ core[c].staged \in Seq(Nat) /\ ta.seed \in Nat /\ ta.n \in Nat
        /\ Len(core[c].staged) \in Nat /\ Len(core[c].staged) < Words /\ Words \in Nat
    BY <1>1, <1>4, BoardAssumption DEF CoreRec, TaRec, Full
  <2>2. /\ Append(core[c].staged, ta.seed) \in Seq(Nat)
        /\ Len(Append(core[c].staged, ta.seed)) = Len(core[c].staged) + 1
        /\ \A i \in 1 .. Len(core[c].staged) : Append(core[c].staged, ta.seed)[i] = core[c].staged[i]
        /\ Append(core[c].staged, ta.seed)[Len(core[c].staged) + 1] = ta.seed
    BY <2>1
  <2>3. core' = [core EXCEPT ![c] = q]
    BY <1>4
  <2>4. /\ q \in CoreRec /\ q.busy = core[c].busy /\ q.out = core[c].out /\ q.job = core[c].job
        /\ q.refused = core[c].refused /\ q.wiping = core[c].wiping
        /\ q.staged = Append(core[c].staged, ta.seed)
    BY <1>1, <2>2 DEF CoreRec
  <2> HIDE DEF q
  <2>5. core' \in [Cores -> CoreRec] /\ core'[c] = q /\ \A d \in Cores \ {c} : core'[d] = core[d]
    BY <1>1, <2>3, <2>4, OneCore DEF TypesOK
  <2>6. /\ ta' \in TaRec /\ ta'.who = ta.who /\ ta'.cmd = ta.cmd /\ ta'.tgt = c
        /\ ta'.seed = ta.seed /\ ta'.n = ta.n + 1 /\ ta'.res \in {"ok", "push"}
        /\ ta'.res = "ok" => ta.n + 1 = Words
    <3> DEFINE r == IF ta.n + 1 = Words THEN "ok" ELSE "push"
    <3>1. ta' = [ta EXCEPT !.n = ta.n + 1, !.res = r]
      BY <1>4
    <3>2. r \in {"ok", "push"} /\ (r = "ok" => ta.n + 1 = Words)
      OBVIOUS
    <3> HIDE DEF r
    <3>3. /\ ta'.who = ta.who /\ ta'.cmd = ta.cmd /\ ta'.tgt = c
          /\ ta'.seed = ta.seed /\ ta'.n = ta.n + 1 /\ ta'.res = r
      BY <1>1, <3>1 DEF TaRec
    <3>4. ta' \in TaRec
      <4>1. ta.n + 1 \in Nat /\ r \in {"none", "push", "ok", "fail", "dry"}
        BY <2>1, <3>2
      <4> QED BY <1>1, <3>1, <4>1 DEF TaRec
    <3> QED BY <3>2, <3>3, <3>4
  <2>7. TypesOK'
    BY <1>4, <2>5, <2>6 DEF TypesOK
  <2>8. RequestOK' /\ WipesOK' /\ RunsOK' /\ VaultOK'
    BY <1>1, <1>4, <2>4, <2>5 DEF RequestOK, WipesOK, RunsOK, VaultOK, Cores
  <2>9. TaOK'
    <3>1. ASSUME ta.who = "daemon", ta.cmd # "SEED_TO_PL", req.op \in SeedOps
          PROVE  Pushed(core[req.c].staged)'
      <4>1. ta.tgt = req.c /\ Pushed(core[c].staged)
        BY <3>1 DEF TaOK
      <4>2. core'[req'.c].staged = Append(core[c].staged, ta.seed)
        BY <1>4, <2>4, <2>5, <4>1
      <4>3. PICK k : k = Append(core[c].staged, ta.seed)
        OBVIOUS
      <4>4. ta.n + 1 <= Len(k) /\ \A i \in 1 .. Len(k) : i > Len(k) - (ta.n + 1) => k[i] = ta.seed
        BY <2>1, <3>1, <4>1, <4>3, OneMoreWord DEF Pushed
      <4>5. Pushed(k)'
        BY <2>6, <4>4 DEF Pushed
      <4> QED BY <4>2, <4>3, <4>5
    <3> QED BY <1>1, <1>4, <2>5, <2>6, <3>1 DEF TaOK
  <2>10. SeedsOK'
    <3>1. ASSUME pc \in {"exp", "mode", "feed", "start"}, req.op \in SeedOps, ~fault PROVE req.c # c
      BY <2>1, <3>1 DEF SeedsOK, Whole
    <3> QED BY <1>4, <2>1, <2>2, <2>4, <2>5, <3>1 DEF SeedsOK, TypesOK, ReqRec
  <2>11. ResultOK' /\ ReplyIsOwn' /\ NoInheritedSymKey' /\ DaemonNeverHangs'
    BY <1>1, <1>4, <2>4, <2>5 DEF ResultOK, Own, ReplyIsOwn, NoInheritedSymKey, DaemonNeverHangs, TypesOK, ReqRec
  <2> QED BY <2>7, <2>8, <2>9, <2>10, <2>11
<1> QED BY <1>1, <1>2, <1>3, <1>4 DEF TaSeedWord

\* A key goes to the vault in two steps: the slot is emptied, then filled in the name of
\* whoever sent the command, the daemon only while it waits for the answer.
LEMMA TaSymPushOK == ASSUME BInv, TaSymPush PROVE BInv'
<1> USE DEF BInv
<1>1. /\ ta.who \in {"daemon", "other"} /\ ta.res = "push" /\ ta \in TaRec /\ ta.cmd \in SymCmds
      /\ ta.cmd \notin SeedCmds /\ ta.tgt \in SymSlots
  BY DEF TaSymPush, TaOK, TypesOK, TaRec, SymCmds, SeedCmds
<1>2. /\ UNCHANGED <<core, kek, hw, hung, daemonVars, held, env, leftVars, countVars>>
      /\ \/ UNCHANGED vault
         \/ vault' = [vault EXCEPT ![ta.tgt] = NoKey]
         \/ vault' = [vault EXCEPT ![ta.tgt] = [seed |-> ta.seed, by |-> ta.who]]
  BY DEF TaSymPush
<1>3. PICK r \in {"push", "ok", "fail"}, n \in Nat : ta' = [ta EXCEPT !.res = r, !.n = n]
  <2>1. CASE ta' = [ta EXCEPT !.res = "fail"]
    <3>1. ta.n \in Nat /\ ta' = [ta EXCEPT !.res = "fail", !.n = ta.n]
      BY <1>1, <2>1 DEF TaRec
    <3> QED BY <3>1
  <2>2. CASE ta' = [ta EXCEPT !.res = "ok"]
    <3>1. ta.n \in Nat /\ ta' = [ta EXCEPT !.res = "ok", !.n = ta.n]
      BY <1>1, <2>2 DEF TaRec
    <3> QED BY <3>1
  <2>3. CASE ta' = [ta EXCEPT !.n = 1]
    <3>1. ta' = [ta EXCEPT !.res = "push", !.n = 1]
      BY <1>1, <2>3 DEF TaRec
    <3> QED BY <3>1
  <2> QED BY <2>1, <2>2, <2>3 DEF TaSymPush
<1>4. /\ ta' \in TaRec /\ ta'.who = ta.who /\ ta'.cmd = ta.cmd /\ ta'.tgt = ta.tgt
      /\ ta'.seed = ta.seed /\ ta'.res = r
  BY <1>1, <1>3 DEF TaRec
<1>5. TaOK'
  BY <1>1, <1>2, <1>4 DEF TaOK, CmdOf, SeedOps, SeedCmds, SymCmds, RequestOK
<1>6. PICK k \in KeyRec : /\ k.by \in {"none", ta.who}
                          /\ vault' \in {vault, [vault EXCEPT ![ta.tgt] = k]}
  <2>1. NoKey \in KeyRec /\ NoKey.by = "none"
    BY Initials DEF NoKey
  <2>2. /\ [seed |-> ta.seed, by |-> ta.who] \in KeyRec
        /\ [seed |-> ta.seed, by |-> ta.who].by = ta.who
    BY <1>1 DEF TaRec, KeyRec
  <2> QED BY <1>2, <2>1, <2>2
<1>7. /\ vault' \in [SymSlots -> KeyRec]
      /\ \A s \in SymSlots : vault'[s] = vault[s] \/ vault'[s].by \in {"none", ta.who}
  BY <1>1, <1>6 DEF TypesOK
<1>8. TypesOK' /\ RequestOK' /\ WipesOK' /\ RunsOK'
  BY <1>2, <1>4, <1>7 DEF TypesOK, RequestOK, WipesOK, RunsOK
<1>9. VaultOK'
  <2>1. ta.who = "daemon" => pc \in Connected
    <3>1. ta.who = "daemon" => pc = "taWait"
      BY <1>1 DEF TaOK, SeedCmds
    <3> QED BY <3>1 DEF Connected, Places, Clean, Booting
  <2> QED BY <1>1, <1>2, <1>7, <2>1 DEF VaultOK
<1>10. SeedsOK' /\ ResultOK' /\ ReplyIsOwn' /\ NoInheritedSymKey' /\ DaemonNeverHangs'
  BY <1>2 DEF SeedsOK, ResultOK, Own, ReplyIsOwn, NoInheritedSymKey, DaemonNeverHangs
<1> QED BY <1>5, <1>8, <1>9, <1>10

\* Another process asks for a seed or a key, or sets its key encryption key.
LEMMA OtherClientOK == ASSUME BInv, OtherClient PROVE BInv'
<1> USE DEF BInv
<1>1. ASSUME NEW cmd \in {"SEED_NEW", "SYMKEY_NEW", "SYMKEY_LOAD"}, NEW tgt, NEW b \in BlobRec,
             tgt \in (IF cmd = "SEED_NEW" THEN Cores ELSE SymSlots),
             TaCall("other", cmd, tgt, b), UNCHANGED kek
      PROVE  BInv'
  <2>1. nseed \in Nat /\ kek' \in {"none", "fixed", "other"} /\ tgt \in Cores \cup SymSlots
    BY <1>1 DEF TypesOK
  <2>2. /\ ta' \in TaRec /\ nseed' \in Nat /\ ta'.who = "other" /\ ta'.cmd = cmd
        /\ ta'.tgt = tgt /\ ta'.res \in {"push", "dry", "fail"}
    BY <1>1, <2>1, CallBegins DEF SeedCmds, SymCmds
  <2>3. TaOK'
    BY <1>1, <2>2 DEF TaOK, SeedCmds, SymCmds
  <2> QED BY <2>1, <2>2, <2>3, TaOnly DEF OtherClient
<1>2. ASSUME kek' = "other", UNCHANGED <<ta, nseed>> PROVE BInv'
  <2>1. TaOK' /\ ta' \in TaRec /\ nseed' \in Nat
    BY <1>2 DEF OtherClient, TaOK, Pushed, TypesOK
  <2> QED BY <1>2, <2>1, TaOnly DEF OtherClient
<1>3. ASSUME NEW c \in {w[2] : w \in env.asks}, TaCall("other", "SEED_NEW", c, NoBlob),
             UNCHANGED kek
      PROVE  BInv'
  <2>1. c \in Cores
    BY BoardAssumption DEF TypesOK, Cores
  <2> QED BY <1>1, <1>3, <2>1, Initials
<1>4. ASSUME NEW s \in SymSlots, TaCall("other", "SYMKEY_NEW", s, NoBlob), UNCHANGED kek
      PROVE  BInv'
  BY <1>1, <1>4, Initials
<1>5. ASSUME NEW s \in SymSlots, NEW b \in held \cup {Forged},
             TaCall("other", "SYMKEY_LOAD", s, b), UNCHANGED kek
      PROVE  BInv'
  <2>1. b \in BlobRec
    BY Initials DEF TypesOK
  <2> QED BY <1>1, <1>5, <2>1
<1> QED BY <1>2, <1>3, <1>4, <1>5 DEF OtherClient

\* And is answered.
LEMMA OtherDoneOK == ASSUME BInv, OtherDone PROVE BInv'
<1>1. TaOK'
  BY DEF OtherDone, TaOK, IdleTa
<1> QED BY <1>1, Initials, TaOnly DEF OtherDone, BInv, TypesOK
-----------------------------------------------------------------------------
(* The start of the daemon.                                                *)

\* The key encryption key is set.
LEMMA BootKekOK == ASSUME BInv, BootKek PROVE BInv'
<1> USE DEF BInv, BootKek
<1>1. TypesOK'
  BY DEF TypesOK, Places, Booting
<1>2. RequestOK' /\ WipesOK' /\ RunsOK' /\ VaultOK'
  BY DEF RequestOK, WipesOK, RunsOK, VaultOK, Clean, Running, Booting, Connected
<1>3. TaOK' /\ SeedsOK' /\ ResultOK'
  BY DEF TaOK, Pushed, SeedsOK, ResultOK
<1>4. ReplyIsOwn' /\ NoInheritedSymKey' /\ DaemonNeverHangs'
  BY DEF ReplyIsOwn, NoInheritedSymKey, DaemonNeverHangs
<1> QED BY <1>1, <1>2, <1>3, <1>4

\* A seed is asked for.
LEMMA BootSeedOK == ASSUME BInv, BootSeed PROVE BInv'
<1> USE DEF BInv, BootSeed
<1>1. /\ ta' \in TaRec /\ nseed' \in Nat /\ ta'.who = "daemon" /\ ta'.cmd = "SEED_TO_PL"
      /\ ta'.tgt = "mlkem" /\ ta'.res \in {"push", "dry", "fail"}
  BY Initials, CallBegins DEF TypesOK, SeedCmds, Cores
<1>2. TypesOK'
  BY <1>1 DEF TypesOK, Places, Booting
<1>3. RequestOK' /\ WipesOK' /\ RunsOK' /\ VaultOK'
  BY DEF RequestOK, WipesOK, RunsOK, VaultOK, Clean, Running, Booting, Connected
<1>4. TaOK'
  BY <1>1 DEF TaOK, SeedCmds, Cores
<1>5. SeedsOK' /\ ResultOK' /\ ReplyIsOwn' /\ NoInheritedSymKey' /\ DaemonNeverHangs'
  BY DEF SeedsOK, ResultOK, ReplyIsOwn, NoInheritedSymKey, DaemonNeverHangs
<1> QED BY <1>2, <1>3, <1>4, <1>5

\* Its answer decides whether the daemon starts.
LEMMA BootTestedOK == ASSUME BInv, BootTested PROVE BInv'
<1> USE DEF BInv, BootTested
<1>1. ta.res \in {"ok", "fail", "dry"}
  BY DEF TypesOK, TaRec, TaOK
<1>2. resp' \in RespRec
  BY <1>1, Initials DEF RespRec
<1>3. TypesOK'
  BY <1>2, Initials DEF TypesOK, Places, Booting
<1>4. RequestOK' /\ WipesOK' /\ RunsOK' /\ VaultOK'
  BY DEF RequestOK, WipesOK, RunsOK, VaultOK, Clean, Running, Booting, Connected
<1>5. TaOK'
  BY DEF TaOK, IdleTa
<1>6. SeedsOK' /\ ResultOK' /\ ReplyIsOwn' /\ NoInheritedSymKey' /\ DaemonNeverHangs'
  BY DEF SeedsOK, ResultOK, ReplyIsOwn, NoInheritedSymKey, DaemonNeverHangs
<1> QED BY <1>3, <1>4, <1>5, <1>6

\* The write SEED_CLR leaves everything of a core alone but its staging port.
Alike(x, y) ==
  /\ y.busy = x.busy /\ y.job = x.job /\ y.out = x.out
  /\ y.refused = x.refused /\ y.wiping = x.wiping

\* What it does.
LEMMA PortCleared ==
  ASSUME core \in [Cores -> CoreRec], NEW c \in Cores,
         core' = IF hw THEN [core EXCEPT ![c].staged = <<>>] ELSE core
  PROVE  /\ core' \in [Cores -> CoreRec]
         /\ \A d \in Cores : /\ Alike(core[d], core'[d])
                             /\ core'[d].staged \in {core[d].staged, <<>>}
<1>1. CASE ~hw
  BY <1>1 DEF Alike
<1>2. CASE hw
  <2> DEFINE q == [core[c] EXCEPT !.staged = <<>>]
  <2>1. core' = [core EXCEPT ![c] = q]
    BY <1>2
  <2>2. q \in CoreRec /\ Alike(core[c], q) /\ q.staged = <<>>
    BY Initials DEF CoreRec, Alike
  <2> HIDE DEF q
  <2>3. core' \in [Cores -> CoreRec] /\ core'[c] = q /\ \A d \in Cores \ {c} : core'[d] = core[d]
    BY <2>1, <2>2, OneCore
  <2> QED BY <2>2, <2>3 DEF Alike
<1> QED BY <1>1, <1>2

\* The seed of the self test is dropped; the daemon serves.
LEMMA BootClrOK == ASSUME BInv, BootClr PROVE BInv'
<1> USE DEF BInv
<1>1. CASE core["mlkem"].wiping /\ Hang("daemon")
  <2>1. kills # 0 /\ kills \in Nat
    BY <1>1 DEF BootClr, WipesOK, Booting, Cores, TypesOK
  <2> QED BY <1>1, <2>1, HangOK
<1>2. CASE /\ core' = IF hw THEN [core EXCEPT !["mlkem"].staged = <<>>] ELSE core
           /\ pc' = "accept"
           /\ UNCHANGED <<vault, ta, kek, hw, hung, req, resp, fault, keys, held, env, leftVars, countVars>>
  <2>1. /\ core' \in [Cores -> CoreRec]
        /\ \A d \in Cores : /\ Alike(core[d], core'[d])
                            /\ core'[d].staged \in {core[d].staged, <<>>}
    BY <1>2, PortCleared DEF TypesOK, Cores
  <2>2. TypesOK'
    BY <1>2, <2>1 DEF TypesOK, Places
  <2>3. RequestOK' /\ WipesOK' /\ VaultOK'
    BY <1>2 DEF BootClr, RequestOK, WipesOK, VaultOK, Clean, Running, Booting, Connected
  <2>4. RunsOK'
    BY <1>2, <2>1 DEF BootClr, RunsOK, Alike
  <2>5. TaOK'
    BY <1>2 DEF BootClr, TaOK
  <2>6. SeedsOK'
    BY <1>2, <2>1, Initials, BoardAssumption DEF SeedsOK, Alike
  <2>7. ResultOK' /\ ReplyIsOwn' /\ NoInheritedSymKey' /\ DaemonNeverHangs'
    BY <1>2 DEF BootClr, ResultOK, ReplyIsOwn, NoInheritedSymKey, DaemonNeverHangs
  <2> QED BY <2>2, <2>3, <2>4, <2>5, <2>6, <2>7
<1> QED BY <1>1, <1>2 DEF BootClr
-----------------------------------------------------------------------------
(* Answers.                                                                *)

\* What is left to show of a step of the daemon that answers.
LEMMA Replied ==
  ASSUME BInv, hung = "no", pc \in Connected \ {"taWait"}, pc' = "reply",
         resp' \in RespRec, resp'.st = "OK" => ~fault', ReplyIsOwn', NoInheritedSymKey',
         req' \in ReqRec, RequestOK', held' \subseteq BlobRec,
         keys' \in [Cores -> [Handles -> EntryRec]], core' \in [Cores -> CoreRec],
         RunsOK', SeedsOK', fault' \in BOOLEAN, late' \subseteq Cores,
         UNCHANGED <<vault, ta, kek, hw, hung, env, unwiped, countVars>>
  PROVE  BInv'
<1> USE DEF BInv
<1>1. TypesOK'
  BY DEF TypesOK, Places
<1>2. WipesOK' /\ VaultOK'
  BY DEF WipesOK, VaultOK, Clean, Running, Booting, Connected, Places
<1>3. TaOK'
  BY DEF TaOK, Connected, Booting
<1>4. ResultOK' /\ DaemonNeverHangs'
  BY DEF ResultOK, DaemonNeverHangs
<1> QED BY <1>1, <1>2, <1>3, <1>4

\* And of one that gives up: the cores, and whose their runs are.
LEMMA GivenUp ==
  ASSUME BInv, hung = "no", pc \in Connected \ {"taWait"}, Fail,
         core' \in [Cores -> CoreRec], RunsOK', SeedsOK',
         fault' \in BOOLEAN, late' \subseteq Cores,
         UNCHANGED <<vault, ta, kek, hw, hung, req, keys, held, env, unwiped, countVars>>
  PROVE  BInv'
<1>1. pc' = "reply" /\ resp' \in RespRec /\ resp'.st # "OK"
  BY Fails
<1>2. RequestOK' /\ ReplyIsOwn' /\ NoInheritedSymKey'
  BY <1>1 DEF BInv, RequestOK, ReplyIsOwn, NoInheritedSymKey, Clean, Running
<1> QED BY <1>1, <1>2, Replied DEF BInv, TypesOK

\* In the usual case no core changes and no run is given up.
LEMMA GivenUpQuietly ==
  ASSUME BInv, hung = "no", pc \in Connected \ {"taWait", "poll"}, Fail, fault' \in BOOLEAN,
         UNCHANGED <<boardVars, req, keys, held, env, leftVars, countVars>>
  PROVE  BInv'
<1>1. pc' = "reply"
  BY Fails
<1>2. RunsOK' /\ SeedsOK'
  BY <1>1 DEF BInv, RunsOK, SeedsOK
<1> QED BY <1>2, GivenUp DEF BInv, TypesOK

\* And of one that goes on with the request, or ends the connection, without an access
\* that changes anything.
LEMMA MovedOn ==
  ASSUME BInv, hung = "no", pc \in Connected \ {"taWait", "poll"},
         pc' \in Connected \ {"poll", "drain", "reply"},
         req' \in ReqRec, fault' \in BOOLEAN, RequestOK', WipesOK', RunsOK', SeedsOK',
         UNCHANGED <<boardVars, resp, keys, held, env, leftVars, countVars>>
  PROVE  BInv'
<1> USE DEF BInv
<1>1. TypesOK'
  BY DEF TypesOK, Connected
<1>2. VaultOK' /\ TaOK'
  BY DEF VaultOK, TaOK, Connected, Booting
<1>3. ResultOK' /\ ReplyIsOwn' /\ NoInheritedSymKey' /\ DaemonNeverHangs'
  BY DEF ResultOK, ReplyIsOwn, NoInheritedSymKey, DaemonNeverHangs
<1> QED BY <1>1, <1>2, <1>3
-----------------------------------------------------------------------------
(* The connection and its requests.                                        *)

\* A connection begins: a key the daemon loaded is still there if the last wipe was lost.
LEMMA AcceptOK == ASSUME BInv, Accept PROVE BInv'
<1> USE DEF BInv, Accept
<1>1. /\ vault' \in [SymSlots -> KeyRec]
      /\ \A s \in SymSlots :
           vault'[s].by = IF vault[s].by = "daemon" THEN "before" ELSE vault[s].by
  BY DEF TypesOK, KeyRec
<1>2. TypesOK'
  BY <1>1 DEF TypesOK, Places
<1>3. RequestOK' /\ WipesOK' /\ RunsOK'
  BY DEF RequestOK, WipesOK, RunsOK, Clean, Running, Booting
<1>4. VaultOK'
  BY <1>1 DEF VaultOK, Connected
<1>5. TaOK' /\ SeedsOK' /\ ResultOK'
  BY DEF TaOK, SeedsOK, ResultOK
<1>6. ReplyIsOwn' /\ NoInheritedSymKey' /\ DaemonNeverHangs'
  BY DEF ReplyIsOwn, NoInheritedSymKey, DaemonNeverHangs
<1> QED BY <1>2, <1>3, <1>4, <1>5, <1>6

\* What a client may send.
LEMMA RequestTypes ==
  ASSUME TypesOK, NEW w \in env.asks, Request(w)
  PROVE  /\ req' \in ReqRec
         /\ req'.op \notin SymOps => req'.h \in Handles
         /\ req'.op \in SymOps => req'.h \in SymSlots
<1> DEFINE q == [NoReq EXCEPT !.op = w[1], !.c = w[2]]
<1>1. w[1] \in Requestable /\ w[2] \in Cores /\ held \cup {Forged} \subseteq BlobRec
  BY BoardAssumption, Initials DEF TypesOK, Cores
<1>2. q \in ReqRec /\ q.op = w[1] /\ q.h \in Handles
  BY <1>1, Initials DEF ReqRec, NoReq
<1> HIDE DEF q
<1>3. \/ req' = q /\ w[1] \notin SymOps
      \/ \E h \in Handles : req' = [q EXCEPT !.h = h] /\ w[1] \notin SymOps
      \/ \E b \in BlobRec : req' = [q EXCEPT !.blob = b] /\ w[1] \notin SymOps
      \/ \E s \in SymSlots : req' = [q EXCEPT !.h = s] /\ w[1] \in SymOps
      \/ \E s \in SymSlots, b \in BlobRec : req' = [q EXCEPT !.h = s, !.blob = b] /\ w[1] \in SymOps
  BY <1>1 DEF Request, SymOps, q
<1> QED BY <1>2, <1>3 DEF ReqRec

\* A request is read: the results on the cores are old from now on.
LEMMA ReceiveOK == ASSUME BInv, Receive PROVE BInv'
<1> USE DEF BInv
<1>1. /\ req' \in ReqRec
      /\ req'.op \notin SymOps => req'.h \in Handles
      /\ req'.op \in SymOps => req'.h \in SymSlots
  BY RequestTypes DEF Receive
<1> DEFINE aged(x) == [x EXCEPT !.job = Stale(@), !.out = Stale(@)]
<1>2. core' = [c \in Cores |-> aged(core[c])]
  BY DEF Receive
<1>3. ASSUME NEW x \in CoreRec
      PROVE  /\ aged(x) \in CoreRec /\ aged(x).busy = x.busy /\ aged(x).wiping = x.wiping
             /\ aged(x).staged = x.staged /\ Pure(aged(x).job) /\ Pure(aged(x).out)
  BY Initials DEF CoreRec, OutRec, Stale, Pure
<1> HIDE DEF aged
<1>4. core' \in [Cores -> CoreRec]
  BY <1>2, <1>3 DEF TypesOK
<1>5. TypesOK'
  BY <1>1, <1>4 DEF Receive, TypesOK, Places, Clean
<1>6. RequestOK' /\ WipesOK'
  BY <1>1 DEF Receive, RequestOK, WipesOK, Clean, Running, Booting
<1>7. RunsOK'
  BY <1>2, <1>3 DEF Receive, RunsOK, TypesOK
<1>8. VaultOK' /\ TaOK'
  BY DEF Receive, VaultOK, TaOK, Connected, Places, Clean, Booting
<1>9. SeedsOK'
  <2>1. \A c \in Cores : /\ core'[c].staged = core[c].staged
                          /\ Pure(core'[c].job) /\ Pure(core'[c].out)
    BY <1>2, <1>3 DEF TypesOK
  <2> QED BY <2>1, Initials DEF Receive, SeedsOK
<1>10. ResultOK' /\ ReplyIsOwn' /\ NoInheritedSymKey' /\ DaemonNeverHangs'
  BY DEF Receive, ResultOK, ReplyIsOwn, NoInheritedSymKey, DaemonNeverHangs
<1> QED BY <1>5, <1>6, <1>7, <1>8, <1>9, <1>10

\* The places of a connection, one by one.
LEMMA Places1 ==
  /\ {"recv", "check", "op", "clr", "clrW", "undo", "undoW", "ta", "exp", "mode", "feed",
      "start", "end", "endD", "zeroK", "zeroD", "endS"}
       \subseteq Connected \ {"taWait", "poll", "drain", "reply"}
  /\ {"taWait", "poll", "drain", "reply"} \subseteq Connected
BY DEF Connected, Places, Booting, Clean, Running, Ending

\* The connection ends.
LEMMA DisconnectOK == ASSUME BInv, Disconnect PROVE BInv'
<1> USE DEF BInv, Disconnect
<1>1. RequestOK' /\ WipesOK' /\ RunsOK' /\ SeedsOK'
  BY DEF RequestOK, WipesOK, RunsOK, SeedsOK, Clean, Running, Booting
<1> QED BY <1>1, MovedOn, Places1 DEF TypesOK

\* Neither core is wiping.
LEMMA CheckOK == ASSUME BInv, Check PROVE BInv'
<1> USE DEF BInv
<1>1. fault' \in BOOLEAN
  BY DEF Check, Wait, TypesOK
<1>2. CASE Fail
  BY <1>1, <1>2, GivenUpQuietly, Places1 DEF Check
<1>3. CASE ~fault' /\ ~AnyWiping /\ pc' = "op" /\ UNCHANGED resp
  <2>1. RequestOK' /\ WipesOK' /\ RunsOK' /\ SeedsOK'
    BY <1>3 DEF Check, RequestOK, WipesOK, RunsOK, SeedsOK, AnyWiping, Clean, Running, Booting
  <2> QED BY <1>1, <1>3, <2>1, MovedOn, Places1 DEF Check, TypesOK
<1> QED BY <1>2, <1>3 DEF Check, Wait

\* KeyGen starts with a free entry.
LEMMA OpKeygenOK ==
  ASSUME BInv, Op, req.op = "keygen"
  PROVE  BInv'
<1> USE DEF BInv
<1>1. /\ req.c \in Cores /\ req \in ReqRec /\ pc = "op" /\ Alive /\ fault' = fault
      /\ UNCHANGED <<boardVars, keys, held, env, leftVars, countVars>>
  BY DEF Op, TypesOK, ReqRec
<1>2. CASE Return("UNKNOWERR", NoOut) /\ UNCHANGED req
  <2>1. pc' = "reply" /\ resp' \in RespRec /\ resp'.st # "OK"
    BY <1>2, Initials, Answers
  <2>2. RequestOK' /\ RunsOK' /\ SeedsOK' /\ ReplyIsOwn' /\ NoInheritedSymKey'
    BY <1>1, <1>2, <2>1 DEF RequestOK, RunsOK, SeedsOK, ReplyIsOwn, NoInheritedSymKey, Clean, Running
  <2> QED BY <1>1, <1>2, <2>1, <2>2, Replied, Places1 DEF TypesOK
<1>3. CASE /\ FirstFree(req.c) # NKeys /\ req' = [req EXCEPT !.h = FirstFree(req.c)]
           /\ pc' = "clr" /\ UNCHANGED resp
  <2>1. req' \in ReqRec /\ req'.op = "keygen" /\ req'.c = req.c /\ req'.h \in Handles
    BY <1>1, <1>3, FirstFreeIsHandle DEF ReqRec
  <2>2. RequestOK' /\ WipesOK' /\ RunsOK' /\ SeedsOK'
    BY <1>1, <1>3, <2>1 DEF RequestOK, WipesOK, RunsOK, SeedsOK, Clean, Running, Booting, SymOps, SeedOps
  <2> QED BY <1>1, <1>3, <2>1, <2>2, MovedOn, Places1 DEF TypesOK
<1> QED BY <1>2, <1>3 DEF Op

\* The requests that go on to a core with what they have, or to the application.
LEMMA OpGoesOn ==
  ASSUME BInv, Op, req.op \in {"use", "pub", "symgen", "symload"}
  PROVE  BInv'
<1> USE DEF BInv
<1>1. /\ req.c \in Cores /\ req \in ReqRec /\ pc = "op" /\ Alive
      /\ UNCHANGED <<boardVars, req, keys, held, env, leftVars, countVars>>
  BY DEF Op, TypesOK, ReqRec
<1>2. fault' \in BOOLEAN
  BY DEF Op, Wait, TypesOK
<1>3. CASE Fail
  BY <1>1, <1>2, <1>3, GivenUpQuietly, Places1
<1>4. CASE Return("KEYNOTEXIST", NoOut) /\ UNCHANGED fault
  <2>1. pc' = "reply" /\ resp' \in RespRec /\ resp'.st # "OK"
    BY <1>4, Initials, Answers
  <2>2. RequestOK' /\ RunsOK' /\ SeedsOK' /\ ReplyIsOwn' /\ NoInheritedSymKey'
    BY <1>1, <2>1 DEF RequestOK, RunsOK, SeedsOK, ReplyIsOwn, NoInheritedSymKey, Clean, Running
  <2> QED BY <1>1, <1>2, <2>1, <2>2, Replied, Places1 DEF TypesOK
<1>5. CASE /\ ~fault' /\ UNCHANGED resp
           /\ \/ req.op = "use" /\ pc' = "clr"
              \/ req.op = "pub" /\ pc' = IF req.c = "mlkem" THEN "exp" ELSE "mode"
              \/ req.op \in {"symgen", "symload"} /\ pc' = "ta"
  <2>1. pc' \in {"clr", "exp", "mode", "ta"} /\ (pc' = "exp" => req.c = "mlkem")
    BY <1>5
  <2>2. RequestOK'
    BY <1>1, <1>5, <2>1 DEF RequestOK, Clean, Running, SymOps, SeedOps, CoreOps
  <2>3. WipesOK' /\ RunsOK' /\ SeedsOK'
    BY <1>1, <1>5, <2>1 DEF WipesOK, RunsOK, SeedsOK, Clean, Running, Booting, SeedOps
  <2> QED BY <1>1, <1>2, <1>5, <2>1, <2>2, <2>3, MovedOn, Places1 DEF TypesOK
<1> QED BY <1>3, <1>4, <1>5 DEF Op, Wait, RequestOK, Clean

\* The requests that are answered at once, export and import.
LEMMA OpTablesOK ==
  ASSUME BInv, Op, req.op \in {"export", "import"}
  PROVE  BInv'
<1> USE DEF BInv
<1>1. /\ req.c \in Cores /\ req.h \in Handles /\ req \in ReqRec /\ req.blob \in BlobRec
      /\ pc = "op" /\ Alive /\ fault' = fault /\ ~fault
      /\ UNCHANGED <<boardVars, env, leftVars, countVars>>
  BY DEF Op, TypesOK, ReqRec, RequestOK, SymOps, Clean
<1>2. /\ held' \subseteq BlobRec /\ keys' \in [Cores -> [Handles -> EntryRec]]
      /\ req' \in ReqRec /\ req'.op = req.op /\ req'.h \in Handles
  <2>1. keys[req.c][req.h].blob \in BlobRec
    BY <1>1 DEF TypesOK, EntryRec
  <2>2. CASE UNCHANGED <<req, keys>> /\ held' \in {held, held \cup {keys[req.c][req.h].blob}}
    BY <1>1, <2>1, <2>2 DEF TypesOK
  <2>3. CASE UNCHANGED <<req, keys, held>>
    BY <1>1, <2>3 DEF TypesOK
  <2>4. CASE /\ UNCHANGED held /\ FirstFree(req.c) # NKeys
             /\ req' = [req EXCEPT !.h = FirstFree(req.c)]
             /\ keys' = [keys EXCEPT ![req.c][FirstFree(req.c)] = [used |-> TRUE, blob |-> req.blob]]
    <3>1. FirstFree(req.c) \in Handles
      BY <1>1, <2>4, FirstFreeIsHandle
    <3>2. [used |-> TRUE, blob |-> req.blob] \in EntryRec
      BY <1>1 DEF EntryRec
    <3>3. keys' \in [Cores -> [Handles -> EntryRec]]
      BY <1>1, <2>4, <3>1, <3>2 DEF TypesOK
    <3>4. req' \in ReqRec /\ req'.op = req.op /\ req'.h \in Handles
      BY <1>1, <2>4, <3>1 DEF ReqRec
    <3> QED BY <2>4, <3>3, <3>4 DEF TypesOK
  <2> QED BY <2>2, <2>3, <2>4 DEF Op
<1>3. \E st \in {"OK", "UNKNOWERR", "KEYNOTEXIST"} : Return(st, NoOut)
  BY DEF Op
<1>4. pc' = "reply" /\ resp' \in RespRec
  BY <1>3, Initials, Answers
<1>5. RequestOK' /\ RunsOK' /\ SeedsOK' /\ ReplyIsOwn' /\ NoInheritedSymKey'
  BY <1>1, <1>2, <1>4 DEF RequestOK, RunsOK, SeedsOK, ReplyIsOwn, CoreOps, NoInheritedSymKey, Clean, Running, SymOps
<1> QED BY <1>1, <1>2, <1>4, <1>5, Replied, Places1 DEF TypesOK

\* A symmetric operation, whose key is in the vault, and the requests that touch other
\* slaves only.
LEMMA OpSymOK ==
  ASSUME BInv, Op, req.op \in {"symuse", "other"}
  PROVE  BInv'
<1> USE DEF BInv
<1>1. /\ pc = "op" /\ Alive /\ UNCHANGED <<boardVars, req, keys, held, env, leftVars, countVars>>
      /\ hw \in BOOLEAN /\ req.op = "symuse" => req.h \in SymSlots
  BY DEF Op, TypesOK, RequestOK, SymOps
<1>2. fault' \in BOOLEAN
  BY <1>1 DEF Op, Wait, TypesOK
<1>3. CASE Fail
  BY <1>1, <1>2, <1>3, GivenUpQuietly, Places1
<1>4. CASE req.op = "other" /\ Return("OK", NoOut)
  <2>1. pc' = "reply" /\ resp' \in RespRec /\ (resp'.st = "OK" => ~fault')
    BY <1>4, Initials, Answers
  <2>2. RequestOK' /\ RunsOK' /\ SeedsOK' /\ ReplyIsOwn' /\ NoInheritedSymKey'
    BY <1>1, <1>4, <2>1 DEF RequestOK, RunsOK, SeedsOK, ReplyIsOwn, CoreOps, NoInheritedSymKey, Clean, Running
  <2> QED BY <1>1, <1>2, <2>1, <2>2, Replied, Places1 DEF TypesOK
<1>5. CASE /\ req.op = "symuse" /\ fault' = (fault \/ ~hw) /\ ~fault' /\ vault[req.h].seed # 0
           /\ Return("OK", [op |-> "symuse", key |-> <<vault[req.h].seed>>,
                            mine |-> vault[req.h].by # "before", sure |-> TRUE])
  <2> DEFINE out == [op |-> "symuse", key |-> <<vault[req.h].seed>>,
                     mine |-> vault[req.h].by # "before", sure |-> TRUE]
  <2>1. out \in OutRec /\ out.mine = (vault[req.h].by # "before")
    <3>1. vault[req.h].seed \in Nat
      BY <1>1, <1>5 DEF TypesOK, KeyRec
    <3>2. <<vault[req.h].seed>> \in Seq(Nat)
      BY <3>1
    <3> QED BY <3>2 DEF OutRec, Ops, Requestable
  <2> HIDE DEF out
  <2>2. pc' = "reply" /\ resp' \in RespRec /\ resp'.out = out /\ (resp'.st = "OK" => ~fault')
    BY <1>5, <2>1, Answers DEF out
  <2>3. ~unwiped => vault[req.h].by # "before"
    BY <1>1, <1>5 DEF VaultOK
  <2>4. NoInheritedSymKey'
    BY <1>1, <2>1, <2>2, <2>3 DEF NoInheritedSymKey
  <2>5. RequestOK' /\ RunsOK' /\ SeedsOK' /\ ReplyIsOwn'
    BY <1>1, <1>5, <2>2 DEF RequestOK, RunsOK, SeedsOK, ReplyIsOwn, CoreOps, Clean, Running
  <2> QED BY <1>1, <1>2, <2>2, <2>4, <2>5, Replied, Places1 DEF TypesOK
<1> QED BY <1>3, <1>4, <1>5 DEF Op, Wait

\* Every request.
LEMMA OpOK == ASSUME BInv, Op PROVE BInv'
BY OpKeygenOK, OpGoesOn, OpTablesOK, OpSymOK DEF Op
-----------------------------------------------------------------------------
(* The seed: the staging port is cleared, the application is called.       *)

\* The wait before a clear.
LEMMA SeedClrWaitOK == ASSUME BInv, SeedClrWait PROVE BInv'
<1> USE DEF BInv
<1>1. fault' \in BOOLEAN /\ pc \in {"clr", "undo"} /\ Alive
  BY DEF SeedClrWait, Wait, TypesOK
<1>2. CASE Fail
  BY <1>1, <1>2, GivenUpQuietly, Places1 DEF SeedClrWait
<1>3. CASE ~fault' /\ pc' \in {"clrW", "undoW"} /\ UNCHANGED resp
  <2>1. RequestOK' /\ WipesOK' /\ RunsOK' /\ SeedsOK'
    BY <1>1, <1>3 DEF SeedClrWait, RequestOK, WipesOK, RunsOK, SeedsOK, Clean, Running, Booting
  <2> QED BY <1>1, <1>3, <2>1, MovedOn, Places1 DEF SeedClrWait, TypesOK
<1> QED BY <1>1, <1>2, <1>3 DEF SeedClrWait, Wait

\* The clear: the core is not wiping, so the write is taken.
LEMMA SeedClrOK == ASSUME BInv, SeedClr PROVE BInv'
<1> USE DEF BInv
<1>1. /\ pc \in {"clrW", "undoW"} /\ Alive /\ req.c \in Cores /\ ~core[req.c].wiping
      /\ req.op \in SeedOps /\ hw \in BOOLEAN
  BY DEF SeedClr, TypesOK, ReqRec, RequestOK, WipesOK, Clean
<1>2. /\ fault' = (fault \/ ~hw) /\ fault' \in BOOLEAN
      /\ core' = IF hw THEN [core EXCEPT ![req.c].staged = <<>>] ELSE core
      /\ \/ Fail
         \/ ~fault' /\ pc' = "ta" /\ UNCHANGED resp
      /\ UNCHANGED <<vault, ta, kek, hw, hung, req, keys, held, env, leftVars, countVars>>
  BY <1>1 DEF SeedClr, TypesOK
<1>3. /\ core' \in [Cores -> CoreRec]
      /\ \A d \in Cores : /\ Alike(core[d], core'[d])
                          /\ core'[d].staged \in {core[d].staged, <<>>}
  BY <1>1, <1>2, PortCleared DEF TypesOK
<1>4. CASE Fail
  <2>1. pc' = "reply"
    BY <1>4, Fails
  <2>2. RunsOK' /\ SeedsOK'
    BY <1>1, <1>2, <1>3, <2>1, Initials, BoardAssumption DEF RunsOK, SeedsOK, Alike
  <2> QED BY <1>1, <1>2, <1>3, <1>4, <2>2, GivenUp, Places1 DEF TypesOK
<1>5. CASE ~fault' /\ pc' = "ta" /\ UNCHANGED resp
  <2>1. TypesOK'
    BY <1>2, <1>3, <1>5 DEF TypesOK, Places, Clean
  <2>2. RequestOK' /\ VaultOK' /\ TaOK'
    BY <1>1, <1>2, <1>5, Places1 DEF RequestOK, VaultOK, TaOK, Clean, Running, Connected, Places, Booting
  <2>3. WipesOK' /\ RunsOK'
    BY <1>1, <1>2, <1>3, <1>5 DEF WipesOK, RunsOK, Clean, Running, Booting, Alike
  <2>4. SeedsOK'
    BY <1>2, <1>3, <1>5, Initials, BoardAssumption DEF SeedsOK, Alike
  <2>5. ResultOK' /\ ReplyIsOwn' /\ NoInheritedSymKey' /\ DaemonNeverHangs'
    BY <1>2, <1>5 DEF ResultOK, ReplyIsOwn, NoInheritedSymKey, DaemonNeverHangs
  <2> QED BY <2>1, <2>2, <2>3, <2>4, <2>5
<1> QED BY <1>2, <1>4, <1>5

\* The call: none of its words is on the port yet.
LEMMA CallOK == ASSUME BInv, Call PROVE BInv'
<1> USE DEF BInv
<1>1. /\ pc = "ta" /\ Alive /\ req.c \in Cores /\ nseed \in Nat
      /\ req.op \in SeedOps \cup {"symgen", "symload"} /\ req.blob \in BlobRec
      /\ UNCHANGED <<core, vault, kek, hw, hung, req, resp, fault, keys, held, env, leftVars, outages, kills>>
      /\ pc' = "taWait"
  BY DEF Call, TypesOK, ReqRec, RequestOK
<1>2. /\ req.op \in SeedOps => req.h \in Handles /\ keys[req.c][req.h].blob \in BlobRec
      /\ req.op \notin SeedOps => req.h \in SymSlots
  BY <1>1 DEF RequestOK, SeedOps, SymOps, TypesOK, EntryRec
<1>3. /\ ta' \in TaRec /\ nseed' \in Nat /\ ta'.who = "daemon" /\ ta'.n = 0
      /\ ta'.cmd = CmdOf[req.op] /\ ta'.res \in {"push", "dry", "fail"}
      /\ ta'.tgt = IF req.op \in SeedOps THEN req.c ELSE req.h
      /\ req.op = "use" => ta'.seed = keys[req.c][req.h].blob.seed
  <2>1. CASE req.op = "keygen"
    BY <1>1, <2>1, Initials, CallBegins DEF Call, CmdOf, SeedOps, SeedCmds
  <2>2. CASE req.op = "use"
    BY <1>1, <1>2, <2>2, CallBegins DEF Call, CmdOf, SeedOps, SeedCmds
  <2>3. CASE req.op = "symgen"
    BY <1>1, <1>2, <2>3, Initials, CallBegins DEF Call, CmdOf, SeedOps, SymCmds
  <2>4. CASE req.op = "symload"
    BY <1>1, <1>2, <2>4, CallBegins DEF Call, CmdOf, SeedOps, SymCmds
  <2> QED BY <1>1, <2>1, <2>2, <2>3, <2>4 DEF SeedOps
<1>4. TypesOK'
  BY <1>1, <1>3 DEF TypesOK, Places, Clean
<1>5. RequestOK' /\ WipesOK' /\ RunsOK' /\ VaultOK'
  BY <1>1, Places1 DEF RequestOK, WipesOK, RunsOK, VaultOK, Clean, Running, Booting
<1>6. TaOK'
  <2>1. Pushed(core[req.c].staged)'
    <3>1. core[req.c].staged \in Seq(Nat)
      BY <1>1 DEF TypesOK, CoreRec
    <3> QED BY <1>1, <1>3, <3>1 DEF Pushed
  <2>2. CmdOf[req.op] # "SEED_TO_PL" /\ (CmdOf[req.op] \in SeedCmds <=> req.op \in SeedOps)
        /\ CmdOf[req.op] \in SeedCmds \cup SymCmds
    BY <1>1 DEF CmdOf, SeedOps, SeedCmds, SymCmds
  <2> QED BY <1>1, <1>2, <1>3, <2>1, <2>2 DEF TaOK
<1>7. SeedsOK' /\ ResultOK' /\ ReplyIsOwn' /\ NoInheritedSymKey' /\ DaemonNeverHangs'
  BY <1>1 DEF SeedsOK, ResultOK, ReplyIsOwn, NoInheritedSymKey, DaemonNeverHangs
<1> QED BY <1>4, <1>5, <1>6, <1>7

\* The application's answer ends the command, whatever the daemon makes of it.
LEMMA CalledTypes ==
  ASSUME BInv, Called
  PROVE  /\ pc = "taWait" /\ Alive /\ req.c \in Cores /\ ~fault /\ ta' = IdleTa
         /\ UNCHANGED <<core, vault, kek, hw, hung, req, fault, env, leftVars, countVars>>
         /\ req.op \in SeedOps \cup {"symgen", "symload"}
         /\ ta' \in TaRec /\ TaOK'
         /\ [kek |-> kek, kind |-> "sym", seed |-> ta.seed] \in BlobRec
         /\ [kek |-> kek, kind |-> req.c, seed |-> ta.seed] \in BlobRec
<1> USE DEF BInv
<1>1. kek \in {"none", "foreign", "fixed", "other"} /\ ta.seed \in Nat
  BY DEF TypesOK, TaRec
<1>2. req.c \in Cores
  BY DEF TypesOK, ReqRec
<1>3. /\ [kek |-> kek, kind |-> "sym", seed |-> ta.seed] \in BlobRec
      /\ [kek |-> kek, kind |-> req.c, seed |-> ta.seed] \in BlobRec
  BY <1>1, <1>2 DEF BlobRec
<1>4. ta' = IdleTa
  BY DEF Called
<1>5. TaOK'
  BY <1>4 DEF TaOK, IdleTa
<1>6. pc = "taWait" /\ ~fault /\ req.op \in SeedOps \cup {"symgen", "symload"}
  BY DEF Called, RequestOK, Clean
<1> QED BY <1>2, <1>3, <1>4, <1>5, <1>6, Initials DEF Called

\* A complete seed is on the port, and it is the one the blob of the handle holds.
LEMMA CalledSeedOK ==
  ASSUME BInv, Called, req.op \in SeedOps, ta.res = "ok"
  PROVE  BInv'
<1> USE DEF BInv
<1> DEFINE c == req.c
           h == req.h
           sealed == [kek |-> kek, kind |-> c, seed |-> ta.seed]
<1>1. /\ pc = "taWait" /\ Alive /\ c \in Cores /\ ~fault /\ h \in Handles
      /\ UNCHANGED <<core, vault, kek, hw, hung, req, fault, env, leftVars, countVars>>
      /\ ta' \in TaRec /\ TaOK' /\ sealed \in BlobRec
  BY CalledTypes DEF RequestOK, SeedOps, SymOps
<1>2. /\ pc' = IF c = "mlkem" THEN "exp" ELSE "mode"
      /\ UNCHANGED <<resp, held>>
      /\ keys' = IF req.op = "use" THEN keys ELSE [keys EXCEPT ![c][h].blob = sealed]
  BY DEF Called, SeedInstalled, SeedOps
<1>3. sealed.seed = ta.seed
  OBVIOUS
<1> HIDE DEF sealed
<1>4. keys' \in [Cores -> [Handles -> EntryRec]] /\ keys'[c][h].blob.seed = ta.seed
  <2>1. CASE req.op = "use"
    BY <1>1, <1>2, <2>1 DEF TypesOK, TaOK, CmdOf, SeedOps, Called
  <2>2. CASE req.op = "keygen"
    <3> DEFINE e == [keys[c][h] EXCEPT !.blob = sealed]
    <3>1. keys[c][h] \in EntryRec
      BY <1>1 DEF TypesOK
    <3>2. e \in EntryRec /\ e.blob = sealed
      BY <1>1, <3>1 DEF EntryRec
    <3>3. keys' = [keys EXCEPT ![c][h] = e]
      BY <1>2, <2>2
    <3> HIDE DEF e
    <3>4. keys' \in [Cores -> [Handles -> EntryRec]] /\ keys'[c][h] = e
      BY <1>1, <3>2, <3>3 DEF TypesOK
    <3> QED BY <1>3, <3>2, <3>4
  <2> QED BY <2>1, <2>2 DEF SeedOps
<1>5. Whole(core[c].staged, ta.seed)
  <2>1. core[c].staged \in Seq(Nat) /\ Len(core[c].staged) <= Words /\ Words \in Nat
    BY <1>1, BoardAssumption DEF TypesOK, CoreRec, SeedsOK
  <2>2. ta.cmd # "SEED_TO_PL"
    BY <1>1 DEF Called, TaOK
  <2>3. Pushed(core[c].staged)
    BY <2>2 DEF Called, TaOK
  <2>4. Len(core[c].staged) = Words /\ ta.n = Words /\ Len(core[c].staged) \in Nat
    BY <2>1, <2>3 DEF Pushed
  <2> QED BY <2>1, <2>3, <2>4 DEF Pushed, Whole
<1>6. TypesOK'
  BY <1>1, <1>2, <1>4 DEF TypesOK, Places, Running
<1>7. RequestOK' /\ VaultOK'
  BY <1>1, <1>2, Places1 DEF RequestOK, VaultOK, Clean, Running, CoreOps, SeedOps
<1>8. WipesOK' /\ RunsOK'
  BY <1>1, <1>2 DEF WipesOK, RunsOK, Clean, Running, Booting
<1>9. SeedsOK'
  BY <1>1, <1>2, <1>4, <1>5 DEF SeedsOK
<1>10. ResultOK' /\ ReplyIsOwn' /\ NoInheritedSymKey' /\ DaemonNeverHangs'
  BY <1>1, <1>2 DEF ResultOK, ReplyIsOwn, NoInheritedSymKey, DaemonNeverHangs
<1> QED BY <1>1, <1>6, <1>7, <1>8, <1>9, <1>10

\* Every answer of the application.
LEMMA CalledOK == ASSUME BInv, Called PROVE BInv'
<1> USE DEF BInv
<1>1. /\ pc = "taWait" /\ Alive /\ req.c \in Cores /\ ~fault
      /\ UNCHANGED <<core, vault, kek, hw, hung, req, fault, env, leftVars, countVars>>
      /\ req.op \in SeedOps \cup {"symgen", "symload"}
      /\ ta' \in TaRec /\ TaOK'
      /\ [kek |-> kek, kind |-> "sym", seed |-> ta.seed] \in BlobRec
  BY CalledTypes
<1>2. CASE req.op \in SeedOps /\ ta.res = "ok"
  BY <1>2, CalledSeedOK
<1>3. CASE req.op \in SeedOps /\ ta.res # "ok"
  <2>1. pc' = "undo" /\ UNCHANGED <<resp, keys, held>>
    BY <1>3 DEF Called, SeedInstalled, SeedOps
  <2>2. TypesOK'
    BY <1>1, <2>1 DEF TypesOK, Places, Clean
  <2>3. RequestOK' /\ VaultOK' /\ WipesOK' /\ RunsOK'
    BY <1>1, <1>3, <2>1, Places1 DEF RequestOK, VaultOK, WipesOK, RunsOK, Clean, Running, Booting
  <2>4. SeedsOK' /\ ResultOK' /\ ReplyIsOwn' /\ NoInheritedSymKey' /\ DaemonNeverHangs'
    BY <1>1, <2>1 DEF SeedsOK, ResultOK, ReplyIsOwn, NoInheritedSymKey, DaemonNeverHangs
  <2> QED BY <1>1, <2>2, <2>3, <2>4
<1>4. CASE req.op \in {"symgen", "symload"}
  <2>1. /\ held' \in {held, held \cup {[kek |-> kek, kind |-> "sym", seed |-> ta.seed]}}
        /\ UNCHANGED keys
        /\ \E st \in {"OK", "HARDFAIL", "KEYNOTEXIST"} : Return(st, NoOut)
    BY <1>4 DEF Called
  <2>2. pc' = "reply" /\ resp' \in RespRec
    BY <2>1, Initials, Answers
  <2>3. TypesOK'
    BY <1>1, <2>1, <2>2 DEF TypesOK, Places
  <2>4. RequestOK' /\ VaultOK' /\ WipesOK' /\ RunsOK'
    BY <1>1, <2>2, Places1 DEF RequestOK, VaultOK, WipesOK, RunsOK, Clean, Running, Booting
  <2>5. SeedsOK' /\ ResultOK' /\ DaemonNeverHangs'
    BY <1>1, <2>2 DEF SeedsOK, ResultOK, DaemonNeverHangs
  <2>6. ReplyIsOwn' /\ NoInheritedSymKey'
    BY <1>1, <1>4 DEF ReplyIsOwn, CoreOps, NoInheritedSymKey
  <2> QED BY <1>1, <2>3, <2>4, <2>5, <2>6
<1> QED BY <1>1, <1>2, <1>3, <1>4
-----------------------------------------------------------------------------
(* The run.                                                                *)

\* What is known of a core while the daemon starts a run on it.
LEMMA Serving ==
  ASSUME BInv, pc \in Running
  PROVE  /\ req.c \in Cores /\ core \in [Cores -> CoreRec] /\ core[req.c] \in CoreRec
         /\ ~core[req.c].wiping /\ req.op \in CoreOps /\ req.h \in Handles
         /\ hw \in BOOLEAN /\ fault \in BOOLEAN
BY DEF BInv, TypesOK, RequestOK, WipesOK, ReqRec, CoreOps, SymOps

\* The wait for the expansion area.
LEMMA WaitExpIdleOK == ASSUME BInv, WaitExpIdle PROVE BInv'
<1> USE DEF BInv
<1>1. fault' \in BOOLEAN /\ pc = "exp" /\ Alive
  BY DEF WaitExpIdle, Wait, TypesOK
<1>2. CASE Fail
  BY <1>1, <1>2, GivenUpQuietly, Places1 DEF WaitExpIdle
<1>3. CASE ~fault' /\ ~fault /\ pc' = (IF req.c = "mlkem" THEN "mode" ELSE "feed") /\ UNCHANGED resp
  <2>1. RequestOK' /\ WipesOK' /\ RunsOK' /\ SeedsOK'
    BY <1>1, <1>3 DEF WaitExpIdle, RequestOK, WipesOK, RunsOK, SeedsOK, Clean, Running, Booting
  <2> QED BY <1>1, <1>3, <2>1, MovedOn, Places1 DEF WaitExpIdle, TypesOK
<1> QED BY <1>1, <1>2, <1>3, Serving DEF WaitExpIdle, Wait, Running

\* MODE: a run that goes on in another mode is one the daemon gave up on.
LEMMA WriteModeOK == ASSUME BInv, WriteMode PROVE BInv'
<1> USE DEF BInv
<1> DEFINE c == req.c
<1>1. /\ c \in Cores /\ core[c] \in CoreRec /\ core \in [Cores -> CoreRec] /\ ~core[c].wiping
      /\ req.op \in CoreOps /\ hw \in BOOLEAN /\ fault \in BOOLEAN /\ pc = "mode" /\ Alive
  BY Serving DEF WriteMode, Running
<1>2. core[c].busy => c \in late
  BY <1>1 DEF RunsOK
<1>3. CASE hw /\ c = "mldsa" /\ core[c].busy /\ Hang("daemon")
  BY <1>2, <1>3, HangOK
<1>4. CASE /\ hw => ~(c = "mldsa" /\ core[c].busy)
           /\ fault' = (fault \/ ~hw)
           /\ core' = IF hw /\ core[c].busy /\ core[c].job.op # req.op
                      THEN [core EXCEPT ![c].job.op = "mixed"] ELSE core
           /\ pc' = IF c = "mlkem" THEN "feed" ELSE "exp"
           /\ UNCHANGED <<vault, ta, kek, hw, hung, req, resp, keys, held, env, leftVars, countVars>>
  <2>1. /\ core' \in [Cores -> CoreRec]
        /\ \A d \in Cores : /\ core'[d].busy = core[d].busy /\ core'[d].out = core[d].out
                            /\ core'[d].wiping = core[d].wiping /\ core'[d].staged = core[d].staged
                            /\ core'[d].job.key = core[d].job.key /\ core'[d].job.sure = core[d].job.sure
    <3>1. CASE core' = core
      BY <1>1, <3>1
    <3>2. CASE core' = [core EXCEPT ![c].job.op = "mixed"]
      <4> DEFINE q == [core[c] EXCEPT !.job.op = "mixed"]
      <4>1. core' = [core EXCEPT ![c] = q]
        BY <3>2
      <4>2. /\ q \in CoreRec /\ q.busy = core[c].busy /\ q.out = core[c].out
            /\ q.wiping = core[c].wiping /\ q.staged = core[c].staged
            /\ q.job.key = core[c].job.key /\ q.job.sure = core[c].job.sure
        BY <1>1 DEF CoreRec, OutRec, Ops
      <4> HIDE DEF q
      <4>3. core' \in [Cores -> CoreRec] /\ core'[c] = q /\ \A d \in Cores \ {c} : core'[d] = core[d]
        BY <1>1, <4>1, <4>2, OneCore
      <4> QED BY <4>2, <4>3
    <3> QED BY <1>4, <3>1, <3>2
  <2>2. TypesOK'
    BY <1>1, <1>4, <2>1 DEF TypesOK, Places, Running
  <2>3. RequestOK' /\ WipesOK'
    BY <1>1, <1>4, <2>1 DEF RequestOK, WipesOK, Clean, Running, Booting
  <2>4. RunsOK'
    BY <1>1, <1>2, <1>4, <2>1 DEF RunsOK
  <2>5. VaultOK' /\ TaOK'
    BY <1>1, <1>4, Places1 DEF VaultOK, TaOK
  <2>6. SeedsOK'
    BY <1>1, <1>4, <2>1 DEF SeedsOK, Pure
  <2>7. ResultOK' /\ ReplyIsOwn' /\ NoInheritedSymKey' /\ DaemonNeverHangs'
    BY <1>1, <1>4 DEF ResultOK, ReplyIsOwn, NoInheritedSymKey, DaemonNeverHangs
  <2> QED BY <2>2, <2>3, <2>4, <2>5, <2>6, <2>7
<1> QED BY <1>1, <1>3, <1>4 DEF WriteMode

\* The input.
LEMMA FeedOK == ASSUME BInv, Feed PROVE BInv'
<1> USE DEF BInv
<1> DEFINE c == req.c
<1>1. /\ c \in Cores /\ core[c] \in CoreRec /\ core \in [Cores -> CoreRec] /\ ~core[c].wiping
      /\ req.op \in CoreOps /\ hw \in BOOLEAN /\ fault \in BOOLEAN /\ pc = "feed" /\ Alive
  BY Serving DEF Feed, Running
<1>2. c = "mldsa" => ~core[c].busy /\ ~fault
  BY <1>1 DEF RunsOK
<1>3. /\ fault' = (fault \/ ~hw) /\ fault' \in BOOLEAN
      /\ \/ core' = core
         \/ core' = [core EXCEPT ![c].out = NoOut, ![c].refused = FALSE]
      /\ \/ Fail
         \/ pc' = "start" /\ UNCHANGED resp
      /\ UNCHANGED <<vault, ta, kek, hw, hung, req, keys, held, env, leftVars, countVars>>
  BY <1>1, <1>2 DEF Feed
<1>4. /\ core' \in [Cores -> CoreRec]
      /\ \A d \in Cores : /\ core'[d].busy = core[d].busy /\ core'[d].job = core[d].job
                          /\ core'[d].wiping = core[d].wiping /\ core'[d].staged = core[d].staged
                          /\ core'[d].out \in {core[d].out, NoOut}
  <2>1. CASE core' = core
    BY <1>1, <2>1
  <2>2. CASE core' = [core EXCEPT ![c].out = NoOut, ![c].refused = FALSE]
    <3> DEFINE q == [core[c] EXCEPT !.out = NoOut, !.refused = FALSE]
    <3>1. core' = [core EXCEPT ![c] = q]
      BY <2>2
    <3>2. /\ q \in CoreRec /\ q.busy = core[c].busy /\ q.job = core[c].job
          /\ q.wiping = core[c].wiping /\ q.staged = core[c].staged /\ q.out = NoOut
      BY <1>1, Initials DEF CoreRec
    <3> HIDE DEF q
    <3>3. core' \in [Cores -> CoreRec] /\ core'[c] = q /\ \A d \in Cores \ {c} : core'[d] = core[d]
      BY <1>1, <3>1, <3>2, OneCore
    <3> QED BY <3>2, <3>3
  <2> QED BY <1>3, <2>1, <2>2
<1>5. \A d \in Cores : /\ Len(core'[d].staged) <= Words
                       /\ Pure(core'[d].job) /\ Pure(core'[d].out)
  BY <1>4, Initials DEF SeedsOK
<1>6. CASE Fail
  <2>1. pc' = "reply"
    BY <1>6, Fails
  <2>2. RunsOK' /\ SeedsOK'
    BY <1>1, <1>3, <1>4, <1>5, <2>1 DEF RunsOK, SeedsOK
  <2> QED BY <1>1, <1>3, <1>4, <1>6, <2>2, GivenUp, Places1 DEF TypesOK
<1>7. CASE pc' = "start" /\ UNCHANGED resp
  <2>1. TypesOK'
    BY <1>1, <1>3, <1>4, <1>7 DEF TypesOK, Places, Running
  <2>2. RequestOK' /\ WipesOK'
    BY <1>1, <1>3, <1>4, <1>7 DEF RequestOK, WipesOK, Clean, Running, Booting
  <2>3. RunsOK'
    BY <1>1, <1>2, <1>3, <1>4, <1>7 DEF RunsOK
  <2>4. VaultOK' /\ TaOK'
    BY <1>1, <1>3, <1>7, Places1 DEF VaultOK, TaOK
  <2>5. SeedsOK'
    BY <1>1, <1>3, <1>4, <1>5, <1>7 DEF SeedsOK
  <2>6. ResultOK' /\ ReplyIsOwn' /\ NoInheritedSymKey' /\ DaemonNeverHangs'
    BY <1>1, <1>3, <1>7 DEF ResultOK, ReplyIsOwn, NoInheritedSymKey, DaemonNeverHangs
  <2> QED BY <2>1, <2>2, <2>3, <2>4, <2>5, <2>6
<1> QED BY <1>3, <1>6, <1>7

\* What START does to the core: nothing, a refusal, or a run; with no access failed, the
\* run this request asked for with the seed of its handle.
LEMMA StartEffect ==
  ASSUME BInv, Start, hw => ~core[req.c].wiping
  PROVE  /\ core' \in [Cores -> CoreRec]
         /\ \A d \in Cores \ {req.c} : core'[d] = core[d]
         /\ core'[req.c].wiping = core[req.c].wiping
         /\ Len(core'[req.c].staged) <= Words
         /\ Pure(core'[req.c].job) /\ Pure(core'[req.c].out)
         /\ \/ core' = core /\ (hw => core[req.c].busy)
            \/ ~core'[req.c].busy /\ core'[req.c].refused
            \/ hw /\ core'[req.c].busy /\ (~fault => Own(core'[req.c].job))
<1> USE DEF BInv
<1> DEFINE c == req.c
           k == core[c]
           refusing == [k EXCEPT !.refused = TRUE, !.out = NoOut]
           job(op) == [op |-> op, mine |-> TRUE, sure |-> ~fault,
                       key |-> IF op \in SeedOps THEN k.staged ELSE <<>>]
           rest(op) == IF op \in SeedOps THEN <<>> ELSE k.staged
           running(op) == [k EXCEPT !.refused = FALSE, !.out = NoOut, !.busy = TRUE,
                                    !.job = job(op), !.staged = rest(op)]
<1>1. /\ c \in Cores /\ k \in CoreRec /\ core \in [Cores -> CoreRec] /\ ~k.wiping
      /\ req.op \in CoreOps /\ hw \in BOOLEAN /\ fault \in BOOLEAN /\ pc = "start"
  BY Serving DEF Start, Running
<1>2. /\ Len(k.staged) <= Words /\ k.staged \in Seq(Nat) /\ Pure(k.job) /\ Pure(k.out)
      /\ 0 <= Words
  BY <1>1, BoardAssumption DEF SeedsOK, CoreRec
<1>3. /\ NoOut \in OutRec /\ Pure(NoOut) /\ OneSeed(<<>>) /\ Len(<<>>) = 0
      /\ <<>> \in Seq(Nat)
  BY Initials
<1>4. \/ core' = core /\ (hw => k.busy)
      \/ hw /\ ~k.busy /\ core' = [core EXCEPT ![c] = refusing]
      \/ /\ hw /\ ~k.busy
         /\ \E op \in CoreOps : /\ fault \/ op = req.op
                                /\ core' = [core EXCEPT ![c] = running(op)]
  <2>1. ~(hw /\ k.wiping)
    BY <1>1
  <2>2. CASE core' = core /\ (hw => k.busy)
    BY <2>2
  <2>3. CASE hw /\ ~k.busy /\ core' = [core EXCEPT ![c].refused = TRUE, ![c].out = NoOut]
    BY <1>1, <2>3
  <2>4. ASSUME NEW op \in CoreOps, fault \/ op = req.op, hw, ~k.busy,
               core' = [core EXCEPT ![c].refused = FALSE, ![c].out = NoOut, ![c].busy = TRUE,
                          ![c].job = job(op), ![c].staged = IF op \in SeedOps THEN <<>> ELSE @]
        PROVE  core' = [core EXCEPT ![c] = running(op)]
    BY <1>1, <2>4
  <2> QED BY <1>1, <2>1, <2>2, <2>3, <2>4 DEF Start
<1>5. CASE core' = core /\ (hw => k.busy)
  BY <1>1, <1>2, <1>5
<1>6. CASE hw /\ ~k.busy /\ core' = [core EXCEPT ![c] = refusing]
  <2>1. /\ refusing \in CoreRec /\ refusing.busy = k.busy /\ refusing.refused = TRUE
        /\ refusing.out = NoOut /\ refusing.job = k.job /\ refusing.staged = k.staged
        /\ refusing.wiping = k.wiping
    BY <1>1, <1>3 DEF CoreRec
  <2> HIDE DEF refusing
  <2>2. /\ core' \in [Cores -> CoreRec] /\ core'[c] = refusing
        /\ \A d \in Cores \ {c} : core'[d] = core[d]
    BY <1>1, <1>6, <2>1, OneCore
  <2> QED BY <1>2, <1>3, <1>6, <2>1, <2>2
<1>7. ASSUME NEW op \in CoreOps, hw, ~k.busy, fault \/ op = req.op,
             core' = [core EXCEPT ![c] = running(op)]
      PROVE  /\ core' \in [Cores -> CoreRec]
             /\ \A d \in Cores \ {c} : core'[d] = core[d]
             /\ core'[c].wiping = k.wiping /\ Len(core'[c].staged) <= Words
             /\ Pure(core'[c].job) /\ Pure(core'[c].out)
             /\ core'[c].busy /\ (~fault => Own(core'[c].job))
  <2> DEFINE j == job(op)
             st == rest(op)
             q == running(op)
  <2>1. /\ j \in OutRec /\ j.op = op /\ j.mine = TRUE /\ j.sure = ~fault
        /\ j.key = IF op \in SeedOps THEN k.staged ELSE <<>>
    BY <1>1, <1>2, <1>3 DEF OutRec, Ops, CoreOps, Requestable
  <2>2. ~fault /\ op \in SeedOps => Whole(k.staged, keys[c][req.h].blob.seed)
    BY <1>1, <1>7 DEF SeedsOK
  <2>3. ~fault => Own(j)
    BY <1>1, <1>7, <2>1, <2>2 DEF Own, CoreOps, SeedOps
  <2>4. Pure(j)
    <3>1. CASE ~fault /\ op \in SeedOps
      <4>1. DOMAIN k.staged = 1 .. Words
        BY <1>2, <2>2, <3>1 DEF Whole
      <4> QED BY <2>1, <2>2, <3>1, <4>1 DEF Whole, OneSeed, Pure
    <3>2. CASE op \notin SeedOps
      BY <1>3, <2>1, <3>2 DEF Pure
    <3>3. CASE fault
      BY <2>1, <3>3 DEF Pure
    <3> QED BY <3>1, <3>2, <3>3
  <2>5. st \in Seq(Nat) /\ Len(st) <= Words
    BY <1>2, <1>3
  <2>6. q = [k EXCEPT !.refused = FALSE, !.out = NoOut, !.busy = TRUE, !.job = j, !.staged = st]
    OBVIOUS
  <2>7. core' = [core EXCEPT ![c] = q]
    BY <1>7
  <2> HIDE DEF j, st, q
  <2>8. /\ q \in CoreRec /\ q.busy = TRUE /\ q.job = j /\ q.out = NoOut
        /\ q.wiping = k.wiping /\ q.staged = st
    BY <1>1, <1>3, <2>1, <2>5, <2>6 DEF CoreRec
  <2>9. /\ core' \in [Cores -> CoreRec] /\ core'[c] = q
        /\ \A d \in Cores \ {c} : core'[d] = core[d]
    BY <1>1, <2>7, <2>8, OneCore
  <2> QED BY <1>3, <2>3, <2>4, <2>5, <2>8, <2>9
<1> QED BY <1>4, <1>5, <1>6, <1>7

\* START.
LEMMA StartOK == ASSUME BInv, Start PROVE BInv'
<1> USE DEF BInv
<1> DEFINE c == req.c
<1>1. /\ c \in Cores /\ core[c] \in CoreRec /\ ~core[c].wiping
      /\ req.op \in CoreOps /\ hw \in BOOLEAN /\ fault \in BOOLEAN /\ pc = "start" /\ Alive
  BY Serving DEF Start, Running
<1>2. /\ fault' = (fault \/ ~hw) /\ pc' = "poll"
      /\ UNCHANGED <<vault, ta, kek, hw, hung, req, resp, keys, held, env, leftVars, countVars>>
  BY <1>1 DEF Start
<1>3. /\ core' \in [Cores -> CoreRec]
      /\ \A d \in Cores \ {c} : core'[d] = core[d]
      /\ core'[c].wiping = core[c].wiping
      /\ Len(core'[c].staged) <= Words /\ Pure(core'[c].job) /\ Pure(core'[c].out)
      /\ \/ core' = core /\ (hw => core[c].busy)
         \/ ~core'[c].busy /\ core'[c].refused
         \/ hw /\ core'[c].busy /\ (~fault => Own(core'[c].job))
  BY <1>1, StartEffect
<1>4. TypesOK'
  BY <1>1, <1>2, <1>3 DEF TypesOK, Places, Running
<1>5. RequestOK' /\ WipesOK'
  BY <1>1, <1>2, <1>3 DEF RequestOK, WipesOK, Clean, Running, Booting
<1>6. RunsOK'
  BY <1>1, <1>2, <1>3 DEF RunsOK
<1>7. VaultOK' /\ TaOK'
  BY <1>1, <1>2, Places1 DEF VaultOK, TaOK
<1>8. SeedsOK'
  BY <1>1, <1>2, <1>3 DEF SeedsOK
<1>9. ResultOK'
  <2> SUFFICES ASSUME ~fault', "mlkem" \notin late
               PROVE  /\ core'[c].busy => Own(core'[c].job)
                      /\ ~core'[c].busy => core'[c].refused
    BY <1>2 DEF ResultOK, Own
  <2>1. hw /\ ~fault
    BY <1>1, <1>2
  <2>2. ~core[c].busy
    BY <1>1, <2>1 DEF RunsOK, Cores
  <2> QED BY <1>1, <1>3, <2>1, <2>2
<1>10. ReplyIsOwn' /\ NoInheritedSymKey' /\ DaemonNeverHangs'
  BY <1>1, <1>2 DEF ReplyIsOwn, NoInheritedSymKey, DaemonNeverHangs
<1> QED BY <1>4, <1>5, <1>6, <1>7, <1>8, <1>9, <1>10

\* The wait for DONE: a run the daemon leaves behind is one it gave up on.
LEMMA PollOK == ASSUME BInv, Poll PROVE BInv'
<1> USE DEF BInv
<1> DEFINE c == req.c
<1>1. /\ c \in Cores /\ core[c] \in CoreRec /\ pc = "poll" /\ Alive /\ hw \in BOOLEAN
      /\ fault \in BOOLEAN /\ fault' = (fault \/ ~hw) /\ fault' \in BOOLEAN /\ late \subseteq Cores
      /\ UNCHANGED <<boardVars, req, keys, held, env, unwiped, countVars>>
  BY Serving DEF Poll, Running, TypesOK
<1>2. CASE GiveUp(c)
  <2>1. /\ Fail /\ pc' = "reply" /\ late' \subseteq Cores /\ late \subseteq late'
        /\ core[c].busy => c \in late'
    BY <1>1, <1>2, Fails DEF GiveUp
  <2>2. RunsOK' /\ SeedsOK'
    BY <1>1, <2>1 DEF RunsOK, SeedsOK
  <2> QED BY <1>1, <2>1, <2>2, GivenUp, Places1 DEF TypesOK
<1>3. CASE /\ hw /\ ~core[c].busy /\ ~core[c].refused /\ core[c].out # NoOut
           /\ pc' = "drain" /\ UNCHANGED <<late, resp>>
  <2>1. TypesOK'
    BY <1>1, <1>3 DEF TypesOK, Places, Running
  <2>2. RequestOK' /\ WipesOK' /\ RunsOK'
    BY <1>1, <1>3 DEF RequestOK, WipesOK, RunsOK, Clean, Running, Booting
  <2>3. VaultOK' /\ TaOK' /\ SeedsOK'
    BY <1>1, <1>3, Places1 DEF VaultOK, TaOK, SeedsOK
  <2>4. ResultOK'
    BY <1>1, <1>3 DEF ResultOK, Own
  <2>5. ReplyIsOwn' /\ NoInheritedSymKey' /\ DaemonNeverHangs'
    BY <1>1, <1>3 DEF ReplyIsOwn, NoInheritedSymKey, DaemonNeverHangs
  <2> QED BY <2>1, <2>2, <2>3, <2>4, <2>5
<1>4. CASE ~hw /\ pc' = "poll" /\ UNCHANGED <<late, resp>>
  <2>1. TypesOK'
    BY <1>1, <1>4 DEF TypesOK, Places, Running
  <2>2. RequestOK' /\ WipesOK' /\ RunsOK'
    BY <1>1, <1>4 DEF RequestOK, WipesOK, RunsOK, Clean, Running, Booting
  <2>3. VaultOK' /\ TaOK' /\ SeedsOK'
    BY <1>1, <1>4, Places1 DEF VaultOK, TaOK, SeedsOK
  <2>4. ResultOK' /\ ReplyIsOwn' /\ NoInheritedSymKey' /\ DaemonNeverHangs'
    BY <1>1, <1>4 DEF ResultOK, ReplyIsOwn, NoInheritedSymKey, DaemonNeverHangs
  <2> QED BY <2>1, <2>2, <2>3, <2>4
<1> QED BY <1>1, <1>2, <1>3, <1>4 DEF Poll, ReadStatus, Finished

\* The result is read.
LEMMA DrainOK == ASSUME BInv, Drain PROVE BInv'
<1> USE DEF BInv
<1> DEFINE c == req.c
           h == req.h
           keep == IF req.op = "keygen" THEN [keys EXCEPT ![c][h].used = TRUE] ELSE keys
<1>1. /\ c \in Cores /\ core[c] \in CoreRec /\ req.op \in CoreOps /\ h \in Handles
      /\ pc = "drain" /\ Alive /\ hw \in BOOLEAN /\ fault \in BOOLEAN
      /\ UNCHANGED <<boardVars, req, held, env, leftVars, countVars>>
  BY Serving DEF Drain, Running
<1>2. /\ fault' \in BOOLEAN /\ keys' \in {keys, keep}
      /\ \/ Fail
         \/ hw /\ fault' = fault /\ Return("OK", core[c].out)
         \/ fault' /\ Return("OK", NoOut)
  BY <1>1 DEF Drain
<1>3. keep \in [Cores -> [Handles -> EntryRec]] /\ keep[c][h].blob = keys[c][h].blob
  <2>1. CASE req.op = "keygen"
    <3> DEFINE e == [keys[c][h] EXCEPT !.used = TRUE]
    <3>1. keys[c][h] \in EntryRec
      BY <1>1 DEF TypesOK
    <3>2. e \in EntryRec /\ e.blob = keys[c][h].blob
      BY <3>1 DEF EntryRec
    <3>3. keep = [keys EXCEPT ![c][h] = e]
      BY <2>1
    <3> HIDE DEF e, keep
    <3> QED BY <1>1, <3>2, <3>3 DEF TypesOK
  <2>2. CASE req.op # "keygen"
    BY <2>2 DEF TypesOK
  <2> QED BY <2>1, <2>2
<1> HIDE DEF keep
<1>4. keys' \in [Cores -> [Handles -> EntryRec]] /\ keys'[c][h].blob = keys[c][h].blob
  BY <1>2, <1>3 DEF TypesOK
<1>5. core[c].out \in OutRec
  BY <1>1 DEF CoreRec
<1>6. /\ pc' = "reply" /\ resp' \in RespRec
      /\ resp'.st = "OK" => hw /\ ~fault' /\ ~fault /\ resp'.out = core[c].out
  BY <1>1, <1>2, <1>5, Initials, Fails, Answers
<1>7. RequestOK' /\ RunsOK' /\ SeedsOK'
  BY <1>1, <1>6 DEF RequestOK, RunsOK, SeedsOK, Clean, Running
<1>8. ReplyIsOwn'
  <2> SUFFICES ASSUME resp'.st = "OK", "mlkem" \notin late
               PROVE  /\ core[c].out.op = req.op /\ core[c].out.mine
                      /\ req.op # "pub" =>
                           /\ Len(core[c].out.key) = Words
                           /\ \A i \in 1 .. Words : core[c].out.key[i] = keys'[c][h].blob.seed
    BY <1>1, <1>6 DEF ReplyIsOwn
  <2>1. Own(core[c].out)
    BY <1>1, <1>6 DEF ResultOK
  <2> QED BY <1>4, <2>1 DEF Own, Whole
<1>9. NoInheritedSymKey'
  BY <1>1 DEF NoInheritedSymKey, CoreOps
<1> QED BY <1>1, <1>2, <1>4, <1>6, <1>7, <1>8, <1>9, Replied, Places1 DEF TypesOK

\* The answer goes out.
LEMMA ReplyOK == ASSUME BInv, Reply PROVE BInv'
<1> USE DEF BInv, Reply
<1>1. pc' \in {"recv", "end"}
  OBVIOUS
<1>2. TypesOK'
  BY <1>1, Initials, Places1 DEF TypesOK, Places, Ending
<1>3. RequestOK'
  BY <1>1, Initials DEF RequestOK, NoReq, Clean, Running, SymOps
<1>4. WipesOK' /\ RunsOK' /\ VaultOK'
  BY <1>1, Places1 DEF WipesOK, RunsOK, VaultOK, Clean, Running, Booting
<1>5. TaOK' /\ SeedsOK' /\ ResultOK'
  BY <1>1 DEF TaOK, SeedsOK, ResultOK
<1>6. ReplyIsOwn' /\ NoInheritedSymKey' /\ DaemonNeverHangs'
  BY <1>1 DEF ReplyIsOwn, NoInheritedSymKey, DaemonNeverHangs
<1> QED BY <1>2, <1>3, <1>4, <1>5, <1>6
-----------------------------------------------------------------------------
(* The end of a connection, and of the daemon.                             *)

\* The tables are emptied, and the wait before the first ZEROIZE.
LEMMA EndKeysOK == ASSUME BInv, EndKeys PROVE BInv'
<1> USE DEF BInv
<1>1. /\ pc = "end" /\ Alive /\ fault' \in BOOLEAN /\ keys' = NoKeys
      /\ pc' \in {"zeroK", "endD"} /\ (pc' = "zeroK" => ~core["mlkem"].wiping)
      /\ UNCHANGED <<boardVars, req, resp, held, env, leftVars, countVars>>
  BY DEF EndKeys, Wait, TypesOK
<1>2. TypesOK'
  BY <1>1, Initials DEF TypesOK, Places, Ending
<1>3. RequestOK' /\ WipesOK' /\ RunsOK' /\ VaultOK'
  BY <1>1, Places1 DEF RequestOK, WipesOK, RunsOK, VaultOK, Clean, Running, Booting
<1>4. TaOK' /\ SeedsOK' /\ ResultOK'
  BY <1>1 DEF TaOK, SeedsOK, ResultOK
<1>5. ReplyIsOwn' /\ NoInheritedSymKey' /\ DaemonNeverHangs'
  BY <1>1 DEF ReplyIsOwn, NoInheritedSymKey, DaemonNeverHangs
<1> QED BY <1>2, <1>3, <1>4, <1>5

\* The wait before the second.
LEMMA EndWaitDsaOK == ASSUME BInv, EndWaitDsa PROVE BInv'
<1> USE DEF BInv
<1>1. /\ pc = "endD" /\ Alive /\ fault' \in BOOLEAN
      /\ pc' \in {"zeroD", "endS"} /\ (pc' = "zeroD" => ~core["mldsa"].wiping)
      /\ UNCHANGED <<boardVars, req, resp, keys, held, env, leftVars, countVars>>
  BY DEF EndWaitDsa, Wait, TypesOK
<1>2. RequestOK' /\ WipesOK' /\ RunsOK' /\ SeedsOK'
  BY <1>1 DEF RequestOK, WipesOK, RunsOK, SeedsOK, Clean, Running, Booting
<1> QED BY <1>1, <1>2, MovedOn, Places1 DEF TypesOK

\* ZEROIZE.
LEMMA EndZeroizeOK == ASSUME BInv, NEW c \in Cores, EndZeroize(c) PROVE BInv'
<1> USE DEF BInv
<1>1. /\ pc \in {"zeroK", "zeroD"} /\ Alive /\ ~core[c].wiping /\ hw \in BOOLEAN
      /\ core \in [Cores -> CoreRec]
  BY DEF EndZeroize, WipesOK, TypesOK, Cores
<1>2. /\ fault' = (fault \/ ~hw) /\ fault' \in BOOLEAN
      /\ core' = IF hw THEN [core EXCEPT ![c] = [ResetCore EXCEPT !.wiping = TRUE]] ELSE core
      /\ late' = IF hw THEN late \ {c} ELSE late
      /\ pc' \in {"endD", "endS"}
      /\ UNCHANGED <<vault, ta, kek, hw, hung, req, resp, keys, held, env, unwiped, countVars>>
  BY <1>1 DEF EndZeroize, TypesOK
<1>3. /\ core' \in [Cores -> CoreRec] /\ late' \subseteq Cores
      /\ \A d \in Cores : /\ core'[d].busy => core[d].busy /\ (d \in late => d \in late')
                          /\ Len(core'[d].staged) <= Words
                          /\ Pure(core'[d].job) /\ Pure(core'[d].out)
  <2>1. CASE ~hw
    BY <1>1, <1>2, <2>1 DEF SeedsOK, TypesOK
  <2>2. CASE hw
    <3> DEFINE q == [ResetCore EXCEPT !.wiping = TRUE]
    <3>1. /\ q \in CoreRec /\ q.busy = FALSE /\ q.staged = <<>> /\ q.job = NoOut /\ q.out = NoOut
      BY Initials DEF ResetCore, CoreRec
    <3>2. core' = [core EXCEPT ![c] = q] /\ late' = late \ {c}
      BY <1>2, <2>2
    <3> HIDE DEF q
    <3>3. core' \in [Cores -> CoreRec] /\ core'[c] = q /\ \A d \in Cores \ {c} : core'[d] = core[d]
      BY <1>1, <3>1, <3>2, OneCore
    <3>4. 0 <= Words
      BY BoardAssumption
    <3> QED BY <3>1, <3>2, <3>3, <3>4, Initials DEF SeedsOK, TypesOK
  <2> QED BY <1>1, <2>1, <2>2
<1>4. TypesOK'
  BY <1>2, <1>3 DEF TypesOK, Places, Ending
<1>5. RequestOK' /\ WipesOK'
  BY <1>2 DEF RequestOK, WipesOK, Clean, Running, Booting
<1>6. RunsOK'
  BY <1>1, <1>2, <1>3 DEF RunsOK
<1>7. VaultOK' /\ TaOK'
  BY <1>1, <1>2, Places1 DEF VaultOK, TaOK
<1>8. SeedsOK'
  BY <1>2, <1>3 DEF SeedsOK
<1>9. ResultOK' /\ ReplyIsOwn' /\ NoInheritedSymKey' /\ DaemonNeverHangs'
  BY <1>1, <1>2 DEF ResultOK, ReplyIsOwn, NoInheritedSymKey, DaemonNeverHangs
<1> QED BY <1>4, <1>5, <1>6, <1>7, <1>8, <1>9

\* The vault is emptied, or the write is lost.
LEMMA EndVaultOK == ASSUME BInv, EndVault PROVE BInv'
<1> USE DEF BInv
<1>1. /\ pc = "endS" /\ pc' = "endW" /\ Alive /\ fault' \in BOOLEAN
      /\ vault' \in [SymSlots -> KeyRec] /\ unwiped' \in BOOLEAN
      /\ unwiped' \/ \A s \in SymSlots : vault'[s].by = "none"
      /\ UNCHANGED <<core, ta, kek, hw, hung, req, resp, keys, held, env, late, countVars>>
  BY Initials DEF EndVault, TypesOK, NoKey
<1>2. TypesOK'
  BY <1>1 DEF TypesOK, Places
<1>3. RequestOK' /\ WipesOK' /\ RunsOK' /\ VaultOK'
  BY <1>1 DEF RequestOK, WipesOK, RunsOK, VaultOK, Clean, Running, Booting
<1>4. TaOK' /\ SeedsOK' /\ ResultOK'
  BY <1>1 DEF TaOK, SeedsOK, ResultOK
<1>5. ReplyIsOwn' /\ NoInheritedSymKey' /\ DaemonNeverHangs'
  BY <1>1 DEF ReplyIsOwn, NoInheritedSymKey, DaemonNeverHangs
<1> QED BY <1>2, <1>3, <1>4, <1>5

\* Both wipes have been waited for.
LEMMA EndWaitOK == ASSUME BInv, EndWait PROVE BInv'
<1> USE DEF BInv, EndWait
<1>1. TypesOK'
  BY DEF TypesOK, Places
<1>2. RequestOK' /\ WipesOK' /\ RunsOK' /\ VaultOK'
  BY DEF RequestOK, WipesOK, RunsOK, VaultOK, Clean, Running, Booting, Connected
<1>3. TaOK' /\ SeedsOK' /\ ResultOK'
  BY DEF TaOK, SeedsOK, ResultOK
<1>4. ReplyIsOwn' /\ NoInheritedSymKey' /\ DaemonNeverHangs'
  BY DEF ReplyIsOwn, NoInheritedSymKey, DaemonNeverHangs
<1> QED BY <1>1, <1>2, <1>3, <1>4

\* The daemon is killed: its runs go on for nobody, its command as that of another.
LEMMA KillOK == ASSUME BInv, Kill PROVE BInv'
<1> USE DEF BInv, Kill
<1>1. kills' \in Nat /\ kills' > 0
  BY DEF TypesOK
<1>2. /\ ta' \in TaRec /\ ta'.who # "daemon" /\ ta'.res = ta.res /\ ta'.cmd = ta.cmd
      /\ ta'.tgt = ta.tgt /\ (ta'.who = "none" <=> ta.who = "none")
  BY DEF TypesOK, TaRec
<1>3. TypesOK'
  BY <1>1, <1>2, Initials DEF TypesOK, Places, Booting
<1>4. RequestOK'
  BY Initials DEF RequestOK, NoReq, Clean, Running, SymOps
<1>5. WipesOK' /\ RunsOK' /\ VaultOK'
  BY <1>1 DEF WipesOK, RunsOK, VaultOK, Clean, Running
<1>6. TaOK'
  BY <1>1, <1>2 DEF TaOK
<1>7. SeedsOK' /\ ResultOK' /\ ReplyIsOwn' /\ NoInheritedSymKey' /\ DaemonNeverHangs'
  BY <1>1 DEF SeedsOK, ResultOK, ReplyIsOwn, NoInheritedSymKey, DaemonNeverHangs
<1> QED BY <1>3, <1>4, <1>5, <1>6, <1>7
-----------------------------------------------------------------------------
(* The theorems.                                                           *)

\* The invariant holds when the board starts ...
LEMMA BInvInit == ASSUME Init PROVE BInv
<1> USE DEF Init
<1>1. TypesOK
  BY Initials DEF TypesOK, Places, Booting
<1>2. \A c \in Cores : core[c] = ResetCore
  OBVIOUS
<1>3. /\ ~ResetCore.busy /\ ~ResetCore.wiping /\ ResetCore.staged = <<>>
      /\ ResetCore.job = NoOut /\ ResetCore.out = NoOut
  BY DEF ResetCore
<1>4. RequestOK
  BY Initials DEF RequestOK, NoReq, Clean, Running, SymOps
<1>5. WipesOK /\ RunsOK
  BY <1>2, <1>3 DEF WipesOK, RunsOK, Clean, Running
<1>6. VaultOK /\ TaOK
  BY DEF VaultOK, NoKey, TaOK, IdleTa
<1>7. SeedsOK
  BY <1>2, <1>3, Initials, BoardAssumption DEF SeedsOK
<1>8. ResultOK /\ ReplyIsOwn /\ NoInheritedSymKey /\ DaemonNeverHangs
  BY DEF ResultOK, ReplyIsOwn, NoInheritedSymKey, DaemonNeverHangs
<1> QED BY <1>1, <1>4, <1>5, <1>6, <1>7, <1>8 DEF BInv

\* A step of nobody keeps it.
LEMMA StutterOK == ASSUME BInv, UNCHANGED vars PROVE BInv'
<1> USE DEF BInv, vars
<1>1. TypesOK' /\ RequestOK' /\ WipesOK' /\ RunsOK' /\ VaultOK'
  BY DEF TypesOK, RequestOK, WipesOK, RunsOK, VaultOK
<1>2. TaOK' /\ SeedsOK' /\ ResultOK'
  BY DEF TaOK, Pushed, SeedsOK, ResultOK, Own
<1>3. ReplyIsOwn' /\ NoInheritedSymKey' /\ DaemonNeverHangs'
  BY DEF ReplyIsOwn, NoInheritedSymKey, DaemonNeverHangs
<1> QED BY <1>1, <1>2, <1>3

\* ... every step keeps it ...
LEMMA BInvStep == ASSUME BInv, [Next]_vars PROVE BInv'
<1>1. CASE Hardware \/ Application \/ OtherClient \/ Outage \/ Recover \/ Reload
  BY <1>1, CoreFinishOK, CoreWipedOK, TaSeedWordOK, TaSymPushOK, OtherDoneOK, OtherClientOK,
     OutageOK, RecoverOK, ReloadOK
  DEF Hardware, Application
<1>2. CASE Boot \/ Accept \/ Receive \/ Disconnect
  BY <1>2, BootKekOK, BootSeedOK, BootTestedOK, BootClrOK, AcceptOK, ReceiveOK, DisconnectOK
  DEF Boot
<1>3. CASE Serve
  BY <1>3, CheckOK, OpOK, SeedClrWaitOK, SeedClrOK, CallOK, CalledOK, WaitExpIdleOK, WriteModeOK,
     FeedOK, StartOK, PollOK, DrainOK, ReplyOK
  DEF Serve
<1>4. CASE SessionEnd
  BY <1>4, EndKeysOK, EndWaitDsaOK, EndZeroizeOK, EndVaultOK, EndWaitOK DEF SessionEnd
<1>5. CASE Kill
  BY <1>5, KillOK
<1>6. CASE UNCHANGED vars
  BY <1>6, StutterOK
<1> QED BY <1>1, <1>2, <1>3, <1>4, <1>5, <1>6 DEF Next

\* ... so it holds always.
LEMMA BoardInvariant == Spec => []BInv
BY BInvInit, BInvStep, PTL DEF Spec

\* Every state has the types of the C structures and registers it stands for: cores,
\* vault, the application's command, the daemon's request, answer and tables.
THEOREM BoardTypes == Spec => []TypesOK
<1>1. BInv => TypesOK
  BY DEF BInv
<1> QED BY <1>1, BoardInvariant, PTL

\* However other processes' seeds reach the staging port between the daemon's SEED_CLR and
\* its START, with failed accesses, reloads and kills on the way: the words a core takes as a
\* seed, and the seed a result was computed with, are words of one seed (pqchsm_fpgad.c,
\* seed_push, EL3's refusal of a full port).
THEOREM SeedsAreNeverMixed == Spec => []SeedNeverMixed
<1>1. BInv => SeedNeverMixed
  BY DEF BInv, SeedsOK, SeedNeverMixed, Pure, OneSeed
<1> QED BY <1>1, BoardInvariant, PTL

\* An OK to a request that needs a core is the result of a run this request started, with
\* the seed sealed in its handle's blob, unless the daemon gave up on an ML-KEM run
\* (handle_op and the check of hw_fault before the answer is sent).
THEOREM RepliesAreOwn == Spec => []ReplyIsOwn
<1>1. BInv => ReplyIsOwn
  BY DEF BInv
<1> QED BY <1>1, BoardInvariant, PTL

\* A symmetric operation that succeeds did not use a key of an earlier connection, whatever
\* other clients of the application load into the vault and whatever accesses fail, unless
\* the one write that wipes the vault was lost or a kill left it out (session_end, sym_block).
THEOREM NoSymKeyIsInherited == Spec => []NoInheritedSymKey
<1>1. BInv => NoInheritedSymKey
  BY DEF BInv
<1> QED BY <1>1, BoardInvariant, PTL

\* The daemon's waits come before every write a slave could refuse (SEED_CLR, MODE, the
\* lengths, START, ZEROIZE), so it hangs the board only after it gave up on an ML-DSA run, or
\* in the self test of a restarted daemon.
THEOREM WritesAreTaken == Spec => []DaemonNeverHangs
<1>1. BInv => DaemonNeverHangs
  BY DEF BInv
<1> QED BY <1>1, BoardInvariant, PTL
====
