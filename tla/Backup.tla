------------------------------- MODULE Backup -------------------------------
(***************************************************************************)
(* Keys that leave a token and keys that come in: the backup and restore   *)
(* of src/src/backup/backup.c, the injection of inject.c, and the commands *)
(* of cli/pqchsm_admin.c that run them.                                    *)
(*                                                                         *)
(* One thread of the application exports or injects while another makes,   *)
(* destroys and zeroizes keys: an export and an injection take the lock of *)
(* a slot anew for every look at it, and every such look is a step here.   *)
(* A restore is a command of its own process, which loads the key store,   *)
(* installs the records one after the other and saves; it may be killed in *)
(* between.  All slots have their PINs and the callers their logins;       *)
(* locking, PINs, failing seals and saves of a call of the slot manager are  *)
(* its own module's.  A key that is generated where the backend keeps keys   *)
(* in hardware is not in the slot: the slot names it, in memory.             *)
(* The RMK is one byte; the arithmetic that shares it is a parameter here  *)
(* (module Shamir is the code's).  The file's MAC and the wrapping of the  *)
(* records hold exactly for the RMK they were made with.                   *)
(***************************************************************************)
EXTENDS Naturals, Sequences, FiniteSetsExt

CONSTANTS
  Scenarios,  \* what one behaviour does: the calls made, the sizes of devices,
              \* m and n of an export, bounds on keys, generations and exports,
              \* and the policies, RMKs and coefficients that are drawn
  Secrets,    \* RMKs that FewSharesTellNothing tries
  Bytes,      \* what a coefficient may be
  Split(_, _, _),  \* shamir_split: the points of a secret, coefficients and a number
  Combine(_)       \* shamir_combine: the secret some points give

\* Mutant: one coefficient fewer is drawn, the highest stays 0.
RandomCoefs_OneFewer(m, C) == {c \in [1..(m - 1) -> C \cup {0}] : c[m - 1] = 0}

\* One coefficient of each degree from 1 to m - 1; C stands for all the bytes.
RandomCoefs(m, C) == [1..(m - 1) -> C]

\* The share lines of an export.
Handed(no, rmk, c, n) == {[no |-> no, x |-> sh.x, y |-> sh.y] : sh \in Split(rmk, c, n)}

\* Two lines with one index are refused, shares of different splits are not.
IndicesDiffer(S) == \A a, b \in S : a.x = b.x => a = b

(* A threshold is at least 2; as many shares of one split as it combine to the RMK. *)
ASSUME BackupAssumption ==
  \A a \in Scenarios :
    /\ a.size \in Nat /\ a.successors \subseteq Nat /\ a.m \in Nat /\ a.m >= 2
    /\ a.exports \in Nat /\ a.rmks \subseteq Nat
    /\ a.policies \subseteq SUBSET {"BACKUPABLE", "INJECTABLE"}
    /\ \A no \in 1..a.exports, k \in a.rmks, c \in RandomCoefs(a.m, a.coefs) :
         \A S \in SUBSET Handed(no, k, c, a.n) :
           Cardinality(S) >= a.m => IndicesDiffer(S) /\ Combine(S) = k

(* A split has finitely many points.  Fewer of them than the threshold lie, for  *)
(* every secret, on a polynomial of the full degree too.                         *)
ASSUME SharingAssumption ==
  \A a \in Scenarios :
    \A k \in a.rmks, c \in [1..(a.m - 1) -> a.coefs] :
      /\ IsFiniteSet(Split(k, c, a.n))
      /\ \A P \in SUBSET Split(k, c, a.n), secret \in Secrets :
           Cardinality(P) < a.m =>
             \E d \in [1..(a.m - 1) -> Bytes] : P \subseteq Split(secret, d, a.n)

VARIABLES
  app,       \* the scenario of this behaviour
  tok,       \* the slots of the token, in memory
  disk,      \* the key store file
  exp,       \* the export under way
  file,      \* the backup file
  shares,    \* the shares handed to the custodians, of every export
  rst,       \* the restore under way
  inj,       \* the injection under way
  mfg,       \* manufacturing mode: g_mfg_mode and g_mfg_blown
  nkeys,     \* history: keys made
  nexp,      \* history: exports begun
  last,      \* history: the latest export that answered OK, and its records
  spoilt     \* history: an export since then replaced or removed its file and
             \* did not hand out shares

vars == <<app, tok, disk, exp, file, shares, rst, inj, mfg, nkeys, nexp, last, spoilt>>

Does(c) == c \in app.calls
-----------------------------------------------------------------------------
(* Slots.                                                                   *)

\* hw says that the key is in hardware (hw_resident): the slot has its handle only.
BlankSlot == [state |-> "UNINIT", gen |-> 0, key |-> 0, policy |-> {}, hw |-> FALSE]

create_object(r, k, p, hw) ==
  [r EXCEPT !.state = "LOADED", !.key = k, !.policy = p, !.hw = hw]

destroy(r) ==
  [r EXCEPT !.state = "EMPTY", !.key = 0, !.policy = {}, !.hw = FALSE, !.gen = @ + 1]

do_zeroize(r) == [destroy(r) EXCEPT !.state = "UNINIT"]

\* Mutant: the handle names the slot alone.
check_handle_AnyGeneration(r, gen) == r.state = "LOADED"

check_handle(r, gen) == r.state = "LOADED" /\ r.gen = gen

\* What is written of a slot, to the key store and to a backup, and what a slot is
\* that is read from it.  Of a key in hardware nothing is (kind 0), the slot is
\* written as LOADED, and it is accepted so.
slot_serialize_locked(r) == IF r.hw THEN [r EXCEPT !.key = 0, !.hw = FALSE] ELSE r

Written(t) == [s \in DOMAIN t |-> slot_serialize_locked(t[s])]

NoExport  == [pc |-> "idle", no |-> 0, i |-> 0, gen |-> 0, recs |-> <<>>, rmk |-> 0]
NoFile    == [no |-> 0, recs |-> <<>>, rmk |-> 0]
NoRestore == [pc |-> "idle", with |-> {}, i |-> 0, st |-> "OK"]
NoInject  == [pc |-> "idle", slot |-> 0, auth |-> FALSE, policy |-> {}, i |-> 0,
              gen |-> 0, seen |-> {}, sess |-> "user"]
NewMfg    == [on |-> FALSE, blown |-> FALSE]

Init ==
  /\ app \in Scenarios
  /\ tok = [s \in 1..app.size |-> [BlankSlot EXCEPT !.state = "EMPTY"]]
  /\ disk = tok
  /\ exp = NoExport /\ file = NoFile /\ shares = {}
  /\ rst = NoRestore /\ inj = NoInject /\ mfg = NewMfg
  /\ nkeys = 0 /\ nexp = 0
  /\ last = [no |-> 0, recs |-> <<>>] /\ spoilt = FALSE

\* The application runs, not a restore.
Up == rst.pc = "idle"

exportVars == <<exp, file, shares, nexp, last, spoilt>>

\* A call changes slot s and saves the key store.
Commit(s, r) == tok' = [tok EXCEPT ![s] = r] /\ disk' = Written(tok')
-----------------------------------------------------------------------------
(* Calls of another thread, whole: each is one critical section and a save. *)

\* Where the backend keeps keys, a key that is generated is made there; a policy
\* that wants the seed kept, or another algorithm, makes it in software.
Create(s, p, hw) ==
  /\ hw => Does("hw")
  /\ Up /\ Does("create") /\ nkeys < app.keys
  /\ tok[s].state = "EMPTY"
  /\ Commit(s, create_object(tok[s], nkeys + 1, p, hw))
  /\ nkeys' = nkeys + 1
  /\ UNCHANGED <<app, exportVars, rst, inj, mfg>>

Erase(s) ==
  /\ Up /\ Does("destroy") /\ tok[s].gen < app.gens
  /\ \/ tok[s].state = "LOADED" /\ Commit(s, destroy(tok[s]))
     \/ Does("zeroize") /\ Commit(s, do_zeroize(tok[s]))
  /\ UNCHANGED <<app, exportVars, rst, inj, mfg, nkeys>>

InitToken(s) ==
  /\ Up /\ tok[s].state = "UNINIT"
  /\ Commit(s, [tok[s] EXCEPT !.state = "EMPTY"])
  /\ UNCHANGED <<app, exportVars, rst, inj, mfg, nkeys>>
-----------------------------------------------------------------------------
(* hsm_backup_export.                                                       *)

exportRest == <<app, tok, disk, rst, inj, mfg, nkeys>>

ExportBegin ==
  /\ Up /\ Does("export") /\ exp.pc = "idle" /\ nexp < app.exports
  /\ \E k \in app.rmks :
       exp' = [NoExport EXCEPT !.pc = "check", !.no = nexp + 1, !.i = 1, !.rmk = k]
  /\ nexp' = nexp + 1
  /\ UNCHANGED <<exportRest, file, shares, last, spoilt>>

\* Mutant: every slot is taken.
Backupable_All(r) == TRUE

Backupable(r) == "BACKUPABLE" \in r.policy

\* hsm_slot_get_meta: the policy is looked at under one hold of the slot lock...
ExportCheck ==
  /\ exp.pc = "check" /\ exp.i \in DOMAIN tok
  /\ exp' = IF Backupable(tok[exp.i])
            THEN [exp EXCEPT !.pc = "read", !.gen = tok[exp.i].gen]
            ELSE [exp EXCEPT !.i = @ + 1]
  /\ UNCHANGED <<exportRest, file, shares, nexp, last, spoilt>>

\* ... and the slot is written out under another.  checked and was are history: the
\* generation that was looked at, and the slot.
ExportRead ==
  /\ exp.pc = "read"
  /\ exp' = [exp EXCEPT !.pc = "check", !.i = @ + 1,
       !.recs = Append(@, [slot |-> exp.i, rec |-> slot_serialize_locked(tok[exp.i]),
                           checked |-> exp.gen, was |-> tok[exp.i]])]
  /\ UNCHANGED <<exportRest, file, shares, nexp, last, spoilt>>

\* Mutant: the file is written in place, so a failure leaves neither.
FileAfterFailedWrite_InPlace(f) == NoFile

\* Everything before the rename goes to another name.
FileAfterFailedWrite(f) == f

\* write, fsync, rename.
ExportWrite ==
  /\ exp.pc = "check" /\ exp.i \notin DOMAIN tok
  /\ \/ /\ file' = [no |-> exp.no, recs |-> exp.recs, rmk |-> exp.rmk]
        /\ exp' = [exp EXCEPT !.pc = "split"]
     \/ /\ Does("fault")
        /\ file' = FileAfterFailedWrite(file)
        /\ exp' = NoExport
  /\ UNCHANGED <<exportRest, shares, nexp, last, spoilt>>

\* The shares are made last; without them the file is removed again.
ExportSplit ==
  /\ exp.pc = "split"
  /\ \/ /\ \E c \in RandomCoefs(app.m, app.coefs) :
             shares' = shares \cup Handed(exp.no, exp.rmk, c, app.n)
        /\ exp' = [exp EXCEPT !.pc = "done"]
        /\ last' = [no |-> exp.no, recs |-> exp.recs]
        /\ spoilt' = FALSE
        /\ UNCHANGED file
     \/ /\ Does("fault")
        /\ file' = NoFile
        /\ exp' = NoExport
        /\ spoilt' = TRUE
        /\ UNCHANGED <<shares, last>>
  /\ UNCHANGED <<exportRest, nexp>>

ExportReturn ==
  /\ exp.pc = "done"
  /\ exp' = NoExport
  /\ UNCHANGED <<exportRest, file, shares, nexp, last, spoilt>>
-----------------------------------------------------------------------------
(* hsm_inject_apply and the plaintext injection of manufacturing mode.      *)

injectRest == <<app, exportVars, rst, mfg>>

\* Mutant: the target is prepared before the blob is unwrapped.
Authentic_Later(auth) == TRUE

\* Decapsulation, unwrapping and the checks of lengths and usage.
Authentic(auth) == auth

\* Everything that can be refused for the blob's sake is, before any state moves.
InjectBegin(s, auth, p) ==
  /\ Up /\ Does("inject") /\ inj.pc = "idle" /\ nkeys < app.keys
  /\ Authentic(auth)
  /\ inj' = [NoInject EXCEPT !.pc = "find", !.slot = s, !.auth = auth, !.policy = p,
                             !.i = 1]
  /\ UNCHANGED <<injectRest, tok, disk, nkeys>>

\* find_target_slot looks at the metadata of every slot in turn...
InjectFind ==
  /\ inj.pc = "find"
  /\ inj' = CASE inj.i \notin DOMAIN tok -> [inj EXCEPT !.pc = "load"]
              [] inj.i \in DOMAIN tok /\ tok[inj.i].state = "LOADED" ->
                   [inj EXCEPT !.pc = "probe", !.gen = tok[inj.i].gen,
                               !.seen = tok[inj.i].policy]
              [] OTHER -> [inj EXCEPT !.i = @ + 1]
  /\ UNCHANGED <<injectRest, tok, disk, nkeys>>

\* ... and asks for its public key: any answer but BAD_HANDLE, a closed session
\* included, means found.  The policy is that of the metadata seen before.
InjectProbe ==
  LET found == \/ inj.sess = "closed"
               \/ inj.i = inj.slot /\ check_handle(tok[inj.slot], inj.gen)
  IN
  /\ inj.pc = "probe"
  /\ inj' = CASE ~found -> [inj EXCEPT !.pc = "find", !.i = @ + 1]
              [] found /\ "INJECTABLE" \in inj.seen -> [inj EXCEPT !.pc = "destroy"]
              [] OTHER -> NoInject
  /\ UNCHANGED <<injectRest, tok, disk, nkeys>>

InjectDestroy ==
  /\ inj.pc = "destroy"
  /\ IF /\ inj.sess = "user" /\ inj.i = inj.slot
        /\ check_handle(tok[inj.slot], inj.gen)
     THEN /\ Commit(inj.slot, destroy(tok[inj.slot]))
          /\ inj' = [inj EXCEPT !.pc = "load"]
     ELSE /\ inj' = NoInject
          /\ UNCHANGED <<tok, disk>>
  /\ UNCHANGED <<injectRest, nkeys>>

InjectLoad ==
  /\ inj.pc = "load"
  /\ IF inj.sess = "user" /\ tok[inj.slot].state = "EMPTY" /\ nkeys < app.keys
     THEN /\ Commit(inj.slot, create_object(tok[inj.slot], nkeys + 1, inj.policy, FALSE))
          /\ nkeys' = nkeys + 1
     ELSE UNCHANGED <<tok, disk, nkeys>>
  /\ inj' = NoInject
  /\ UNCHANGED injectRest

\* Another thread logs the session out or closes it.
SessionEnds ==
  /\ inj.pc # "idle"
  /\ \E how \in {"public", "closed"} : inj' = [inj EXCEPT !.sess = how]
  /\ inj' # inj
  /\ UNCHANGED <<injectRest, tok, disk, nkeys>>

\* Closing manufacturing mode blows its fuse for the life of the process.
SetManufacturing(on) ==
  /\ Up /\ Does("mfg")
  /\ on => ~mfg.blown
  /\ mfg' = [on |-> on, blown |-> mfg.blown \/ ~on]
  /\ UNCHANGED <<app, exportVars, rst, inj, tok, disk, nkeys>>

InjectPlaintext(s, p) ==
  /\ Up /\ mfg.on /\ nkeys < app.keys
  /\ tok[s].state = "EMPTY"
  /\ Commit(s, create_object(tok[s], nkeys + 1, p, FALSE))
  /\ nkeys' = nkeys + 1
  /\ UNCHANGED <<injectRest, inj>>
-----------------------------------------------------------------------------
(* Restore: the command restore of the administration tool and              *)
(* hsm_backup_restore.                                                      *)

restoreRest == <<app, exp, file, shares, inj, mfg, nkeys, nexp, last, spoilt>>

\* What the shares open: they combine to something, and the file's MAC is right.
Opens(S) ==
  /\ S # {} /\ IndicesDiffer(S)
  /\ file # NoFile /\ Combine(S) = file.rmk

\* A process of its own, with its key store loaded: the application has ended.  S are the share files given,
\* intact says that no line was altered since the export.  Every refusal before
\* the first record is INTEGRITY here.
RestoreBegin(S, intact) ==
  /\ Up /\ Does("restore") /\ exp.pc = "idle" /\ inj.pc = "idle"
  /\ rst' = [pc |-> IF intact /\ Opens(S) THEN "load" ELSE "done",
             with |-> IF intact THEN S ELSE {}, i |-> 1, st |-> "INTEGRITY"]
  /\ mfg' = NewMfg
  /\ tok' = disk
  /\ UNCHANGED <<app, exp, file, shares, inj, nkeys, nexp, last, spoilt, disk>>

\* One record.  The status is the previous record's until something sets it.
RestoreRecord ==
  /\ rst.pc = "load" /\ rst.i \in DOMAIN file.recs
  /\ LET r == file.recs[rst.i] IN
     \/ /\ r.slot \notin DOMAIN tok
        /\ rst' = [rst EXCEPT !.pc = "done"]
        /\ UNCHANGED tok
     \/ /\ r.slot \in DOMAIN tok
        /\ tok' = [tok EXCEPT ![r.slot] = r.rec]
        /\ rst' = [rst EXCEPT !.i = @ + 1, !.st = "OK"]
     \/ \* out of memory: the slot stays as it was
        /\ r.slot \in DOMAIN tok /\ Does("fault")
        /\ rst' = [rst EXCEPT !.pc = "done", !.st = "NOMEM"]
        /\ UNCHANGED tok
     \/ \* the slot's new metadata cannot be sealed
        /\ r.slot \in DOMAIN tok /\ Does("fault")
        /\ tok' = [tok EXCEPT ![r.slot] = r.rec]
        /\ rst' = [rst EXCEPT !.pc = "done", !.st = "CRYPTO"]
  /\ UNCHANGED <<restoreRest, disk>>

RestoreEnd ==
  /\ rst.pc = "load" /\ rst.i \notin DOMAIN file.recs
  /\ rst' = [rst EXCEPT !.pc = "done", !.st = "OK"]
  /\ UNCHANGED <<restoreRest, tok, disk>>

\* The tool saves the key store when the answer was OK, and exits; the application
\* starts again from the file.
RestoreSave ==
  /\ rst.pc = "done"
  /\ disk' = (IF rst.st = "OK" THEN Written(tok) ELSE disk) /\ tok' = disk'
  /\ rst' = NoRestore
  /\ UNCHANGED restoreRest
-----------------------------------------------------------------------------
(* The environment.                                                         *)

\* The process, the application's or the tool's, is killed, and the application
\* started again.
Crash ==
  /\ Does("crash")
  /\ tok' = disk
  /\ spoilt' = (spoilt \/ exp.pc = "split")
  /\ exp' = NoExport /\ rst' = NoRestore /\ inj' = NoInject /\ mfg' = NewMfg
  /\ UNCHANGED <<app, disk, file, shares, nkeys, nexp, last>>

\* The device is lost; its successor is blank and has n slots.
Replace(n) ==
  /\ Up /\ exp.pc = "idle" /\ inj.pc = "idle"
  /\ n \in app.successors
  /\ tok' = [s \in 1..n |-> BlankSlot] /\ disk' = Written(tok')
  /\ mfg' = NewMfg
  /\ UNCHANGED <<app, exportVars, rst, inj, nkeys>>

Next ==
  \/ \E s \in DOMAIN tok :
       \/ Erase(s) \/ InitToken(s)
       \/ \E p \in app.policies :
            \/ InjectPlaintext(s, p)
            \/ \E hw \in BOOLEAN : Create(s, p, hw)
            \/ \E auth \in BOOLEAN : InjectBegin(s, auth, p)
  \/ ExportBegin \/ ExportCheck \/ ExportRead \/ ExportWrite \/ ExportSplit
  \/ ExportReturn
  \/ InjectFind \/ InjectProbe \/ InjectDestroy \/ InjectLoad \/ SessionEnds
  \/ \E on \in BOOLEAN : SetManufacturing(on)
  \/ \E S \in SUBSET shares, intact \in BOOLEAN : RestoreBegin(S, intact)
  \/ RestoreRecord \/ RestoreEnd \/ RestoreSave
  \/ Crash \/ \E n \in app.successors : Replace(n)

Spec == Init /\ [][Next]_vars
-----------------------------------------------------------------------------
(* Properties.                                                              *)

\* A key that may not be backed up is in no backup file, unless another thread
\* destroyed the key of its slot between hsm_backup_export's look at the policy
\* and its writing the slot out (the new key is of a later generation).
SealedStaysHome ==
  \A i \in DOMAIN file.recs :
    LET r == file.recs[i] IN
    "BACKUPABLE" \in r.rec.policy \/ r.rec.gen > r.checked

\* Given intact shares of the latest export that answered OK, as many as its
\* threshold, and a device with enough slots; no later export replaced or removed
\* its file and handed out no shares.
Restorable ==
  /\ ~spoilt /\ Cardinality(rst.with) >= app.m
  /\ \A sh \in rst.with : sh.no = last.no
  /\ \A i \in DOMAIN last.recs : last.recs[i].slot \in DOMAIN tok

\* What a backup is for.  A restore from a quorum that neither runs out of memory nor
\* fails to seal a slot answers OK, and every exported slot whose key was not in
\* hardware is as it was, its key with it.
QuorumBringsBack ==
  rst.pc = "done" /\ rst.st \notin {"NOMEM", "CRYPTO"} /\ Restorable
  => /\ rst.st = "OK"
     /\ \A i \in DOMAIN last.recs :
          LET r == last.recs[i] IN ~r.was.hw => tok[r.slot] = r.was

\* Shares one fewer than the threshold are compatible with every RMK: whatever it
\* was, the split could have drawn coefficients that give these shares.
FewSharesTellNothing ==
  exp.pc = "done" =>
    \A T \in kSubset(app.m - 1, {sh \in shares : sh.no = exp.no}), secret \in Secrets :
      \E c \in RandomCoefs(app.m, Bytes) : T \subseteq Handed(exp.no, secret, c, app.n)

\* An injection changes its session's slot only, for an authentic blob only, and
\* takes away no key that is not INJECTABLE, whatever another thread does between
\* its looks at the slot: the handle it destroys carries the generation whose
\* policy was checked.
InjectTakesInjectable ==
  [][inj.pc # "idle" /\ inj' # inj /\ disk' # disk =>
       /\ inj.auth
       /\ \A s \in DOMAIN tok : tok'[s] # tok[s] =>
            s = inj.slot /\ (tok[s].key # 0 => "INJECTABLE" \in tok[s].policy)]_vars

\* A restore that answers OK has installed every record of the file.
RestoreIsWhole ==
  rst.pc = "done" /\ rst.st = "OK" =>
    \A i \in DOMAIN file.recs :
      LET r == file.recs[i] IN r.slot \in DOMAIN tok /\ tok[r.slot] = r.rec
=============================================================================
