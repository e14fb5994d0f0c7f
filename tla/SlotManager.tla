---------------------------- MODULE SlotManager ----------------------------
(***************************************************************************)
(* The slot manager of src/src/slot: slots, sessions, PIN lockout, key     *)
(* handles, and the synchronous persistence of the security state.         *)
(*                                                                         *)
(* Every public function takes tok->tlock, a slot lock and tok->audit_lock *)
(* one after the other and never holds two of them, so one call is a       *)
(* sequence of steps, one per critical section, and the calls of several   *)
(* threads interleave between them.  A critical section is one action;     *)
(* sign/decaps is two (begin_use, end_use) with the slot lock held in      *)
(* between.  th[t] is the call thread t is in:                             *)
(*                                                                         *)
(*   idle -> cs -> [drop] -> commit -> save* -> publish -> unbusy          *)
(*             \-> using                           -> [role] -> idle       *)
(*                                                                         *)
(* A call that an early return ends before it changes anything is a        *)
(* stuttering step.  The audit record each call appends at its end is not  *)
(* read by this component and is left to the audit log's own module.       *)
(***************************************************************************)
EXTENDS Integers, FiniteSets, SlotFSM

CONSTANTS
  Threads,            \* threads calling the library
  NumSlots,           \* n_slots of hsm_token_new
  MAX_SESSIONS,       \* entries of the session table
  HSM_PIN_MAX_FAILS,  \* wrong User PINs before the slot locks
  KeyKinds,           \* where private keys can live: "sk", "seed", "hw"
  PersistHook,        \* is a persist hook set; a token without one lives in memory
  RngMayFail,         \* may pqc_random_bytes fail
  KdrMayFail,         \* may pqc_kdr_derive or pqc_kmac256 fail, which seal a
                      \* slot, check its seal and check a PIN
  SaveMayFail,        \* may hsm_keystore_save fail for an I/O reason
  MayCrash,           \* may the process be killed and started again
  MaxGen,             \* bound on the generations calls may reach
  MaxKeys,            \* bound on keys calls may create
  MaxOpens            \* bound on session_gen within one process life

ASSUME ConstantsAssumption ==
  /\ IsFiniteSet(Threads)
  /\ NumSlots \in Nat \ {0}
  /\ MAX_SESSIONS \in Nat \ {0}
  /\ HSM_PIN_MAX_FAILS \in Nat \ {0}
  /\ KeyKinds \subseteq {"sk", "seed", "hw"}
  /\ {PersistHook, RngMayFail, KdrMayFail, SaveMayFail, MayCrash} \subseteq BOOLEAN
  /\ {MaxGen, MaxKeys, MaxOpens} \subseteq Nat

VARIABLES
  slot,         \* slots[]: metadata, PIN flags and key of every slot
  slotLock,     \* the threads inside begin_use .. end_use of a slot
  sessions,     \* the session table
  session_gen,  \* generation of the latest session opened
  th,           \* the call each thread is in
  persist_busy, \* a save is under way
  cursor,       \* next slot that save serialises
  snap,         \* what it has serialised
  disk,         \* the key store file
  nkeys,        \* history: keys created so far
  issued,       \* history: handles returned to callers, with their key
  era,          \* history: zeroizations of a slot in this process life
  guesses       \* history: wrong User PINs answered since the last reset, up
                \* to one more than the limit

vars == <<slot, slotLock, sessions, session_gen, th, persist_busy, cursor,
          snap, disk, nkeys, issued, era, guesses>>

saveVars    == <<persist_busy, cursor, snap, disk>>
sessionVars == <<sessions, session_gen>>

Slots == 1..NumSlots
Roles == {"PUBLIC", "USER", "SO"}
-----------------------------------------------------------------------------
(* Slot records and the operations on them, all called with the slot lock.  *)
(* sealed says that meta_tag matches the metadata.  key names the private   *)
(* key (0: none), kind says where it lives.  user_pin_torn says that the    *)
(* salt was replaced and the verifier was not: no PIN matches any more.     *)

SlotRec ==
  [state : SlotStates, pre_lock : SlotStates, generation : Nat,
   sealed : BOOLEAN, key : Nat, kind : {"none", "sk", "seed", "hw"},
   has_so_pin : BOOLEAN, has_user_pin : BOOLEAN,
   user_pin_torn : BOOLEAN, user_pin_fails : 0..HSM_PIN_MAX_FAILS]

FreshSlot ==
  [state |-> "UNINIT", pre_lock |-> "EMPTY", generation |-> 0, sealed |-> TRUE,
   key |-> 0, kind |-> "none", has_so_pin |-> FALSE, has_user_pin |-> FALSE,
   user_pin_torn |-> FALSE, user_pin_fails |-> 0]

\* How pqc_kdr_derive and pqc_kmac256 may answer.
Kdr == IF KdrMayFail THEN BOOLEAN ELSE {TRUE}

\* A reseal that fails leaves the tag of the metadata as they were before.
slot_reseal(r, ok) == IF ok THEN [r EXCEPT !.sealed = TRUE] ELSE r

\* Mutant: an unlock goes where the table says, whatever was locked.
fsm_apply_TableOnly(r, ev) ==
  [r EXCEPT !.state = slot_fsm_next(r.state, ev),
            !.pre_lock = IF ev = "PIN_LOCKOUT" THEN r.state ELSE @,
            !.sealed = FALSE]

\* A transition changes the metadata, so the tag is stale until the reseal.
fsm_apply(r, ev) ==
  [r EXCEPT !.state = IF ev = "SO_UNLOCK" THEN slot_fsm_unlock_target(r.pre_lock)
                      ELSE slot_fsm_next(r.state, ev),
            !.pre_lock = IF ev = "PIN_LOCKOUT" THEN r.state ELSE @,
            !.sealed = FALSE]

\* Mutant: a key held in hardware is forgotten.
slot_wipe_key_material_SoftOnly(r) ==
  IF r.kind = "hw" THEN r ELSE [r EXCEPT !.key = 0, !.kind = "none"]

slot_wipe_key_material(r) == [r EXCEPT !.key = 0, !.kind = "none"]

slot_wipe_pins(r) == [r EXCEPT !.has_so_pin = FALSE, !.has_user_pin = FALSE,
                               !.user_pin_torn = FALSE]

\* In the operations below ok says whether their reseal works.
init_token(r, ok) ==
  slot_reseal([fsm_apply(r, "INIT_TOKEN") EXCEPT !.has_so_pin = TRUE,
                                                 !.user_pin_fails = 0], ok)

\* PIN flags, salts and verifiers are not under the tag; the counter is.
set_user_pin(r, ok) ==
  slot_reseal([r EXCEPT !.has_user_pin = TRUE, !.user_pin_torn = FALSE,
                        !.user_pin_fails = 0, !.sealed = r.user_pin_fails = 0], ok)

\* The salt is drawn in place; if the verifier then fails, an old one stays.
set_user_pin_torn(r) == [r EXCEPT !.user_pin_torn = r.has_user_pin]

\* Mutant: any login resets the counter.
login_right_AnyRole(r, role, missed, ok) ==
  slot_reseal([r EXCEPT !.user_pin_fails = 0, !.sealed = ~missed], ok)

\* hsm_session_login with the right PIN and with a wrong one.  missed says that
\* the counter of the role was not zero.  Wrong SO PINs are counted but never
\* lock; nothing reads that counter.
login_right(r, role, missed, ok) ==
  slot_reseal([r EXCEPT !.user_pin_fails = IF role = "USER" THEN 0 ELSE @,
                        !.sealed = ~missed], ok)

login_wrong(r, role, ok) ==
  LET c == [r EXCEPT !.user_pin_fails = IF role = "USER" THEN @ + 1 ELSE @,
                     !.sealed = FALSE]
  IN  slot_reseal(IF role = "USER" /\ c.user_pin_fails >= HSM_PIN_MAX_FAILS
                  THEN fsm_apply(c, "PIN_LOCKOUT") ELSE c, ok)

install_key(r, ev, k, kind, ok) ==
  slot_reseal([slot_wipe_key_material(fsm_apply(r, ev)) EXCEPT !.key = k,
                                                               !.kind = kind], ok)

\* What create_object leaves when the reseal of install_key failed: it puts the
\* state back and reseals again, and the key stays where install_key put it.
install_key_undone(r, ev, k, kind, ok) ==
  slot_reseal([install_key(r, ev, k, kind, FALSE) EXCEPT !.state = r.state], ok)

\* Mutant: the generation does not move.
destroy_SameGeneration(r, ok) ==
  slot_reseal(slot_wipe_key_material(fsm_apply(r, "DESTROY")), ok)

destroy(r, ok) ==
  slot_reseal([slot_wipe_key_material(fsm_apply(r, "DESTROY"))
                 EXCEPT !.generation = @ + 1], ok)

\* Mutant: zeroize leaves the generation alone.
do_zeroize_SameGeneration(r, ok) ==
  slot_reseal([slot_wipe_pins(slot_wipe_key_material(fsm_apply(r, "ZEROIZE")))
                 EXCEPT !.pre_lock = "EMPTY", !.user_pin_fails = 0], ok)

do_zeroize(r, ok) ==
  slot_reseal([slot_wipe_pins(slot_wipe_key_material(fsm_apply(r, "ZEROIZE")))
                 EXCEPT !.generation = @ + 1, !.pre_lock = "EMPTY",
                        !.user_pin_fails = 0], ok)

\* Mutant: the counter survives the unlock.
unlock_KeepsFails(r, ok) == slot_reseal(fsm_apply(r, "SO_UNLOCK"), ok)

unlock(r, ok) ==
  slot_reseal([fsm_apply(r, "SO_UNLOCK") EXCEPT !.user_pin_fails = 0], ok)

\* The answer of an operation whose last step is the reseal.
Resealed(ok) == IF ok THEN "OK" ELSE "CRYPTO"

\* Mutant: the generation is not written.
slot_serialize_NoGeneration(r) ==
  [r EXCEPT !.generation = 0,
            !.key = IF r.kind = "hw" THEN 0 ELSE @,
            !.kind = IF @ = "hw" THEN "none" ELSE @]

\* What slot_serialize_locked writes of a slot: a key that lives in hardware is
\* written as kind 0, no material, under unchanged metadata.
slot_serialize(r) == IF r.kind = "hw" THEN slot_wipe_key_material(r) ELSE r
-----------------------------------------------------------------------------
(* Sessions.  by and auth are history: the session generation and the slot  *)
(* era the login that set the role was checked in.                          *)

ClosedSession == [open |-> FALSE, slot |-> 1, role |-> "PUBLIC", gen |-> 0,
                  by |-> 0, auth |-> 0]

WithRole(x, role, by, auth) == [x EXCEPT !.role = role, !.by = by, !.auth = auth]

LoggedOut(x) == WithRole(x, "PUBLIC", 0, 0)

Handle(i) == [idx |-> i, gen |-> sessions[i].gen]

\* Mutant: the entry is looked up by its index alone.
SessionValid_IndexOnly(h) == sessions[h.idx].open

SessionValid(h) == sessions[h.idx].open /\ sessions[h.idx].gen = h.gen

NoSession == [idx |-> 1, gen |-> 0]

Idle == [pc |-> "idle", op |-> "none", sess |-> NoSession, slot |-> 1,
         role |-> "PUBLIC", handle |-> 0, key |-> 0, st |-> "OK",
         ok |-> FALSE, era |-> 0]

Init ==
  /\ slot = [s \in Slots |-> FreshSlot]
  /\ slotLock = [s \in Slots |-> {}]
  /\ sessions = [i \in 1..MAX_SESSIONS |-> ClosedSession]
  /\ session_gen = 0
  /\ th = [t \in Threads |-> Idle]
  /\ persist_busy = FALSE
  /\ cursor = 1
  /\ snap = slot
  /\ disk = slot
  /\ nkeys = 0
  /\ issued = {}
  /\ era = [s \in Slots |-> 0]
  /\ guesses = [s \in Slots |-> 0]
-----------------------------------------------------------------------------
(* Session table operations: one critical section of tlock each.            *)

\* hsm_session_open takes the first closed entry.
SessionOpen(t, s) ==
  /\ th[t].pc = "idle"
  /\ session_gen < MaxOpens
  /\ \E i \in 1..MAX_SESSIONS :
       /\ ~sessions[i].open
       /\ \A j \in 1..(i - 1) : sessions[j].open
       /\ sessions' = [sessions EXCEPT ![i] =
            [ClosedSession EXCEPT !.open = TRUE, !.slot = s,
                                  !.gen = session_gen + 1]]
  /\ session_gen' = session_gen + 1
  /\ UNCHANGED <<slot, slotLock, th, saveVars, nkeys, issued, era, guesses>>

SessionClose(t, i) ==
  /\ th[t].pc = "idle"
  /\ sessions[i].open
  /\ sessions' = [sessions EXCEPT ![i] = ClosedSession]
  /\ UNCHANGED <<slot, slotLock, session_gen, th, saveVars, nkeys, issued, era,
                 guesses>>

SessionLogout(t, i) ==
  /\ th[t].pc = "idle"
  /\ sessions[i].open
  /\ sessions' = [sessions EXCEPT ![i] = LoggedOut(@)]
  /\ UNCHANGED <<slot, slotLock, session_gen, th, saveVars, nkeys, issued, era,
                 guesses>>
-----------------------------------------------------------------------------
(* The first step of a call: session_info / require_role under tlock, whose *)
(* answer is used after tlock is released.                                  *)

NeedRole(op) ==
  CASE op \in {"set_user_pin", "zeroize", "unlock"} -> {"SO"}
    [] op \in {"create", "use", "destroy"}          -> {"USER"}
    [] OTHER                                        -> Roles

\* The bounds on generations and keys, with room for the calls under way.
Running(ops, S) == Cardinality({t \in Threads : /\ th[t].pc = "cs"
                                                /\ th[t].op \in ops
                                                /\ th[t].slot \in S})

Room(op, s) ==
  LET bumps == {"destroy", "zeroize", "zeroize_forced"} IN
  /\ op \in bumps => slot[s].generation + Running(bumps, {s}) < MaxGen
  /\ op = "create" => nkeys + Running({"create"}, Slots) < MaxKeys

\* Thread t goes on with call c.
Go(t, c) == th' = [th EXCEPT ![t] = c]

SessionOps == {"login", "set_user_pin", "create", "use", "destroy", "zeroize",
               "unlock"}

\* init_token and zeroize_forced need no session.
CallWithoutSession(t, op, s) ==
  /\ th[t].pc = "idle"
  /\ Room(op, s)
  /\ Go(t, [Idle EXCEPT !.pc = "cs", !.op = op, !.slot = s])
  /\ UNCHANGED <<slot, slotLock, sessionVars, saveVars, nkeys, issued, era,
                 guesses>>

\* require_role.  zeroize and unlock name a slot and refuse any but the
\* session's own; use and destroy name a handle the caller was given.
Call(t, op, i) ==
  /\ th[t].pc = "idle"
  /\ sessions[i].open
  /\ sessions[i].role \in NeedRole(op)
  /\ Room(op, sessions[i].slot)
  /\ \E role \in IF op = "login" THEN {"USER", "SO"} ELSE {"PUBLIC"},
        h \in IF op \in {"use", "destroy"}
              THEN {x \in issued : x.slot = sessions[i].slot}
              ELSE {[slot |-> sessions[i].slot, gen |-> 0, key |-> 0]} :
       Go(t, [Idle EXCEPT !.pc = "cs", !.op = op, !.sess = Handle(i),
                          !.slot = sessions[i].slot, !.role = role,
                          !.handle = h.gen, !.key = h.key])
  /\ UNCHANGED <<slot, slotLock, sessionVars, saveVars, nkeys, issued, era,
                 guesses>>
-----------------------------------------------------------------------------
(* The critical section of a call, under the lock of its slot.              *)

\* Mutant: the section does not take the slot lock.
InSection_Unlocked(t, op) == th[t].pc = "cs" /\ th[t].op = op

InSection(t, op) ==
  /\ th[t].pc = "cs"
  /\ th[t].op = op
  /\ slotLock[th[t].slot] = {}

\* Mutant: a wrong PIN is answered before it is saved.
Leave_WrongPinUnsaved(t, r, pc, st) ==
  /\ slot' = [slot EXCEPT ![th[t].slot] = r]
  /\ Go(t, IF st = "WRONG_PIN" THEN Idle
           ELSE [th[t] EXCEPT !.pc = pc, !.st = st])

\* Leave the section: install the record and go on to pc with status st.
Leave(t, r, pc, st) ==
  /\ slot' = [slot EXCEPT ![th[t].slot] = r]
  /\ Go(t, [th[t] EXCEPT !.pc = pc, !.st = st])

Refused(t) == Leave(t, slot[th[t].slot], "commit", "DENIED")

\* slot_check_integrity, which also fails when it cannot compute the tag.
Intact(r, seen) == seen /\ r.sealed

InitToken(t) ==
  LET r == slot[th[t].slot] IN
  /\ InSection(t, "init_token")
  /\ \E seen \in Kdr :
       \/ /\ Intact(r, seen) /\ Legal(r.state, "INIT_TOKEN")
          /\ \E ok \in Kdr : Leave(t, init_token(r, ok), "commit", Resealed(ok))
       \/ \* the transition is made before the random bytes are drawn
          /\ Intact(r, seen) /\ Legal(r.state, "INIT_TOKEN")
          /\ RngMayFail \/ KdrMayFail
          /\ Leave(t, fsm_apply(r, "INIT_TOKEN"), "commit", "CRYPTO")
       \/ /\ ~(Intact(r, seen) /\ Legal(r.state, "INIT_TOKEN"))
          /\ Refused(t)
  /\ UNCHANGED <<slotLock, sessionVars, saveVars, nkeys, issued, era, guesses>>

SetUserPin(t) ==
  LET s == th[t].slot
      r == slot[s]
      allowed(seen) == Intact(r, seen) /\ r.state # "UNINIT"
  IN
  /\ InSection(t, "set_user_pin")
  /\ \E seen \in Kdr :
       \/ /\ allowed(seen)
          /\ \E ok \in Kdr : Leave(t, set_user_pin(r, ok), "commit", Resealed(ok))
          /\ guesses' = [guesses EXCEPT ![s] = 0]
       \/ /\ allowed(seen)
          /\ RngMayFail \/ KdrMayFail
          /\ Leave(t, set_user_pin_torn(r), "commit", "CRYPTO")
          /\ UNCHANGED guesses
       \/ /\ ~allowed(seen)
          /\ Refused(t)
          /\ UNCHANGED guesses
  /\ UNCHANGED <<slotLock, sessionVars, saveVars, nkeys, issued, era>>

\* hsm_session_login: the three answers, and the refusals that check no PIN
\* and do not commit, a verifier that cannot be computed among them.  ok of the
\* call is login_ok; era is what the PIN was checked against.
Login(t) ==
  LET s == th[t].slot
      r == slot[s]
      role == th[t].role
      checks(seen) == /\ Intact(r, seen)
                      /\ r.state # "UNINIT"
                      /\ ~(r.state = "LOCKED" /\ role = "USER")
                      /\ IF role = "SO" THEN r.has_so_pin ELSE r.has_user_pin
  IN
  /\ InSection(t, "login")
  /\ \E seen, ok \in Kdr :
       \/ /\ checks(seen)
          /\ role = "USER" => ~r.user_pin_torn
          /\ \E missed \in BOOLEAN :
               /\ role = "USER" => missed = (r.user_pin_fails # 0)
               /\ slot' = [slot EXCEPT ![s] = login_right(r, role, missed, ok)]
          /\ Go(t, [th[t] EXCEPT !.pc = "commit", !.ok = TRUE, !.era = era[s],
                                 !.st = Resealed(ok)])
          /\ guesses' = [guesses EXCEPT ![s] = IF role = "USER" THEN 0 ELSE @]
       \/ /\ checks(seen)
          /\ Leave(t, login_wrong(r, role, ok), "commit", "WRONG_PIN")
          /\ guesses' = [guesses EXCEPT ![s] = IF role = "USER" /\ @ <= HSM_PIN_MAX_FAILS
                                               THEN @ + 1 ELSE @]
       \/ /\ ~checks(seen)
          /\ Go(t, Idle)
          /\ UNCHANGED <<slot, guesses>>
  /\ UNCHANGED <<slotLock, sessionVars, saveVars, nkeys, issued, era>>

\* create_object, for generate and for load_seed.  A key made from a seed never
\* lives in hardware.  A failure before the key is in place leaves the slot as it
\* was; a reseal that fails after it only has the state put back.
CreateObject(t) ==
  LET r == slot[th[t].slot]
      k == nkeys + 1
  IN
  /\ InSection(t, "create")
  /\ \E ev \in {"GENERATE", "LOAD"}, seen, ok \in Kdr :
       \/ /\ Intact(r, seen) /\ Legal(r.state, ev)
          /\ \E kind \in KeyKinds :
               /\ ev = "LOAD" => kind # "hw"
               /\ \/ /\ ok
                     /\ slot' = [slot EXCEPT ![th[t].slot] =
                                   install_key(r, ev, k, kind, ok)]
                     /\ Go(t, [th[t] EXCEPT !.pc = "commit", !.key = k,
                                            !.handle = r.generation])  \* make_handle
                  \/ /\ ~ok
                     /\ \E again \in Kdr :
                          Leave(t, install_key_undone(r, ev, k, kind, again),
                                "commit", "CRYPTO")
          /\ nkeys' = k
       \/ /\ ~(Intact(r, seen) /\ Legal(r.state, ev)) \/ RngMayFail
          /\ Refused(t)
          /\ UNCHANGED nkeys
  /\ UNCHANGED <<slotLock, sessionVars, saveVars, issued, era, guesses>>

check_handle(r, gen, seen) ==
  /\ gen = r.generation
  /\ r.state \in {"LOADED", "IN_USE"}
  /\ Intact(r, seen)

\* begin_use of sign and decaps; the slot lock stays held.  A slot whose key
\* is gone fails in borrow_secret and puts the state back.
BeginUse(t) ==
  LET s == th[t].slot
      r == slot[s]
  IN
  /\ InSection(t, "use")
  /\ \E seen \in Kdr :
       \/ /\ check_handle(r, th[t].handle, seen) /\ Legal(r.state, "USE_BEGIN")
          /\ r.kind # "none"
          /\ Leave(t, fsm_apply(r, "USE_BEGIN"), "using", "OK")
          /\ slotLock' = [slotLock EXCEPT ![s] = {t}]
       \/ /\ ~check_handle(r, th[t].handle, seen) \/ r.kind = "none"
          /\ Go(t, Idle)
          /\ UNCHANGED <<slot, slotLock>>
  /\ UNCHANGED <<sessionVars, saveVars, nkeys, issued, era, guesses>>

\* Mutant: a use is saved before it lets go of the slot.
EndUse_SavesHeld(t) ==
  LET s == th[t].slot IN
  /\ th[t].pc = "using"
  /\ slot' = [slot EXCEPT ![s] = slot_reseal(fsm_apply(@, "USE_END"), TRUE)]
  /\ Go(t, [th[t] EXCEPT !.pc = "commit"])
  /\ UNCHANGED <<slotLock, sessionVars, saveVars, nkeys, issued, era, guesses>>

\* end_use: whether the operation worked or not, the slot goes back to LOADED;
\* one that worked is counted in the metadata.
EndUse(t) ==
  LET s == th[t].slot IN
  /\ th[t].pc = "using"
  /\ \E worked \in BOOLEAN, ok \in Kdr :
       slot' = [slot EXCEPT ![s] =
                  slot_reseal([fsm_apply(@, "USE_END") EXCEPT !.sealed = ~worked], ok)]
  /\ slotLock' = [slotLock EXCEPT ![s] = {}]
  /\ Go(t, Idle)
  /\ UNCHANGED <<sessionVars, saveVars, nkeys, issued, era, guesses>>

Destroy(t) ==
  LET r == slot[th[t].slot]
      allowed(seen) == check_handle(r, th[t].handle, seen) /\ Legal(r.state, "DESTROY")
  IN
  /\ InSection(t, "destroy")
  /\ \E seen \in Kdr :
       \/ /\ allowed(seen)
          /\ \E ok \in Kdr : Leave(t, destroy(r, ok), "commit", Resealed(ok))
       \/ /\ ~allowed(seen)
          /\ Refused(t)
  /\ UNCHANGED <<slotLock, sessionVars, saveVars, nkeys, issued, era, guesses>>

\* do_zeroize checks no seal: it is the way out of a slot that fails it.  One
\* whose reseal fails has wiped the slot, but does not drop the sessions; era
\* counts those that do.
Zeroize(t) ==
  LET s == th[t].slot IN
  /\ InSection(t, "zeroize") \/ InSection(t, "zeroize_forced")
  /\ \E ok \in Kdr :
       /\ Leave(t, do_zeroize(slot[s], ok), IF ok THEN "drop" ELSE "commit",
                Resealed(ok))
       /\ era' = [era EXCEPT ![s] = IF ok THEN @ + 1 ELSE @]
  /\ guesses' = [guesses EXCEPT ![s] = 0]
  /\ UNCHANGED <<slotLock, sessionVars, saveVars, nkeys, issued>>

\* Mutant: only User sessions are logged out.
drop_sessions_on_slot_UserOnly(s) ==
  [i \in 1..MAX_SESSIONS |->
     IF sessions[i].open /\ sessions[i].slot = s /\ sessions[i].role = "USER"
     THEN LoggedOut(sessions[i]) ELSE sessions[i]]

\* drop_sessions_on_slot, after the slot lock is released.
drop_sessions_on_slot(s) ==
  [i \in 1..MAX_SESSIONS |->
     IF sessions[i].open /\ sessions[i].slot = s
     THEN LoggedOut(sessions[i]) ELSE sessions[i]]

DropSessions(t) ==
  /\ th[t].pc = "drop"
  /\ sessions' = drop_sessions_on_slot(th[t].slot)
  /\ Go(t, [th[t] EXCEPT !.pc = "commit"])
  /\ UNCHANGED <<slot, slotLock, session_gen, saveVars, nkeys, issued, era,
                 guesses>>

Unlock(t) ==
  LET s == th[t].slot
      r == slot[s]
      allowed(seen) == Intact(r, seen) /\ Legal(r.state, "SO_UNLOCK")
  IN
  /\ InSection(t, "unlock")
  /\ \E seen \in Kdr :
       \/ /\ allowed(seen)
          /\ \E ok \in Kdr : Leave(t, unlock(r, ok), "commit", Resealed(ok))
          /\ guesses' = [guesses EXCEPT ![s] = 0]
       \/ /\ ~allowed(seen)
          /\ Refused(t)
          /\ UNCHANGED guesses
  /\ UNCHANGED <<slotLock, sessionVars, saveVars, nkeys, issued, era>>
-----------------------------------------------------------------------------
(* commit_security_state, slot_persist and the save it triggers.            *)

\* commit_security_state: a save that failed fails a call that had not.
commit_failed(st) == IF st = "OK" THEN "CRYPTO" ELSE st

\* The call after its commit: a login that succeeded still has to set the role
\* (whatever the commit said); any other call returns.  create returns a handle.
Returned(t, st) ==
  IF th[t].ok
  THEN /\ Go(t, [th[t] EXCEPT !.pc = "role", !.st = st])
       /\ UNCHANGED issued
  ELSE /\ Go(t, Idle)
       /\ issued' = IF th[t].op = "create" /\ st = "OK"
                    THEN issued \cup {[slot |-> th[t].slot,
                                       gen  |-> th[t].handle,
                                       key  |-> th[t].key]}
                    ELSE issued

\* slot_persist: without a hook, or with a save under way, it returns success
\* at once.
CommitSkipped(t) ==
  /\ th[t].pc = "commit"
  /\ persist_busy \/ ~PersistHook
  /\ Returned(t, th[t].st)
  /\ UNCHANGED <<slot, slotLock, sessionVars, saveVars, nkeys, era, guesses>>

CommitBegin(t) ==
  /\ th[t].pc = "commit"
  /\ ~persist_busy /\ PersistHook
  /\ persist_busy' = TRUE
  /\ cursor' = 1
  /\ snap' = disk
  /\ Go(t, [th[t] EXCEPT !.pc = "save"])
  /\ UNCHANGED <<slot, slotLock, sessionVars, disk, nkeys, issued, era, guesses>>

\* Mutant: the tag is not looked at.
SaveSlot_Unsealed(t) ==
  /\ th[t].pc = "save"
  /\ cursor \in Slots
  /\ slotLock[cursor] = {}
  /\ snap' = [snap EXCEPT ![cursor] = slot_serialize(slot[cursor])]
  /\ cursor' = cursor + 1
  /\ UNCHANGED <<slot, slotLock, sessionVars, persist_busy, disk, th, nkeys,
                 issued, era, guesses>>

\* hsm_slot_serialize of the next slot, under that slot's lock.  A slot whose
\* tag is stale, or cannot be checked, fails the whole save.
SaveSlot(t) ==
  /\ th[t].pc = "save"
  /\ cursor \in Slots
  /\ slotLock[cursor] = {}
  /\ \E seen \in Kdr :
       IF Intact(slot[cursor], seen)
       THEN /\ snap' = [snap EXCEPT ![cursor] = slot_serialize(slot[cursor])]
            /\ cursor' = cursor + 1
            /\ UNCHANGED th
       ELSE /\ Go(t, [th[t] EXCEPT !.pc = "unbusy", !.st = commit_failed(@)])
            /\ UNCHANGED <<cursor, snap>>
  /\ UNCHANGED <<slot, slotLock, sessionVars, persist_busy, disk, nkeys, issued,
                 era, guesses>>

AllSerialised == cursor = NumSlots + 1

\* tmp + fsync + rename: the file changes as a whole or not at all.
SavePublish(t) ==
  /\ th[t].pc = "save"
  /\ AllSerialised
  /\ \/ /\ disk' = snap
        /\ Go(t, [th[t] EXCEPT !.pc = "unbusy"])
     \/ /\ SaveMayFail
        /\ Go(t, [th[t] EXCEPT !.pc = "unbusy", !.st = commit_failed(@)])
        /\ UNCHANGED disk
  /\ UNCHANGED <<slot, slotLock, sessionVars, persist_busy, cursor, snap, nkeys,
                 issued, era, guesses>>

CommitEnd(t) ==
  /\ th[t].pc = "unbusy"
  /\ persist_busy' = FALSE
  /\ cursor' = 1
  /\ snap' = disk
  /\ Returned(t, th[t].st)
  /\ UNCHANGED <<slot, slotLock, sessionVars, disk, nkeys, era, guesses>>

\* set_session_role at the end of a successful login.
SetSessionRole(t) ==
  LET h == th[t].sess IN
  /\ th[t].pc = "role"
  /\ sessions' = IF SessionValid(h)
                 THEN [sessions EXCEPT ![h.idx] =
                         WithRole(@, th[t].role, h.gen, th[t].era)]
                 ELSE sessions
  /\ Go(t, Idle)
  /\ UNCHANGED <<slot, slotLock, session_gen, saveVars, nkeys, issued, era,
                 guesses>>
-----------------------------------------------------------------------------
\* Power loss or a kill at any point, then a start that loads the file; pqchsmd
\* does not come up with a file it cannot load and seal.  A wrong PIN whose answer
\* was never returned is not an answered guess.
Unanswered(s) ==
  Cardinality({t \in Threads : /\ th[t].pc # "idle" /\ th[t].slot = s
                               /\ th[t].role = "USER" /\ th[t].st = "WRONG_PIN"})

Restart ==
  /\ MayCrash
  /\ slot' = [s \in Slots |-> slot_reseal(disk[s], TRUE)]
  /\ slotLock' = [s \in Slots |-> {}]
  /\ sessions' = [i \in 1..MAX_SESSIONS |-> ClosedSession]
  /\ session_gen' = 0
  /\ th' = [t \in Threads |-> Idle]
  /\ persist_busy' = FALSE
  /\ cursor' = 1
  /\ snap' = disk
  /\ era' = [s \in Slots |-> 0]
  /\ guesses' = [s \in Slots |-> IF guesses[s] > Unanswered(s)
                                 THEN guesses[s] - Unanswered(s) ELSE 0]
  /\ UNCHANGED <<disk, nkeys, issued>>

\* The steps that bring a call to its end.
Step(t) ==
  \/ InitToken(t)   \/ SetUserPin(t)    \/ Login(t)       \/ CreateObject(t)
  \/ BeginUse(t)    \/ EndUse(t)        \/ Destroy(t)     \/ Zeroize(t)
  \/ DropSessions(t) \/ Unlock(t)       \/ CommitSkipped(t)
  \/ CommitBegin(t) \/ SaveSlot(t)      \/ SavePublish(t) \/ CommitEnd(t)
  \/ SetSessionRole(t)

Next ==
  \/ \E t \in Threads :
       \/ \E s \in Slots : SessionOpen(t, s)
       \/ \E i \in 1..MAX_SESSIONS : SessionClose(t, i) \/ SessionLogout(t, i)
       \/ \E op \in {"init_token", "zeroize_forced"}, s \in Slots :
            CallWithoutSession(t, op, s)
       \/ \E op \in SessionOps, i \in 1..MAX_SESSIONS : Call(t, op, i)
       \/ Step(t)
  \/ Restart

Spec == Init /\ [][Next]_vars

-----------------------------------------------------------------------------
(* Properties.                                                              *)

ThreadRec ==
  [pc : {"idle", "cs", "using", "drop", "commit", "save", "unbusy", "role"},
   op : SessionOps \cup {"none", "init_token", "zeroize_forced"},
   sess : [idx : 1..MAX_SESSIONS, gen : Nat], slot : Slots, role : Roles,
   handle : Nat, key : Nat, st : {"OK", "DENIED", "WRONG_PIN", "CRYPTO"},
   ok : BOOLEAN, era : Nat]

SessionRec == [open : BOOLEAN, slot : Slots, role : Roles, gen : Nat, by : Nat,
               auth : Nat]

\* Types of all the state, the persisted copies included.
TypeOK ==
  /\ slot \in [Slots -> SlotRec]
  /\ slotLock \in [Slots -> SUBSET Threads]
  /\ sessions \in [1..MAX_SESSIONS -> SessionRec]
  /\ session_gen \in Nat
  /\ th \in [Threads -> ThreadRec]
  /\ persist_busy \in BOOLEAN
  /\ cursor \in 1..(NumSlots + 1)
  /\ snap \in [Slots -> SlotRec]
  /\ disk \in [Slots -> SlotRec]
  /\ nkeys \in Nat
  /\ issued \subseteq [slot : Slots, gen : Nat, key : Nat]
  /\ era \in [Slots -> Nat]
  /\ guesses \in [Slots -> Nat]

\* IN_USE exists only while the thread inside sign or decaps holds the slot's
\* lock; no save ever writes it, so no restart finds a slot stuck in it.
InUseIsTransient ==
  \A s \in Slots :
    /\ slot[s].state = "IN_USE" <=> \E t \in Threads : th[t].pc = "using" /\ th[t].slot = s
    /\ "IN_USE" \notin {disk[s].state, disk[s].pre_lock}

\* A record whose state says that there is a key: LOADED, being used, or LOADED
\* when it was locked.
HoldsKey(r) == \/ r.state \in {"LOADED", "IN_USE"}
               \/ r.state = "LOCKED" /\ r.pre_lock = "LOADED"

\* A record that carries a private key is one whose state says so: destroy, zeroize
\* and every rollback leave no key behind in memory or in the file.  Not so for a
\* create_object that could not reseal the slot.
NoKeyOutsideLoaded ==
  \A s \in Slots : \A r \in {slot[s], disk[s]} : r.kind # "none" => HoldsKey(r)

\* The only key outside such a record is one that a failing create_object left in an
\* EMPTY slot, and no handle names it: no key that was ever given out is left behind
\* by destroy, zeroize, lockout or a rollback, in memory or in the file, and a
\* zeroized slot has neither key nor PIN, whether or not it could be sealed.
StrayKeysUnreachable ==
  \A s \in Slots : \A r \in {slot[s], disk[s]} :
    /\ r.kind # "none" /\ ~HoldsKey(r) => r.key \notin {h.key : h \in issued}
    /\ r.state = "UNINIT" => r.kind = "none" /\ ~r.has_so_pin /\ ~r.has_user_pin

\* A slot whose User PIN was missed HSM_PIN_MAX_FAILS times is LOCKED, in memory
\* and in the file, whatever calls race with the login that missed it.
FailsMeanLocked ==
  \A s \in Slots : \A r \in {slot[s], disk[s]} :
    r.user_pin_fails >= HSM_PIN_MAX_FAILS => r.state = "LOCKED"

\* A handle reaches only the key it was returned for: sign and decaps with it
\* never use a key made after that one was destroyed or zeroized.
UseReachesItsKey ==
  \A t \in Threads : th[t].pc = "using" => slot[th[t].slot].key = th[t].key

\* A logged-in session is one the login named: a login that outlives its session
\* does not log in the next session opened in the same table entry.
LoginIsOwn ==
  \A i \in 1..MAX_SESSIONS :
    sessions[i].role # "PUBLIC" => sessions[i].open /\ sessions[i].by = sessions[i].gen

\* Once a zeroize that could seal the slot has dropped its sessions, no session is
\* logged in by a PIN that was checked before it.
ZeroizeEndsLogins ==
  \A i \in 1..MAX_SESSIONS :
    \/ sessions[i].role = "PUBLIC"
    \/ sessions[i].auth = era[sessions[i].slot]
    \/ \E t \in Threads : th[t].pc = "drop" /\ th[t].slot = sessions[i].slot

\* With no call under way the file holds the security state memory holds, so a
\* power cut takes nothing back.
Quiet == \A t \in Threads : th[t].pc = "idle"

QuietMeansDurable ==
  Quiet => \A s \in Slots : disk[s] = slot_serialize(slot[s])

\* At most HSM_PIN_MAX_FAILS wrong User PINs are answered between two resets of
\* the counter, power cuts included.
PinGuessBound == \A s \in Slots : guesses[s] <= HSM_PIN_MAX_FAILS

\* The key a handle can reach.
LiveKey(r) == IF HoldsKey(r) THEN r.key ELSE 0

\* A key that can be reached disappears from a running slot only together with a
\* step of its generation, and is never replaced directly.
KeyGoneMovesGeneration ==
  [][Restart \/ \A s \in Slots :
       LiveKey(slot[s]) # 0 /\ LiveKey(slot'[s]) # LiveKey(slot[s]) =>
         LiveKey(slot'[s]) = 0 /\ slot'[s].generation > slot[s].generation]_vars

\* A slot whose tag does not match its metadata, as an init_token that failed half
\* way or a reseal that failed leaves it, stays as it is until it is zeroized: no call installs a key, sets
\* a PIN or checks one in it, and no save puts it into the file, where the next
\* start would give it a tag that matches.
TornSlotIsInert ==
  [][Restart \/ \A s \in Slots : ~slot[s].sealed /\ slot[s].state # "IN_USE" =>
       /\ slot'[s] \in {slot[s]} \cup {do_zeroize(slot[s], ok) : ok \in Kdr}
       /\ disk'[s].sealed]_vars

\* What the layers above see of the keys.  A slot being used holds its key, and a
\* locked one is what an unlock would make of it.
LifeState(r) ==
  CASE r.state = "IN_USE" -> "LOADED"
    [] r.state = "LOCKED" -> IF r.pre_lock = "LOADED" THEN "LOADED" ELSE "EMPTY"
    [] OTHER -> r.state

LifeOf(r) == [state |-> LifeState(r), gen |-> r.generation, key |-> LiveKey(r)]

LifeIn(f) == [s \in Slots |-> LifeOf(f[s])]

KeyLife == INSTANCE KeySlots WITH slots <- LifeIn(slot), stored <- LifeIn(disk),
                                  going <- LifeIn(snap), made <- nkeys

\* Whatever threads, failures, lockouts and restarts do, keys come and go as
\* module KeySlots says, and the file is made of nothing but what slots held.
ImplementsKeySlots == KeyLife!KeySpec

\* The slot lock a thread is waiting for, if any: that of its section, or that of the
\* slot its save has come to.
Waits(t) ==
  \/ th[t].pc = "cs" /\ slotLock[th[t].slot] # {}
  \/ th[t].pc = "save" /\ cursor \in Slots /\ slotLock[cursor] # {}

\* No thread waits for a slot lock, its own or another's, while it holds one: the hook,
\* which locks slot after slot, is never called under a slot lock.  So no two calls wait
\* for each other, and none for itself.
NobodyHoldsAndWaits ==
  \A t \in Threads : (\E s \in Slots : t \in slotLock[s]) => ~Waits(t)
=============================================================================
