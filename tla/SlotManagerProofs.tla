------------------------- MODULE SlotManagerProofs -------------------------
(***************************************************************************)
(* Proofs about SlotManager, for every finite set of threads, every number *)
(* of slots and sessions and every PIN limit, with crashes, failing random *)
(* numbers and failing saves.                                              *)
(***************************************************************************)
EXTENDS SlotManager, FiniteSetTheorems, TLAPS

\* What is true of every slot record, in memory or in the file.
RecOK(r) ==
  /\ ~KdrMayFail /\ r.kind # "none" => HoldsKey(r)
  /\ r.state = "UNINIT" => r.kind = "none" /\ ~r.has_so_pin /\ ~r.has_user_pin
  /\ r.user_pin_fails >= HSM_PIN_MAX_FAILS => r.state = "LOCKED"
  /\ r.pre_lock # "IN_USE"

Good(r) == r \in SlotRec /\ RecOK(r)

\* A record nobody is inside of.
Resting(r) == Good(r) /\ r.state # "IN_USE"

RecordsOK ==
  \A s \in Slots : Good(slot[s]) /\ Resting(snap[s]) /\ Resting(disk[s])

\* The state, the lock and the thread of a use agree.
LocksOK ==
  \A s \in Slots :
    /\ slot[s].state = "IN_USE" <=> slotLock[s] # {}
    /\ \A t \in Threads : t \in slotLock[s] <=> th[t].pc = "using" /\ th[t].slot = s
    /\ \A t, u \in slotLock[s] : t = u

\* A login is for the User or for the SO.
Proper(c) == c \in ThreadRec /\ (c.op = "login" => c.role # "PUBLIC")

CallsOK == \A t \in Threads : Proper(th[t])

IInv == TypeOK /\ RecordsOK /\ LocksOK /\ CallsOK
-----------------------------------------------------------------------------
(* The operations on a slot record keep it good.                            *)

\* The PIN limit is a positive number.
LEMMA PinLimit == HSM_PIN_MAX_FAILS \in Nat /\ HSM_PIN_MAX_FAILS > 0 /\ 0 \in 0..HSM_PIN_MAX_FAILS
BY ConstantsAssumption

\* pqc_kdr_derive answers or it fails.
LEMMA KdrAnswers == Kdr \subseteq BOOLEAN /\ (~KdrMayFail => Kdr = {TRUE})
BY ConstantsAssumption DEF Kdr

\* A record whose counter was reset is good if its other parts are.
LEMMA ResetGood ==
  ASSUME NEW q \in SlotRec, q.user_pin_fails = 0,
         ~KdrMayFail /\ q.kind # "none" => HoldsKey(q),
         q.state = "UNINIT" => q.kind = "none" /\ ~q.has_so_pin /\ ~q.has_user_pin,
         q.pre_lock # "IN_USE", q.state # "IN_USE"
  PROVE  Resting(q)
<1>1. ~(0 >= HSM_PIN_MAX_FAILS)
  BY PinLimit
<1> QED BY <1>1 DEF Resting, Good, RecOK

\* A reseal touches nothing but the tag, whether it works or not.
LEMMA ResealGood ==
  ASSUME NEW r, Resting(r), NEW ok \in BOOLEAN
  PROVE  Resting(slot_reseal(r, ok))
<1>1. CASE ok
  <2> DEFINE q == [r EXCEPT !.sealed = TRUE]
  <2>1. slot_reseal(r, ok) = q
    BY <1>1 DEF slot_reseal
  <2>2. Resting(q)
    BY DEF Resting, Good, RecOK, HoldsKey, SlotRec, SlotStates
  <2> QED BY <2>1, <2>2
<1>2. CASE ~ok
  BY <1>2 DEF slot_reseal
<1> QED BY <1>1, <1>2

\* INIT_TOKEN is made before the random bytes are drawn: both what a finished
\* init_token leaves and what one that failed half-way leaves is good.
LEMMA InitTokenGood ==
  ASSUME NEW r, Resting(r), Legal(r.state, "INIT_TOKEN"), NEW ok \in BOOLEAN
  PROVE  Resting(init_token(r, ok)) /\ Resting(fsm_apply(r, "INIT_TOKEN"))
<1>1. r.state = "UNINIT"
  BY DEF Legal, slot_fsm_next, Resting, Good, SlotRec, SlotStates
<1> DEFINE f == [r EXCEPT !.state = "EMPTY", !.pre_lock = r.pre_lock, !.sealed = FALSE]
           q == [f EXCEPT !.has_so_pin = TRUE, !.user_pin_fails = 0]
<1>2. fsm_apply(r, "INIT_TOKEN") = f
  BY <1>1 DEF fsm_apply, slot_fsm_next
<1>3. init_token(r, ok) = slot_reseal(q, ok)
  BY <1>2 DEF init_token
<1>4. Resting(f)
  BY <1>1, PinLimit DEF Resting, Good, RecOK, HoldsKey, SlotRec, SlotStates
<1>5. /\ q \in SlotRec /\ q.user_pin_fails = 0 /\ q.kind = r.kind
      /\ q.pre_lock = r.pre_lock /\ q.state = "EMPTY"
  BY PinLimit DEF Resting, Good, SlotRec, SlotStates
<1> HIDE DEF q, f
<1>6. Resting(q)
  BY <1>1, <1>5, ResetGood DEF Resting, Good, RecOK, HoldsKey
<1> QED BY <1>2, <1>3, <1>4, <1>6, ResealGood

\* set_user_pin resets the counter of a slot that has been initialised.
LEMMA SetUserPinGood ==
  ASSUME NEW r, Resting(r), r.state # "UNINIT", NEW ok \in BOOLEAN
  PROVE  Resting(set_user_pin(r, ok)) /\ Resting(set_user_pin_torn(r))
<1> DEFINE same == r.user_pin_fails = 0
           q == [r EXCEPT !.has_user_pin = TRUE, !.user_pin_torn = FALSE,
                          !.user_pin_fails = 0, !.sealed = same]
<1>1. set_user_pin(r, ok) = slot_reseal(q, ok)
  BY DEF set_user_pin
<1>0. same \in BOOLEAN
  OBVIOUS
<1> HIDE DEF same
<1>2. /\ q \in SlotRec /\ q.user_pin_fails = 0 /\ q.kind = r.kind
      /\ q.pre_lock = r.pre_lock /\ q.state = r.state
  BY <1>0, PinLimit DEF Resting, Good, SlotRec
<1> HIDE DEF q
<1>3. Resting(q)
  BY <1>2, ResetGood DEF Resting, Good, RecOK, HoldsKey
<1>4. Resting(set_user_pin_torn(r))
  BY DEF set_user_pin_torn, Resting, Good, RecOK, HoldsKey, SlotRec
<1> QED BY <1>1, <1>3, <1>4, ResealGood

\* Both outcomes of the PIN check of hsm_session_login; the limit is reached
\* only together with the lock, so the counter never passes it.
LEMMA LoginGood ==
  ASSUME NEW r, Resting(r), NEW role \in Roles, r.state # "UNINIT",
         ~(r.state = "LOCKED" /\ role = "USER"), role # "PUBLIC",
         NEW ok \in BOOLEAN
  PROVE  /\ \A missed \in BOOLEAN : Resting(login_right(r, role, missed, ok))
         /\ Resting(login_wrong(r, role, ok))
<1>1. ASSUME NEW missed \in BOOLEAN PROVE Resting(login_right(r, role, missed, ok))
  <2>1. CASE role = "USER"
    <3> DEFINE q == [r EXCEPT !.user_pin_fails = 0, !.sealed = ~missed]
    <3>1. login_right(r, role, missed, ok) = slot_reseal(q, ok)
      BY <2>1 DEF login_right
    <3>2. /\ q \in SlotRec /\ q.user_pin_fails = 0 /\ q.kind = r.kind
          /\ q.pre_lock = r.pre_lock /\ q.state = r.state
      BY PinLimit DEF Resting, Good, SlotRec
    <3> HIDE DEF q
    <3>3. Resting(q)
      BY <3>2, ResetGood DEF Resting, Good, RecOK, HoldsKey
    <3> QED BY <3>1, <3>3, ResealGood
  <2>2. CASE role = "SO"
    <3> DEFINE fails == r.user_pin_fails
               q == [r EXCEPT !.user_pin_fails = fails, !.sealed = ~missed]
    <3>1. login_right(r, role, missed, ok) = slot_reseal(q, ok)
      BY <2>2 DEF login_right
    <3>2. Resting(q)
      BY DEF Resting, Good, RecOK, HoldsKey, SlotRec
    <3> QED BY <3>1, <3>2, ResealGood
  <2> QED BY <2>1, <2>2 DEF Roles
<1>2. CASE role = "SO"
  <2> DEFINE fails == r.user_pin_fails
             q == [r EXCEPT !.user_pin_fails = fails, !.sealed = FALSE]
  <2>1. login_wrong(r, role, ok) = slot_reseal(q, ok)
    BY <1>2 DEF login_wrong
  <2>2. Resting(q)
    BY DEF Resting, Good, RecOK, HoldsKey, SlotRec
  <2> QED BY <1>1, <2>1, <2>2, ResealGood
<1>3. CASE role = "USER"
  <2>1. r.user_pin_fails \in 0..(HSM_PIN_MAX_FAILS - 1)
    BY <1>3, PinLimit DEF Resting, Good, RecOK, SlotRec
  <2>2. r.state \in {"EMPTY", "LOADED"}
    BY <1>3 DEF Resting, Good, SlotRec, SlotStates
  <2> DEFINE fails == r.user_pin_fails + 1
             c == [r EXCEPT !.user_pin_fails = fails, !.sealed = FALSE]
  <2>6. fails \in 0..HSM_PIN_MAX_FAILS
    BY <2>1, PinLimit
  <2>3. /\ c \in SlotRec /\ c.state = r.state /\ c.kind = r.kind
        /\ c.pre_lock = r.pre_lock /\ c.user_pin_fails = fails
        /\ fails \in 0..HSM_PIN_MAX_FAILS
    <3> HIDE DEF fails
    <3>1. r \in SlotRec
      BY DEF Resting, Good
    <3> QED BY <2>6, <3>1 DEF SlotRec
  <2>0. login_wrong(r, role, ok) =
          slot_reseal(IF c.user_pin_fails >= HSM_PIN_MAX_FAILS
                      THEN fsm_apply(c, "PIN_LOCKOUT") ELSE c, ok)
    BY <1>3 DEF login_wrong
  <2> HIDE DEF fails
  <2>4. CASE c.user_pin_fails >= HSM_PIN_MAX_FAILS
    <3> DEFINE q == [c EXCEPT !.state = "LOCKED", !.pre_lock = c.state, !.sealed = FALSE]
    <3>2. fsm_apply(c, "PIN_LOCKOUT") = q
      BY <2>2, <2>3 DEF fsm_apply, slot_fsm_next
    <3>1. login_wrong(r, role, ok) = slot_reseal(q, ok)
      BY <2>0, <2>4, <3>2
    <3> HIDE DEF c
    <3>3. Resting(q)
      BY <2>2, <2>3 DEF Resting, Good, RecOK, HoldsKey, SlotRec, SlotStates
    <3> QED BY <3>1, <3>3, <1>1, ResealGood
  <2>5. CASE ~(c.user_pin_fails >= HSM_PIN_MAX_FAILS)
    <3>1. login_wrong(r, role, ok) = slot_reseal(c, ok)
      BY <2>0, <2>5
    <3>2. Resting(c)
      BY <2>1, <2>2, <2>3, <2>5, PinLimit
         DEF Resting, Good, RecOK, HoldsKey, SlotRec, SlotStates
    <3> QED BY <3>1, <3>2, <1>1, ResealGood
  <2> QED BY <2>4, <2>5
<1> QED BY <1>1, <1>2, <1>3 DEF Roles

\* install_key, for generate and for load_seed; what its failing reseal leaves
\* once the state was put back can only come about if pqc_kdr_derive may fail.
LEMMA InstallGood ==
  ASSUME NEW r, Resting(r), NEW ev \in {"GENERATE", "LOAD"}, Legal(r.state, ev),
         NEW k \in Nat, NEW kind \in {"sk", "seed", "hw"}, NEW ok \in BOOLEAN
  PROVE  /\ Resting(install_key(r, ev, k, kind, ok))
         /\ KdrMayFail => Resting(install_key_undone(r, ev, k, kind, ok))
<1>1. r.state = "EMPTY"
  BY DEF Legal, slot_fsm_next, Resting, Good, SlotRec, SlotStates
<1> DEFINE f == [r EXCEPT !.state = "LOADED", !.pre_lock = r.pre_lock, !.sealed = FALSE]
           q == [[f EXCEPT !.key = 0, !.kind = "none"] EXCEPT !.key = k, !.kind = kind]
           u == [q EXCEPT !.state = r.state]
<1>2. fsm_apply(r, ev) = f
  BY <1>1 DEF fsm_apply, slot_fsm_next
<1>3. /\ install_key(r, ev, k, kind, ok) = slot_reseal(q, ok)
      /\ install_key_undone(r, ev, k, kind, ok) = slot_reseal(u, ok)
  BY <1>2 DEF install_key, install_key_undone, slot_wipe_key_material, slot_reseal
<1>4. /\ q \in SlotRec /\ q.user_pin_fails = r.user_pin_fails /\ q.kind = kind
      /\ q.pre_lock = r.pre_lock /\ q.state = "LOADED"
  BY DEF Resting, Good, SlotRec, SlotStates
<1> HIDE DEF q
<1>5. /\ u \in SlotRec /\ u.user_pin_fails = r.user_pin_fails
      /\ u.pre_lock = r.pre_lock /\ u.state = "EMPTY"
  BY <1>1, <1>4 DEF SlotRec, SlotStates
<1> HIDE DEF u
<1>6. Resting(q)
  BY <1>1, <1>4 DEF Resting, Good, RecOK, HoldsKey
<1>7. KdrMayFail => Resting(u)
  BY <1>1, <1>5 DEF Resting, Good, RecOK, HoldsKey
<1> QED BY <1>3, <1>6, <1>7, ResealGood

\* destroy leaves an EMPTY record with no key.
LEMMA DestroyGood ==
  ASSUME NEW r, Resting(r), Legal(r.state, "DESTROY"), NEW ok \in BOOLEAN
  PROVE  Resting(destroy(r, ok))
<1>1. r.state = "LOADED"
  BY DEF Legal, slot_fsm_next, Resting, Good, SlotRec, SlotStates
<1> DEFINE f == [r EXCEPT !.state = "EMPTY", !.pre_lock = r.pre_lock, !.sealed = FALSE]
           w == [f EXCEPT !.key = 0, !.kind = "none"]
           n == w.generation + 1
           q == [w EXCEPT !.generation = n]
<1>2. fsm_apply(r, "DESTROY") = f
  BY <1>1 DEF fsm_apply, slot_fsm_next
<1>3. destroy(r, ok) = slot_reseal(q, ok)
  BY <1>2 DEF destroy, slot_wipe_key_material
<1>4. /\ w \in SlotRec /\ w.user_pin_fails = r.user_pin_fails /\ w.kind = "none"
      /\ w.pre_lock = r.pre_lock /\ w.state = "EMPTY"
  BY DEF Resting, Good, SlotRec, SlotStates
<1> HIDE DEF w
<1>5. n \in Nat
  BY <1>4 DEF SlotRec
<1> HIDE DEF n
<1>6. /\ q \in SlotRec /\ q.user_pin_fails = r.user_pin_fails /\ q.kind = "none"
      /\ q.pre_lock = r.pre_lock /\ q.state = "EMPTY"
  BY <1>4, <1>5 DEF SlotRec, SlotStates
<1> HIDE DEF q
<1>7. Resting(q)
  BY <1>1, <1>6, PinLimit DEF Resting, Good, RecOK, HoldsKey
<1> QED BY <1>3, <1>7, ResealGood

\* zeroize leaves an UNINIT record with neither key nor PIN, whatever it finds
\* and whether or not it can seal it.
LEMMA ZeroizeGood ==
  ASSUME NEW r, Good(r), NEW ok \in BOOLEAN
  PROVE  Resting(do_zeroize(r, ok))
<1> DEFINE f == [r EXCEPT !.state = "UNINIT", !.pre_lock = r.pre_lock, !.sealed = FALSE]
           w == [[f EXCEPT !.key = 0, !.kind = "none"]
                   EXCEPT !.has_so_pin = FALSE, !.has_user_pin = FALSE,
                          !.user_pin_torn = FALSE]
           n == w.generation + 1
           q == [w EXCEPT !.generation = n, !.pre_lock = "EMPTY",
                          !.user_pin_fails = 0]
<1>1. fsm_apply(r, "ZEROIZE") = f
  BY DEF fsm_apply, slot_fsm_next
<1>2. do_zeroize(r, ok) = slot_reseal(q, ok)
  BY <1>1 DEF do_zeroize, slot_wipe_key_material, slot_wipe_pins
<1>3. /\ w \in SlotRec /\ w.kind = "none" /\ w.state = "UNINIT"
      /\ ~w.has_so_pin /\ ~w.has_user_pin
  BY DEF Good, SlotRec, SlotStates
<1> HIDE DEF w
<1>4. n \in Nat
  BY <1>3 DEF SlotRec
<1> HIDE DEF n
<1>5. /\ q \in SlotRec /\ q.user_pin_fails = 0 /\ q.kind = "none"
      /\ q.pre_lock = "EMPTY" /\ q.state = "UNINIT"
      /\ ~q.has_so_pin /\ ~q.has_user_pin
  BY <1>3, <1>4, PinLimit DEF SlotRec, SlotStates
<1> HIDE DEF q
<1> QED BY <1>2, <1>5, ResetGood, ResealGood

\* unlock restores the state before the lock, which is never IN_USE.
LEMMA UnlockGood ==
  ASSUME NEW r, Resting(r), Legal(r.state, "SO_UNLOCK"), NEW ok \in BOOLEAN
  PROVE  Resting(unlock(r, ok))
<1>1. r.state = "LOCKED"
  BY DEF Legal, slot_fsm_next, Resting, Good, SlotRec, SlotStates
<1> DEFINE target == slot_fsm_unlock_target(r.pre_lock)
           q == [[r EXCEPT !.state = target, !.pre_lock = r.pre_lock, !.sealed = FALSE]
                    EXCEPT !.user_pin_fails = 0]
<1>2. unlock(r, ok) = slot_reseal(q, ok)
  BY DEF unlock, fsm_apply
<1>3. target \in {"LOADED", "EMPTY"} /\ (r.pre_lock = "LOADED" => target = "LOADED")
  BY DEF slot_fsm_unlock_target
<1> HIDE DEF target
<1>4. /\ q \in SlotRec /\ q.user_pin_fails = 0 /\ q.kind = r.kind
      /\ q.pre_lock = r.pre_lock /\ q.state = target
  BY <1>3, PinLimit DEF Resting, Good, SlotRec, SlotStates
<1> HIDE DEF q
<1>5. Resting(q)
  BY <1>1, <1>3, <1>4, ResetGood DEF Resting, Good, RecOK, HoldsKey
<1> QED BY <1>2, <1>5, ResealGood

\* What end_use makes of a record in use.
UseEnded(r, worked, ok) ==
  slot_reseal([fsm_apply(r, "USE_END") EXCEPT !.sealed = ~worked], ok)

\* begin_use and end_use.
LEMMA UseGood ==
  ASSUME NEW r, Good(r)
  PROVE  /\ Legal(r.state, "USE_BEGIN") =>
              /\ Good(fsm_apply(r, "USE_BEGIN"))
              /\ fsm_apply(r, "USE_BEGIN").state = "IN_USE"
         /\ r.state = "IN_USE" =>
              \A worked, ok \in BOOLEAN : Resting(UseEnded(r, worked, ok))
<1>1. ASSUME Legal(r.state, "USE_BEGIN")
      PROVE  /\ Good(fsm_apply(r, "USE_BEGIN"))
             /\ fsm_apply(r, "USE_BEGIN").state = "IN_USE"
  <2>1. r.state = "LOADED"
    BY <1>1 DEF Legal, slot_fsm_next, Good, SlotRec, SlotStates
  <2>2. fsm_apply(r, "USE_BEGIN") =
          [r EXCEPT !.state = "IN_USE", !.pre_lock = r.pre_lock, !.sealed = FALSE]
    BY <2>1 DEF fsm_apply, slot_fsm_next
  <2> QED BY <2>1, <2>2 DEF Good, RecOK, HoldsKey, SlotRec, SlotStates
<1>2. ASSUME r.state = "IN_USE", NEW worked \in BOOLEAN, NEW ok \in BOOLEAN
      PROVE  Resting(UseEnded(r, worked, ok))
  <2> DEFINE q == [[r EXCEPT !.state = "LOADED", !.pre_lock = r.pre_lock, !.sealed = FALSE]
                     EXCEPT !.sealed = ~worked]
  <2>1. UseEnded(r, worked, ok) = slot_reseal(q, ok)
    BY <1>2 DEF fsm_apply, slot_fsm_next, UseEnded
  <2>2. Resting(q)
    BY <1>2 DEF Resting, Good, RecOK, HoldsKey, SlotRec, SlotStates
  <2> QED BY <2>1, <2>2, ResealGood
<1> QED BY <1>1, <1>2

\* What a save writes of a resting record, and what a start makes of it.
LEMMA SaveGood ==
  ASSUME NEW r, Resting(r)
  PROVE  Resting(slot_serialize(r)) /\ Resting(slot_reseal(r, TRUE))
<1>1. Resting(slot_serialize(r))
  BY DEF Resting, Good, RecOK, HoldsKey, SlotRec, SlotStates, slot_serialize,
         slot_wipe_key_material
<1> QED BY <1>1, ResealGood
-----------------------------------------------------------------------------
(* Steps.                                                                   *)

\* The fresh token satisfies the invariant.
LEMMA InitInv == Init => IInv
<1> SUFFICES ASSUME Init PROVE IInv
  OBVIOUS
<1>0. /\ NumSlots \in Nat \ {0} /\ MAX_SESSIONS \in Nat \ {0}
      /\ 1 \in Slots /\ 1 \in 1..MAX_SESSIONS /\ 1 \in 1..(NumSlots + 1)
  BY ConstantsAssumption DEF Slots
<1>1. FreshSlot \in SlotRec
  BY PinLimit DEF FreshSlot, SlotRec, SlotStates
<1>2. Resting(FreshSlot)
  BY <1>1, ResetGood DEF FreshSlot, HoldsKey
<1>3. Idle \in ThreadRec
  BY <1>0 DEF Idle, ThreadRec, NoSession, Roles
<1>4. ClosedSession \in SessionRec
  BY <1>0 DEF ClosedSession, SessionRec, Roles
<1>5. TypeOK
  BY <1>0, <1>1, <1>3, <1>4 DEF Init, TypeOK
<1>6. RecordsOK
  BY <1>2 DEF Init, RecordsOK, Resting
<1>7. LocksOK
  BY DEF Init, LocksOK, FreshSlot, Idle
<1>8. CallsOK
  BY <1>3 DEF Init, CallsOK, Proper, Idle
<1> QED BY <1>5, <1>6, <1>7, <1>8 DEF IInv

\* The constants of the model have their types.
LEMMA Types ==
  /\ Proper(Idle) /\ Idle.pc = "idle"
  /\ ClosedSession \in SessionRec
  /\ 1 \in Slots /\ 1 \in 1..(NumSlots + 1)
<1>0. /\ NumSlots \in Nat \ {0} /\ MAX_SESSIONS \in Nat \ {0}
      /\ 1 \in Slots /\ 1 \in 1..MAX_SESSIONS /\ 1 \in 1..(NumSlots + 1)
  BY ConstantsAssumption DEF Slots
<1> QED BY <1>0 DEF Proper, Idle, ThreadRec, NoSession, Roles, ClosedSession, SessionRec

\* A record in a section of a thread is resting: IN_USE means someone else
\* holds the lock.
LEMMA SectionRests ==
  ASSUME IInv, NEW t \in Threads, slotLock[th[t].slot] = {}
  PROVE  th[t].slot \in Slots /\ Resting(slot[th[t].slot])
<1>1. th[t].slot \in Slots
  BY DEF IInv, TypeOK, ThreadRec
<1> QED BY <1>1 DEF IInv, RecordsOK, LocksOK, Resting

\* One thread goes on with a proper call.
LEMMA GoKeeps ==
  ASSUME IInv, NEW t \in Threads, NEW c, Proper(c), Go(t, c)
  PROVE  /\ th' \in [Threads -> ThreadRec] /\ CallsOK'
         /\ th'[t] = c /\ \A u \in Threads \ {t} : th'[u] = th[u]
<1>1. th' = [th EXCEPT ![t] = c] /\ c \in ThreadRec /\ th \in [Threads -> ThreadRec]
  BY DEF Go, Proper, IInv, TypeOK
<1>2. /\ th' \in [Threads -> ThreadRec]
      /\ th'[t] = c /\ \A u \in Threads \ {t} : th'[u] = th[u]
  BY <1>1
<1>3. ASSUME NEW u \in Threads PROVE Proper(th'[u])
  <2>1. CASE u = t
    BY <2>1, <1>2
  <2>2. CASE u # t
    <3>1. th'[u] = th[u] /\ Proper(th[u])
      BY <2>2, <1>2 DEF IInv, CallsOK
    <3> QED BY <3>1
  <2> QED BY <2>1, <2>2
<1>4. CallsOK'
  BY <1>3 DEF CallsOK, Proper
<1> QED BY <1>2, <1>4

\* A step of a section that leaves a resting record behind and does not start a
\* use keeps the records and the locks right.
LEMMA SectionKeeps ==
  ASSUME IInv, NEW t \in Threads, th[t].pc # "using", slotLock[th[t].slot] = {},
         NEW r, Resting(r), slot' = [slot EXCEPT ![th[t].slot] = r],
         NEW c, Proper(c), c.pc # "using", Go(t, c),
         UNCHANGED <<slotLock, snap, disk>>
  PROVE  slot' \in [Slots -> SlotRec] /\ RecordsOK' /\ LocksOK'
<1>1. th[t].slot \in Slots
  BY SectionRests
<1>2. slot' \in [Slots -> SlotRec]
  BY <1>1 DEF IInv, TypeOK, Resting, Good
<1>3. RecordsOK'
  BY <1>1 DEF IInv, TypeOK, RecordsOK, Resting, Good, RecOK, HoldsKey
<1>4. th'[t] = c /\ \A u \in Threads \ {t} : th'[u] = th[u]
  BY GoKeeps
<1>5. LocksOK'
  <2> SUFFICES ASSUME NEW s \in Slots
               PROVE  /\ slot'[s].state = "IN_USE" <=> slotLock[s] # {}
                      /\ \A u \in Threads :
                           u \in slotLock[s] <=> th'[u].pc = "using" /\ th'[u].slot = s
                      /\ \A u, v \in slotLock[s] : u = v
    BY DEF LocksOK
  <2>1. slot'[s].state = "IN_USE" <=> slotLock[s] # {}
    <3>1. slot'[s] = IF s = th[t].slot THEN r ELSE slot[s]
      BY <1>1 DEF IInv, TypeOK
    <3>2. slot[s].state = "IN_USE" <=> slotLock[s] # {}
      BY DEF IInv, LocksOK
    <3>3. r.state # "IN_USE"
      BY DEF Resting
    <3> QED BY <3>1, <3>2, <3>3
  <2>2. ASSUME NEW u \in Threads
        PROVE  u \in slotLock[s] <=> th'[u].pc = "using" /\ th'[u].slot = s
    <3>1. CASE u = t
      BY <1>4, <3>1 DEF IInv, LocksOK
    <3>2. CASE u # t
      BY <1>4, <3>2 DEF IInv, LocksOK
    <3> QED BY <3>1, <3>2
  <2> QED BY <2>1, <2>2 DEF IInv, LocksOK
<1> QED BY <1>2, <1>3, <1>5

\* The same for a step that does not touch the slots.
LEMMA QuietKeeps ==
  ASSUME IInv, NEW t \in Threads, th[t].pc # "using",
         NEW c, Proper(c), c.pc # "using", Go(t, c), UNCHANGED <<slot, slotLock>>
  PROVE  slot' \in [Slots -> SlotRec] /\ (\A s \in Slots : Good(slot'[s])) /\ LocksOK'
<1>1. slot' \in [Slots -> SlotRec] /\ \A s \in Slots : Good(slot'[s])
  BY DEF IInv, TypeOK, RecordsOK, Good, RecOK, HoldsKey
<1>2. th'[t] = c /\ \A u \in Threads \ {t} : th'[u] = th[u]
  BY GoKeeps
<1>3. LocksOK'
  BY <1>2 DEF IInv, LocksOK
<1> QED BY <1>1, <1>3

\* Leave, with a resting record, on to a step that is not a use.
LEMMA LeaveKeeps ==
  ASSUME IInv, NEW t \in Threads, th[t].pc = "cs", slotLock[th[t].slot] = {},
         NEW r, Resting(r), NEW pc \in {"commit", "drop"},
         NEW st \in {"OK", "DENIED", "WRONG_PIN", "CRYPTO"},
         Leave(t, r, pc, st),
         UNCHANGED <<slotLock, sessionVars, saveVars, nkeys, issued>>,
         era' \in [Slots -> Nat], guesses' \in [Slots -> Nat]
  PROVE  IInv'
<1> DEFINE c == [th[t] EXCEPT !.pc = pc, !.st = st]
<1>1. Proper(th[t])
  BY DEF IInv, CallsOK
<1>2. Proper(c) /\ c.pc = pc
  BY <1>1 DEF Proper, ThreadRec
<1>3. Go(t, c) /\ slot' = [slot EXCEPT ![th[t].slot] = r] /\ UNCHANGED <<slotLock, snap, disk>>
  BY DEF Leave, saveVars
<1> HIDE DEF c
<1>4. th' \in [Threads -> ThreadRec] /\ CallsOK'
  BY <1>2, <1>3, GoKeeps
<1>5. slot' \in [Slots -> SlotRec] /\ RecordsOK' /\ LocksOK'
  BY <1>2, <1>3, SectionKeeps
<1> QED BY <1>4, <1>5 DEF IInv, TypeOK, saveVars, sessionVars

\* A call refused in its section.
LEMMA RefusedKeeps ==
  ASSUME IInv, NEW t \in Threads, th[t].pc = "cs", slotLock[th[t].slot] = {},
         Refused(t), UNCHANGED <<slotLock, sessionVars, saveVars, nkeys, issued>>,
         UNCHANGED <<era, guesses>>
  PROVE  IInv'
<1>1. Resting(slot[th[t].slot])
  BY SectionRests
<1>2. era' \in [Slots -> Nat] /\ guesses' \in [Slots -> Nat]
  BY DEF IInv, TypeOK
<1> QED BY <1>1, <1>2, LeaveKeeps DEF Refused

\* A step that ends a call or moves it on, with the slots, the locks, the
\* sessions and the saved copies as they were.
LEMMA GoOnKeeps ==
  ASSUME IInv, NEW t \in Threads, th[t].pc # "using",
         NEW c, Proper(c), c.pc # "using", Go(t, c),
         UNCHANGED <<slot, slotLock, sessionVars, snap, disk, nkeys, era, guesses>>,
         persist_busy' \in BOOLEAN, cursor' \in 1..(NumSlots + 1),
         issued' \subseteq [slot : Slots, gen : Nat, key : Nat]
  PROVE  IInv'
<1>1. th' \in [Threads -> ThreadRec] /\ CallsOK'
  BY GoKeeps
<1>2. slot' \in [Slots -> SlotRec] /\ (\A s \in Slots : Good(slot'[s])) /\ LocksOK'
  BY QuietKeeps
<1>3. RecordsOK'
  BY <1>2 DEF IInv, RecordsOK, Resting, Good, RecOK, HoldsKey
<1> QED BY <1>1, <1>2, <1>3 DEF IInv, TypeOK, sessionVars
-----------------------------------------------------------------------------
(* One lemma per action.                                                    *)

\* init_token, with and without random bytes.
LEMMA InitTokenInv == ASSUME IInv, NEW t \in Threads, InitToken(t) PROVE IInv'
<1> DEFINE r == slot[th[t].slot]
<1>1. Resting(r) /\ th[t].pc = "cs" /\ slotLock[th[t].slot] = {}
  BY SectionRests DEF InitToken, InSection
<1>2. UNCHANGED <<slotLock, sessionVars, saveVars, nkeys, issued, era, guesses>>
  BY DEF InitToken
<1>3. era' \in [Slots -> Nat] /\ guesses' \in [Slots -> Nat]
  BY <1>2 DEF IInv, TypeOK
<1>4. \/ /\ Legal(r.state, "INIT_TOKEN")
         /\ \E ok \in Kdr : Leave(t, init_token(r, ok), "commit", Resealed(ok))
      \/ /\ Legal(r.state, "INIT_TOKEN")
         /\ Leave(t, fsm_apply(r, "INIT_TOKEN"), "commit", "CRYPTO")
      \/ Refused(t)
  BY DEF InitToken
<1>5. CASE /\ Legal(r.state, "INIT_TOKEN")
           /\ \E ok \in Kdr : Leave(t, init_token(r, ok), "commit", Resealed(ok))
  <2>1. PICK ok \in BOOLEAN : Leave(t, init_token(r, ok), "commit", Resealed(ok))
    BY <1>5, KdrAnswers
  <2>2. Resting(init_token(r, ok)) /\ Resealed(ok) \in {"OK", "CRYPTO"}
    BY <1>1, <1>5, InitTokenGood DEF Resealed
  <2> QED BY <1>1, <1>2, <1>3, <2>1, <2>2, LeaveKeeps
<1>6. CASE /\ Legal(r.state, "INIT_TOKEN")
           /\ Leave(t, fsm_apply(r, "INIT_TOKEN"), "commit", "CRYPTO")
  <2>1. Resting(fsm_apply(r, "INIT_TOKEN"))
    BY <1>1, <1>6, InitTokenGood
  <2> QED BY <1>1, <1>2, <1>3, <1>6, <2>1, LeaveKeeps
<1> QED BY <1>1, <1>2, <1>4, <1>5, <1>6, RefusedKeeps

\* set_user_pin.
LEMMA SetUserPinInv == ASSUME IInv, NEW t \in Threads, SetUserPin(t) PROVE IInv'
<1> DEFINE r == slot[th[t].slot]
<1>1. /\ Resting(r) /\ th[t].pc = "cs" /\ slotLock[th[t].slot] = {}
      /\ th[t].slot \in Slots
  BY SectionRests DEF SetUserPin, InSection
<1>2. UNCHANGED <<slotLock, sessionVars, saveVars, nkeys, issued, era>>
  BY DEF SetUserPin
<1>3. \/ /\ r.state # "UNINIT"
         /\ \E ok \in Kdr : Leave(t, set_user_pin(r, ok), "commit", Resealed(ok))
         /\ guesses' = [guesses EXCEPT ![th[t].slot] = 0]
      \/ /\ r.state # "UNINIT" /\ Leave(t, set_user_pin_torn(r), "commit", "CRYPTO")
         /\ UNCHANGED guesses
      \/ Refused(t) /\ UNCHANGED guesses
  BY DEF SetUserPin
<1>4. era' \in [Slots -> Nat] /\ guesses' \in [Slots -> Nat]
  <2>1. guesses' = [guesses EXCEPT ![th[t].slot] = 0] \/ guesses' = guesses
    BY <1>3
  <2>2. era \in [Slots -> Nat] /\ guesses \in [Slots -> Nat] /\ era' = era
    BY <1>2 DEF IInv, TypeOK
  <2> QED BY <2>1, <2>2
<1>5. CASE /\ r.state # "UNINIT"
           /\ \E ok \in Kdr : Leave(t, set_user_pin(r, ok), "commit", Resealed(ok))
  <2>1. PICK ok \in BOOLEAN : Leave(t, set_user_pin(r, ok), "commit", Resealed(ok))
    BY <1>5, KdrAnswers
  <2>2. Resting(set_user_pin(r, ok)) /\ Resealed(ok) \in {"OK", "CRYPTO"}
    BY <1>1, <1>5, SetUserPinGood DEF Resealed
  <2> QED BY <1>1, <1>2, <1>4, <2>1, <2>2, LeaveKeeps
<1>6. CASE r.state # "UNINIT" /\ Leave(t, set_user_pin_torn(r), "commit", "CRYPTO")
  <2>1. Resting(set_user_pin_torn(r))
    BY <1>1, <1>6, SetUserPinGood
  <2> QED BY <1>1, <1>2, <1>4, <1>6, <2>1, LeaveKeeps
<1>7. CASE Refused(t) /\ UNCHANGED guesses
  BY <1>1, <1>2, <1>7, RefusedKeeps
<1> QED BY <1>3, <1>5, <1>6, <1>7

\* hsm_session_login up to the release of the slot lock.
LEMMA LoginInv == ASSUME IInv, NEW t \in Threads, Login(t) PROVE IInv'
<1> DEFINE s == th[t].slot
           r == slot[s]
           role == th[t].role
           right(ok) == [th[t] EXCEPT !.pc = "commit", !.ok = TRUE, !.era = era[s],
                                      !.st = Resealed(ok)]
           checks == r.state # "UNINIT" /\ ~(r.state = "LOCKED" /\ role = "USER")
<1>1. Resting(r) /\ th[t].pc = "cs" /\ slotLock[s] = {} /\ s \in Slots
  BY SectionRests DEF Login, InSection
<1>2. Proper(th[t]) /\ role \in Roles /\ role # "PUBLIC" /\ era[s] \in Nat
  BY <1>1 DEF IInv, CallsOK, Proper, ThreadRec, TypeOK, Login, InSection
<1>3. UNCHANGED <<slotLock, sessionVars, saveVars, nkeys, issued, era>>
  BY DEF Login
<1>4. PICK ok \in BOOLEAN :
      \/ /\ checks
         /\ \E missed \in BOOLEAN :
              slot' = [slot EXCEPT ![s] = login_right(r, role, missed, ok)]
         /\ Go(t, right(ok))
         /\ guesses' = [guesses EXCEPT ![s] = IF role = "USER" THEN 0 ELSE @]
      \/ /\ checks /\ Leave(t, login_wrong(r, role, ok), "commit", "WRONG_PIN")
         /\ guesses' = [guesses EXCEPT ![s] =
                          IF role = "USER" /\ @ <= HSM_PIN_MAX_FAILS THEN @ + 1 ELSE @]
      \/ Go(t, Idle) /\ UNCHANGED <<slot, guesses>>
  BY KdrAnswers DEF Login
<1>5. era' \in [Slots -> Nat] /\ guesses' \in [Slots -> Nat]
  <2>1. /\ era \in [Slots -> Nat] /\ guesses \in [Slots -> Nat]
        /\ guesses[s] \in Nat /\ guesses[s] + 1 \in Nat
    BY <1>1 DEF IInv, TypeOK
  <2>2. \/ guesses' = [guesses EXCEPT ![s] = 0] \/ guesses' = [guesses EXCEPT ![s] = @]
        \/ guesses' = [guesses EXCEPT ![s] = @ + 1] \/ guesses' = guesses
    BY <1>4
  <2> QED BY <1>1, <1>3, <2>1, <2>2
<1>6. checks => /\ \A missed \in BOOLEAN : Resting(login_right(r, role, missed, ok))
                /\ Resting(login_wrong(r, role, ok))
  BY <1>1, <1>2, LoginGood
<1>7. CASE /\ checks
           /\ \E missed \in BOOLEAN :
                slot' = [slot EXCEPT ![s] = login_right(r, role, missed, ok)]
           /\ Go(t, right(ok))
  <2>0. PICK missed \in BOOLEAN :
          slot' = [slot EXCEPT ![s] = login_right(r, role, missed, ok)]
    BY <1>7
  <2> DEFINE c == right(ok)
  <2>1. Proper(c) /\ c.pc = "commit"
    BY <1>2 DEF Proper, ThreadRec, Resealed
  <2>2. UNCHANGED <<slotLock, snap, disk>> /\ Go(t, c)
    BY <1>3, <1>7 DEF saveVars
  <2> HIDE DEF c
  <2>5. Resting(login_right(r, role, missed, ok))
    BY <1>6, <1>7
  <2>3. slot' \in [Slots -> SlotRec] /\ RecordsOK' /\ LocksOK'
    BY <1>1, <2>0, <2>5, <2>1, <2>2, SectionKeeps
  <2>4. th' \in [Threads -> ThreadRec] /\ CallsOK'
    BY <2>1, <2>2, GoKeeps
  <2> QED BY <1>3, <1>5, <2>3, <2>4 DEF IInv, TypeOK, saveVars, sessionVars
<1>8. CASE checks /\ Leave(t, login_wrong(r, role, ok), "commit", "WRONG_PIN")
  BY <1>1, <1>3, <1>5, <1>6, <1>8, LeaveKeeps
<1>9. CASE Go(t, Idle) /\ UNCHANGED <<slot, guesses>>
  BY <1>1, <1>3, <1>9, Types, GoOnKeeps DEF IInv, TypeOK, saveVars
<1> QED BY <1>4, <1>7, <1>8, <1>9

\* create_object.
LEMMA CreateObjectInv == ASSUME IInv, NEW t \in Threads, CreateObject(t) PROVE IInv'
<1> DEFINE s == th[t].slot
           r == slot[s]
           k == nkeys + 1
           made == [th[t] EXCEPT !.pc = "commit", !.key = k,
                                 !.handle = r.generation]
<1>1. Resting(r) /\ th[t].pc = "cs" /\ slotLock[s] = {} /\ s \in Slots
  BY SectionRests DEF CreateObject, InSection
<1>2. /\ Proper(th[t]) /\ nkeys \in Nat /\ k \in Nat /\ r.generation \in Nat
      /\ KeyKinds \subseteq {"sk", "seed", "hw"}
  <2>1. KeyKinds \subseteq {"sk", "seed", "hw"}
    BY ConstantsAssumption
  <2>2. nkeys \in Nat /\ k \in Nat
    BY DEF IInv, TypeOK
  <2>3. Proper(th[t]) /\ r.generation \in Nat
    BY <1>1 DEF IInv, CallsOK, Resting, Good, SlotRec
  <2> QED BY <2>1, <2>2, <2>3
<1>3. UNCHANGED <<slotLock, sessionVars, saveVars, issued, era, guesses>>
  BY DEF CreateObject
<1>4. \/ /\ \E ev \in {"GENERATE", "LOAD"}, kind \in KeyKinds :
              /\ Legal(r.state, ev)
              /\ \/ /\ slot' = [slot EXCEPT ![s] = install_key(r, ev, k, kind, TRUE)]
                    /\ Go(t, made)
                 \/ /\ KdrMayFail
                    /\ \E again \in BOOLEAN :
                         Leave(t, install_key_undone(r, ev, k, kind, again),
                               "commit", "CRYPTO")
         /\ nkeys' = k
      \/ Refused(t) /\ UNCHANGED nkeys
  BY KdrAnswers DEF CreateObject
<1>5. CASE Refused(t) /\ UNCHANGED nkeys
  BY <1>1, <1>3, <1>5, RefusedKeeps
<1>6. ASSUME NEW ev \in {"GENERATE", "LOAD"}, NEW kind \in KeyKinds, Legal(r.state, ev),
             slot' = [slot EXCEPT ![s] = install_key(r, ev, k, kind, TRUE)],
             Go(t, made), nkeys' = k
      PROVE  IInv'
  <2>2. Resting(install_key(r, ev, k, kind, TRUE))
    BY <1>1, <1>2, <1>6, InstallGood
  <2>3. Proper(made) /\ made.pc = "commit"
    BY <1>2 DEF Proper, ThreadRec
  <2>4. UNCHANGED <<slotLock, snap, disk>>
    BY <1>3 DEF saveVars
  <2> HIDE DEF made
  <2>5. slot' \in [Slots -> SlotRec] /\ RecordsOK' /\ LocksOK'
    BY <1>1, <1>6, <2>2, <2>3, <2>4, SectionKeeps
  <2>6. th' \in [Threads -> ThreadRec] /\ CallsOK'
    BY <1>6, <2>3, GoKeeps
  <2> QED BY <1>2, <1>3, <1>6, <2>5, <2>6 DEF IInv, TypeOK, saveVars, sessionVars
<1>7. ASSUME NEW ev \in {"GENERATE", "LOAD"}, NEW kind \in KeyKinds, Legal(r.state, ev),
             KdrMayFail, NEW again \in BOOLEAN,
             Leave(t, install_key_undone(r, ev, k, kind, again), "commit", "CRYPTO"),
             nkeys' = k
      PROVE  IInv'
  <2> DEFINE q == install_key_undone(r, ev, k, kind, again)
             c == [th[t] EXCEPT !.pc = "commit", !.st = "CRYPTO"]
  <2>1. Resting(q)
    BY <1>1, <1>2, <1>7, InstallGood
  <2>2. slot' = [slot EXCEPT ![s] = q] /\ Go(t, c)
    BY <1>7 DEF Leave
  <2> HIDE DEF q
  <2>3. Proper(c) /\ c.pc = "commit"
    BY <1>2 DEF Proper, ThreadRec
  <2>4. UNCHANGED <<slotLock, snap, disk>>
    BY <1>3 DEF saveVars
  <2> HIDE DEF c
  <2>5. slot' \in [Slots -> SlotRec] /\ RecordsOK' /\ LocksOK'
    BY <1>1, <2>1, <2>2, <2>3, <2>4, SectionKeeps
  <2>6. th' \in [Threads -> ThreadRec] /\ CallsOK'
    BY <2>2, <2>3, GoKeeps
  <2> QED BY <1>2, <1>3, <1>7, <2>5, <2>6 DEF IInv, TypeOK, saveVars, sessionVars
<1> QED BY <1>4, <1>5, <1>6, <1>7

\* hsm_object_destroy.
LEMMA DestroyInv == ASSUME IInv, NEW t \in Threads, Destroy(t) PROVE IInv'
<1> DEFINE r == slot[th[t].slot]
<1>1. Resting(r) /\ th[t].pc = "cs" /\ slotLock[th[t].slot] = {}
  BY SectionRests DEF Destroy, InSection
<1>2. UNCHANGED <<slotLock, sessionVars, saveVars, nkeys, issued, era, guesses>>
  BY DEF Destroy
<1>3. era' \in [Slots -> Nat] /\ guesses' \in [Slots -> Nat]
  BY <1>2 DEF IInv, TypeOK
<1>4. \/ /\ Legal(r.state, "DESTROY")
         /\ \E ok \in Kdr : Leave(t, destroy(r, ok), "commit", Resealed(ok))
      \/ Refused(t)
  BY DEF Destroy
<1>5. CASE /\ Legal(r.state, "DESTROY")
           /\ \E ok \in Kdr : Leave(t, destroy(r, ok), "commit", Resealed(ok))
  <2>1. PICK ok \in BOOLEAN : Leave(t, destroy(r, ok), "commit", Resealed(ok))
    BY <1>5, KdrAnswers
  <2>2. Resting(destroy(r, ok)) /\ Resealed(ok) \in {"OK", "CRYPTO"}
    BY <1>1, <1>5, DestroyGood DEF Resealed
  <2> QED BY <1>1, <1>2, <1>3, <2>1, <2>2, LeaveKeeps
<1> QED BY <1>1, <1>2, <1>4, <1>5, RefusedKeeps

\* Both zeroize calls.
LEMMA ZeroizeInv == ASSUME IInv, NEW t \in Threads, Zeroize(t) PROVE IInv'
<1> DEFINE s == th[t].slot
           r == slot[s]
<1>1. Resting(r) /\ th[t].pc = "cs" /\ slotLock[s] = {} /\ s \in Slots
  BY SectionRests DEF Zeroize, InSection
<1>2. PICK ok \in BOOLEAN :
        /\ Leave(t, do_zeroize(r, ok), IF ok THEN "drop" ELSE "commit", Resealed(ok))
        /\ era' = [era EXCEPT ![s] = IF ok THEN @ + 1 ELSE @]
  BY KdrAnswers DEF Zeroize
<1>5. /\ UNCHANGED <<slotLock, sessionVars, saveVars, nkeys, issued>>
      /\ guesses' = [guesses EXCEPT ![s] = 0]
  BY DEF Zeroize
<1>3. era' \in [Slots -> Nat] /\ guesses' \in [Slots -> Nat]
  <2>1. era \in [Slots -> Nat] /\ guesses \in [Slots -> Nat] /\ era[s] + 1 \in Nat
    BY <1>1 DEF IInv, TypeOK
  <2>2. era' = [era EXCEPT ![s] = @ + 1] \/ era' = [era EXCEPT ![s] = @]
    BY <1>2
  <2> QED BY <1>1, <1>5, <2>1, <2>2
<1>4. Resting(do_zeroize(r, ok)) /\ Resealed(ok) \in {"OK", "CRYPTO"}
  BY <1>1, ZeroizeGood DEF Resting, Resealed
<1> DEFINE pc == IF ok THEN "drop" ELSE "commit"
<1>6. pc \in {"commit", "drop"} /\ Leave(t, do_zeroize(r, ok), pc, Resealed(ok))
  BY <1>2
<1> HIDE DEF pc
<1> QED BY <1>1, <1>3, <1>4, <1>5, <1>6, LeaveKeeps

\* hsm_slot_unlock.
LEMMA UnlockInv == ASSUME IInv, NEW t \in Threads, Unlock(t) PROVE IInv'
<1> DEFINE s == th[t].slot
           r == slot[s]
<1>1. Resting(r) /\ th[t].pc = "cs" /\ slotLock[s] = {} /\ s \in Slots
  BY SectionRests DEF Unlock, InSection
<1>2. UNCHANGED <<slotLock, sessionVars, saveVars, nkeys, issued, era>>
  BY DEF Unlock
<1>3. \/ /\ Legal(r.state, "SO_UNLOCK")
         /\ \E ok \in Kdr : Leave(t, unlock(r, ok), "commit", Resealed(ok))
         /\ guesses' = [guesses EXCEPT ![s] = 0]
      \/ Refused(t) /\ UNCHANGED guesses
  BY DEF Unlock
<1>4. era' \in [Slots -> Nat] /\ guesses' \in [Slots -> Nat]
  <2>1. guesses' = [guesses EXCEPT ![s] = 0] \/ guesses' = guesses
    BY <1>3
  <2>2. era \in [Slots -> Nat] /\ guesses \in [Slots -> Nat] /\ era' = era
    BY <1>2 DEF IInv, TypeOK
  <2> QED BY <2>1, <2>2
<1>5. CASE /\ Legal(r.state, "SO_UNLOCK")
           /\ \E ok \in Kdr : Leave(t, unlock(r, ok), "commit", Resealed(ok))
  <2>1. PICK ok \in BOOLEAN : Leave(t, unlock(r, ok), "commit", Resealed(ok))
    BY <1>5, KdrAnswers
  <2>2. Resting(unlock(r, ok)) /\ Resealed(ok) \in {"OK", "CRYPTO"}
    BY <1>1, <1>5, UnlockGood DEF Resealed
  <2> QED BY <1>1, <1>2, <1>4, <2>1, <2>2, LeaveKeeps
<1>6. CASE Refused(t) /\ UNCHANGED guesses
  BY <1>1, <1>2, <1>6, RefusedKeeps
<1> QED BY <1>3, <1>5, <1>6

\* begin_use: the slot becomes IN_USE together with the lock, or the call ends.
LEMMA BeginUseInv == ASSUME IInv, NEW t \in Threads, BeginUse(t) PROVE IInv'
<1> DEFINE s == th[t].slot
           r == slot[s]
           q == fsm_apply(r, "USE_BEGIN")
           c == [th[t] EXCEPT !.pc = "using", !.st = "OK"]
<1>1. Resting(r) /\ th[t].pc = "cs" /\ slotLock[s] = {} /\ s \in Slots
  BY SectionRests DEF BeginUse, InSection
<1>2. UNCHANGED <<sessionVars, saveVars, nkeys, issued, era, guesses>>
  BY DEF BeginUse
<1>3. CASE Go(t, Idle) /\ UNCHANGED <<slot, slotLock>>
  BY <1>1, <1>2, <1>3, Types, GoOnKeeps DEF IInv, TypeOK, saveVars
<1>4. CASE /\ Legal(r.state, "USE_BEGIN") /\ Leave(t, q, "using", "OK")
           /\ slotLock' = [slotLock EXCEPT ![s] = {t}]
  <2>1. Good(q) /\ q.state = "IN_USE"
    BY <1>1, <1>4, UseGood DEF Resting
  <2>2. Proper(c) /\ c.pc = "using" /\ c.slot = s
    BY DEF IInv, CallsOK, Proper, ThreadRec
  <2>3. Go(t, c) /\ slot' = [slot EXCEPT ![s] = q]
    BY <1>4 DEF Leave
  <2> HIDE DEF c, q
  <2>4. /\ th' \in [Threads -> ThreadRec] /\ CallsOK'
        /\ th'[t] = c /\ \A u \in Threads \ {t} : th'[u] = th[u]
    BY <2>2, <2>3, GoKeeps
  <2>5. slot' \in [Slots -> SlotRec] /\ slotLock' \in [Slots -> SUBSET Threads]
    BY <1>1, <1>4, <2>1, <2>3 DEF IInv, TypeOK, Good
  <2>6. RecordsOK'
    BY <1>1, <1>2, <2>1, <2>3
       DEF IInv, TypeOK, RecordsOK, Resting, Good, RecOK, HoldsKey, saveVars
  <2>7. LocksOK'
    <3> SUFFICES ASSUME NEW z \in Slots
                 PROVE  /\ slot'[z].state = "IN_USE" <=> slotLock'[z] # {}
                        /\ \A u \in Threads :
                             u \in slotLock'[z] <=> th'[u].pc = "using" /\ th'[u].slot = z
                        /\ \A u, v \in slotLock'[z] : u = v
      BY DEF LocksOK
    <3>1. CASE z = s
      <4>1. slot'[z] = q /\ slotLock'[z] = {t}
        BY <1>1, <1>4, <2>3, <3>1 DEF IInv, TypeOK
      <4>2. \A u \in Threads : ~(th[u].pc = "using" /\ th[u].slot = s)
        BY <1>1 DEF IInv, LocksOK
      <4> QED BY <2>1, <2>2, <2>4, <3>1, <4>1, <4>2
    <3>2. CASE z # s
      <4>1. slot'[z] = slot[z] /\ slotLock'[z] = slotLock[z]
        BY <1>1, <1>4, <2>3, <3>2 DEF IInv, TypeOK
      <4>2. t \notin slotLock[z]
        BY <1>1 DEF IInv, LocksOK
      <4> QED BY <2>2, <2>4, <3>2, <4>1, <4>2 DEF IInv, LocksOK
    <3> QED BY <3>1, <3>2
  <2> QED BY <1>2, <2>4, <2>5, <2>6, <2>7 DEF IInv, TypeOK, saveVars, sessionVars
<1> QED BY <1>3, <1>4 DEF BeginUse

\* end_use: the thread that made the slot IN_USE is the one that puts it back.
LEMMA EndUseInv == ASSUME IInv, NEW t \in Threads, EndUse(t) PROVE IInv'
<1> DEFINE s == th[t].slot
<1>0. PICK worked \in BOOLEAN, ok \in BOOLEAN :
        slot' = [slot EXCEPT ![s] = UseEnded(@, worked, ok)]
  BY KdrAnswers DEF EndUse, UseEnded
<1> DEFINE q == UseEnded(slot[s], worked, ok)
<1>1. /\ s \in Slots /\ th[t].pc = "using"
      /\ slot' = [slot EXCEPT ![s] = q] /\ slotLock' = [slotLock EXCEPT ![s] = {}]
      /\ Go(t, Idle) /\ UNCHANGED <<sessionVars, saveVars, nkeys, issued, era, guesses>>
  BY <1>0 DEF EndUse, IInv, TypeOK, ThreadRec
<1>2. slotLock[s] = {t}
  BY <1>1 DEF IInv, LocksOK, TypeOK
<1>3. Resting(q)
  BY <1>1, <1>2, UseGood DEF IInv, LocksOK, RecordsOK
<1> HIDE DEF q
<1>4. /\ th' \in [Threads -> ThreadRec] /\ CallsOK'
      /\ th'[t] = Idle /\ \A u \in Threads \ {t} : th'[u] = th[u]
  BY <1>1, Types, GoKeeps
<1>5. slot' \in [Slots -> SlotRec] /\ slotLock' \in [Slots -> SUBSET Threads]
  BY <1>1, <1>3 DEF IInv, TypeOK, Resting, Good
<1>6. RecordsOK'
  BY <1>1, <1>3 DEF IInv, TypeOK, RecordsOK, Resting, Good, RecOK, HoldsKey, saveVars
<1>7. LocksOK'
  <2> SUFFICES ASSUME NEW z \in Slots
               PROVE  /\ slot'[z].state = "IN_USE" <=> slotLock'[z] # {}
                      /\ \A u \in Threads :
                           u \in slotLock'[z] <=> th'[u].pc = "using" /\ th'[u].slot = z
                      /\ \A u, v \in slotLock'[z] : u = v
    BY DEF LocksOK
  <2>1. CASE z = s
    <3>1. slot'[z] = q /\ slotLock'[z] = {}
      BY <1>1, <2>1 DEF IInv, TypeOK
    <3>2. \A u \in Threads \ {t} : ~(th[u].pc = "using" /\ th[u].slot = s)
      BY <1>1, <1>2 DEF IInv, LocksOK
    <3> QED BY <1>3, <1>4, <2>1, <3>1, <3>2, Types DEF Resting
  <2>2. CASE z # s
    <3>1. slot'[z] = slot[z] /\ slotLock'[z] = slotLock[z]
      BY <1>1, <2>2 DEF IInv, TypeOK
    <3>2. t \notin slotLock[z]
      BY <1>1, <2>2 DEF IInv, LocksOK
    <3> QED BY <1>4, <2>2, <3>1, <3>2, Types DEF IInv, LocksOK
  <2> QED BY <2>1, <2>2
<1> QED BY <1>1, <1>4, <1>5, <1>6, <1>7 DEF IInv, TypeOK, saveVars, sessionVars

\* A step that changes the session table and at most moves one thread on.
LEMMA SessionsKeep ==
  ASSUME IInv, sessions' \in [1..MAX_SESSIONS -> SessionRec], session_gen' \in Nat,
         UNCHANGED <<slot, slotLock, saveVars, nkeys, issued, era, guesses>>,
         NEW t \in Threads, th[t].pc # "using", NEW c, Proper(c), c.pc # "using", Go(t, c)
  PROVE  IInv'
<1>1. th' \in [Threads -> ThreadRec] /\ CallsOK'
  BY GoKeeps
<1>2. slot' \in [Slots -> SlotRec] /\ (\A s \in Slots : Good(slot'[s])) /\ LocksOK'
  BY QuietKeeps
<1>3. RecordsOK'
  BY <1>2 DEF IInv, RecordsOK, Resting, Good, RecOK, HoldsKey, saveVars
<1> QED BY <1>1, <1>2, <1>3 DEF IInv, TypeOK, saveVars

\* A session whose role is set is a session.
LEMMA WithRoleType ==
  ASSUME NEW x \in SessionRec, NEW role \in Roles, NEW by \in Nat, NEW auth \in Nat
  PROVE  WithRole(x, role, by, auth) \in SessionRec /\ LoggedOut(x) \in SessionRec
BY DEF WithRole, LoggedOut, SessionRec, Roles

\* Open, close and log out: one section of tlock each.
LEMMA SessionInv ==
  ASSUME IInv, NEW t \in Threads,
         \/ \E s \in Slots : SessionOpen(t, s)
         \/ \E i \in 1..MAX_SESSIONS : SessionClose(t, i) \/ SessionLogout(t, i)
  PROVE  IInv'
<1>1. th[t].pc = "idle" /\ UNCHANGED th
      /\ UNCHANGED <<slot, slotLock, saveVars, nkeys, issued, era, guesses>>
  BY DEF SessionOpen, SessionClose, SessionLogout
<1>2. Go(t, th[t]) /\ Proper(th[t])
  BY <1>1 DEF Go, IInv, TypeOK, CallsOK
<1>3. sessions' \in [1..MAX_SESSIONS -> SessionRec] /\ session_gen' \in Nat
  <2>1. ASSUME NEW s \in Slots, SessionOpen(t, s)
        PROVE  sessions' \in [1..MAX_SESSIONS -> SessionRec] /\ session_gen' \in Nat
    <3> DEFINE x == [ClosedSession EXCEPT !.open = TRUE, !.slot = s, !.gen = session_gen + 1]
    <3>1. session_gen + 1 \in Nat /\ sessions \in [1..MAX_SESSIONS -> SessionRec]
      BY DEF IInv, TypeOK
    <3>2. x \in SessionRec
      BY <3>1, Types DEF SessionRec
    <3>3. PICK i \in 1..MAX_SESSIONS : sessions' = [sessions EXCEPT ![i] = x]
      BY <2>1 DEF SessionOpen
    <3>4. session_gen' = session_gen + 1
      BY <2>1 DEF SessionOpen
    <3> HIDE DEF x
    <3> QED BY <3>1, <3>2, <3>3, <3>4
  <2>2. ASSUME NEW i \in 1..MAX_SESSIONS, SessionClose(t, i)
        PROVE  sessions' \in [1..MAX_SESSIONS -> SessionRec] /\ session_gen' \in Nat
    BY <2>2, Types DEF SessionClose, IInv, TypeOK
  <2>3. ASSUME NEW i \in 1..MAX_SESSIONS, SessionLogout(t, i)
        PROVE  sessions' \in [1..MAX_SESSIONS -> SessionRec] /\ session_gen' \in Nat
    <3>1. sessions[i] \in SessionRec
      BY DEF IInv, TypeOK
    <3>2. LoggedOut(sessions[i]) \in SessionRec
      BY <3>1, WithRoleType DEF Roles
    <3> QED BY <2>3, <3>2 DEF SessionLogout, IInv, TypeOK
  <2> QED BY <2>1, <2>2, <2>3
<1> QED BY <1>1, <1>2, <1>3, SessionsKeep

\* The first step of a call.
LEMMA CallInv ==
  ASSUME IInv, NEW t \in Threads,
         \/ \E op \in {"init_token", "zeroize_forced"}, s \in Slots :
              CallWithoutSession(t, op, s)
         \/ \E op \in SessionOps, i \in 1..MAX_SESSIONS : Call(t, op, i)
  PROVE  IInv'
<1>1. /\ th[t].pc = "idle"
      /\ UNCHANGED <<slot, slotLock, sessionVars, saveVars, nkeys, issued, era, guesses>>
  BY DEF CallWithoutSession, Call
<1>2. \E c : Proper(c) /\ c.pc = "cs" /\ Go(t, c)
  <2>1. ASSUME NEW op \in {"init_token", "zeroize_forced"}, NEW s \in Slots,
               CallWithoutSession(t, op, s)
        PROVE  \E c : Proper(c) /\ c.pc = "cs" /\ Go(t, c)
    <3> DEFINE c == [Idle EXCEPT !.pc = "cs", !.op = op, !.slot = s]
    <3>1. Proper(c) /\ c.pc = "cs"
      BY Types DEF Proper, ThreadRec
    <3>2. Go(t, c)
      BY <2>1 DEF CallWithoutSession
    <3> HIDE DEF c
    <3> QED BY <3>1, <3>2
  <2>2. ASSUME NEW op \in SessionOps, NEW i \in 1..MAX_SESSIONS, Call(t, op, i)
        PROVE  \E c : Proper(c) /\ c.pc = "cs" /\ Go(t, c)
    <3>1. PICK role \in IF op = "login" THEN {"USER", "SO"} ELSE {"PUBLIC"},
               h \in IF op \in {"use", "destroy"}
                     THEN {x \in issued : x.slot = sessions[i].slot}
                     ELSE {[slot |-> sessions[i].slot, gen |-> 0, key |-> 0]} :
            Go(t, [Idle EXCEPT !.pc = "cs", !.op = op, !.sess = Handle(i),
                               !.slot = sessions[i].slot, !.role = role,
                               !.handle = h.gen, !.key = h.key])
      BY <2>2 DEF Call
    <3>2. h.gen \in Nat /\ h.key \in Nat
      BY DEF IInv, TypeOK
    <3>3. role \in Roles /\ (op = "login" => role # "PUBLIC")
      BY DEF Roles
    <3>4. /\ sessions[i].slot \in Slots
          /\ Handle(i) \in [idx : 1..MAX_SESSIONS, gen : Nat]
      BY DEF IInv, TypeOK, SessionRec, Handle
    <3> DEFINE c == [Idle EXCEPT !.pc = "cs", !.op = op, !.sess = Handle(i),
                                 !.slot = sessions[i].slot, !.role = role,
                                 !.handle = h.gen, !.key = h.key]
    <3>5. Proper(c) /\ c.pc = "cs"
      BY <3>2, <3>3, <3>4, Types DEF Proper, ThreadRec
    <3>6. Go(t, c)
      BY <3>1
    <3> HIDE DEF c
    <3> QED BY <3>5, <3>6
  <2> QED BY <2>1, <2>2
<1> QED BY <1>1, <1>2, GoOnKeeps DEF IInv, TypeOK, saveVars

\* drop_sessions_on_slot and set_session_role.
LEMMA RoleInv ==
  ASSUME IInv, NEW t \in Threads, DropSessions(t) \/ SetSessionRole(t)
  PROVE  IInv'
<1>1. CASE DropSessions(t)
  <2> DEFINE c == [th[t] EXCEPT !.pc = "commit"]
  <2>1. Proper(c) /\ c.pc = "commit"
    BY DEF IInv, CallsOK, Proper, ThreadRec
  <2>2. th[t].pc = "drop" /\ Go(t, c)
    BY <1>1 DEF DropSessions
  <2> HIDE DEF c
  <2>3. sessions' \in [1..MAX_SESSIONS -> SessionRec] /\ session_gen' \in Nat
    <3>1. sessions' = [i \in 1..MAX_SESSIONS |->
            IF sessions[i].open /\ sessions[i].slot = th[t].slot
            THEN LoggedOut(sessions[i]) ELSE sessions[i]]
      BY <1>1 DEF DropSessions, drop_sessions_on_slot
    <3>2. ASSUME NEW i \in 1..MAX_SESSIONS
          PROVE  sessions[i] \in SessionRec /\ LoggedOut(sessions[i]) \in SessionRec
      BY WithRoleType DEF IInv, TypeOK, Roles
    <3> QED BY <1>1, <3>1, <3>2 DEF DropSessions, IInv, TypeOK
  <2> QED BY <1>1, <2>1, <2>2, <2>3, SessionsKeep DEF DropSessions
<1>2. CASE SetSessionRole(t)
  <2>1. th[t].pc = "role" /\ Go(t, Idle)
    BY <1>2 DEF SetSessionRole
  <2>2. sessions' \in [1..MAX_SESSIONS -> SessionRec] /\ session_gen' \in Nat
    <3> DEFINE h == th[t].sess
    <3>1. h.idx \in 1..MAX_SESSIONS /\ h.gen \in Nat /\ th[t].role \in Roles /\ th[t].era \in Nat
      BY DEF IInv, TypeOK, ThreadRec
    <3>2. \/ sessions' = sessions
          \/ sessions' = [sessions EXCEPT ![h.idx] =
                            WithRole(@, th[t].role, h.gen, th[t].era)]
      BY <1>2 DEF SetSessionRole
    <3>3. sessions[h.idx] \in SessionRec /\ sessions \in [1..MAX_SESSIONS -> SessionRec]
      BY <3>1 DEF IInv, TypeOK
    <3>4. WithRole(sessions[h.idx], th[t].role, h.gen, th[t].era) \in SessionRec
      BY <3>1, <3>3, WithRoleType
    <3> QED BY <1>2, <3>1, <3>2, <3>3, <3>4 DEF SetSessionRole, IInv, TypeOK
  <2> QED BY <1>2, <2>1, <2>2, Types, SessionsKeep DEF SetSessionRole
<1> QED BY <1>1, <1>2

\* What a call returns with after its commit.
LEMMA ReturnedGoes ==
  ASSUME IInv, NEW t \in Threads, Returned(t, th[t].st)
  PROVE  /\ \E c : Proper(c) /\ c.pc # "using" /\ Go(t, c)
         /\ issued' \subseteq [slot : Slots, gen : Nat, key : Nat]
<1>1. Proper(th[t])
  BY DEF IInv, CallsOK
<1>2. \E c : Proper(c) /\ c.pc # "using" /\ Go(t, c)
  <2> DEFINE c == [th[t] EXCEPT !.pc = "role", !.st = th[t].st]
  <2>1. Proper(c) /\ c.pc # "using"
    BY <1>1 DEF Proper, ThreadRec
  <2>2. Go(t, c) \/ Go(t, Idle)
    BY DEF Returned
  <2> HIDE DEF c
  <2> QED BY <2>1, <2>2, Types
<1>3. issued' \subseteq [slot : Slots, gen : Nat, key : Nat]
  <2>1. [slot |-> th[t].slot, gen |-> th[t].handle, key |-> th[t].key]
          \in [slot : Slots, gen : Nat, key : Nat]
    BY <1>1 DEF Proper, ThreadRec
  <2>2. issued' = issued \/ issued' = issued \cup {[slot |-> th[t].slot,
                                                   gen |-> th[t].handle,
                                                   key |-> th[t].key]}
    BY DEF Returned
  <2> QED BY <2>1, <2>2 DEF IInv, TypeOK
<1> QED BY <1>2, <1>3

\* The steps of a commit; snap is only ever given resting records.
LEMMA SavedKeeps ==
  ASSUME IInv, NEW t \in Threads, th[t].pc # "using",
         NEW c, Proper(c), c.pc # "using", Go(t, c),
         UNCHANGED <<slot, slotLock, sessionVars, nkeys, era, guesses>>,
         persist_busy' \in BOOLEAN, cursor' \in 1..(NumSlots + 1),
         issued' \subseteq [slot : Slots, gen : Nat, key : Nat],
         snap' \in [Slots -> SlotRec], disk' \in [Slots -> SlotRec],
         \A s \in Slots : Resting(snap'[s]) /\ Resting(disk'[s])
  PROVE  IInv'
<1>1. th' \in [Threads -> ThreadRec] /\ CallsOK'
  BY GoKeeps
<1>2. slot' \in [Slots -> SlotRec] /\ (\A s \in Slots : Good(slot'[s])) /\ LocksOK'
  BY QuietKeeps
<1>3. RecordsOK'
  BY <1>2 DEF RecordsOK, Resting, Good, RecOK, HoldsKey
<1> QED BY <1>1, <1>2, <1>3 DEF IInv, TypeOK, sessionVars

\* commit_security_state and slot_persist.
LEMMA CommitInv ==
  ASSUME IInv, NEW t \in Threads,
         CommitSkipped(t) \/ CommitBegin(t) \/ SaveSlot(t) \/ SavePublish(t) \/ CommitEnd(t)
  PROVE  IInv'
<1>0. /\ snap \in [Slots -> SlotRec] /\ disk \in [Slots -> SlotRec]
      /\ \A s \in Slots : Resting(snap[s]) /\ Resting(disk[s])
      /\ persist_busy \in BOOLEAN /\ cursor \in 1..(NumSlots + 1)
      /\ issued \subseteq [slot : Slots, gen : Nat, key : Nat]
      /\ Proper(th[t]) /\ NumSlots \in Nat
  BY ConstantsAssumption DEF IInv, TypeOK, RecordsOK, CallsOK
<1>1. CASE CommitSkipped(t)
  <2>1. /\ th[t].pc = "commit" /\ Returned(t, th[t].st)
        /\ UNCHANGED <<slot, slotLock, sessionVars, saveVars, nkeys, era, guesses>>
    BY <1>1 DEF CommitSkipped
  <2>2. PICK c : Proper(c) /\ c.pc # "using" /\ Go(t, c)
    BY <2>1, ReturnedGoes
  <2> QED BY <1>0, <2>1, <2>2, ReturnedGoes, GoOnKeeps DEF saveVars
<1>2. CASE CommitBegin(t)
  <2> DEFINE c == [th[t] EXCEPT !.pc = "save"]
  <2>1. Proper(c) /\ c.pc # "using"
    BY <1>0 DEF Proper, ThreadRec
  <2>2. /\ th[t].pc = "commit" /\ Go(t, c) /\ persist_busy' = TRUE /\ cursor' = 1
        /\ snap' = disk
        /\ UNCHANGED <<slot, slotLock, sessionVars, disk, nkeys, issued, era, guesses>>
    BY <1>2 DEF CommitBegin
  <2> HIDE DEF c
  <2> QED BY <1>0, <2>1, <2>2, Types, SavedKeeps
<1>3. CASE SaveSlot(t)
  <2>1. /\ th[t].pc = "save" /\ cursor \in Slots /\ slotLock[cursor] = {}
        /\ UNCHANGED <<slot, slotLock, sessionVars, persist_busy, disk, nkeys, issued,
                       era, guesses>>
    BY <1>3 DEF SaveSlot
  <2> DEFINE kept == /\ snap' = [snap EXCEPT ![cursor] = slot_serialize(slot[cursor])]
                     /\ cursor' = cursor + 1
                     /\ UNCHANGED th
             lost == /\ Go(t, [th[t] EXCEPT !.pc = "unbusy", !.st = commit_failed(@)])
                     /\ UNCHANGED <<cursor, snap>>
  <2>0. kept \/ lost
    BY <1>3 DEF SaveSlot
  <2>2. CASE kept
    <3> DEFINE q == slot_serialize(slot[cursor])
    <3>1. Resting(slot[cursor])
      BY <2>1 DEF IInv, RecordsOK, LocksOK, Resting
    <3>2. Resting(q)
      BY <3>1, SaveGood
    <3>3. snap' = [snap EXCEPT ![cursor] = q] /\ cursor' = cursor + 1 /\ UNCHANGED th
      BY <2>2
    <3>4. Go(t, th[t])
      BY <3>3 DEF Go, IInv, TypeOK
    <3> HIDE DEF q
    <3>5. snap' \in [Slots -> SlotRec] /\ \A s \in Slots : Resting(snap'[s])
      <4>1. q \in SlotRec
        BY <3>2 DEF Resting, Good
      <4>2. ASSUME NEW s \in Slots PROVE snap'[s] = IF s = cursor THEN q ELSE snap[s]
        BY <1>0, <3>3
      <4>3. snap' \in [Slots -> SlotRec]
        BY <1>0, <2>1, <3>3, <4>1
      <4>4. ASSUME NEW s \in Slots PROVE Resting(snap'[s])
        BY <1>0, <3>2, <4>2
      <4> QED BY <4>3, <4>4
    <3>6. cursor' \in 1..(NumSlots + 1)
      BY <1>0, <2>1, <3>3 DEF Slots
    <3>7. \A s \in Slots : Resting(snap'[s]) /\ Resting(disk'[s])
      BY <1>0, <2>1, <3>5
    <3>8. /\ persist_busy' \in BOOLEAN /\ issued' \subseteq [slot : Slots, gen : Nat, key : Nat]
          /\ disk' \in [Slots -> SlotRec]
      BY <1>0, <2>1
    <3> QED BY <1>0, <2>1, <3>4, <3>5, <3>6, <3>7, <3>8, SavedKeeps
  <2>3. CASE lost
    <3> DEFINE c == [th[t] EXCEPT !.pc = "unbusy", !.st = commit_failed(@)]
    <3>1. Proper(c) /\ c.pc # "using"
      BY <1>0 DEF Proper, ThreadRec, commit_failed
    <3>2. Go(t, c) /\ UNCHANGED <<cursor, snap>>
      BY <2>3
    <3> HIDE DEF c
    <3> QED BY <1>0, <2>1, <3>1, <3>2, GoOnKeeps
  <2> QED BY <2>0, <2>2, <2>3
<1>4. CASE SavePublish(t)
  <2> DEFINE c == [th[t] EXCEPT !.pc = "unbusy"]
             d == [th[t] EXCEPT !.pc = "unbusy", !.st = commit_failed(@)]
  <2>1. /\ Proper(c) /\ c.pc # "using"
        /\ Proper(d) /\ d.pc # "using"
    BY <1>0 DEF Proper, ThreadRec, commit_failed
  <2>2. /\ th[t].pc = "save" /\ (Go(t, c) \/ Go(t, d)) /\ (disk' = snap \/ disk' = disk)
        /\ UNCHANGED <<slot, slotLock, sessionVars, persist_busy, cursor, snap, nkeys,
                       issued, era, guesses>>
    BY <1>4 DEF SavePublish
  <2> HIDE DEF c, d
  <2>3. /\ snap' \in [Slots -> SlotRec] /\ disk' \in [Slots -> SlotRec]
        /\ \A s \in Slots : Resting(snap'[s]) /\ Resting(disk'[s])
    BY <1>0, <2>2
  <2> QED BY <1>0, <2>1, <2>2, <2>3, SavedKeeps
<1>5. CASE CommitEnd(t)
  <2>1. /\ th[t].pc = "unbusy" /\ Returned(t, th[t].st) /\ persist_busy' = FALSE
        /\ cursor' = 1 /\ snap' = disk
        /\ UNCHANGED <<slot, slotLock, sessionVars, disk, nkeys, era, guesses>>
    BY <1>5 DEF CommitEnd
  <2>2. PICK c : Proper(c) /\ c.pc # "using" /\ Go(t, c)
    BY <2>1, ReturnedGoes
  <2>3. issued' \subseteq [slot : Slots, gen : Nat, key : Nat]
    BY <2>1, ReturnedGoes
  <2> QED BY <1>0, <2>1, <2>2, <2>3, Types, SavedKeeps
<1> QED BY <1>1, <1>2, <1>3, <1>4, <1>5

\* Power loss and restart.
LEMMA RestartInv == ASSUME IInv, Restart PROVE IInv'
<1>1. /\ slot' = [s \in Slots |-> slot_reseal(disk[s], TRUE)] /\ slotLock' = [s \in Slots |-> {}]
      /\ sessions' = [i \in 1..MAX_SESSIONS |-> ClosedSession] /\ session_gen' = 0
      /\ th' = [t \in Threads |-> Idle] /\ persist_busy' = FALSE /\ cursor' = 1
      /\ snap' = disk /\ era' = [s \in Slots |-> 0]
      /\ UNCHANGED <<disk, nkeys, issued>>
  BY DEF Restart
<1>2. guesses' \in [Slots -> Nat]
  <2>1. ASSUME NEW s \in Slots PROVE Unanswered(s) \in Nat
    <3> DEFINE U == {t \in Threads : /\ th[t].pc # "idle" /\ th[t].slot = s
                                     /\ th[t].role = "USER" /\ th[t].st = "WRONG_PIN"}
    <3>1. IsFiniteSet(Threads) /\ U \subseteq Threads
      BY ConstantsAssumption
    <3>2. IsFiniteSet(U)
      BY <3>1, FS_Subset
    <3> QED BY <3>2, FS_CardinalityType DEF Unanswered
  <2>2. guesses' = [s \in Slots |-> IF guesses[s] > Unanswered(s)
                                    THEN guesses[s] - Unanswered(s) ELSE 0]
    BY DEF Restart
  <2>3. ASSUME NEW s \in Slots
        PROVE  (IF guesses[s] > Unanswered(s) THEN guesses[s] - Unanswered(s) ELSE 0) \in Nat
    BY <2>1 DEF IInv, TypeOK
  <2> QED BY <2>2, <2>3
<1>3. ASSUME NEW s \in Slots PROVE Resting(disk[s]) /\ Resting(slot_reseal(disk[s], TRUE))
  BY SaveGood DEF IInv, RecordsOK
<1>4. TypeOK'
  BY <1>1, <1>2, <1>3, Types DEF IInv, TypeOK, Resting, Good, Proper
<1>5. RecordsOK'
  BY <1>1, <1>3 DEF RecordsOK, Resting, Good, RecOK, HoldsKey
<1>6. LocksOK'
  BY <1>1, <1>3, Types DEF LocksOK, Resting
<1>7. CallsOK'
  BY <1>1, Types DEF CallsOK, Proper
<1> QED BY <1>4, <1>5, <1>6, <1>7 DEF IInv
-----------------------------------------------------------------------------
(* The theorems.                                                            *)

\* The invariant is inductive.
LEMMA InvStep == IInv /\ [Next]_vars => IInv'
<1> SUFFICES ASSUME IInv, [Next]_vars PROVE IInv'
  OBVIOUS
<1>1. CASE UNCHANGED vars
  BY <1>1 DEF vars, IInv, TypeOK, RecordsOK, LocksOK, CallsOK, Proper, Resting, Good,
              RecOK, HoldsKey
<1>2. CASE Restart
  BY <1>2, RestartInv
<1>3. ASSUME NEW t \in Threads, Step(t) PROVE IInv'
  BY <1>3, InitTokenInv, SetUserPinInv, LoginInv, CreateObjectInv, BeginUseInv, EndUseInv,
     DestroyInv, ZeroizeInv, RoleInv, UnlockInv, CommitInv DEF Step
<1> QED BY <1>1, <1>2, <1>3, SessionInv, CallInv DEF Next

\* The invariant holds in every reachable state.
LEMMA Inductive == Spec => []IInv
BY InitInv, InvStep, PTL DEF Spec

\* The types of memory, of a save under way and of the file, whatever threads,
\* crashes, failing saves and failing random numbers do; with the bound on the
\* PIN counter, which only the lockout keeps.
THEOREM TypeCorrect == Spec => []TypeOK
<1>1. IInv => TypeOK
  BY DEF IInv
<1> QED BY <1>1, Inductive, PTL

\* IN_USE is never seen outside begin_use .. end_use, nor in the file.
THEOREM InUseTransient == Spec => []InUseIsTransient
<1>1. IInv => InUseIsTransient
  <2> SUFFICES ASSUME IInv, NEW s \in Slots
               PROVE  /\ slot[s].state = "IN_USE" <=>
                           \E t \in Threads : th[t].pc = "using" /\ th[t].slot = s
                      /\ "IN_USE" \notin {disk[s].state, disk[s].pre_lock}
    BY DEF InUseIsTransient
  <2>1. slotLock[s] \subseteq Threads
    BY DEF IInv, TypeOK
  <2> QED BY <2>1 DEF IInv, LocksOK, RecordsOK, Resting, Good, RecOK
<1> QED BY <1>1, Inductive, PTL

\* No private key outlives destroy, zeroize or a failed creation, in memory or
\* in the file, as long as slots can be sealed.
THEOREM KeysOnlyWhereLoaded == ASSUME ~KdrMayFail PROVE Spec => []NoKeyOutsideLoaded
<1>1. IInv => NoKeyOutsideLoaded
  BY DEF IInv, RecordsOK, Resting, Good, RecOK, NoKeyOutsideLoaded
<1> QED BY <1>1, Inductive, PTL

\* HSM_PIN_MAX_FAILS missed User PINs mean a LOCKED slot, in memory and in the
\* file.
THEOREM LockoutHolds == Spec => []FailsMeanLocked
<1>1. IInv => FailsMeanLocked
  BY DEF IInv, RecordsOK, Resting, Good, RecOK, FailsMeanLocked
<1> QED BY <1>1, Inductive, PTL

\* For any number of threads and slots nobody waits for a slot lock under a slot lock,
\* so the slot locks and the saves that take them in turn never block each other.
THEOREM NoCircleOfWaits == Spec => []NobodyHoldsAndWaits
<1>1. IInv => NobodyHoldsAndWaits
  BY DEF IInv, LocksOK, NobodyHoldsAndWaits, Waits
<1> QED BY <1>1, Inductive, PTL
=============================================================================
