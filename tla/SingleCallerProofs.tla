------------------------ MODULE SingleCallerProofs ------------------------
(***************************************************************************)
(* SlotManager with one caller, which is how the host daemon uses it: its  *)
(* loop ends a request before it takes the next.  What the slot manager    *)
(* says of the file, of PIN guesses and of logins holds then, crashes      *)
(* included; with two callers it does not, because a commit that finds a   *)
(* save under way is skipped and a login sets its role after its section.  *)
(* Several slots, sessions and kinds of key are allowed throughout.  The   *)
(* last part goes back to any number of callers, without crashes.          *)
(***************************************************************************)
EXTENDS SlotUseProofs

\* The token is persisted, and neither random numbers, nor key derivation, nor saves fail.
Reliable == PersistHook /\ ~RngMayFail /\ ~KdrMayFail /\ ~SaveMayFail

Saved(s) == disk[s] = slot_serialize(slot[s])

\* What the slot a thread is using will be when it is given back.
GivenBack(r) == slot_reseal(fsm_apply(r, "USE_END"), TRUE)

\* How far the file is behind memory, by where the call of t is: only the slot the call
\* works on may be ahead of the file, and only until its save is published.
DurableOK(t) ==
  LET c == th[t] IN
  /\ \A s \in Slots : disk[s].sealed /\ disk[s].kind # "hw"
  /\ \A s \in Slots \ {c.slot} : Saved(s) /\ slot[s].sealed
  /\ c.pc \in {"idle", "cs", "role", "unbusy"} => Saved(c.slot)
  /\ c.pc # "using" => slot[c.slot].sealed
  /\ c.pc = "using" => disk[c.slot] = slot_serialize(GivenBack(slot[c.slot]))
  /\ c.pc = "save" => \A s \in Slots : s < cursor => snap[s] = slot_serialize(slot[s])
  /\ persist_busy <=> c.pc \in {"save", "unbusy"}
-----------------------------------------------------------------------------
(* Records and copies.                                                      *)

\* A reseal that works seals the record; none touches anything else.
LEMMA ResealKeeps ==
  ASSUME NEW r \in SlotRec, NEW ok \in BOOLEAN
  PROVE  /\ ok => slot_reseal(r, ok).sealed
         /\ slot_reseal(r, ok).state = r.state
         /\ slot_reseal(r, ok).user_pin_fails = r.user_pin_fails
<1>1. CASE ok
  BY <1>1 DEF SlotRec, slot_reseal
<1>2. CASE ~ok
  BY <1>2 DEF slot_reseal
<1> QED BY <1>1, <1>2

\* What a start loads is what was written.
LEMMA Reloaded ==
  ASSUME NEW r \in SlotRec, r.sealed, r.kind # "hw"
  PROVE  r = slot_serialize(slot_reseal(r, TRUE)) /\ slot_reseal(r, TRUE).sealed
BY DEF SlotRec, slot_serialize, slot_reseal

\* A copy is sealed as its record is and holds no key of the hardware.
LEMMA CopySealed ==
  ASSUME NEW r \in SlotRec
  PROVE  /\ slot_serialize(r).sealed = r.sealed /\ slot_serialize(r).kind # "hw"
         /\ slot_serialize(r).user_pin_fails = r.user_pin_fails
         /\ slot_serialize(r).state = r.state
BY DEF SlotRec, slot_serialize, slot_wipe_key_material

\* A use that is over leaves the record it found.
LEMMA UseGivesBack ==
  ASSUME NEW r \in SlotRec, r.sealed, Legal(r.state, "USE_BEGIN")
  PROVE  GivenBack(fsm_apply(r, "USE_BEGIN")) = r
<1>1. r.state = "LOADED"
  BY DEF Legal, slot_fsm_next, SlotRec, SlotStates
<1> DEFINE f == [r EXCEPT !.state = "IN_USE", !.pre_lock = r.pre_lock, !.sealed = FALSE]
<1>2. fsm_apply(r, "USE_BEGIN") = f
  BY <1>1 DEF fsm_apply, slot_fsm_next
<1>3. f.state = "IN_USE" /\ f.pre_lock = r.pre_lock
  BY DEF SlotRec
<1> DEFINE g == [[f EXCEPT !.state = "LOADED", !.pre_lock = f.pre_lock, !.sealed = FALSE]
                   EXCEPT !.sealed = TRUE]
<1>4. GivenBack(f) = g
  BY <1>3 DEF GivenBack, fsm_apply, slot_fsm_next, slot_reseal
<1>5. g = r
  BY <1>1, <1>3 DEF SlotRec
<1> QED BY <1>2, <1>4, <1>5

\* When key derivation does not fail, whether the operation worked makes no difference.
LEMMA UseEndedOnce ==
  ASSUME NEW r \in SlotRec, r.state = "IN_USE", NEW worked \in BOOLEAN
  PROVE  UseEnded(r, worked, TRUE) = GivenBack(r)
<1>1. fsm_apply(r, "USE_END") = [r EXCEPT !.state = "LOADED", !.pre_lock = r.pre_lock,
                                          !.sealed = FALSE]
  BY DEF fsm_apply, slot_fsm_next
<1> QED BY <1>1 DEF UseEnded, GivenBack, slot_reseal, SlotRec

\* What one section does to the PIN counter of its slot and to the count of answered
\* guesses: both reset, both left, or both one up and the caller told.
PinStep(r, q, g, h, wrong) ==
  /\ q.state = "UNINIT" => q.user_pin_fails = 0
  /\ \/ h = 0
     \/ h = g /\ q.user_pin_fails = r.user_pin_fails
     \/ wrong /\ h \in {g, g + 1} /\ q.user_pin_fails = r.user_pin_fails + 1

\* No guess is counted where there is no PIN.
Fresh(r) == r.state = "UNINIT" => r.user_pin_fails = 0

\* A reseal leaves the counting to what it seals.
LEMMA ResealCounts ==
  ASSUME NEW r, NEW q \in SlotRec, NEW ok \in BOOLEAN, NEW g, NEW h, NEW wrong,
         PinStep(r, q, g, h, wrong)
  PROVE  PinStep(r, slot_reseal(q, ok), g, h, wrong)
BY ResealKeeps DEF PinStep

\* init_token and set_user_pin reset the counter, and seal the slot if their reseal works.
LEMMA InitSeals ==
  ASSUME NEW r, Resting(r), Fresh(r), NEW ok \in BOOLEAN
  PROVE  /\ Legal(r.state, "INIT_TOKEN") =>
              /\ ok => init_token(r, ok).sealed
              /\ \A g : PinStep(r, init_token(r, ok), g, g, FALSE)
         /\ ok => set_user_pin(r, ok).sealed
         /\ \A g : PinStep(r, set_user_pin(r, ok), g, 0, FALSE)
<1>1. r \in SlotRec
  BY DEF Resting, Good
<1>2. /\ ok => set_user_pin(r, ok).sealed
      /\ \A g : PinStep(r, set_user_pin(r, ok), g, 0, FALSE)
  <2> DEFINE same == r.user_pin_fails = 0
             q == [r EXCEPT !.has_user_pin = TRUE, !.user_pin_torn = FALSE,
                            !.user_pin_fails = 0, !.sealed = same]
  <2>1. set_user_pin(r, ok) = slot_reseal(q, ok)
    BY DEF set_user_pin
  <2>2. same \in BOOLEAN
    OBVIOUS
  <2> HIDE DEF same
  <2>3. q \in SlotRec /\ q.user_pin_fails = 0
    BY <1>1, <2>2, PinLimit DEF SlotRec
  <2> HIDE DEF q
  <2>4. \A g : PinStep(r, q, g, 0, FALSE)
    BY <2>3 DEF PinStep
  <2> QED BY <2>1, <2>3, <2>4, ResealKeeps, ResealCounts
<1>3. ASSUME Legal(r.state, "INIT_TOKEN")
      PROVE  /\ ok => init_token(r, ok).sealed
             /\ \A g : PinStep(r, init_token(r, ok), g, g, FALSE)
  <2>1. r.state = "UNINIT" /\ r.user_pin_fails = 0
    BY <1>3 DEF Legal, slot_fsm_next, Resting, Good, SlotRec, SlotStates, Fresh
  <2> DEFINE f == [r EXCEPT !.state = "EMPTY", !.pre_lock = r.pre_lock, !.sealed = FALSE]
             q == [f EXCEPT !.has_so_pin = TRUE, !.user_pin_fails = 0]
  <2>2. init_token(r, ok) = slot_reseal(q, ok)
    BY <2>1 DEF init_token, fsm_apply, slot_fsm_next
  <2>3. q \in SlotRec /\ q.user_pin_fails = 0
    BY <1>1, PinLimit DEF SlotRec, SlotStates
  <2> HIDE DEF q
  <2>4. \A g : PinStep(r, q, g, g, FALSE)
    BY <2>1, <2>3 DEF PinStep
  <2> QED BY <2>2, <2>3, <2>4, ResealKeeps, ResealCounts
<1> QED BY <1>2, <1>3

\* A login seals the slot if its reseal works; a wrong User PIN is counted, sealed or not.
LEMMA LoginSeals ==
  ASSUME NEW r, Resting(r), NEW role \in {"USER", "SO"}, r.state # "UNINIT",
         ~(r.state = "LOCKED" /\ role = "USER"), NEW ok \in BOOLEAN, NEW missed \in BOOLEAN
  PROVE  /\ ok => login_right(r, role, missed, ok).sealed
         /\ \A g : PinStep(r, login_right(r, role, missed, ok), g,
                           IF role = "USER" THEN 0 ELSE g, FALSE)
         /\ ok => login_wrong(r, role, ok).sealed
         /\ \A g, h : h \in {g, g + 1} /\ (role = "SO" => h = g) =>
                      PinStep(r, login_wrong(r, role, ok), g, h, role = "USER")
<1>1. r \in SlotRec /\ r.user_pin_fails \in Nat
  BY PinLimit DEF Resting, Good, SlotRec
<1>2. /\ ok => login_right(r, role, missed, ok).sealed
      /\ \A g : PinStep(r, login_right(r, role, missed, ok), g,
                        IF role = "USER" THEN 0 ELSE g, FALSE)
  <2> DEFINE fails == IF role = "USER" THEN 0 ELSE r.user_pin_fails
             q == [r EXCEPT !.user_pin_fails = fails, !.sealed = ~missed]
  <2>1. login_right(r, role, missed, ok) = slot_reseal(q, ok)
    BY DEF login_right
  <2>2. fails \in 0..HSM_PIN_MAX_FAILS /\ (role = "SO" => fails = r.user_pin_fails)
    BY <1>1, PinLimit DEF SlotRec
  <2> HIDE DEF fails
  <2>3. q \in SlotRec /\ q.user_pin_fails = fails /\ q.state = r.state
    BY <1>1, <2>2 DEF SlotRec
  <2> HIDE DEF q
  <2>4. ASSUME NEW g
        PROVE  PinStep(r, slot_reseal(q, ok), g, IF role = "USER" THEN 0 ELSE g, FALSE)
    <3>1. PICK h : h = IF role = "USER" THEN 0 ELSE g
      OBVIOUS
    <3>2. PinStep(r, q, g, h, FALSE)
      BY <2>2, <2>3, <3>1 DEF PinStep
    <3>3. PinStep(r, slot_reseal(q, ok), g, h, FALSE)
      BY <2>3, <3>2, ResealCounts
    <3> QED BY <3>1, <3>3
  <2>5. \A g : PinStep(r, slot_reseal(q, ok), g, IF role = "USER" THEN 0 ELSE g, FALSE)
    BY <2>4
  <2>6. ok => slot_reseal(q, ok).sealed
    BY <2>3, ResealKeeps
  <2> QED BY <2>1, <2>5, <2>6
<1>3. CASE role = "SO"
  <2> DEFINE fails == r.user_pin_fails
             q == [r EXCEPT !.user_pin_fails = fails, !.sealed = FALSE]
  <2>1. login_wrong(r, role, ok) = slot_reseal(q, ok)
    BY <1>3 DEF login_wrong
  <2>2. q \in SlotRec /\ q.user_pin_fails = r.user_pin_fails /\ q.state = r.state
    BY <1>1 DEF SlotRec
  <2> HIDE DEF q
  <2>3. \A g : PinStep(r, q, g, g, FALSE)
    BY <2>2 DEF PinStep
  <2>4. \A g : PinStep(r, slot_reseal(q, ok), g, g, FALSE)
    BY <2>2, <2>3, ResealCounts
  <2> QED BY <1>2, <1>3, <2>1, <2>2, <2>4, ResealKeeps
<1>4. CASE role = "USER"
  <2>1. r.user_pin_fails \in 0..(HSM_PIN_MAX_FAILS - 1)
    BY <1>4, PinLimit DEF Resting, Good, RecOK, SlotRec
  <2>2. r.state \in {"EMPTY", "LOADED"}
    BY <1>4 DEF Resting, Good, SlotRec, SlotStates
  <2> DEFINE fails == r.user_pin_fails + 1
             c == [r EXCEPT !.user_pin_fails = fails, !.sealed = FALSE]
             q == IF c.user_pin_fails >= HSM_PIN_MAX_FAILS
                  THEN fsm_apply(c, "PIN_LOCKOUT") ELSE c
  <2>3. fails \in 0..HSM_PIN_MAX_FAILS /\ fails = r.user_pin_fails + 1
    BY <2>1, PinLimit
  <2>4. login_wrong(r, role, ok) = slot_reseal(q, ok)
    BY <1>4 DEF login_wrong
  <2> HIDE DEF fails
  <2>5. c \in SlotRec /\ c.state = r.state /\ c.user_pin_fails = fails
    BY <1>1, <2>3 DEF SlotRec
  <2> HIDE DEF c
  <2>6. q \in SlotRec /\ q.state # "UNINIT" /\ q.user_pin_fails = fails
    <3> DEFINE k == [c EXCEPT !.state = "LOCKED", !.pre_lock = c.state, !.sealed = FALSE]
    <3>1. fsm_apply(c, "PIN_LOCKOUT") = k
      BY <2>2, <2>5 DEF fsm_apply, slot_fsm_next
    <3>2. k \in SlotRec /\ k.state = "LOCKED" /\ k.user_pin_fails = fails
      BY <2>5 DEF SlotRec, SlotStates
    <3> HIDE DEF k
    <3> QED BY <2>2, <2>5, <3>1, <3>2
  <2> HIDE DEF q
  <2>7. \A g, h : h \in {g, g + 1} => PinStep(r, q, g, h, TRUE)
    BY <2>3, <2>6 DEF PinStep
  <2>8. \A g, h : h \in {g, g + 1} => PinStep(r, slot_reseal(q, ok), g, h, TRUE)
    BY <2>6, <2>7, ResealCounts
  <2> QED BY <1>2, <1>4, <2>4, <2>6, <2>8, ResealKeeps
<1> QED BY <1>3, <1>4

\* A section that installs or forgets a key seals the slot if its reseal works; the counter
\* stays, or is reset by zeroize and unlock.
LEMMA KeySeals ==
  ASSUME NEW r, Resting(r), Fresh(r), NEW ok \in BOOLEAN
  PROVE  /\ \A ev \in {"GENERATE", "LOAD"}, k \in Nat, kind \in {"sk", "seed", "hw"} :
              Legal(r.state, ev) =>
                /\ ok => install_key(r, ev, k, kind, ok).sealed
                /\ \A g : PinStep(r, install_key(r, ev, k, kind, ok), g, g, FALSE)
                /\ \A g : PinStep(r, install_key_undone(r, ev, k, kind, ok), g, g, FALSE)
         /\ Legal(r.state, "DESTROY") =>
              /\ ok => destroy(r, ok).sealed
              /\ \A g : PinStep(r, destroy(r, ok), g, g, FALSE)
         /\ ok => do_zeroize(r, ok).sealed
         /\ \A g : PinStep(r, do_zeroize(r, ok), g, 0, FALSE)
         /\ Legal(r.state, "SO_UNLOCK") =>
              /\ ok => unlock(r, ok).sealed
              /\ \A g : PinStep(r, unlock(r, ok), g, 0, FALSE)
<1>1. r \in SlotRec /\ r.state \in SlotStates
  BY DEF Resting, Good, SlotRec
<1>2. ASSUME NEW ev \in {"GENERATE", "LOAD"}, NEW k \in Nat, NEW kind \in {"sk", "seed", "hw"},
             Legal(r.state, ev)
      PROVE  /\ ok => install_key(r, ev, k, kind, ok).sealed
             /\ \A g : PinStep(r, install_key(r, ev, k, kind, ok), g, g, FALSE)
             /\ \A g : PinStep(r, install_key_undone(r, ev, k, kind, ok), g, g, FALSE)
  <2>1. r.state = "EMPTY"
    BY <1>1, <1>2 DEF Legal, slot_fsm_next, SlotStates
  <2> DEFINE f == [r EXCEPT !.state = "LOADED", !.pre_lock = r.pre_lock, !.sealed = FALSE]
             q == [[f EXCEPT !.key = 0, !.kind = "none"] EXCEPT !.key = k, !.kind = kind]
             u == [q EXCEPT !.state = r.state]
  <2>2. fsm_apply(r, ev) = f
    BY <2>1 DEF fsm_apply, slot_fsm_next
  <2>3. /\ install_key(r, ev, k, kind, ok) = slot_reseal(q, ok)
        /\ install_key_undone(r, ev, k, kind, ok) = slot_reseal(u, ok)
    BY <2>2 DEF install_key, install_key_undone, slot_wipe_key_material, slot_reseal
  <2>4. q \in SlotRec /\ q.user_pin_fails = r.user_pin_fails /\ q.state = "LOADED"
    BY <1>1 DEF SlotRec, SlotStates
  <2> HIDE DEF q
  <2>5. u \in SlotRec /\ u.user_pin_fails = r.user_pin_fails /\ u.state = "EMPTY"
    BY <1>1, <2>1, <2>4 DEF SlotRec, SlotStates
  <2> HIDE DEF u
  <2>6. \A g : PinStep(r, q, g, g, FALSE) /\ PinStep(r, u, g, g, FALSE)
    BY <2>4, <2>5 DEF PinStep
  <2> QED BY <2>3, <2>4, <2>5, <2>6, ResealKeeps, ResealCounts
<1>3. ASSUME Legal(r.state, "DESTROY")
      PROVE  /\ ok => destroy(r, ok).sealed
             /\ \A g : PinStep(r, destroy(r, ok), g, g, FALSE)
  <2>1. r.state = "LOADED"
    BY <1>1, <1>3 DEF Legal, slot_fsm_next, SlotStates
  <2> DEFINE f == [r EXCEPT !.state = "EMPTY", !.pre_lock = r.pre_lock, !.sealed = FALSE]
             w == [f EXCEPT !.key = 0, !.kind = "none"]
             n == w.generation + 1
             q == [w EXCEPT !.generation = n]
  <2>2. fsm_apply(r, "DESTROY") = f
    BY <2>1 DEF fsm_apply, slot_fsm_next
  <2>3. destroy(r, ok) = slot_reseal(q, ok)
    BY <2>2 DEF destroy, slot_wipe_key_material
  <2>4. w \in SlotRec /\ w.user_pin_fails = r.user_pin_fails /\ w.state = "EMPTY"
    BY <1>1 DEF SlotRec, SlotStates
  <2> HIDE DEF w
  <2>5. n \in Nat
    BY <2>4 DEF SlotRec
  <2> HIDE DEF n
  <2>6. q \in SlotRec /\ q.user_pin_fails = r.user_pin_fails /\ q.state = "EMPTY"
    BY <2>4, <2>5 DEF SlotRec
  <2> HIDE DEF q
  <2>7. \A g : PinStep(r, q, g, g, FALSE)
    BY <2>6 DEF PinStep
  <2> QED BY <2>3, <2>6, <2>7, ResealKeeps, ResealCounts
<1>4. /\ ok => do_zeroize(r, ok).sealed
      /\ \A g : PinStep(r, do_zeroize(r, ok), g, 0, FALSE)
  <2> DEFINE f == [r EXCEPT !.state = "UNINIT", !.pre_lock = r.pre_lock, !.sealed = FALSE]
             w == [[f EXCEPT !.key = 0, !.kind = "none"]
                     EXCEPT !.has_so_pin = FALSE, !.has_user_pin = FALSE,
                            !.user_pin_torn = FALSE]
             n == w.generation + 1
             q == [w EXCEPT !.generation = n, !.pre_lock = "EMPTY",
                            !.user_pin_fails = 0]
  <2>1. fsm_apply(r, "ZEROIZE") = f
    BY DEF fsm_apply, slot_fsm_next
  <2>2. do_zeroize(r, ok) = slot_reseal(q, ok)
    BY <2>1 DEF do_zeroize, slot_wipe_key_material, slot_wipe_pins
  <2>3. w \in SlotRec
    BY <1>1 DEF SlotRec, SlotStates
  <2> HIDE DEF w
  <2>4. n \in Nat
    BY <2>3 DEF SlotRec
  <2> HIDE DEF n
  <2>5. q \in SlotRec /\ q.user_pin_fails = 0
    BY <2>3, <2>4, PinLimit DEF SlotRec, SlotStates
  <2> HIDE DEF q
  <2>6. \A g : PinStep(r, q, g, 0, FALSE)
    BY <2>5 DEF PinStep
  <2> QED BY <2>2, <2>5, <2>6, ResealKeeps, ResealCounts
<1>5. ASSUME Legal(r.state, "SO_UNLOCK")
      PROVE  /\ ok => unlock(r, ok).sealed
             /\ \A g : PinStep(r, unlock(r, ok), g, 0, FALSE)
  <2> DEFINE target == slot_fsm_unlock_target(r.pre_lock)
             q == [[r EXCEPT !.state = target, !.pre_lock = r.pre_lock, !.sealed = FALSE]
                      EXCEPT !.user_pin_fails = 0]
  <2>1. unlock(r, ok) = slot_reseal(q, ok)
    BY DEF unlock, fsm_apply
  <2>2. target \in {"LOADED", "EMPTY"}
    BY DEF slot_fsm_unlock_target
  <2> HIDE DEF target
  <2>3. q \in SlotRec /\ q.user_pin_fails = 0
    BY <1>1, <2>2, PinLimit DEF SlotRec, SlotStates
  <2> HIDE DEF q
  <2>4. \A g : PinStep(r, q, g, 0, FALSE)
    BY <2>3 DEF PinStep
  <2> QED BY <2>1, <2>3, <2>4, ResealKeeps, ResealCounts
<1> QED BY <1>2, <1>3, <1>4, <1>5
-----------------------------------------------------------------------------
(* The steps of a call.                                                     *)

Section(t) ==
  \/ InitToken(t) \/ SetUserPin(t) \/ Login(t) \/ CreateObject(t)
  \/ Destroy(t) \/ Zeroize(t) \/ Unlock(t)

\* What a section leaves: the record q in its slot, a count h of guesses, the call c.
Leaves(t, q, h, c) ==
  LET s == th[t].slot IN
  /\ slot' = [slot EXCEPT ![s] = q] /\ q.sealed
  /\ PinStep(slot[s], q, guesses[s], h, c.role = "USER" /\ c.st = "WRONG_PIN")
  /\ guesses' = [guesses EXCEPT ![s] = h]
  /\ Go(t, c) /\ c.slot = s /\ c.pc \in {"commit", "drop"}

\* Leaving with nothing of a wrong PIN.
LEMMA LeaveLeaves ==
  ASSUME IInv, NEW t \in Threads, NEW q, q.sealed, NEW pc \in {"commit", "drop"}, NEW st,
         Leave(t, q, pc, st), NEW h, PinStep(slot[th[t].slot], q, guesses[th[t].slot], h, FALSE),
         guesses' = [guesses EXCEPT ![th[t].slot] = h]
  PROVE  \E c : Leaves(t, q, h, c)
<1>1. PICK c : c = [th[t] EXCEPT !.pc = pc, !.st = st]
  OBVIOUS
<1>2. th[t] \in ThreadRec
  BY DEF IInv, TypeOK
<1>3. Go(t, c) /\ c.slot = th[t].slot /\ c.pc = pc
  BY <1>1, <1>2 DEF Leave, ThreadRec
<1>4. PinStep(slot[th[t].slot], q, guesses[th[t].slot], h, c.role = "USER" /\ c.st = "WRONG_PIN")
  BY DEF PinStep
<1> QED BY <1>3, <1>4 DEF Leaves, Leave

\* So does a call that is refused.
LEMMA RefusedLeaves ==
  ASSUME IInv, NEW t \in Threads, Refused(t), UNCHANGED guesses,
         slot[th[t].slot].sealed, Fresh(slot[th[t].slot])
  PROVE  \E q, h, c : Leaves(t, q, h, c)
<1> DEFINE r == slot[th[t].slot]
           g == guesses[th[t].slot]
<1>1. guesses' = [guesses EXCEPT ![th[t].slot] = g]
  BY DEF IInv, TypeOK
<1>2. PinStep(r, r, g, g, FALSE)
  BY DEF PinStep, Fresh
<1>3. Leave(t, r, "commit", "DENIED")
  BY DEF Refused
<1>4. \E c : Leaves(t, r, g, c)
  BY <1>1, <1>2, <1>3, LeaveLeaves
<1> QED BY <1>4

\* With random numbers and key derivation that do not fail, a section ends the call where
\* nothing was checked or leaves its slot sealed.
LEMMA SectionLeaves ==
  ASSUME IInv, ~RngMayFail, ~KdrMayFail, NEW t \in Threads, Section(t),
         slot[th[t].slot].sealed, Fresh(slot[th[t].slot])
  PROVE  \/ Go(t, Idle) /\ UNCHANGED <<slot, guesses>>
         \/ \E q, h, c : Leaves(t, q, h, c)
<1> DEFINE s == th[t].slot
           r == slot[s]
           g == guesses[s]
<1>0. Kdr = {TRUE} /\ TRUE \in BOOLEAN /\ Resealed(TRUE) = "OK"
  BY KdrAnswers DEF Resealed
<1>1. /\ Resting(r) /\ th[t] \in ThreadRec /\ s \in Slots /\ r.sealed /\ Fresh(r)
      /\ guesses = [guesses EXCEPT ![s] = g]
  <2>1. Resting(r)
    BY SectionRests DEF Section, InitToken, SetUserPin, Login, CreateObject, Destroy, Zeroize,
                        Unlock, InSection
  <2> QED BY <2>1 DEF IInv, TypeOK, ThreadRec
<1>2. ASSUME NEW q, q.sealed, NEW pc \in {"commit", "drop"}, NEW st, Leave(t, q, pc, st),
             PinStep(r, q, g, g, FALSE), UNCHANGED guesses
      PROVE  \E p, h, c : Leaves(t, p, h, c)
  <2>1. \E c : Leaves(t, q, g, c)
    BY <1>1, <1>2, LeaveLeaves
  <2> QED BY <2>1
<1>3. ASSUME NEW q, q.sealed, NEW pc \in {"commit", "drop"}, NEW st, Leave(t, q, pc, st),
             PinStep(r, q, g, 0, FALSE), guesses' = [guesses EXCEPT ![s] = 0]
      PROVE  \E p, h, c : Leaves(t, p, h, c)
  <2>1. \E c : Leaves(t, q, 0, c)
    BY <1>1, <1>3, LeaveLeaves
  <2> QED BY <2>1
<1>4. CASE InitToken(t)
  <2>1. /\ UNCHANGED guesses
        /\ (Legal(r.state, "INIT_TOKEN") /\ Leave(t, init_token(r, TRUE), "commit", "OK")) \/ Refused(t)
    BY <1>0, <1>4 DEF InitToken
  <2> QED BY <1>0, <1>1, <1>2, <2>1, InitSeals, RefusedLeaves
<1>5. CASE SetUserPin(t)
  <2>1. \/ /\ Leave(t, set_user_pin(r, TRUE), "commit", "OK")
           /\ guesses' = [guesses EXCEPT ![s] = 0]
        \/ Refused(t) /\ UNCHANGED guesses
    BY <1>0, <1>5 DEF SetUserPin
  <2> QED BY <1>0, <1>1, <1>3, <2>1, InitSeals, RefusedLeaves
<1>6. CASE Login(t)
  <2> DEFINE role == th[t].role
  <2>1. role \in {"USER", "SO"}
    BY <1>6 DEF IInv, CallsOK, Proper, ThreadRec, Roles, Login, InSection
  <2>2. CASE Go(t, Idle) /\ UNCHANGED <<slot, guesses>>
    BY <2>2
  <2>3. CASE /\ r.state # "UNINIT" /\ ~(r.state = "LOCKED" /\ role = "USER")
             /\ \E missed \in BOOLEAN : slot' = [slot EXCEPT ![s] = login_right(r, role, missed, TRUE)]
             /\ Go(t, [th[t] EXCEPT !.pc = "commit", !.ok = TRUE, !.era = era[s], !.st = "OK"])
             /\ guesses' = [guesses EXCEPT ![s] = IF role = "USER" THEN 0 ELSE @]
    <3>0. PICK missed \in BOOLEAN : slot' = [slot EXCEPT ![s] = login_right(r, role, missed, TRUE)]
      BY <2>3
    <3>1. PICK c : c = [th[t] EXCEPT !.pc = "commit", !.ok = TRUE, !.era = era[s], !.st = "OK"]
      OBVIOUS
    <3>2. Go(t, c) /\ c.slot = s /\ c.pc = "commit"
      BY <1>1, <2>3, <3>1 DEF ThreadRec
    <3>3. PICK h : h = IF role = "USER" THEN 0 ELSE g
      OBVIOUS
    <3>4. /\ login_right(r, role, missed, TRUE).sealed
          /\ PinStep(r, login_right(r, role, missed, TRUE), g, h, FALSE)
      BY <1>0, <1>1, <2>1, <2>3, <3>3, LoginSeals
    <3>5. PinStep(r, login_right(r, role, missed, TRUE), g, h, c.role = "USER" /\ c.st = "WRONG_PIN")
      BY <3>4 DEF PinStep
    <3>6. guesses' = [guesses EXCEPT ![s] = h]
      BY <2>3, <3>3
    <3>7. Leaves(t, login_right(r, role, missed, TRUE), h, c)
      BY <3>0, <3>2, <3>4, <3>5, <3>6 DEF Leaves
    <3> QED BY <3>7
  <2>4. CASE /\ r.state # "UNINIT" /\ ~(r.state = "LOCKED" /\ role = "USER")
             /\ Leave(t, login_wrong(r, role, TRUE), "commit", "WRONG_PIN")
             /\ guesses' = [guesses EXCEPT ![s] =
                              IF role = "USER" /\ @ <= HSM_PIN_MAX_FAILS THEN @ + 1 ELSE @]
    <3>1. PICK c : c = [th[t] EXCEPT !.pc = "commit", !.st = "WRONG_PIN"]
      OBVIOUS
    <3>2. Go(t, c) /\ c.slot = s /\ c.pc = "commit" /\ c.role = role /\ c.st = "WRONG_PIN"
      BY <1>1, <2>4, <3>1 DEF Leave, ThreadRec
    <3>3. PICK h : h = IF role = "USER" /\ g <= HSM_PIN_MAX_FAILS THEN g + 1 ELSE g
      OBVIOUS
    <3>4. h \in {g, g + 1} /\ (role = "SO" => h = g)
      BY <3>3
    <3>5. /\ login_wrong(r, role, TRUE).sealed
          /\ PinStep(r, login_wrong(r, role, TRUE), g, h, role = "USER")
      BY <1>0, <1>1, <2>1, <2>4, <3>4, LoginSeals
    <3>6. guesses' = [guesses EXCEPT ![s] = h]
      BY <2>4, <3>3
    <3>7. PinStep(r, login_wrong(r, role, TRUE), g, h, c.role = "USER" /\ c.st = "WRONG_PIN")
      BY <3>2, <3>5 DEF PinStep
    <3>8. slot' = [slot EXCEPT ![s] = login_wrong(r, role, TRUE)]
      BY <2>4 DEF Leave
    <3>9. Leaves(t, login_wrong(r, role, TRUE), h, c)
      BY <3>2, <3>5, <3>6, <3>7, <3>8 DEF Leaves
    <3> QED BY <3>9
  <2> QED BY <1>0, <1>6, <2>2, <2>3, <2>4 DEF Login
<1>7. CASE CreateObject(t)
  <2>1. CASE Refused(t) /\ UNCHANGED guesses
    BY <1>1, <2>1, RefusedLeaves
  <2>2. ASSUME NEW ev \in {"GENERATE", "LOAD"}, NEW kind \in KeyKinds, Legal(r.state, ev),
               slot' = [slot EXCEPT ![s] = install_key(r, ev, nkeys + 1, kind, TRUE)],
               Go(t, [th[t] EXCEPT !.pc = "commit", !.key = nkeys + 1, !.handle = r.generation]),
               UNCHANGED guesses
        PROVE  \E q, h, c : Leaves(t, q, h, c)
    <3>1. PICK k : k = nkeys + 1
      OBVIOUS
    <3>2. PICK c : c = [th[t] EXCEPT !.pc = "commit", !.key = k, !.handle = r.generation]
      OBVIOUS
    <3>3. Go(t, c) /\ c.slot = s /\ c.pc = "commit"
      BY <1>1, <2>2, <3>1, <3>2 DEF ThreadRec
    <3>4. k \in Nat /\ kind \in {"sk", "seed", "hw"}
      BY <3>1, ConstantsAssumption DEF IInv, TypeOK
    <3>5. PICK q : q = install_key(r, ev, k, kind, TRUE)
      OBVIOUS
    <3>6. q.sealed /\ PinStep(r, q, g, g, FALSE)
      BY <1>0, <1>1, <2>2, <3>4, <3>5, KeySeals
    <3>7. PinStep(r, q, g, g, c.role = "USER" /\ c.st = "WRONG_PIN")
      BY <3>6 DEF PinStep
    <3>8. slot' = [slot EXCEPT ![s] = q] /\ guesses' = [guesses EXCEPT ![s] = g]
      BY <1>1, <2>2, <3>1, <3>5
    <3>9. Leaves(t, q, g, c)
      BY <3>3, <3>6, <3>7, <3>8 DEF Leaves
    <3> QED BY <3>9
  <2> QED BY <1>0, <1>7, <2>1, <2>2 DEF CreateObject
<1>8. CASE Destroy(t)
  <2>1. /\ UNCHANGED guesses
        /\ (Legal(r.state, "DESTROY") /\ Leave(t, destroy(r, TRUE), "commit", "OK")) \/ Refused(t)
    BY <1>0, <1>8 DEF Destroy
  <2> QED BY <1>0, <1>1, <1>2, <2>1, KeySeals, RefusedLeaves
<1>9. CASE Zeroize(t)
  <2>1. Leave(t, do_zeroize(r, TRUE), "drop", "OK") /\ guesses' = [guesses EXCEPT ![s] = 0]
    BY <1>0, <1>9 DEF Zeroize
  <2> QED BY <1>0, <1>1, <1>3, <2>1, KeySeals
<1>10. CASE Unlock(t)
  <2>1. \/ /\ Legal(r.state, "SO_UNLOCK") /\ Leave(t, unlock(r, TRUE), "commit", "OK")
           /\ guesses' = [guesses EXCEPT ![s] = 0]
        \/ Refused(t) /\ UNCHANGED guesses
    BY <1>0, <1>10 DEF Unlock
  <2> QED BY <1>0, <1>1, <1>3, <2>1, KeySeals, RefusedLeaves
<1> QED BY <1>4, <1>5, <1>6, <1>7, <1>8, <1>9, <1>10 DEF Section

\* A section leaves the session table, the lock and the save alone.
LEMMA SectionFrame ==
  ASSUME NEW t \in Threads, Section(t)
  PROVE  UNCHANGED <<slotLock, sessionVars, saveVars>> /\ th[t].pc = "cs"
BY DEF Section, InitToken, SetUserPin, Login, CreateObject, Destroy, Zeroize, Unlock, InSection

\* A call that has just begun; a login has a session of its slot.
Starting(c) ==
  /\ c.pc = "cs" /\ c.slot \in Slots /\ c.ok = FALSE
  /\ c.op = "login" => \E i \in 1..MAX_SESSIONS : c.sess = Handle(i) /\ c.slot = sessions[i].slot

\* A step outside a call leaves the thread as it is or begins one.
LEMMA OtherStarts ==
  ASSUME IInv, NEW t \in Threads, Other(t)
  PROVE  /\ th[t].pc = "idle"
         /\ \/ UNCHANGED th
            \/ /\ UNCHANGED sessions
               /\ \E c : Go(t, c) /\ Starting(c)
<1>1. ASSUME NEW op \in {"init_token", "zeroize_forced"}, NEW s \in Slots,
             CallWithoutSession(t, op, s)
      PROVE  /\ th[t].pc = "idle" /\ UNCHANGED sessions
             /\ \E c : Go(t, c) /\ Starting(c)
  <2>1. PICK c : c = [Idle EXCEPT !.pc = "cs", !.op = op, !.slot = s]
    OBVIOUS
  <2>2. /\ Go(t, c) /\ c.op = op /\ c.pc = "cs" /\ c.slot = s /\ c.ok = FALSE
        /\ th[t].pc = "idle" /\ UNCHANGED sessions
    BY <1>1, <2>1 DEF CallWithoutSession, sessionVars, Idle
  <2> QED BY <2>2 DEF Starting
<1>2. ASSUME NEW op \in SessionOps, NEW i \in 1..MAX_SESSIONS, Call(t, op, i)
      PROVE  /\ th[t].pc = "idle" /\ UNCHANGED sessions
             /\ \E c : Go(t, c) /\ Starting(c)
  <2>1. PICK role, h :
          Go(t, [Idle EXCEPT !.pc = "cs", !.op = op, !.sess = Handle(i),
                             !.slot = sessions[i].slot, !.role = role,
                             !.handle = h.gen, !.key = h.key])
    BY <1>2 DEF Call
  <2>2. PICK c : c = [Idle EXCEPT !.pc = "cs", !.op = op, !.sess = Handle(i),
                                  !.slot = sessions[i].slot, !.role = role,
                                  !.handle = h.gen, !.key = h.key]
    OBVIOUS
  <2>3. /\ Go(t, c) /\ c.pc = "cs" /\ c.slot = sessions[i].slot
        /\ c.ok = FALSE /\ c.sess = Handle(i)
    BY <2>1, <2>2 DEF Idle
  <2>4. sessions[i].slot \in Slots
    BY DEF IInv, TypeOK, SessionRec
  <2>5. th[t].pc = "idle" /\ UNCHANGED sessions
    BY <1>2 DEF Call, sessionVars
  <2> QED BY <2>3, <2>4, <2>5 DEF Starting
<1>3. ASSUME NEW s, SessionOpen(t, s) \/ SessionClose(t, s) \/ SessionLogout(t, s)
      PROVE  UNCHANGED th /\ th[t].pc = "idle"
  BY <1>3 DEF SessionOpen, SessionClose, SessionLogout
<1> QED BY <1>1, <1>2, <1>3 DEF Other
-----------------------------------------------------------------------------
(* The file.                                                                *)

DiskGood == \A s \in Slots : disk[s].sealed /\ disk[s].kind # "hw"

AllSaved == \A s \in Slots : Saved(s) /\ slot[s].sealed

\* Outside sections, uses and saves everything is saved.
LEMMA AtRest ==
  ASSUME NEW t \in Threads, th[t].slot \in Slots, DurableOK(t),
         th[t].pc \in {"idle", "cs", "role", "unbusy"}
  PROVE  AllSaved
BY DEF DurableOK, AllSaved

\* And after a step that leaves everything saved, the call is in order if it is not saving.
LEMMA RestIsDurable ==
  ASSUME NEW t \in Threads, th'[t].slot \in Slots, DiskGood', AllSaved',
         th'[t].pc \in {"idle", "cs", "role", "drop", "commit"}, persist_busy' = FALSE
  PROVE  DurableOK(t)'
BY DEF DurableOK, AllSaved, DiskGood, Saved

\* The fresh token is saved.
LEMMA DurableInit == \A t \in Threads : Init => DurableOK(t)
<1> SUFFICES ASSUME NEW t \in Threads, Init PROVE DurableOK(t)
  OBVIOUS
<1>1. slot_serialize(FreshSlot) = FreshSlot /\ FreshSlot.sealed /\ FreshSlot.kind # "hw"
  BY DEF slot_serialize, FreshSlot
<1>2. /\ \A s \in Slots : slot[s] = FreshSlot /\ disk[s] = FreshSlot
      /\ th[t].pc = "idle" /\ th[t].slot \in Slots /\ persist_busy = FALSE
  BY Types DEF Init, Idle
<1> QED BY <1>1, <1>2 DEF DurableOK, Saved

\* A restart brings back what was saved.
LEMMA DurableRestart ==
  ASSUME IInv, NEW t \in Threads, DurableOK(t), Restart
  PROVE  DurableOK(t)'
<1>1. /\ slot' = [s \in Slots |-> slot_reseal(disk[s], TRUE)] /\ disk' = disk
      /\ th'[t] = Idle /\ persist_busy' = FALSE
  BY DEF Restart
<1>2. \A s \in Slots : disk[s] = slot_serialize(slot_reseal(disk[s], TRUE)) /\ slot_reseal(disk[s], TRUE).sealed
  BY Reloaded DEF DurableOK, IInv, TypeOK
<1>3. DiskGood' /\ AllSaved'
  BY <1>1, <1>2 DEF DurableOK, DiskGood, AllSaved, Saved
<1>4. th'[t].pc = "idle" /\ th'[t].slot \in Slots
  BY <1>1, Types DEF Idle
<1> QED BY <1>1, <1>3, <1>4, RestIsDurable

\* A section leaves its slot sealed and every other as it was.
LEMMA DurableSection ==
  ASSUME IInv, IInv', ~RngMayFail, ~KdrMayFail, NEW t \in Threads, DurableOK(t), Fresh(slot[th[t].slot]),
         Section(t)
  PROVE  DurableOK(t)'
<1>1. /\ th[t].pc = "cs" /\ th[t].slot \in Slots /\ th \in [Threads -> ThreadRec]
      /\ slot \in [Slots -> SlotRec] /\ UNCHANGED saveVars
  BY SectionFrame DEF IInv, TypeOK, ThreadRec
<1>2. AllSaved /\ DiskGood /\ persist_busy = FALSE
  BY <1>1, AtRest DEF DurableOK, DiskGood, IInv, TypeOK
<1>3. CASE Go(t, Idle) /\ UNCHANGED slot
  <2>1. th'[t].pc = "idle" /\ th'[t].slot \in Slots
    BY <1>1, <1>3, Types DEF Go, Idle
  <2> QED BY <1>1, <1>2, <1>3, <2>1, RestIsDurable DEF AllSaved, DiskGood, Saved, saveVars
<1>4. ASSUME NEW q, NEW h, NEW c, Leaves(t, q, h, c) PROVE DurableOK(t)'
  <2>1. /\ th'[t] = c /\ c.slot = th[t].slot /\ c.pc \in {"drop", "commit"}
        /\ \A s \in Slots \ {c.slot} : slot'[s] = slot[s]
        /\ slot'[c.slot].sealed
    BY <1>1, <1>4 DEF Leaves, Go
  <2> QED BY <1>1, <1>2, <2>1 DEF DurableOK, AllSaved, DiskGood, Saved, saveVars
<1>5. slot[th[t].slot].sealed
  BY <1>1, <1>2 DEF AllSaved
<1> QED BY <1>3, <1>4, <1>5, SectionLeaves

\* begin_use and end_use leave the file right about the slot after the use.
LEMMA DurableUse ==
  ASSUME IInv, IInv', ~KdrMayFail, NEW t \in Threads, DurableOK(t), BeginUse(t) \/ EndUse(t)
  PROVE  DurableOK(t)'
<1> DEFINE s == th[t].slot
           r == slot[s]
<1>1. /\ s \in Slots /\ th \in [Threads -> ThreadRec] /\ th[t] \in ThreadRec
      /\ slot \in [Slots -> SlotRec] /\ r \in SlotRec /\ UNCHANGED saveVars
  BY DEF IInv, TypeOK, ThreadRec, BeginUse, EndUse
<1>2. DiskGood /\ persist_busy = FALSE
  BY DEF DurableOK, DiskGood, BeginUse, EndUse, InSection, IInv, TypeOK
<1>3. ASSUME AllSaved', Go(t, Idle) PROVE DurableOK(t)'
  <2>1. th'[t].pc = "idle" /\ th'[t].slot \in Slots
    BY <1>1, <1>3, Types DEF Go, Idle
  <2> QED BY <1>1, <1>2, <1>3, <2>1, RestIsDurable DEF DiskGood, saveVars
<1>4. CASE BeginUse(t)
  <2>1. AllSaved
    BY <1>1, <1>4, AtRest DEF BeginUse, InSection
  <2>2. CASE Go(t, Idle) /\ UNCHANGED slot
    BY <1>1, <1>3, <2>1, <2>2 DEF AllSaved, Saved, saveVars
  <2>3. CASE Legal(r.state, "USE_BEGIN") /\ Leave(t, fsm_apply(r, "USE_BEGIN"), "using", "OK")
    <3>1. GivenBack(fsm_apply(r, "USE_BEGIN")) = r
      BY <1>1, <2>1, <2>3, UseGivesBack DEF AllSaved
    <3>2. PICK c : c = [th[t] EXCEPT !.pc = "using", !.st = "OK"]
      OBVIOUS
    <3>3. th'[t] = c /\ c.pc = "using" /\ c.slot = s
      BY <1>1, <2>3, <3>2 DEF Leave, Go, ThreadRec
    <3>4. PICK q : q = fsm_apply(r, "USE_BEGIN")
      OBVIOUS
    <3>5. slot' = [slot EXCEPT ![s] = q] /\ GivenBack(q) = r
      BY <2>3, <3>1, <3>4 DEF Leave
    <3>6. /\ slot'[c.slot] = q /\ \A u \in Slots \ {c.slot} : slot'[u] = slot[u]
          /\ disk'[c.slot] = slot_serialize(r)
      BY <1>1, <2>1, <3>3, <3>5 DEF AllSaved, Saved, saveVars
    <3> QED BY <1>1, <1>2, <2>1, <3>3, <3>5, <3>6 DEF DurableOK, AllSaved, DiskGood, Saved, saveVars
  <2> QED BY <1>4, <2>2, <2>3 DEF BeginUse
<1>5. CASE EndUse(t)
  <2>0. r.state = "IN_USE" /\ Kdr = {TRUE}
    BY <1>1, <1>5, KdrAnswers DEF IInv, LocksOK, EndUse
  <2>1. slot' = [slot EXCEPT ![s] = GivenBack(r)] /\ Go(t, Idle) /\ th[t].pc = "using"
    <3>1. PICK worked \in BOOLEAN : slot' = [slot EXCEPT ![s] = UseEnded(r, worked, TRUE)]
      BY <1>5, <2>0 DEF EndUse, UseEnded
    <3> QED BY <1>1, <1>5, <2>0, <3>1, UseEndedOnce DEF EndUse
  <2>2. GivenBack(r).sealed
    <3>1. r.state = "IN_USE"
      BY <1>1, <2>1 DEF IInv, LocksOK
    <3>2. fsm_apply(r, "USE_END") = [r EXCEPT !.state = "LOADED", !.pre_lock = r.pre_lock,
                                              !.sealed = FALSE]
      BY <3>1 DEF fsm_apply, slot_fsm_next
    <3> QED BY <1>1, <3>2 DEF GivenBack, slot_reseal, SlotRec
  <2>3. /\ slot'[s] = GivenBack(r) /\ disk[s] = slot_serialize(GivenBack(r))
        /\ \A u \in Slots \ {s} : slot'[u] = slot[u] /\ Saved(u) /\ slot[u].sealed
    BY <1>1, <2>1 DEF DurableOK
  <2>4. AllSaved'
    BY <1>1, <2>2, <2>3 DEF AllSaved, Saved, saveVars
  <2> QED BY <1>3, <2>1, <2>4
<1> QED BY <1>4, <1>5

\* A commit: the save has no other to wait for or to be skipped for, takes every slot, and
\* is published.
LEMMA DurableCommit ==
  ASSUME IInv, IInv', Reliable, NEW t \in Threads, DurableOK(t),
         CommitSkipped(t) \/ CommitBegin(t) \/ SaveSlot(t) \/ SavePublish(t) \/ CommitEnd(t)
  PROVE  DurableOK(t)'
<1> DEFINE own == th[t].slot
<1>1. /\ own \in Slots /\ th \in [Threads -> ThreadRec] /\ th[t] \in ThreadRec
      /\ slot \in [Slots -> SlotRec] /\ UNCHANGED slot /\ DiskGood
      /\ snap \in [Slots -> SlotRec] /\ cursor \in 1..(NumSlots + 1) /\ NumSlots \in Nat
  BY ConstantsAssumption
     DEF IInv, TypeOK, ThreadRec, DurableOK, DiskGood, CommitSkipped, CommitBegin, SaveSlot,
         SavePublish, CommitEnd
<1>2. ~CommitSkipped(t)
  BY DEF DurableOK, CommitSkipped, Reliable
<1>3. CASE CommitBegin(t)
  <2>1. PICK c : c = [th[t] EXCEPT !.pc = "save"]
    OBVIOUS
  <2>2. /\ th'[t] = c /\ c.pc = "save" /\ c.slot = own /\ th[t].pc = "commit"
        /\ persist_busy' = TRUE /\ cursor' = 1 /\ disk' = disk
    BY <1>1, <1>3, <2>1 DEF CommitBegin, Go, ThreadRec
  <2>3. \A s \in Slots : ~(s < 1)
    BY <1>1 DEF Slots
  <2> QED BY <1>1, <2>2, <2>3 DEF DurableOK, DiskGood, Saved
<1>4. CASE SaveSlot(t)
  <2>1. slot[cursor].sealed
    BY <1>4 DEF DurableOK, SaveSlot
  <2>2. /\ th[t].pc = "save" /\ cursor \in Slots /\ UNCHANGED <<th, persist_busy, disk>>
        /\ snap' = [snap EXCEPT ![cursor] = slot_serialize(slot[cursor])]
        /\ cursor' = cursor + 1
    BY <1>4, <2>1, KdrAnswers DEF SaveSlot, Intact, Reliable
  <2>3. ASSUME NEW s \in Slots, s < cursor' PROVE snap'[s] = slot_serialize(slot[s])
    <3>1. s < cursor \/ s = cursor
      BY <1>1, <2>2, <2>3 DEF Slots
    <3>2. CASE s = cursor
      BY <1>1, <2>2, <3>2
    <3>3. CASE s < cursor
      <4>1. snap[s] = slot_serialize(slot[s])
        BY <2>2, <3>3 DEF DurableOK
      <4>2. s # cursor
        BY <1>1, <3>3 DEF Slots
      <4> QED BY <1>1, <2>2, <4>1, <4>2
    <3> QED BY <3>1, <3>2, <3>3
  <2> QED BY <1>1, <2>2, <2>3 DEF DurableOK, Saved
<1>5. CASE SavePublish(t)
  <2>1. /\ th[t].pc = "save" /\ cursor = NumSlots + 1 /\ disk' = snap
        /\ Go(t, [th[t] EXCEPT !.pc = "unbusy"]) /\ UNCHANGED <<persist_busy, snap>>
    BY <1>5 DEF SavePublish, AllSerialised, Reliable
  <2>2. \A s \in Slots : s < NumSlots + 1
    BY <1>1 DEF Slots
  <2>3. \A s \in Slots : snap[s] = slot_serialize(slot[s]) /\ slot[s].sealed
    BY <2>1, <2>2 DEF DurableOK
  <2>4. DiskGood' /\ AllSaved'
    BY <1>1, <2>1, <2>3, CopySealed DEF DiskGood, AllSaved, Saved
  <2>5. PICK c : c = [th[t] EXCEPT !.pc = "unbusy"]
    OBVIOUS
  <2>6. th'[t] = c /\ c.pc = "unbusy" /\ c.slot = own /\ persist_busy' = persist_busy
    BY <1>1, <2>1, <2>5 DEF Go, ThreadRec
  <2> QED BY <1>1, <2>1, <2>4, <2>6 DEF DurableOK, DiskGood, AllSaved, Saved
<1>6. CASE CommitEnd(t)
  <2>1. /\ th[t].pc = "unbusy" /\ persist_busy' = FALSE /\ disk' = disk
        /\ Returned(t, th[t].st)
    BY <1>6 DEF CommitEnd
  <2>2. AllSaved
    BY <1>1, <2>1, AtRest
  <2>3. th'[t].pc \in {"idle", "role"} /\ th'[t].slot \in Slots
    <3>1. PICK c : c = [th[t] EXCEPT !.pc = "role", !.st = th[t].st]
      OBVIOUS
    <3>2. c.pc = "role" /\ c.slot = own
      BY <1>1, <3>1 DEF ThreadRec
    <3>3. th'[t] \in {c, Idle}
      BY <1>1, <2>1, <3>1 DEF Returned, Go
    <3> QED BY <1>1, <3>2, <3>3, Types DEF Idle
  <2> QED BY <1>1, <2>1, <2>2, <2>3, RestIsDurable DEF DiskGood, AllSaved, Saved
<1> QED BY <1>2, <1>3, <1>4, <1>5, <1>6

\* The steps that touch neither slots nor file.
LEMMA DurableOther ==
  ASSUME IInv, IInv', NEW t \in Threads, DurableOK(t),
         DropSessions(t) \/ SetSessionRole(t) \/ Other(t)
  PROVE  DurableOK(t)'
<1>1. /\ th[t].slot \in Slots /\ th \in [Threads -> ThreadRec] /\ th[t] \in ThreadRec
      /\ UNCHANGED <<slot, disk, persist_busy>> /\ DiskGood
  BY OtherFrame
     DEF IInv, TypeOK, ThreadRec, DropSessions, SetSessionRole, saveVars, DurableOK, DiskGood
<1>2. CASE DropSessions(t)
  <2>1. PICK c : c = [th[t] EXCEPT !.pc = "commit"]
    OBVIOUS
  <2>2. th'[t] = c /\ c.pc = "commit" /\ c.slot = th[t].slot /\ th[t].pc = "drop"
    BY <1>1, <1>2, <2>1 DEF DropSessions, Go, ThreadRec
  <2> QED BY <1>1, <2>2 DEF DurableOK, Saved
<1>3. CASE SetSessionRole(t) \/ Other(t)
  <2>1. th[t].pc \in {"role", "idle"} /\ persist_busy = FALSE
    BY <1>3, OtherStarts DEF SetSessionRole, DurableOK, IInv, TypeOK
  <2>2. AllSaved
    BY <1>1, <2>1, AtRest
  <2>3. th'[t].pc \in {"idle", "cs"} /\ th'[t].slot \in Slots
    <3>1. CASE SetSessionRole(t)
      BY <1>1, <3>1, Types DEF SetSessionRole, Go, Idle
    <3>2. CASE Other(t)
      <4>1. CASE UNCHANGED th
        BY <1>1, <3>2, <4>1, OtherStarts
      <4>2. CASE \E c : Go(t, c) /\ Starting(c)
        BY <1>1, <4>2 DEF Go, Starting
      <4>3. UNCHANGED th \/ \E c : Go(t, c) /\ Starting(c)
        BY <3>2, OtherStarts
      <4> QED BY <4>1, <4>2, <4>3
    <3> QED BY <1>3, <3>1, <3>2
  <2> QED BY <1>1, <2>1, <2>2, <2>3, RestIsDurable DEF DiskGood, AllSaved, Saved
<1> QED BY <1>2, <1>3
-----------------------------------------------------------------------------
(* PIN guesses.                                                             *)

\* The counter of a slot is never behind the guesses that were answered since its reset;
\* neither is the one in the file, but for a wrong PIN on its way to it.
GuessesOK(t) ==
  LET c == th[t] IN
  /\ \A s \in Slots : Fresh(disk[s])
  /\ \A s \in Slots : Fresh(slot[s]) /\ guesses[s] <= slot[s].user_pin_fails
  /\ c.pc \in {"drop", "commit", "save"} =>
       guesses[c.slot] <= disk[c.slot].user_pin_fails
                           + IF c.role = "USER" /\ c.st = "WRONG_PIN" THEN 1 ELSE 0

\* A use leaves the counter alone.
LEMMA UseKeepsFails ==
  ASSUME NEW r \in SlotRec
  PROVE  /\ Legal(r.state, "USE_BEGIN") =>
              LET q == fsm_apply(r, "USE_BEGIN") IN
              q.user_pin_fails = r.user_pin_fails /\ Fresh(q)
         /\ r.state = "IN_USE" =>
              \A worked, ok \in BOOLEAN :
                /\ UseEnded(r, worked, ok).user_pin_fails = r.user_pin_fails
                /\ Fresh(UseEnded(r, worked, ok))
<1>1. ASSUME Legal(r.state, "USE_BEGIN")
      PROVE  /\ fsm_apply(r, "USE_BEGIN").user_pin_fails = r.user_pin_fails
             /\ fsm_apply(r, "USE_BEGIN").state = "IN_USE"
  <2>1. fsm_apply(r, "USE_BEGIN") =
          [r EXCEPT !.state = "IN_USE", !.pre_lock = r.pre_lock, !.sealed = FALSE]
    BY <1>1 DEF fsm_apply, slot_fsm_next, Legal, SlotRec, SlotStates
  <2> QED BY <2>1 DEF SlotRec
<1>2. ASSUME r.state = "IN_USE", NEW worked \in BOOLEAN, NEW ok \in BOOLEAN
      PROVE  /\ UseEnded(r, worked, ok).user_pin_fails = r.user_pin_fails
             /\ UseEnded(r, worked, ok).state = "LOADED"
  <2> DEFINE f == [r EXCEPT !.state = "LOADED", !.pre_lock = r.pre_lock, !.sealed = FALSE]
             q == [f EXCEPT !.sealed = ~worked]
  <2>1. fsm_apply(r, "USE_END") = f
    BY <1>2 DEF fsm_apply, slot_fsm_next
  <2>2. UseEnded(r, worked, ok) = slot_reseal(q, ok)
    BY <2>1 DEF UseEnded
  <2>3. q \in SlotRec /\ q.user_pin_fails = r.user_pin_fails /\ q.state = "LOADED"
    BY DEF SlotRec, SlotStates
  <2> HIDE DEF q
  <2> QED BY <2>2, <2>3, ResealKeeps
<1> QED BY <1>1, <1>2 DEF Fresh

\* The wrong PINs a crash leaves unanswered are the caller's own, if it has one.
LEMMA OneUnanswered ==
  ASSUME NEW t, Threads = {t}, NEW s
  PROVE  Unanswered(s) = IF /\ th[t].pc # "idle" /\ th[t].slot = s
                            /\ th[t].role = "USER" /\ th[t].st = "WRONG_PIN" THEN 1 ELSE 0
<1> DEFINE wrong == /\ th[t].pc # "idle" /\ th[t].slot = s
                    /\ th[t].role = "USER" /\ th[t].st = "WRONG_PIN"
           W == {u \in Threads : /\ th[u].pc # "idle" /\ th[u].slot = s
                                 /\ th[u].role = "USER" /\ th[u].st = "WRONG_PIN"}
<1>1. CASE wrong
  <2>1. W = {t}
    BY <1>1
  <2>2. Cardinality({t}) = 1
    BY FS_Singleton
  <2> QED BY <1>1, <2>1, <2>2 DEF Unanswered
<1>2. CASE ~wrong
  <2>1. W = {}
    BY <1>2
  <2>2. Cardinality({}) = 0
    BY FS_EmptySet
  <2> QED BY <1>2, <2>1, <2>2 DEF Unanswered
<1> QED BY <1>1, <1>2

\* A restart takes back no guess that was answered.
LEMMA GuessesRestart ==
  ASSUME IInv, NEW t, Threads = {t}, DurableOK(t), GuessesOK(t), Restart
  PROVE  GuessesOK(t)'
<1> DEFINE own == th[t].slot
<1>1. /\ own \in Slots /\ slot \in [Slots -> SlotRec] /\ disk \in [Slots -> SlotRec]
      /\ guesses \in [Slots -> Nat] /\ t \in Threads
      /\ \A r \in SlotRec : r.user_pin_fails \in Nat
  BY PinLimit DEF IInv, TypeOK, ThreadRec, SlotRec
<1>2. /\ slot' = [s \in Slots |-> slot_reseal(disk[s], TRUE)] /\ disk' = disk /\ th'[t] = Idle
      /\ guesses' = [s \in Slots |-> IF guesses[s] > Unanswered(s)
                                      THEN guesses[s] - Unanswered(s) ELSE 0]
  BY <1>1 DEF Restart
<1>3. ASSUME NEW s \in Slots PROVE Fresh(slot'[s]) /\ guesses'[s] <= slot'[s].user_pin_fails
  <2>1. /\ slot'[s].user_pin_fails = disk[s].user_pin_fails
        /\ slot'[s].state = disk[s].state
    BY <1>1, <1>2 DEF SlotRec, slot_reseal
  <2>2. Fresh(slot'[s])
    BY <2>1 DEF GuessesOK, Fresh
  <2> DEFINE wrong == /\ th[t].pc # "idle" /\ own = s
                      /\ th[t].role = "USER" /\ th[t].st = "WRONG_PIN"
  <2>3. Unanswered(s) = IF wrong THEN 1 ELSE 0
    BY OneUnanswered
  <2>4. guesses[s] <= disk[s].user_pin_fails + IF wrong THEN 1 ELSE 0
    <3>1. guesses[s] <= slot[s].user_pin_fails
      BY DEF GuessesOK
    <3>2. CASE Saved(s)
      <4>1. disk[s].user_pin_fails = slot[s].user_pin_fails
        BY <1>1, <3>2, CopySealed DEF Saved
      <4>2. slot[s].user_pin_fails \in Nat /\ guesses[s] \in Nat
        BY <1>1
      <4> QED BY <3>1, <4>1, <4>2
    <3>3. CASE s = own /\ th[t].pc = "using"
      <4>1. slot[s].state = "IN_USE"
        BY <1>1, <3>3 DEF IInv, LocksOK
      <4>0. GivenBack(slot[s]) = UseEnded(slot[s], TRUE, TRUE)
        BY <1>1, <4>1, UseEndedOnce
      <4>2. GivenBack(slot[s]) \in SlotRec
        BY <1>1, <4>0, <4>1, UseGood DEF IInv, RecordsOK, Resting, Good
      <4>3. disk[s] = slot_serialize(GivenBack(slot[s]))
        BY <3>3 DEF DurableOK
      <4>4. disk[s].user_pin_fails = slot[s].user_pin_fails
        <5>1. slot[s].user_pin_fails = GivenBack(slot[s]).user_pin_fails
          BY <1>1, <4>0, <4>1, UseKeepsFails
        <5> QED BY <4>2, <4>3, <5>1, CopySealed
      <4>5. slot[s].user_pin_fails \in Nat /\ guesses[s] \in Nat
        BY <1>1
      <4> QED BY <3>1, <4>4, <4>5
    <3>4. CASE s = own /\ th[t].pc \in {"drop", "commit", "save"}
      BY <3>4 DEF GuessesOK
    <3>5. Saved(s) \/ (s = own /\ th[t].pc \in {"using", "drop", "commit", "save"})
      BY <1>1 DEF DurableOK, IInv, TypeOK, ThreadRec
    <3> QED BY <3>2, <3>3, <3>4, <3>5
  <2>5. guesses[s] \in Nat /\ disk[s].user_pin_fails \in Nat
    BY <1>1
  <2> HIDE DEF wrong
  <2>6. guesses'[s] <= disk[s].user_pin_fails
    BY <1>2, <2>3, <2>4, <2>5
  <2> QED BY <2>1, <2>2, <2>6
<1>4. Idle.pc = "idle"
  BY DEF Idle
<1> QED BY <1>2, <1>3, <1>4 DEF GuessesOK

\* A section: what it answers is in the counter at once.
LEMMA GuessesSection ==
  ASSUME IInv, IInv', ~RngMayFail, ~KdrMayFail, NEW t \in Threads, DurableOK(t), GuessesOK(t), Section(t)
  PROVE  GuessesOK(t)'
<1> DEFINE own == th[t].slot
           r == slot[own]
<1>1. /\ own \in Slots /\ slot \in [Slots -> SlotRec] /\ disk \in [Slots -> SlotRec]
      /\ guesses \in [Slots -> Nat] /\ th \in [Threads -> ThreadRec]
      /\ r.user_pin_fails \in Nat /\ r \in SlotRec /\ guesses[own] \in Nat
      /\ disk' = disk
  <2>1. /\ own \in Slots /\ slot \in [Slots -> SlotRec] /\ disk \in [Slots -> SlotRec]
        /\ guesses \in [Slots -> Nat] /\ th \in [Threads -> ThreadRec]
    BY DEF IInv, TypeOK, ThreadRec
  <2>2. \A x \in SlotRec : x.user_pin_fails \in Nat
    BY PinLimit DEF SlotRec
  <2>3. disk' = disk
    BY SectionFrame DEF saveVars
  <2> QED BY <2>1, <2>2, <2>3
<1>2. r.sealed /\ Fresh(r) /\ Saved(own) /\ guesses[own] <= r.user_pin_fails
  BY <1>1, SectionFrame DEF DurableOK, GuessesOK
<1>3. CASE Go(t, Idle) /\ UNCHANGED <<slot, guesses>>
  <2>1. th'[t].pc = "idle"
    BY <1>1, <1>3 DEF Go, Idle
  <2> QED BY <1>1, <1>3, <2>1 DEF GuessesOK
<1>4. ASSUME NEW q, NEW h, NEW c, Leaves(t, q, h, c) PROVE GuessesOK(t)'
  <2> DEFINE wrong == c.role = "USER" /\ c.st = "WRONG_PIN"
             g == guesses[own]
  <2>1. /\ th'[t] = c /\ c.slot = own /\ slot'[own] = q /\ guesses'[own] = h
        /\ \A s \in Slots \ {own} : slot'[s] = slot[s] /\ guesses'[s] = guesses[s]
        /\ PinStep(r, q, g, h, wrong)
    BY <1>1, <1>4 DEF Leaves, Go
  <2>2. disk[own].user_pin_fails = r.user_pin_fails
    BY <1>1, <1>2, CopySealed DEF Saved
  <2>3. q.user_pin_fails \in Nat
    <3>1. slot' \in [Slots -> SlotRec] /\ \A x \in SlotRec : x.user_pin_fails \in Nat
      BY PinLimit DEF IInv, TypeOK, SlotRec
    <3> QED BY <1>1, <2>1, <3>1
  <2>4. PICK f, e : f = r.user_pin_fails /\ e = q.user_pin_fails
    OBVIOUS
  <2>5. f \in Nat /\ e \in Nat /\ g \in Nat /\ g <= f
    BY <1>1, <1>2, <2>3, <2>4
  <2>6. Fresh(q) /\ h <= e /\ h <= f + IF wrong THEN 1 ELSE 0
    <3> HIDE DEF wrong, g
    <3>1. CASE h = 0
      BY <2>1, <2>4, <2>5, <3>1 DEF PinStep, Fresh
    <3>2. CASE h = g /\ e = f
      BY <2>1, <2>4, <2>5, <3>2 DEF PinStep, Fresh
    <3>3. CASE wrong /\ h \in {g, g + 1} /\ e = f + 1
      BY <2>1, <2>4, <2>5, <3>3 DEF PinStep, Fresh
    <3> QED BY <2>1, <2>4, <3>1, <3>2, <3>3 DEF PinStep
  <2> HIDE DEF own, g
  <2>7. /\ \A s \in Slots : Fresh(slot'[s]) /\ guesses'[s] <= slot'[s].user_pin_fails
        /\ guesses'[c.slot] <= disk'[c.slot].user_pin_fails + IF wrong THEN 1 ELSE 0
    BY <1>1, <2>1, <2>2, <2>4, <2>6 DEF GuessesOK
  <2> QED BY <1>1, <2>1, <2>7 DEF GuessesOK
<1> QED BY <1>1, <1>2, <1>3, <1>4, SectionLeaves

\* A use does not count.
LEMMA GuessesUse ==
  ASSUME IInv, NEW t \in Threads, GuessesOK(t), BeginUse(t) \/ EndUse(t)
  PROVE  GuessesOK(t)'
<1> DEFINE own == th[t].slot
           r == slot[own]
<1>1. /\ own \in Slots /\ slot \in [Slots -> SlotRec] /\ r \in SlotRec
      /\ th \in [Threads -> ThreadRec] /\ th[t] \in ThreadRec
      /\ UNCHANGED <<disk, guesses>>
  BY DEF IInv, TypeOK, ThreadRec, BeginUse, EndUse, saveVars
<1>2. ASSUME NEW q, slot' = [slot EXCEPT ![own] = q], Fresh(q),
             q.user_pin_fails = r.user_pin_fails
      PROVE  \A s \in Slots : Fresh(slot'[s]) /\ guesses'[s] <= slot'[s].user_pin_fails
  BY <1>1, <1>2 DEF GuessesOK
<1>3. th'[t].pc \in {"using", "idle"}
  <2>1. PICK c : c = [th[t] EXCEPT !.pc = "using", !.st = "OK"]
    OBVIOUS
  <2>2. c.pc = "using" /\ Idle.pc = "idle"
    BY <1>1, <2>1 DEF ThreadRec, Idle
  <2>3. th'[t] \in {c, Idle}
    BY <1>1, <2>1 DEF BeginUse, EndUse, Leave, Go
  <2> QED BY <2>2, <2>3
<1>4. CASE BeginUse(t)
  <2>1. \/ Legal(r.state, "USE_BEGIN") /\ slot' = [slot EXCEPT ![own] = fsm_apply(r, "USE_BEGIN")]
        \/ UNCHANGED slot
    BY <1>4 DEF BeginUse, Leave
  <2>2. \A s \in Slots : Fresh(slot'[s]) /\ guesses'[s] <= slot'[s].user_pin_fails
    <3>1. CASE UNCHANGED slot
      BY <1>1, <3>1 DEF GuessesOK
    <3>2. CASE /\ Legal(r.state, "USE_BEGIN")
               /\ slot' = [slot EXCEPT ![own] = fsm_apply(r, "USE_BEGIN")]
      <4>1. /\ fsm_apply(r, "USE_BEGIN").user_pin_fails = r.user_pin_fails
            /\ Fresh(fsm_apply(r, "USE_BEGIN"))
        BY <1>1, <3>2, UseKeepsFails
      <4> QED BY <1>2, <3>2, <4>1
    <3> QED BY <2>1, <3>1, <3>2
  <2> QED BY <1>1, <1>3, <2>2 DEF GuessesOK
<1>5. CASE EndUse(t)
  <2>0. th[t].pc = "using"
    BY <1>5 DEF EndUse
  <2>1. PICK worked, ok \in BOOLEAN : slot' = [slot EXCEPT ![own] = UseEnded(r, worked, ok)]
    BY <1>5, KdrAnswers DEF EndUse, UseEnded
  <2>2. r.state = "IN_USE"
    BY <1>1, <2>0 DEF IInv, LocksOK
  <2>3. /\ UseEnded(r, worked, ok).user_pin_fails = r.user_pin_fails
        /\ Fresh(UseEnded(r, worked, ok))
    BY <1>1, <2>2, UseKeepsFails
  <2>4. \A s \in Slots : Fresh(slot'[s]) /\ guesses'[s] <= slot'[s].user_pin_fails
    BY <1>2, <2>1, <2>3
  <2> QED BY <1>1, <1>3, <2>4 DEF GuessesOK
<1> QED BY <1>4, <1>5

\* The other steps of a call pass on what is known of a wrong PIN until the file has it.
LEMMA GuessesPassOn ==
  ASSUME IInv, Reliable, NEW t \in Threads, DurableOK(t), GuessesOK(t),
         \/ DropSessions(t) \/ CommitSkipped(t) \/ CommitBegin(t) \/ SaveSlot(t)
         \/ SavePublish(t) \/ CommitEnd(t) \/ SetSessionRole(t) \/ Other(t)
  PROVE  GuessesOK(t)'
<1> DEFINE own == th[t].slot
<1>1. /\ own \in Slots /\ th \in [Threads -> ThreadRec] /\ th[t] \in ThreadRec
      /\ slot \in [Slots -> SlotRec] /\ UNCHANGED <<slot, guesses>>
  BY OtherFrame
     DEF IInv, TypeOK, ThreadRec, DropSessions, CommitSkipped, CommitBegin, SaveSlot,
         SavePublish, CommitEnd, SetSessionRole
<1>2. ASSUME th'[t].pc \in {"idle", "cs", "role", "unbusy"}, \A s \in Slots : Fresh(disk'[s])
      PROVE  GuessesOK(t)'
  BY <1>1, <1>2 DEF GuessesOK
<1>3. ASSUME NEW c, Go(t, c), c.slot = own, c.role = th[t].role, c.st = th[t].st,
             th[t].pc \in {"drop", "commit", "save"}, disk' = disk
      PROVE  GuessesOK(t)'
  BY <1>1, <1>3 DEF GuessesOK, Go
<1>4. CASE DropSessions(t)
  <2>1. PICK c : c = [th[t] EXCEPT !.pc = "commit"]
    OBVIOUS
  <2>2. /\ Go(t, c) /\ c.slot = own /\ c.role = th[t].role /\ c.st = th[t].st
        /\ th[t].pc = "drop" /\ disk' = disk
    BY <1>1, <1>4, <2>1 DEF DropSessions, ThreadRec, saveVars
  <2> QED BY <1>3, <2>2
<1>5. CASE CommitSkipped(t)
  BY <1>5 DEF DurableOK, CommitSkipped, Reliable
<1>6. CASE CommitBegin(t)
  <2>1. PICK c : c = [th[t] EXCEPT !.pc = "save"]
    OBVIOUS
  <2>2. /\ Go(t, c) /\ c.slot = own /\ c.role = th[t].role /\ c.st = th[t].st
        /\ th[t].pc = "commit" /\ disk' = disk
    BY <1>1, <1>6, <2>1 DEF CommitBegin, ThreadRec
  <2> QED BY <1>3, <2>2
<1>7. CASE SaveSlot(t)
  <2>1. UNCHANGED <<th, disk>>
    BY <1>7, KdrAnswers DEF DurableOK, SaveSlot, Intact, Reliable
  <2> QED BY <1>1, <2>1 DEF GuessesOK
<1>8. CASE SavePublish(t)
  <2>1. /\ th[t].pc = "save" /\ cursor = NumSlots + 1 /\ disk' = snap
        /\ Go(t, [th[t] EXCEPT !.pc = "unbusy"])
    BY <1>8 DEF SavePublish, AllSerialised, Reliable
  <2>2. \A s \in Slots : s < NumSlots + 1
    BY ConstantsAssumption DEF Slots
  <2>3. \A s \in Slots : snap[s] = slot_serialize(slot[s])
    BY <2>1, <2>2 DEF DurableOK
  <2>4. \A s \in Slots : Fresh(disk'[s])
    BY <1>1, <2>1, <2>3, CopySealed DEF GuessesOK, Fresh
  <2>5. PICK c : c = [th[t] EXCEPT !.pc = "unbusy"]
    OBVIOUS
  <2>6. th'[t] = c /\ c.pc = "unbusy"
    BY <1>1, <2>1, <2>5 DEF Go, ThreadRec
  <2> QED BY <1>2, <2>4, <2>6
<1>9. CASE CommitEnd(t)
  <2>1. disk' = disk /\ Returned(t, th[t].st)
    BY <1>9 DEF CommitEnd
  <2>2. PICK c : c = [th[t] EXCEPT !.pc = "role", !.st = th[t].st]
    OBVIOUS
  <2>3. c.pc = "role" /\ Idle.pc = "idle"
    BY <1>1, <2>2 DEF ThreadRec, Idle
  <2>4. th'[t] \in {c, Idle}
    BY <1>1, <2>1, <2>2 DEF Returned, Go
  <2> QED BY <1>2, <2>1, <2>3, <2>4 DEF GuessesOK
<1>10. CASE SetSessionRole(t)
  <2>1. disk' = disk /\ th'[t].pc = "idle"
    BY <1>1, <1>10 DEF SetSessionRole, Go, Idle, saveVars
  <2> QED BY <1>2, <2>1 DEF GuessesOK
<1>11. CASE Other(t)
  <2>1. disk' = disk
    BY <1>11, OtherFrame DEF saveVars
  <2>2. CASE UNCHANGED th
    BY <1>1, <1>2, <1>11, <2>1, <2>2, OtherStarts DEF GuessesOK
  <2>3. CASE \E c : Go(t, c) /\ Starting(c)
    <3>1. th'[t].pc = "cs"
      BY <1>1, <2>3 DEF Go, Starting
    <3> QED BY <1>2, <2>1, <3>1 DEF GuessesOK
  <2>4. UNCHANGED th \/ \E c : Go(t, c) /\ Starting(c)
    BY <1>11, OtherStarts
  <2> QED BY <2>2, <2>3, <2>4
<1> QED BY <1>4, <1>5, <1>6, <1>7, <1>8, <1>9, <1>10, <1>11
-----------------------------------------------------------------------------
(* Both together, step by step.                                             *)

\* Every step of a reliable token with one caller.
LEMMA SoleStep ==
  ASSUME NEW t, Threads = {t}, Reliable
  PROVE  IInv /\ IInv' /\ DurableOK(t) /\ GuessesOK(t) /\ [Next]_vars
           => DurableOK(t)' /\ GuessesOK(t)'
<1> SUFFICES ASSUME IInv, IInv', DurableOK(t), GuessesOK(t), [Next]_vars
             PROVE  DurableOK(t)' /\ GuessesOK(t)'
  OBVIOUS
<1>0. t \in Threads /\ th[t].slot \in Slots /\ Fresh(slot[th[t].slot])
  BY DEF IInv, TypeOK, ThreadRec, GuessesOK
<1>1. CASE UNCHANGED vars
  BY <1>1 DEF vars, DurableOK, GuessesOK, Saved
<1>2. CASE Restart
  BY <1>0, <1>2, DurableRestart, GuessesRestart
<1>3. CASE Section(t)
  BY <1>0, <1>3, DurableSection, GuessesSection DEF Reliable
<1>4. CASE BeginUse(t) \/ EndUse(t)
  BY <1>0, <1>4, DurableUse, GuessesUse DEF Reliable
<1>5. CASE CommitSkipped(t) \/ CommitBegin(t) \/ SaveSlot(t) \/ SavePublish(t) \/ CommitEnd(t)
  BY <1>0, <1>5, DurableCommit, GuessesPassOn
<1>6. CASE DropSessions(t) \/ SetSessionRole(t) \/ Other(t)
  BY <1>0, <1>6, DurableOther, GuessesPassOn
<1>7. Step(t) => \/ Section(t) \/ BeginUse(t) \/ EndUse(t)
                 \/ CommitSkipped(t) \/ CommitBegin(t) \/ SaveSlot(t) \/ SavePublish(t)
                 \/ CommitEnd(t) \/ DropSessions(t) \/ SetSessionRole(t)
  BY DEF Step, Section
<1>8. \/ UNCHANGED vars \/ Restart \/ Step(t) \/ Other(t)
  BY NextCases
<1> QED BY <1>1, <1>2, <1>3, <1>4, <1>5, <1>6, <1>7, <1>8

\* The fresh token.
LEMMA GuessesInit == \A t \in Threads : Init => GuessesOK(t)
<1>1. Fresh(FreshSlot) /\ 0 <= FreshSlot.user_pin_fails /\ Idle.pc = "idle"
  BY DEF Fresh, FreshSlot, Idle
<1> QED BY <1>1 DEF Init, GuessesOK

\* And so in every state.
LEMMA SoleHolds ==
  ASSUME NEW t, Threads = {t}, Reliable
  PROVE  Spec => [](IInv /\ DurableOK(t) /\ GuessesOK(t))
<1>1. Init => DurableOK(t) /\ GuessesOK(t)
  BY DurableInit, GuessesInit
<1>2. IInv /\ IInv' /\ DurableOK(t) /\ GuessesOK(t) /\ [Next]_vars
        => DurableOK(t)' /\ GuessesOK(t)'
  BY SoleStep
<1> QED BY <1>1, <1>2, Inductive, PTL DEF Spec

\* With no call under way the file holds what memory holds, whatever crashes came before: a
\* power cut then takes nothing back.
THEOREM QuietIsDurable ==
  ASSUME NEW t, Threads = {t}, Reliable
  PROVE  Spec => []QuietMeansDurable
<1>1. IInv /\ DurableOK(t) => QuietMeansDurable
  <2> SUFFICES ASSUME IInv, DurableOK(t), Quiet, NEW s \in Slots PROVE Saved(s)
    BY DEF QuietMeansDurable, Saved
  <2>1. th[t].slot \in Slots /\ th[t].pc = "idle"
    BY DEF IInv, TypeOK, ThreadRec, Quiet
  <2> QED BY <2>1, AtRest DEF AllSaved
<1> QED BY <1>1, SoleHolds, PTL

\* No more wrong User PINs are answered between two resets than the limit allows, however
\* often the power is cut.
THEOREM GuessesAreBounded ==
  ASSUME NEW t, Threads = {t}, Reliable
  PROVE  Spec => []PinGuessBound
<1>1. IInv /\ GuessesOK(t) => PinGuessBound
  <2> SUFFICES ASSUME IInv, GuessesOK(t), NEW s \in Slots
               PROVE  guesses[s] <= HSM_PIN_MAX_FAILS
    BY DEF PinGuessBound
  <2>1. slot[s].user_pin_fails \in 0..HSM_PIN_MAX_FAILS /\ guesses[s] \in Nat
    BY DEF IInv, TypeOK, SlotRec
  <2>2. guesses[s] <= slot[s].user_pin_fails
    BY DEF GuessesOK
  <2> QED BY <2>1, <2>2, PinLimit
<1> QED BY <1>1, SoleHolds, PTL
-----------------------------------------------------------------------------
(* Logins.  Here neither the file nor failures matter.                      *)

\* The login of a session was checked in the present era of its slot, but for a zeroize
\* that has yet to drop the session; a login under way has checked, or will check, the PIN
\* of the slot its session is on.
SessionFresh(x, c) ==
  x.role = "PUBLIC" \/ x.auth = era[x.slot] \/ (c.pc = "drop" /\ c.slot = x.slot)

SameSlot(c) == SessionValid(c.sess) => sessions[c.sess.idx].slot = c.slot

CallFresh(c) ==
  /\ c.ok => c.era = era[c.slot] /\ c.pc # "drop"
  /\ c.ok \/ (c.pc = "cs" /\ c.op = "login") => SameSlot(c)
  /\ c.pc \in {"idle", "cs"} => c.ok = FALSE
  /\ c.pc = "role" => c.ok

LoginsOK(t) ==
  /\ \A i \in 1..MAX_SESSIONS : SessionFresh(sessions[i], th[t])
  /\ CallFresh(th[t])

\* A section of t: a login that checked the PIN belongs to the present era; zeroize begins
\* a new one and goes on to drop.
LEMMA LoginsSection ==
  ASSUME IInv, NEW t \in Threads, LoginsOK(t), Section(t)
  PROVE  LoginsOK(t)'
<1> DEFINE own == th[t].slot
<1>1. /\ own \in Slots /\ th \in [Threads -> ThreadRec] /\ th[t] \in ThreadRec
      /\ sessions' = sessions /\ th[t].pc = "cs" /\ th[t].ok = FALSE
      /\ era \in [Slots -> Nat]
      /\ \A i \in 1..MAX_SESSIONS : sessions[i].slot \in Slots
  BY SectionFrame DEF IInv, TypeOK, ThreadRec, SessionRec, sessionVars, LoginsOK, CallFresh
<1>2. ASSUME NEW c, Go(t, c), c.ok = FALSE, c.pc \in {"idle", "commit"}, UNCHANGED era
      PROVE  LoginsOK(t)'
  BY <1>1, <1>2 DEF LoginsOK, SessionFresh, CallFresh, Go
<1>3. ASSUME Go(t, Idle), UNCHANGED era PROVE LoginsOK(t)'
  <2>1. Idle.ok = FALSE /\ Idle.pc = "idle"
    BY DEF Idle
  <2> QED BY <1>2, <1>3, <2>1
<1>4. ASSUME NEW q, NEW st, Leave(t, q, "commit", st), UNCHANGED era PROVE LoginsOK(t)'
  <2>1. PICK c : c = [th[t] EXCEPT !.pc = "commit", !.st = st]
    OBVIOUS
  <2>2. Go(t, c) /\ c.ok = FALSE /\ c.pc = "commit"
    BY <1>1, <1>4, <2>1 DEF Leave, ThreadRec
  <2> QED BY <1>2, <1>4, <2>2
<1>5. CASE InitToken(t) \/ SetUserPin(t) \/ Destroy(t) \/ Unlock(t)
  <2>1. UNCHANGED era /\ \E q, st : Leave(t, q, "commit", st)
    BY <1>5, Zenon DEF InitToken, SetUserPin, Destroy, Unlock, Refused
  <2> QED BY <1>4, <2>1
<1>6. CASE CreateObject(t)
  <2>1. UNCHANGED era
    BY <1>6 DEF CreateObject
  <2>2. \/ \E q, st : Leave(t, q, "commit", st)
        \/ Go(t, [th[t] EXCEPT !.pc = "commit", !.key = nkeys + 1,
                               !.handle = slot[own].generation])
    BY <1>6, Zenon DEF CreateObject, Refused
  <2>3. CASE \E q, st : Leave(t, q, "commit", st)
    BY <1>4, <2>1, <2>3
  <2>4. CASE Go(t, [th[t] EXCEPT !.pc = "commit", !.key = nkeys + 1,
                                 !.handle = slot[own].generation])
    <3>1. PICK c : c = [th[t] EXCEPT !.pc = "commit", !.key = nkeys + 1,
                                     !.handle = slot[own].generation]
      OBVIOUS
    <3>2. Go(t, c) /\ c.ok = FALSE /\ c.pc = "commit"
      BY <1>1, <2>4, <3>1 DEF ThreadRec
    <3> QED BY <1>2, <2>1, <3>2
  <2> QED BY <2>2, <2>3, <2>4
<1>7. CASE Login(t)
  <2>1. UNCHANGED era /\ th[t].op = "login"
    BY <1>7 DEF Login, InSection
  <2>2. \/ Go(t, Idle) \/ \E q, st : Leave(t, q, "commit", st)
        \/ \E st : Go(t, [th[t] EXCEPT !.pc = "commit", !.ok = TRUE, !.era = era[own],
                                         !.st = st])
    BY <1>7 DEF Login
  <2>3. ASSUME NEW st, Go(t, [th[t] EXCEPT !.pc = "commit", !.ok = TRUE, !.era = era[own],
                                           !.st = st])
        PROVE  LoginsOK(t)'
    <3>1. PICK c : c = [th[t] EXCEPT !.pc = "commit", !.ok = TRUE, !.era = era[own], !.st = st]
      OBVIOUS
    <3>2. /\ th'[t] = c /\ c.ok = TRUE /\ c.pc = "commit" /\ c.era = era[own]
          /\ c.slot = own /\ c.sess = th[t].sess
      BY <1>1, <2>3, <3>1 DEF Go, ThreadRec
    <3>3. SameSlot(th[t])
      BY <1>1, <2>1 DEF LoginsOK, CallFresh
    <3>4. SameSlot(c)'
      BY <1>1, <3>2, <3>3 DEF SameSlot, SessionValid
    <3>5. CallFresh(c)'
      BY <2>1, <3>2, <3>4 DEF CallFresh
    <3> QED BY <1>1, <2>1, <3>2, <3>5 DEF LoginsOK, SessionFresh, CallFresh
  <2> QED BY <1>3, <1>4, <2>1, <2>2, <2>3
<1>8. CASE Zeroize(t)
  <2>0. \/ UNCHANGED era /\ \E q, st : Leave(t, q, "commit", st)
        \/ /\ era' = [era EXCEPT ![own] = @ + 1]
           /\ Leave(t, do_zeroize(slot[own], TRUE), "drop", "OK")
    <3>1. PICK ok \in BOOLEAN :
            /\ Leave(t, do_zeroize(slot[own], ok), IF ok THEN "drop" ELSE "commit", Resealed(ok))
            /\ era' = [era EXCEPT ![own] = IF ok THEN @ + 1 ELSE @]
      BY <1>8, KdrAnswers DEF Zeroize
    <3>2. CASE ok = TRUE
      BY <3>1, <3>2 DEF Resealed
    <3>3. CASE ok = FALSE
      <4>1. era' = era
        BY <1>1, <3>1, <3>3
      <4>2. Leave(t, do_zeroize(slot[own], FALSE), "commit", Resealed(FALSE))
        BY <3>1, <3>3
      <4> QED BY <4>1, <4>2
    <3> QED BY <3>2, <3>3
  <2> SUFFICES ASSUME /\ era' = [era EXCEPT ![own] = @ + 1]
                      /\ Leave(t, do_zeroize(slot[own], TRUE), "drop", "OK")
               PROVE  LoginsOK(t)'
    BY <1>4, <2>0
  <2>1. era' = [era EXCEPT ![own] = @ + 1] /\ Leave(t, do_zeroize(slot[own], TRUE), "drop", "OK")
    OBVIOUS
  <2>2. PICK c : c = [th[t] EXCEPT !.pc = "drop", !.st = "OK"]
    OBVIOUS
  <2>3. th'[t] = c /\ c.ok = FALSE /\ c.pc = "drop" /\ c.slot = own
    BY <1>1, <2>1, <2>2 DEF Leave, Go, ThreadRec
  <2>4. \A u \in Slots \ {own} : era'[u] = era[u]
    BY <1>1, <2>1
  <2> QED BY <1>1, <2>3, <2>4 DEF LoginsOK, SessionFresh, CallFresh
<1> QED BY <1>5, <1>6, <1>7, <1>8 DEF Section

\* The other steps of its call.
LEMMA LoginsCall ==
  ASSUME IInv, LoginIsOwn, NEW t \in Threads, LoginsOK(t), Step(t), ~Section(t)
  PROVE  LoginsOK(t)'
<1> DEFINE own == th[t].slot
<1>1. /\ own \in Slots /\ th \in [Threads -> ThreadRec] /\ th[t] \in ThreadRec
      /\ UNCHANGED era /\ sessions \in [1..MAX_SESSIONS -> SessionRec]
      /\ th[t].sess.idx \in 1..MAX_SESSIONS
      /\ CallFresh(th[t]) /\ \A i \in 1..MAX_SESSIONS : SessionFresh(sessions[i], th[t])
  BY DEF IInv, TypeOK, ThreadRec, LoginsOK, Step, Section, BeginUse, EndUse, DropSessions,
         CommitSkipped, CommitBegin, SaveSlot, SavePublish, CommitEnd, SetSessionRole
<1>2. ASSUME th'[t] = Idle, th[t].pc # "drop", UNCHANGED sessions PROVE LoginsOK(t)'
  <2>1. Idle.ok = FALSE /\ Idle.pc = "idle"
    BY DEF Idle
  <2> QED BY <1>1, <1>2, <2>1 DEF LoginsOK, SessionFresh, CallFresh
<1>3. ASSUME NEW c, th'[t] = c, c.ok = th[t].ok, c.slot = own, c.sess = th[t].sess,
             c.era = th[t].era, c.pc \in {"using", "save", "unbusy", "role"},
             c.pc = "role" => c.ok, th[t].pc # "drop", UNCHANGED sessions
      PROVE  LoginsOK(t)'
  <2>1. SameSlot(th[t]) => SameSlot(c)'
    BY <1>3 DEF SameSlot, SessionValid
  <2>2. CallFresh(c)'
    BY <1>1, <1>3, <2>1 DEF CallFresh
  <2> QED BY <1>1, <1>3, <2>2 DEF LoginsOK, SessionFresh, CallFresh
<1>4. CASE BeginUse(t) \/ EndUse(t)
  <2>1. PICK c : c = [th[t] EXCEPT !.pc = "using", !.st = "OK"]
    OBVIOUS
  <2>2. /\ c.ok = th[t].ok /\ c.slot = own /\ c.sess = th[t].sess /\ c.era = th[t].era
        /\ c.pc = "using"
    BY <1>1, <2>1 DEF ThreadRec
  <2>3. /\ th'[t] \in {c, Idle} /\ th[t].pc # "drop" /\ UNCHANGED sessions
    BY <1>1, <1>4, <2>1 DEF BeginUse, EndUse, InSection, Leave, Go, sessionVars
  <2> QED BY <1>2, <1>3, <2>2, <2>3
<1>5. CASE CommitSkipped(t) \/ CommitEnd(t)
  <2>1. PICK c : c = [th[t] EXCEPT !.pc = "role", !.st = th[t].st]
    OBVIOUS
  <2>2. /\ c.ok = th[t].ok /\ c.slot = own /\ c.sess = th[t].sess /\ c.era = th[t].era
        /\ c.pc = "role"
    BY <1>1, <2>1 DEF ThreadRec
  <2>3. /\ (th'[t] = c /\ th[t].ok) \/ th'[t] = Idle
        /\ th[t].pc # "drop" /\ UNCHANGED sessions
    BY <1>1, <1>5, <2>1 DEF CommitSkipped, CommitEnd, Returned, Go, sessionVars
  <2> QED BY <1>2, <1>3, <2>2, <2>3
<1>6. CASE CommitBegin(t) \/ SaveSlot(t) \/ SavePublish(t)
  <2>1. PICK a, b, d : /\ a = [th[t] EXCEPT !.pc = "save"]
                       /\ b = [th[t] EXCEPT !.pc = "unbusy"]
                       /\ d = [th[t] EXCEPT !.pc = "unbusy", !.st = commit_failed(@)]
    OBVIOUS
  <2>2. /\ th[t].pc # "drop" /\ UNCHANGED sessions
        /\ th'[t] \in {a, b, d} \/ UNCHANGED th
    BY <1>1, <1>6, <2>1 DEF CommitBegin, SaveSlot, SavePublish, Go, sessionVars
  <2>3. ASSUME NEW c \in {a, b, d}, th'[t] = c PROVE LoginsOK(t)'
    <3>1. /\ c.ok = th[t].ok /\ c.slot = own /\ c.sess = th[t].sess /\ c.era = th[t].era
          /\ c.pc \in {"save", "unbusy"}
      BY <1>1, <2>1 DEF ThreadRec
    <3> QED BY <1>3, <2>2, <2>3, <3>1
  <2>4. CASE UNCHANGED th
    BY <1>1, <2>2, <2>4 DEF LoginsOK, SessionFresh, CallFresh, SameSlot, SessionValid
  <2> QED BY <2>2, <2>3, <2>4
<1>7. CASE DropSessions(t)
  <2>1. PICK c : c = [th[t] EXCEPT !.pc = "commit"]
    OBVIOUS
  <2>2. /\ th'[t] = c /\ c.ok = th[t].ok /\ c.pc = "commit" /\ th[t].pc = "drop"
        /\ sessions' = drop_sessions_on_slot(own)
    BY <1>1, <1>7, <2>1 DEF DropSessions, Go, ThreadRec
  <2>3. c.ok = FALSE
    BY <1>1, <2>2 DEF CallFresh, ThreadRec
  <2>4. ASSUME NEW i \in 1..MAX_SESSIONS PROVE SessionFresh(sessions[i], c)'
    <3>1. sessions'[i] = IF sessions[i].open /\ sessions[i].slot = own
                         THEN LoggedOut(sessions[i]) ELSE sessions[i]
      BY <2>2 DEF drop_sessions_on_slot
    <3>2. LoggedOut(sessions[i]).role = "PUBLIC"
      BY <1>1 DEF LoggedOut, WithRole, SessionRec
    <3>3. sessions[i].role # "PUBLIC" => sessions[i].open
      BY DEF LoginIsOwn
    <3> QED BY <1>1, <3>1, <3>2, <3>3 DEF SessionFresh
  <2> QED BY <2>2, <2>3, <2>4 DEF LoginsOK, CallFresh
<1>8. CASE SetSessionRole(t)
  <2> DEFINE h == th[t].sess
             x == sessions[h.idx]
             y == WithRole(x, th[t].role, h.gen, th[t].era)
  <2>1. /\ th'[t] = Idle /\ th[t].pc = "role" /\ th[t].ok
        /\ sessions' = IF SessionValid(h) THEN [sessions EXCEPT ![h.idx] = y] ELSE sessions
    BY <1>1, <1>8 DEF SetSessionRole, Go, CallFresh
  <2>2. CASE ~SessionValid(h)
    BY <1>2, <2>1, <2>2
  <2>3. CASE SessionValid(h)
    <3>1. x.slot = own /\ th[t].era = era[own]
      BY <1>1, <2>1, <2>3 DEF CallFresh, SameSlot
    <3>2. PICK z : z = y
      OBVIOUS
    <3>3. z.auth = era[own] /\ z.slot = own /\ sessions' = [sessions EXCEPT ![h.idx] = z]
      BY <1>1, <2>1, <2>3, <3>1, <3>2 DEF WithRole, SessionRec
    <3>4. ASSUME NEW i \in 1..MAX_SESSIONS PROVE SessionFresh(sessions[i], Idle)'
      <4>1. CASE i = h.idx
        BY <1>1, <3>3, <4>1 DEF SessionFresh
      <4>2. CASE i # h.idx
        <5>1. sessions'[i] = sessions[i]
          BY <1>1, <3>3, <4>2
        <5> QED BY <1>1, <2>1, <5>1 DEF SessionFresh
      <4> QED BY <4>1, <4>2
    <3>5. Idle.ok = FALSE /\ Idle.pc = "idle"
      BY DEF Idle
    <3> QED BY <2>1, <3>4, <3>5 DEF LoginsOK, CallFresh
  <2> QED BY <2>2, <2>3
<1> QED BY <1>4, <1>5, <1>6, <1>7, <1>8 DEF Step, Section

\* What happens between calls: sessions open, close and log out, and a login starts on a
\* session of its slot.
LEMMA LoginsOther ==
  ASSUME IInv, NEW t \in Threads, LoginsOK(t), Other(t)
  PROVE  LoginsOK(t)'
<1>1. /\ th \in [Threads -> ThreadRec] /\ UNCHANGED era
      /\ sessions \in [1..MAX_SESSIONS -> SessionRec]
      /\ th[t].pc = "idle" /\ th[t].ok = FALSE
      /\ \A i \in 1..MAX_SESSIONS : SessionFresh(sessions[i], th[t])
  BY OtherFrame, OtherStarts DEF IInv, TypeOK, LoginsOK, CallFresh
<1>2. ASSUME UNCHANGED th, NEW i \in 1..MAX_SESSIONS, NEW y, y.role = "PUBLIC",
             sessions' = [sessions EXCEPT ![i] = y]
      PROVE  LoginsOK(t)'
  <2>1. ASSUME NEW j \in 1..MAX_SESSIONS PROVE SessionFresh(sessions[j], th[t])'
    <3>1. sessions'[j] = IF j = i THEN y ELSE sessions[j]
      BY <1>1, <1>2
    <3> QED BY <1>1, <1>2, <3>1 DEF SessionFresh
  <2>2. CallFresh(th[t])'
    BY <1>1, <1>2 DEF CallFresh
  <2> QED BY <2>1, <2>2 DEF LoginsOK
<1>3. ASSUME NEW s, SessionOpen(t, s) PROVE LoginsOK(t)'
  <2>1. PICK i \in 1..MAX_SESSIONS :
          /\ sessions' = [sessions EXCEPT ![i] =
               [ClosedSession EXCEPT !.open = TRUE, !.slot = s, !.gen = session_gen + 1]]
          /\ UNCHANGED th
    BY <1>3 DEF SessionOpen
  <2>2. [ClosedSession EXCEPT !.open = TRUE, !.slot = s, !.gen = session_gen + 1].role = "PUBLIC"
    BY DEF ClosedSession
  <2> QED BY <1>2, <2>1, <2>2
<1>4. ASSUME NEW i \in 1..MAX_SESSIONS, SessionClose(t, i) \/ SessionLogout(t, i)
      PROVE  LoginsOK(t)'
  <2>1. /\ sessions' = [sessions EXCEPT ![i] = ClosedSession]
           \/ sessions' = [sessions EXCEPT ![i] = LoggedOut(sessions[i])]
        /\ UNCHANGED th
    BY <1>4 DEF SessionClose, SessionLogout
  <2>2. ClosedSession.role = "PUBLIC" /\ LoggedOut(sessions[i]).role = "PUBLIC"
    BY <1>1 DEF ClosedSession, LoggedOut, WithRole, SessionRec
  <2> QED BY <1>2, <2>1, <2>2
<1>5. CASE \/ \E op \in {"init_token", "zeroize_forced"}, s \in Slots : CallWithoutSession(t, op, s)
           \/ \E op \in SessionOps, i \in 1..MAX_SESSIONS : Call(t, op, i)
  <2>1. UNCHANGED sessions
    BY <1>5 DEF CallWithoutSession, Call, sessionVars
  <2>2. CASE UNCHANGED th
    BY <1>1, <2>1, <2>2 DEF LoginsOK, SessionFresh, CallFresh
  <2>3. CASE \E c : Go(t, c) /\ Starting(c)
    <3>1. PICK c : Go(t, c) /\ Starting(c)
      BY <2>3
    <3>2. th'[t] = c /\ c.pc = "cs" /\ c.ok = FALSE
      BY <1>1, <3>1 DEF Go, Starting
    <3>3. c.op = "login" => SameSlot(c)'
      <4> SUFFICES ASSUME c.op = "login" PROVE SameSlot(c)'
        OBVIOUS
      <4>1. PICK i \in 1..MAX_SESSIONS : c.sess = Handle(i) /\ c.slot = sessions[i].slot
        BY <3>1 DEF Starting
      <4>2. c.sess.idx = i
        BY <4>1 DEF Handle
      <4> QED BY <2>1, <4>1, <4>2 DEF SameSlot
    <3>4. CallFresh(c)'
      BY <3>2, <3>3 DEF CallFresh
    <3> QED BY <1>1, <2>1, <3>2, <3>4 DEF LoginsOK, SessionFresh, CallFresh
  <2>4. UNCHANGED th \/ \E c : Go(t, c) /\ Starting(c)
    BY OtherStarts
  <2> QED BY <2>2, <2>3, <2>4
<1> QED BY <1>3, <1>4, <1>5 DEF Other

\* Once zeroize has dropped the sessions of its slot nobody is logged in by a PIN that was
\* checked before it, and nobody becomes so.
THEOREM ZeroizeEndsAllLogins ==
  ASSUME NEW t, Threads = {t}
  PROVE  Spec => []ZeroizeEndsLogins
<1>1. Init => LoginsOK(t)
  <2>1. /\ ClosedSession.role = "PUBLIC" /\ Idle.pc = "idle" /\ Idle.ok = FALSE
    BY DEF ClosedSession, Idle
  <2> QED BY <2>1 DEF Init, LoginsOK, SessionFresh, CallFresh
<1>2. IInv /\ LoginIsOwn /\ LoginsOK(t) /\ [Next]_vars => LoginsOK(t)'
  <2> SUFFICES ASSUME IInv, LoginIsOwn, LoginsOK(t), [Next]_vars PROVE LoginsOK(t)'
    OBVIOUS
  <2>1. CASE UNCHANGED vars
    BY <2>1 DEF vars, LoginsOK, SessionFresh, CallFresh, SameSlot, SessionValid
  <2>2. CASE Restart
    <3>1. th'[t] = Idle /\ sessions' = [i \in 1..MAX_SESSIONS |-> ClosedSession]
      BY <2>2 DEF Restart
    <3>2. ClosedSession.role = "PUBLIC" /\ Idle.pc = "idle" /\ Idle.ok = FALSE
      BY DEF ClosedSession, Idle
    <3> QED BY <3>1, <3>2 DEF LoginsOK, SessionFresh, CallFresh
  <2>3. CASE Step(t)
    BY <2>3, LoginsSection, LoginsCall
  <2>4. CASE Other(t)
    BY <2>4, LoginsOther
  <2> QED BY <2>1, <2>2, <2>3, <2>4, NextCases
<1>3. LoginsOK(t) => ZeroizeEndsLogins
  BY DEF LoginsOK, SessionFresh, ZeroizeEndsLogins
<1> QED BY <1>1, <1>2, <1>3, Inductive, LoginsAreOwn, PTL DEF Spec
-----------------------------------------------------------------------------
(* Handles, across crashes.                                                 *)

\* What a restart would bring back is as good to every handle as what is there.
DiskHandles == \A h \in issued : HandleGood(disk[h.slot], h.gen, h.key)

\* A copy is as good as its record.
LEMMA CopyGood ==
  ASSUME NEW r, Good(r), KeyKind(r), NEW g, NEW k, HandleGood(r, g, k)
  PROVE  HandleGood(slot_serialize(r), g, k) /\ HandleGood(slot_reseal(r, TRUE), g, k)
BY CopyKeys DEF HandleGood

\* A handle is announced when the file has its key, and the file changes to what memory has.
LEMMA DiskHandlesStep ==
  ASSUME NEW t, Threads = {t}, Reliable, IInv, KeysOK, DurableOK(t), HandlesOK, DiskHandles,
         [Next]_vars
  PROVE  DiskHandles'
<1>0. t \in Threads /\ th[t].slot \in Slots
  BY DEF IInv, TypeOK, ThreadRec
<1>1. \A h \in issued : h.slot \in Slots
  BY DEF IInv, TypeOK
<1>2. \A s \in Slots : Good(slot[s]) /\ KeyKind(slot[s])
  BY DEF IInv, RecordsOK, KeysOK
<1>3. CASE UNCHANGED <<issued, disk>>
  BY <1>3 DEF DiskHandles
<1>4. CASE SavePublish(t)
  <2>1. UNCHANGED issued /\ th[t].pc = "save" /\ cursor = NumSlots + 1 /\ disk' = snap
    BY <1>4 DEF SavePublish, AllSerialised, Reliable
  <2>2. \A s \in Slots : s < NumSlots + 1
    BY ConstantsAssumption DEF Slots
  <2>3. \A s \in Slots : disk'[s] = slot_serialize(slot[s])
    BY <2>1, <2>2 DEF DurableOK
  <2>4. ASSUME NEW h \in issued PROVE HandleGood(disk'[h.slot], h.gen, h.key)
    <3>1. HandleGood(slot[h.slot], h.gen, h.key)
      BY DEF HandlesOK
    <3>2. HandleGood(slot_serialize(slot[h.slot]), h.gen, h.key)
      BY <1>1, <1>2, <3>1, CopyGood
    <3> QED BY <1>1, <2>3, <3>2
  <2> QED BY <2>1, <2>4 DEF DiskHandles
<1>5. CASE CommitEnd(t)
  <2>1. UNCHANGED <<slot, disk>> /\ th[t].pc = "unbusy"
    BY <1>5 DEF CommitEnd
  <2>2. \A s \in Slots : disk[s] = slot_serialize(slot[s])
    BY <1>0, <2>1, AtRest DEF AllSaved, Saved
  <2>3. \A h \in issued' : HandleGood(slot[h.slot], h.gen, h.key)
    BY <1>0, <1>5, <2>1, CommitKnows
  <2>4. \A h \in issued' : h.slot \in Slots
    BY <1>0, <1>1, <1>5 DEF CommitEnd, Returned
  <2>5. ASSUME NEW h \in issued' PROVE HandleGood(disk'[h.slot], h.gen, h.key)
    <3>1. HandleGood(slot_serialize(slot[h.slot]), h.gen, h.key)
      BY <1>2, <2>3, <2>4, CopyGood
    <3> QED BY <2>1, <2>2, <2>4, <3>1
  <2> QED BY <2>5 DEF DiskHandles
<1>6. ~CommitSkipped(t)
  BY DEF DurableOK, CommitSkipped, Reliable
<1>7. CASE Step(t) /\ ~SavePublish(t) /\ ~CommitEnd(t)
  <2>1. UNCHANGED <<issued, disk>>
    BY <1>6, <1>7 DEF Step, InitToken, SetUserPin, Login, CreateObject, BeginUse, EndUse,
         Destroy, Zeroize, DropSessions, Unlock, CommitBegin, SaveSlot, SetSessionRole, saveVars
  <2> QED BY <1>3, <2>1
<1>8. UNCHANGED vars \/ Restart \/ Other(t) => UNCHANGED <<issued, disk>>
  BY <1>0, OtherFrame DEF vars, Restart, saveVars
<1>9. UNCHANGED vars \/ Restart \/ Step(t) \/ Other(t)
  BY NextCases
<1> QED BY <1>3, <1>4, <1>5, <1>7, <1>8, <1>9

\* A restart finds every handle as good as it was in the file.
LEMMA HandlesRestart ==
  ASSUME IInv, KeysOK, DiskHandles, Restart
  PROVE  HandlesOK'
<1>1. /\ slot' = [s \in Slots |-> slot_reseal(disk[s], TRUE)] /\ UNCHANGED issued
      /\ \A u \in Threads : th'[u] = Idle
  BY DEF Restart
<1>2. ASSUME NEW h \in issued PROVE HandleGood(slot'[h.slot], h.gen, h.key)
  <2>1. h.slot \in Slots /\ HandleGood(disk[h.slot], h.gen, h.key)
    BY DEF IInv, TypeOK, DiskHandles
  <2>2. Good(disk[h.slot]) /\ KeyKind(disk[h.slot])
    BY <2>1 DEF IInv, RecordsOK, Resting, KeysOK
  <2>3. HandleGood(slot_reseal(disk[h.slot], TRUE), h.gen, h.key)
    BY <2>1, <2>2, CopyGood
  <2> QED BY <1>1, <2>1, <2>3
<1>3. CallOK(Idle)'
  BY NothingKnown DEF Idle
<1> QED BY <1>1, <1>2, <1>3 DEF HandlesOK, CallOK

\* With one caller and a disk that works a handle reaches only its key across crashes too:
\* no handle is given out before its key is in the file, so no restart brings back a
\* generation that a handle for another key has.
THEOREM HandlesSurviveCrashes ==
  ASSUME NEW t, Threads = {t}, Reliable
  PROVE  Spec => []UseReachesItsKey
<1>1. Init => HandlesOK /\ DiskHandles
  BY HandlesInit DEF Init, DiskHandles
<1>2. IInv /\ KeysOK /\ DurableOK(t) /\ HandlesOK /\ DiskHandles /\ [Next]_vars
        => HandlesOK' /\ DiskHandles'
  BY DiskHandlesStep, HandlesRestart, HandlesStep
<1>3. HandlesOK => UseReachesItsKey
  BY DEF HandlesOK, CallOK, UseReachesItsKey
<1> QED BY <1>1, <1>2, <1>3, SoleHolds, KeysHold, PTL DEF Spec
-----------------------------------------------------------------------------
(* Any number of callers, for as long as the process lives.                 *)

\* The PIN counter of a slot is never behind the guesses answered on it.
Counted(r, g) == Fresh(r) /\ g <= r.user_pin_fails

CountersOK == \A s \in Slots : Counted(slot[s], guesses[s])

\* A step leaves q in the slot its call works on and h guesses answered there.
Counting(t, q, h) ==
  LET s == th[t].slot IN
  /\ slot' = [slot EXCEPT ![s] = q]
  /\ guesses' = [guesses EXCEPT ![s] = h]
  /\ PinStep(slot[s], q, guesses[s], h, TRUE)

\* A record that a failed draw of random numbers leaves half changed keeps its counter.
LEMMA TornCounts ==
  ASSUME NEW r, Resting(r), Fresh(r)
  PROVE  /\ Legal(r.state, "INIT_TOKEN") =>
              \A g : PinStep(r, fsm_apply(r, "INIT_TOKEN"), g, g, TRUE)
         /\ \A g : PinStep(r, set_user_pin_torn(r), g, g, TRUE)
<1>1. r \in SlotRec /\ r.state \in SlotStates
  BY DEF Resting, Good, SlotRec
<1>2. ASSUME Legal(r.state, "INIT_TOKEN")
      PROVE  \A g : PinStep(r, fsm_apply(r, "INIT_TOKEN"), g, g, TRUE)
  <2>1. r.state = "UNINIT"
    BY <1>1, <1>2 DEF Legal, slot_fsm_next, SlotStates
  <2>2. fsm_apply(r, "INIT_TOKEN") = [r EXCEPT !.state = "EMPTY", !.pre_lock = r.pre_lock,
                                               !.sealed = FALSE]
    BY <2>1 DEF fsm_apply, slot_fsm_next
  <2> DEFINE q == fsm_apply(r, "INIT_TOKEN")
  <2>3. q.state = "EMPTY" /\ q.user_pin_fails = r.user_pin_fails
    BY <1>1, <2>2 DEF SlotRec
  <2> HIDE DEF q
  <2>4. \A g : PinStep(r, q, g, g, TRUE)
    BY <2>3 DEF PinStep
  <2> QED BY <2>4 DEF q
<1>3. \A g : PinStep(r, set_user_pin_torn(r), g, g, TRUE)
  <2> DEFINE q == set_user_pin_torn(r)
  <2>1. q.state = r.state /\ q.user_pin_fails = r.user_pin_fails
    BY <1>1 DEF SlotRec, set_user_pin_torn
  <2> HIDE DEF q
  <2>2. \A g : PinStep(r, q, g, g, TRUE)
    BY <2>1 DEF PinStep, Fresh
  <2> QED BY <2>2 DEF q
<1> QED BY <1>2, <1>3

\* Every step of a call counts what it answers, failures included.
LEMMA StepCounts ==
  ASSUME IInv, CountersOK, NEW t \in Threads, Step(t)
  PROVE  \E q, h : Counting(t, q, h)
<1> DEFINE s == th[t].slot
           r == slot[s]
           g == guesses[s]
<1>1. /\ s \in Slots /\ r \in SlotRec /\ Good(r) /\ th[t] \in ThreadRec /\ Fresh(r)
      /\ slot = [slot EXCEPT ![s] = r] /\ guesses = [guesses EXCEPT ![s] = g]
  <2>1. s \in Slots /\ slot \in [Slots -> SlotRec] /\ guesses \in [Slots -> Nat]
    BY DEF IInv, TypeOK, ThreadRec
  <2> QED BY <2>1 DEF IInv, TypeOK, RecordsOK, CountersOK, Counted
<1>2. ASSUME slotLock[s] = {} PROVE Resting(r)
  BY <1>2, SectionRests
<1>3. ASSUME NEW q, NEW h, PinStep(r, q, g, h, FALSE) \/ PinStep(r, q, g, h, TRUE),
             slot' = [slot EXCEPT ![s] = q], guesses' = [guesses EXCEPT ![s] = h]
      PROVE  \E p, i : Counting(t, p, i)
  <2>1. PinStep(r, q, g, h, TRUE)
    BY <1>3 DEF PinStep
  <2>2. Counting(t, q, h)
    BY <1>3, <2>1 DEF Counting
  <2> QED BY <2>2
<1>4. ASSUME NEW q, PinStep(r, q, g, g, FALSE) \/ PinStep(r, q, g, g, TRUE),
             slot' = [slot EXCEPT ![s] = q], UNCHANGED guesses
      PROVE  \E p, i : Counting(t, p, i)
  BY <1>1, <1>3, <1>4
<1>5. ASSUME UNCHANGED <<slot, guesses>> PROVE \E p, i : Counting(t, p, i)
  <2>1. PinStep(r, r, g, g, FALSE)
    BY <1>1 DEF PinStep, Fresh
  <2> QED BY <1>1, <1>4, <1>5, <2>1
<1>6. ASSUME Refused(t), UNCHANGED guesses PROVE \E p, i : Counting(t, p, i)
  <2>1. UNCHANGED slot
    BY <1>1, <1>6 DEF Refused, Leave
  <2> QED BY <1>5, <1>6, <2>1
<1>7. CASE InitToken(t)
  <2>1. /\ UNCHANGED guesses /\ slotLock[s] = {}
        /\ \/ /\ Legal(r.state, "INIT_TOKEN")
              /\ \/ \E ok \in BOOLEAN : slot' = [slot EXCEPT ![s] = init_token(r, ok)]
                 \/ slot' = [slot EXCEPT ![s] = fsm_apply(r, "INIT_TOKEN")]
           \/ Refused(t)
    BY <1>7, KdrAnswers DEF InitToken, InSection, Leave
  <2> QED BY <1>1, <1>2, <1>4, <1>6, <2>1, InitSeals, TornCounts
<1>8. CASE SetUserPin(t)
  <2>1. /\ slotLock[s] = {}
        /\ \/ /\ \E ok \in BOOLEAN : slot' = [slot EXCEPT ![s] = set_user_pin(r, ok)]
              /\ guesses' = [guesses EXCEPT ![s] = 0]
           \/ slot' = [slot EXCEPT ![s] = set_user_pin_torn(r)] /\ UNCHANGED guesses
           \/ Refused(t) /\ UNCHANGED guesses
    BY <1>8, KdrAnswers DEF SetUserPin, InSection, Leave
  <2> QED BY <1>1, <1>2, <1>3, <1>4, <1>6, <2>1, InitSeals, TornCounts
<1>9. CASE Login(t)
  <2> DEFINE role == th[t].role
  <2>1. role \in {"USER", "SO"} /\ Resting(r)
    BY <1>2, <1>9 DEF IInv, CallsOK, Proper, ThreadRec, Roles, Login, InSection
  <2>2. CASE UNCHANGED <<slot, guesses>>
    BY <1>5, <2>2
  <2>3. ASSUME r.state # "UNINIT", ~(r.state = "LOCKED" /\ role = "USER"),
               NEW missed \in BOOLEAN, NEW ok \in BOOLEAN,
               slot' = [slot EXCEPT ![s] = login_right(r, role, missed, ok)],
               guesses' = [guesses EXCEPT ![s] = IF role = "USER" THEN 0 ELSE @]
        PROVE  \E p, i : Counting(t, p, i)
    <3>1. PICK h : h = IF role = "USER" THEN 0 ELSE g
      OBVIOUS
    <3>2. PinStep(r, login_right(r, role, missed, ok), g, h, FALSE)
      BY <1>1, <2>1, <2>3, <3>1, LoginSeals
    <3>3. guesses' = [guesses EXCEPT ![s] = h]
      BY <2>3, <3>1
    <3> QED BY <1>3, <2>3, <3>2, <3>3
  <2>4. ASSUME r.state # "UNINIT", ~(r.state = "LOCKED" /\ role = "USER"),
               NEW ok \in BOOLEAN, slot' = [slot EXCEPT ![s] = login_wrong(r, role, ok)],
               guesses' = [guesses EXCEPT ![s] =
                             IF role = "USER" /\ @ <= HSM_PIN_MAX_FAILS THEN @ + 1 ELSE @]
        PROVE  \E p, i : Counting(t, p, i)
    <3>1. PICK h : h = IF role = "USER" /\ g <= HSM_PIN_MAX_FAILS THEN g + 1 ELSE g
      OBVIOUS
    <3>2. h \in {g, g + 1} /\ (role = "SO" => h = g)
      BY <3>1
    <3>3. PinStep(r, login_wrong(r, role, ok), g, h, role = "USER")
      BY <1>1, <2>1, <2>4, <3>2, LoginSeals
    <3>4. PinStep(r, login_wrong(r, role, ok), g, h, FALSE) \/ PinStep(r, login_wrong(r, role, ok), g, h, TRUE)
      BY <3>3 DEF PinStep
    <3>5. guesses' = [guesses EXCEPT ![s] = h]
      BY <2>4, <3>1
    <3> QED BY <1>3, <2>4, <3>4, <3>5
  <2> QED BY <1>9, <2>2, <2>3, <2>4, KdrAnswers DEF Login, Leave
<1>10. CASE CreateObject(t)
  <2>1. CASE Refused(t) /\ UNCHANGED guesses
    BY <1>6, <2>1
  <2>2. ASSUME NEW ev \in {"GENERATE", "LOAD"}, NEW kind \in KeyKinds, NEW ok \in BOOLEAN,
               Legal(r.state, ev),
               \/ slot' = [slot EXCEPT ![s] = install_key(r, ev, nkeys + 1, kind, ok)]
               \/ slot' = [slot EXCEPT ![s] = install_key_undone(r, ev, nkeys + 1, kind, ok)],
               UNCHANGED guesses
        PROVE  \E p, i : Counting(t, p, i)
    <3>1. PICK k : k = nkeys + 1
      OBVIOUS
    <3>2. k \in Nat /\ kind \in {"sk", "seed", "hw"}
      BY <3>1, ConstantsAssumption DEF IInv, TypeOK
    <3>3. Resting(r)
      BY <1>2, <1>10 DEF CreateObject, InSection
    <3>4. PICK q \in {install_key(r, ev, k, kind, ok), install_key_undone(r, ev, k, kind, ok)} :
            slot' = [slot EXCEPT ![s] = q]
      BY <2>2, <3>1
    <3>5. /\ PinStep(r, install_key(r, ev, k, kind, ok), g, g, FALSE)
          /\ PinStep(r, install_key_undone(r, ev, k, kind, ok), g, g, FALSE)
      BY <1>1, <2>2, <3>2, <3>3, KeySeals
    <3> QED BY <1>4, <2>2, <3>4, <3>5
  <2>3. UNCHANGED guesses
    BY <1>10 DEF CreateObject
  <2>4. \/ Refused(t)
        \/ \E ev \in {"GENERATE", "LOAD"}, kind \in KeyKinds, ok \in BOOLEAN :
             /\ Legal(r.state, ev)
             /\ \/ slot' = [slot EXCEPT ![s] = install_key(r, ev, nkeys + 1, kind, ok)]
                \/ slot' = [slot EXCEPT ![s] = install_key_undone(r, ev, nkeys + 1, kind, ok)]
    BY <1>10, KdrAnswers DEF CreateObject, Leave
  <2> QED BY <2>1, <2>2, <2>3, <2>4
<1>11. CASE BeginUse(t) \/ EndUse(t)
  <2>1. /\ UNCHANGED guesses
        /\ \/ Legal(r.state, "USE_BEGIN") /\ slot' = [slot EXCEPT ![s] = fsm_apply(r, "USE_BEGIN")]
           \/ UNCHANGED slot
           \/ /\ th[t].pc = "using"
              /\ \E worked, ok \in BOOLEAN : slot' = [slot EXCEPT ![s] = UseEnded(r, worked, ok)]
    BY <1>1, <1>11, KdrAnswers DEF BeginUse, EndUse, Leave, UseEnded
  <2>2. th[t].pc = "using" => r.state = "IN_USE"
    BY <1>1 DEF IInv, LocksOK
  <2>3. ASSUME NEW q, q.user_pin_fails = r.user_pin_fails, Fresh(q)
        PROVE  PinStep(r, q, g, g, FALSE)
    BY <2>3 DEF PinStep, Fresh
  <2> QED BY <1>1, <1>4, <1>5, <2>1, <2>2, <2>3, UseKeepsFails
<1>12. CASE Destroy(t)
  <2>1. /\ UNCHANGED guesses /\ slotLock[s] = {}
        /\ \/ /\ Legal(r.state, "DESTROY")
              /\ \E ok \in BOOLEAN : slot' = [slot EXCEPT ![s] = destroy(r, ok)]
           \/ Refused(t)
    BY <1>12, KdrAnswers DEF Destroy, InSection, Leave
  <2> QED BY <1>1, <1>2, <1>4, <1>6, <2>1, KeySeals
<1>13. CASE Zeroize(t)
  <2>1. /\ slotLock[s] = {}
        /\ \E ok \in BOOLEAN : slot' = [slot EXCEPT ![s] = do_zeroize(r, ok)]
        /\ guesses' = [guesses EXCEPT ![s] = 0]
    BY <1>13, KdrAnswers DEF Zeroize, InSection, Leave
  <2> QED BY <1>1, <1>2, <1>3, <2>1, KeySeals
<1>14. CASE Unlock(t)
  <2>1. /\ slotLock[s] = {}
        /\ \/ /\ Legal(r.state, "SO_UNLOCK")
              /\ \E ok \in BOOLEAN : slot' = [slot EXCEPT ![s] = unlock(r, ok)]
              /\ guesses' = [guesses EXCEPT ![s] = 0]
           \/ Refused(t) /\ UNCHANGED guesses
    BY <1>14, KdrAnswers DEF Unlock, InSection, Leave
  <2> QED BY <1>1, <1>2, <1>3, <1>6, <2>1, KeySeals
<1>15. CASE \/ DropSessions(t) \/ CommitSkipped(t) \/ CommitBegin(t) \/ SaveSlot(t)
            \/ SavePublish(t) \/ CommitEnd(t) \/ SetSessionRole(t)
  BY <1>5, <1>15 DEF DropSessions, CommitSkipped, CommitBegin, SaveSlot, SavePublish, CommitEnd,
                     SetSessionRole
<1> QED BY <1>7, <1>8, <1>9, <1>10, <1>11, <1>12, <1>13, <1>14, <1>15 DEF Step

\* As long as the process is not killed, any number of callers together get no more wrong
\* User PINs answered between two resets than the limit allows, whatever random numbers and
\* saves fail and whatever saves are skipped: the count that login_wrong bounds is the one
\* in memory.
THEOREM GuessesBoundedInOneLife ==
  ASSUME ~MayCrash
  PROVE  Spec => []PinGuessBound
<1>1. Init => CountersOK
  <2>1. Counted(FreshSlot, 0)
    BY DEF Counted, Fresh, FreshSlot
  <2> QED BY <2>1 DEF Init, CountersOK
<1>2. IInv /\ IInv' /\ CountersOK /\ [Next]_vars => CountersOK'
  <2> SUFFICES ASSUME IInv, IInv', CountersOK, [Next]_vars PROVE CountersOK'
    OBVIOUS
  <2>1. CASE UNCHANGED <<slot, guesses>>
    BY <2>1 DEF CountersOK, Counted
  <2>2. ASSUME NEW t \in Threads, Step(t) PROVE CountersOK'
    <3> DEFINE own == th[t].slot
               r == slot[own]
               g == guesses[own]
    <3>1. PICK q, h : Counting(t, q, h)
      BY <2>2, StepCounts
    <3>2. /\ own \in Slots /\ slot \in [Slots -> SlotRec] /\ guesses \in [Slots -> Nat]
          /\ slot' \in [Slots -> SlotRec]
      BY DEF IInv, TypeOK, ThreadRec
    <3>3. /\ slot'[own] = q /\ guesses'[own] = h
          /\ \A u \in Slots \ {own} : slot'[u] = slot[u] /\ guesses'[u] = guesses[u]
      BY <3>1, <3>2 DEF Counting
    <3>4. PICK e, f : e = q.user_pin_fails /\ f = r.user_pin_fails
      OBVIOUS
    <3>5. e \in Nat /\ f \in Nat /\ g \in Nat
      <4>1. \A x \in SlotRec : x.user_pin_fails \in Nat
        BY PinLimit DEF SlotRec
      <4> QED BY <3>2, <3>3, <3>4, <4>1
    <3>6. g <= f
      BY <3>2, <3>4 DEF CountersOK, Counted
    <3>7. /\ q.state = "UNINIT" => e = 0
          /\ h = 0 \/ (h = g /\ e = f) \/ (h \in {g, g + 1} /\ e = f + 1)
      BY <3>1, <3>4 DEF Counting, PinStep
    <3> HIDE DEF g
    <3>8. h <= e
      BY <3>5, <3>6, <3>7
    <3>9. Counted(q, h)
      BY <3>4, <3>7, <3>8 DEF Counted, Fresh
    <3> HIDE DEF own
    <3> QED BY <3>3, <3>9 DEF CountersOK
  <2>3. ASSUME NEW t \in Threads, Other(t) PROVE CountersOK'
    BY <2>1, <2>3, OtherFrame
  <2>4. ~Restart
    BY DEF Restart
  <2> QED BY <2>1, <2>2, <2>3, <2>4, NextCases DEF vars
<1>3. IInv /\ CountersOK => PinGuessBound
  <2> SUFFICES ASSUME IInv, CountersOK, NEW s \in Slots
               PROVE  guesses[s] <= HSM_PIN_MAX_FAILS
    BY DEF PinGuessBound
  <2>1. slot[s].user_pin_fails \in 0..HSM_PIN_MAX_FAILS /\ guesses[s] \in Nat
    BY DEF IInv, TypeOK, SlotRec
  <2>2. guesses[s] <= slot[s].user_pin_fails
    BY DEF CountersOK, Counted
  <2> QED BY <2>1, <2>2, PinLimit
<1> QED BY <1>1, <1>2, <1>3, Inductive, PTL DEF Spec
=============================================================================
