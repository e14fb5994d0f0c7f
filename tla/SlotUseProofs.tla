--------------------------- MODULE SlotUseProofs ---------------------------
(***************************************************************************)
(* More about SlotManager: what becomes of keys, handles and logins over   *)
(* many calls, for any number of threads.  SingleCallerProofs goes on with *)
(* what needs a single caller.                                             *)
(***************************************************************************)
EXTENDS SlotManagerProofs

\* A record names a private key exactly when it says where the key lives.
KeyKind(r) == r.key # 0 <=> r.kind # "none"

\* What one step may do to the key of a slot: leave it, install one where no key can be
\* reached (and leave it out of reach, if the slot could not be sealed), or forget it
\* together with a step of the generation.
KeyStays(r, q) ==
  /\ q.key = r.key /\ q.kind = r.kind /\ q.generation = r.generation
  /\ HoldsKey(r) <=> HoldsKey(q)

KeyMade(r, q) ==
  ~HoldsKey(r) /\ q.generation = r.generation /\ q.key # 0 /\ q.kind # "none"

KeyGone(r, q) ==
  q.generation = r.generation + 1 /\ q.key = 0 /\ q.kind = "none" /\ ~HoldsKey(q)

KeyKept(r, q) == KeyStays(r, q) \/ KeyGone(r, q)

KeyStep(r, q) == KeyKept(r, q) \/ KeyMade(r, q)

\* The same but for the seal, the PINs and their counter.
Alike(r, q) ==
  /\ q.key = r.key /\ q.kind = r.kind /\ q.generation = r.generation
  /\ q.state = r.state /\ q.pre_lock = r.pre_lock
-----------------------------------------------------------------------------
(* The operations on a slot record.                                         *)

\* A reseal touches nothing but the tag.
LEMMA ResealAlike ==
  ASSUME NEW r \in SlotRec, NEW ok \in BOOLEAN
  PROVE  Alike(r, slot_reseal(r, ok)) /\ slot_reseal(r, ok) \in SlotRec
BY DEF Alike, slot_reseal, SlotRec

\* Records that are alike are left alone by a step as far as their key goes.
LEMMA AlikeStays ==
  ASSUME NEW r, NEW q, Alike(r, q)
  PROVE  KeyStays(r, q) /\ KeyKept(r, q) /\ (HoldsKey(q) <=> HoldsKey(r))
BY DEF Alike, KeyStays, KeyKept, HoldsKey

\* init_token, finished or not.
LEMMA InitKeyStep ==
  ASSUME NEW r, Resting(r), Legal(r.state, "INIT_TOKEN"), NEW ok \in BOOLEAN
  PROVE  KeyKept(r, init_token(r, ok)) /\ KeyKept(r, fsm_apply(r, "INIT_TOKEN"))
<1>1. r.state = "UNINIT" /\ r \in SlotRec
  BY DEF Legal, slot_fsm_next, Resting, Good, SlotRec, SlotStates
<1> DEFINE f == [r EXCEPT !.state = "EMPTY", !.pre_lock = r.pre_lock, !.sealed = FALSE]
           q == [f EXCEPT !.has_so_pin = TRUE, !.user_pin_fails = 0]
<1>2. fsm_apply(r, "INIT_TOKEN") = f /\ init_token(r, ok) = slot_reseal(q, ok)
  BY <1>1 DEF fsm_apply, slot_fsm_next, init_token
<1>3. /\ f.key = r.key /\ f.kind = r.kind /\ f.generation = r.generation
      /\ q.key = r.key /\ q.kind = r.kind /\ q.generation = r.generation
      /\ f.state = "EMPTY" /\ q.state = "EMPTY" /\ q \in SlotRec
  BY <1>1, PinLimit DEF SlotRec, SlotStates
<1> HIDE DEF f, q
<1>4. Alike(q, slot_reseal(q, ok))
  BY <1>3, ResealAlike
<1> QED BY <1>1, <1>2, <1>3, <1>4 DEF KeyKept, KeyStays, HoldsKey, Alike

\* set_user_pin, whether or not the verifier could be computed.
LEMMA UserPinAlike ==
  ASSUME NEW r, Resting(r), NEW ok \in BOOLEAN
  PROVE  Alike(r, set_user_pin(r, ok)) /\ Alike(r, set_user_pin_torn(r))
<1>1. r \in SlotRec
  BY DEF Resting, Good
<1> DEFINE same == r.user_pin_fails = 0
           q == [r EXCEPT !.has_user_pin = TRUE, !.user_pin_torn = FALSE,
                          !.user_pin_fails = 0, !.sealed = same]
<1>2. set_user_pin(r, ok) = slot_reseal(q, ok) /\ same \in BOOLEAN
  BY DEF set_user_pin
<1> HIDE DEF same
<1>3. q \in SlotRec /\ Alike(r, q)
  BY <1>1, <1>2, PinLimit DEF SlotRec, Alike
<1> HIDE DEF q
<1>4. Alike(q, slot_reseal(q, ok))
  BY <1>3, ResealAlike
<1>5. Alike(r, set_user_pin_torn(r))
  BY <1>1 DEF SlotRec, set_user_pin_torn, Alike
<1> QED BY <1>2, <1>3, <1>4, <1>5 DEF Alike

\* A login, right or wrong; a lockout remembers that the slot was LOADED.
LEMMA LoginAlike ==
  ASSUME NEW r, Resting(r), NEW role \in Roles, role # "PUBLIC", r.state # "UNINIT",
         ~(r.state = "LOCKED" /\ role = "USER"), NEW ok \in BOOLEAN
  PROVE  /\ \A missed \in BOOLEAN : Alike(r, login_right(r, role, missed, ok))
         /\ LET q == login_wrong(r, role, ok) IN
              \/ Alike(r, q)
              \/ /\ q.key = r.key /\ q.kind = r.kind /\ q.generation = r.generation
                 /\ r.state \in {"EMPTY", "LOADED"}
                 /\ q.state = "LOCKED" /\ q.pre_lock = r.state
<1>1. r \in SlotRec /\ r.user_pin_fails \in Nat
  BY PinLimit DEF Resting, Good, SlotRec
<1>2. ASSUME NEW missed \in BOOLEAN PROVE Alike(r, login_right(r, role, missed, ok))
  BY <1>1 DEF SlotRec, login_right, slot_reseal, Alike
<1>3. CASE role = "SO"
  <2>1. Alike(r, login_wrong(r, role, ok))
    BY <1>1, <1>3 DEF SlotRec, login_wrong, slot_reseal, Alike
  <2> QED BY <1>2, <2>1
<1>4. CASE role = "USER"
  <2> DEFINE n == r.user_pin_fails + 1
             c == [r EXCEPT !.user_pin_fails = n, !.sealed = FALSE]
             k == fsm_apply(c, "PIN_LOCKOUT")
  <2>1. login_wrong(r, role, ok) \in {slot_reseal(k, ok), slot_reseal(c, ok)}
    BY <1>4 DEF login_wrong
  <2>2. r.state \in {"EMPTY", "LOADED"}
    BY <1>4 DEF Resting, Good, SlotRec, SlotStates
  <2> HIDE DEF n
  <2>3. Alike(r, c) /\ DOMAIN c = DOMAIN r
    BY <1>1 DEF SlotRec, Alike
  <2>4. k = [c EXCEPT !.state = "LOCKED", !.pre_lock = c.state, !.sealed = FALSE]
    BY <2>2, <2>3 DEF fsm_apply, slot_fsm_next, Alike
  <2>5. DOMAIN c = {"state", "pre_lock", "generation", "sealed", "key", "kind",
                    "has_so_pin", "has_user_pin", "user_pin_torn", "user_pin_fails"}
    BY <1>1, <2>3 DEF SlotRec
  <2> HIDE DEF c
  <2>6. /\ k.key = r.key /\ k.kind = r.kind /\ k.generation = r.generation
        /\ k.state = "LOCKED" /\ k.pre_lock = r.state /\ DOMAIN k = DOMAIN c
    BY <2>3, <2>4, <2>5 DEF Alike
  <2> HIDE DEF k
  <2>7. Alike(k, slot_reseal(k, ok)) /\ Alike(c, slot_reseal(c, ok))
    BY <2>5, <2>6 DEF slot_reseal, Alike
  <2> QED BY <1>2, <2>1, <2>2, <2>3, <2>6, <2>7 DEF Alike
<1> QED BY <1>2, <1>3, <1>4 DEF Roles

LEMMA LoginKeyStep ==
  ASSUME NEW r, Resting(r), NEW role \in Roles, role # "PUBLIC", r.state # "UNINIT",
         ~(r.state = "LOCKED" /\ role = "USER"), NEW ok \in BOOLEAN
  PROVE  /\ \A missed \in BOOLEAN : KeyKept(r, login_right(r, role, missed, ok))
         /\ KeyKept(r, login_wrong(r, role, ok))
<1>1. \A missed \in BOOLEAN : KeyKept(r, login_right(r, role, missed, ok))
  BY LoginAlike, AlikeStays
<1> DEFINE q == login_wrong(r, role, ok)
<1>2. CASE Alike(r, q)
  BY <1>1, <1>2, AlikeStays
<1>3. CASE /\ q.key = r.key /\ q.kind = r.kind /\ q.generation = r.generation
           /\ r.state \in {"EMPTY", "LOADED"}
           /\ q.state = "LOCKED" /\ q.pre_lock = r.state
  <2> HIDE DEF q
  <2> QED BY <1>1, <1>3 DEF KeyKept, KeyStays, HoldsKey, q
<1> QED BY <1>2, <1>3, LoginAlike

\* A key is installed in an EMPTY slot only; a slot that cannot be sealed then stays
\* EMPTY, and has the key.
LEMMA InstallKeyStep ==
  ASSUME NEW r, Resting(r), NEW ev \in {"GENERATE", "LOAD"}, Legal(r.state, ev),
         NEW k \in Nat \ {0}, NEW kind \in {"sk", "seed", "hw"}, NEW ok \in BOOLEAN
  PROVE  /\ r.state = "EMPTY"
         /\ LET q == install_key(r, ev, k, kind, ok)
                u == install_key_undone(r, ev, k, kind, ok)
            IN  /\ KeyMade(r, q) /\ q.key = k /\ q.kind = kind
                /\ q.generation = r.generation /\ q.state = "LOADED"
                /\ KeyMade(r, u) /\ u.key = k /\ u.kind = kind
                /\ u.generation = r.generation /\ u.state = "EMPTY"
<1>1. r.state = "EMPTY" /\ r \in SlotRec
  BY DEF Legal, slot_fsm_next, Resting, Good, SlotRec, SlotStates
<1> DEFINE f == [r EXCEPT !.state = "LOADED", !.pre_lock = r.pre_lock, !.sealed = FALSE]
           q == [[f EXCEPT !.key = 0, !.kind = "none"] EXCEPT !.key = k, !.kind = kind]
           u == [q EXCEPT !.state = r.state]
<1>2. fsm_apply(r, ev) = f
  BY <1>1 DEF fsm_apply, slot_fsm_next
<1>3. /\ install_key(r, ev, k, kind, ok) = slot_reseal(q, ok)
      /\ install_key_undone(r, ev, k, kind, ok) = slot_reseal(u, ok)
  BY <1>2 DEF install_key, install_key_undone, slot_wipe_key_material, slot_reseal
<1>4. /\ q \in SlotRec /\ q.key = k /\ q.kind = kind /\ q.state = "LOADED"
      /\ q.generation = r.generation
  BY <1>1 DEF SlotRec, SlotStates
<1> HIDE DEF q
<1>5. /\ u \in SlotRec /\ u.key = k /\ u.kind = kind /\ u.state = "EMPTY"
      /\ u.generation = r.generation
  BY <1>1, <1>4 DEF SlotRec, SlotStates
<1> HIDE DEF u
<1>6. Alike(q, slot_reseal(q, ok)) /\ Alike(u, slot_reseal(u, ok))
  BY <1>4, <1>5, ResealAlike
<1> QED BY <1>1, <1>3, <1>4, <1>5, <1>6 DEF Alike, KeyMade, HoldsKey

\* destroy and zeroize forget the key and move the generation.
LEMMA GoneKeyStep ==
  ASSUME NEW r, Good(r), NEW ok \in BOOLEAN
  PROVE  /\ Legal(r.state, "DESTROY") =>
              KeyKept(r, destroy(r, ok)) /\ destroy(r, ok).state = "EMPTY"
         /\ KeyKept(r, do_zeroize(r, ok)) /\ do_zeroize(r, ok).state = "UNINIT"
         /\ \A q \in {destroy(r, ok), do_zeroize(r, ok)} :
              q.key = 0 /\ q.kind = "none" /\ q.generation = r.generation + 1
<1>1. r \in SlotRec /\ r.generation \in Nat
  BY DEF Good, SlotRec
<1> DEFINE q == destroy(r, ok)
           z == do_zeroize(r, ok)
<1>3. /\ q.key = 0 /\ q.kind = "none" /\ q.generation = r.generation + 1
      /\ Legal(r.state, "DESTROY") => q.state = "EMPTY"
  <2>1. Legal(r.state, "DESTROY") => slot_fsm_next(r.state, "DESTROY") = "EMPTY"
    BY <1>1 DEF Legal, slot_fsm_next, SlotRec, SlotStates
  <2> DEFINE st == slot_fsm_next(r.state, "DESTROY")
             f == [r EXCEPT !.state = st, !.pre_lock = r.pre_lock, !.sealed = FALSE]
             n == r.generation + 1
             w == [[f EXCEPT !.key = 0, !.kind = "none"] EXCEPT !.generation = n]
  <2>2. q = slot_reseal(w, ok)
    BY <1>1 DEF destroy, fsm_apply, slot_wipe_key_material, SlotRec
  <2> HIDE DEF st, n, q
  <2>3. /\ w.key = 0 /\ w.kind = "none" /\ w.generation = n /\ w.state = st
        /\ DOMAIN w = DOMAIN r
    BY <1>1 DEF SlotRec
  <2>4. DOMAIN r = {"state", "pre_lock", "generation", "sealed", "key", "kind",
                    "has_so_pin", "has_user_pin", "user_pin_torn", "user_pin_fails"}
    BY <1>1 DEF SlotRec
  <2> HIDE DEF w
  <2>5. Alike(w, slot_reseal(w, ok))
    BY <2>3, <2>4 DEF slot_reseal, Alike
  <2> QED BY <2>1, <2>2, <2>3, <2>5 DEF Alike, st, n
<1>4. z.key = 0 /\ z.kind = "none" /\ z.generation = r.generation + 1 /\ z.state = "UNINIT"
  <2> DEFINE f == [r EXCEPT !.state = "UNINIT", !.pre_lock = r.pre_lock, !.sealed = FALSE]
             n == r.generation + 1
             w == [[[f EXCEPT !.key = 0, !.kind = "none"]
                      EXCEPT !.has_so_pin = FALSE, !.has_user_pin = FALSE,
                             !.user_pin_torn = FALSE]
                     EXCEPT !.generation = n, !.pre_lock = "EMPTY", !.user_pin_fails = 0]
  <2>2. z = slot_reseal(w, ok)
    BY <1>1 DEF do_zeroize, fsm_apply, slot_fsm_next, slot_wipe_key_material,
                slot_wipe_pins, SlotRec
  <2>0. n \in Nat
    BY <1>1
  <2> HIDE DEF n, z
  <2>3. /\ w.key = 0 /\ w.kind = "none" /\ w.generation = n /\ w.state = "UNINIT"
        /\ w \in SlotRec
    BY <1>1, <2>0, PinLimit DEF SlotRec, SlotStates
  <2> HIDE DEF w
  <2>5. Alike(w, slot_reseal(w, ok))
    BY <2>3, ResealAlike
  <2> QED BY <2>2, <2>3, <2>5 DEF Alike, n
<1> HIDE DEF q, z
<1>5. /\ Legal(r.state, "DESTROY") => KeyKept(r, q) /\ q.state = "EMPTY"
      /\ KeyKept(r, z) /\ z.state = "UNINIT"
      /\ \A y \in {q, z} : y.key = 0 /\ y.kind = "none" /\ y.generation = r.generation + 1
  BY <1>3, <1>4 DEF KeyKept, KeyGone, HoldsKey
<1> QED BY <1>5 DEF q, z

\* An unlock goes back to LOADED where a key is.
LEMMA UnlockKeyStep ==
  ASSUME NEW r, Resting(r), Legal(r.state, "SO_UNLOCK"), NEW ok \in BOOLEAN
  PROVE  LET q == unlock(r, ok) IN
         /\ KeyKept(r, q)
         /\ q.key = r.key /\ q.kind = r.kind /\ q.generation = r.generation
         /\ r.state = "LOCKED" /\ r.pre_lock # "IN_USE"
         /\ q.state = IF r.pre_lock = "LOADED" THEN "LOADED" ELSE "EMPTY"
<1>1. r.state = "LOCKED" /\ r.pre_lock # "IN_USE" /\ r \in SlotRec
  BY DEF Legal, slot_fsm_next, Resting, Good, RecOK, SlotRec, SlotStates
<1> DEFINE target == slot_fsm_unlock_target(r.pre_lock)
           q == [[r EXCEPT !.state = target, !.pre_lock = r.pre_lock, !.sealed = FALSE]
                    EXCEPT !.user_pin_fails = 0]
<1>2. unlock(r, ok) = slot_reseal(q, ok)
  BY DEF unlock, fsm_apply
<1>3. target = IF r.pre_lock = "LOADED" THEN "LOADED" ELSE "EMPTY"
  BY <1>1 DEF slot_fsm_unlock_target, SlotRec, SlotStates
<1> HIDE DEF target
<1>4. /\ q.kind = r.kind /\ q.key = r.key /\ q.generation = r.generation /\ q.state = target
      /\ q \in SlotRec
  BY <1>1, <1>3, PinLimit DEF SlotRec, SlotStates
<1> HIDE DEF q
<1>5. Alike(q, slot_reseal(q, ok))
  BY <1>4, ResealAlike
<1> DEFINE u == unlock(r, ok)
<1>6. /\ u.key = r.key /\ u.kind = r.kind /\ u.generation = r.generation
      /\ u.state = target
  BY <1>2, <1>4, <1>5 DEF Alike
<1> HIDE DEF u
<1>7. KeyKept(r, u)
  BY <1>1, <1>3, <1>6 DEF KeyKept, KeyStays, HoldsKey
<1> QED BY <1>1, <1>3, <1>6, <1>7 DEF u

\* begin_use and end_use.
LEMMA UseKeyStep ==
  ASSUME NEW r, Good(r)
  PROVE  /\ Legal(r.state, "USE_BEGIN") =>
              /\ KeyStays(r, fsm_apply(r, "USE_BEGIN"))
              /\ r.state = "LOADED" /\ fsm_apply(r, "USE_BEGIN").state = "IN_USE"
         /\ r.state = "IN_USE" =>
              \A worked, ok \in BOOLEAN :
                KeyStays(r, UseEnded(r, worked, ok)) /\ UseEnded(r, worked, ok).state = "LOADED"
<1>1. r \in SlotRec
  BY DEF Good
<1>2. ASSUME Legal(r.state, "USE_BEGIN")
      PROVE  /\ KeyStays(r, fsm_apply(r, "USE_BEGIN"))
             /\ r.state = "LOADED" /\ fsm_apply(r, "USE_BEGIN").state = "IN_USE"
  <2>0. r.state = "LOADED"
    BY <1>1, <1>2 DEF Legal, slot_fsm_next, SlotRec, SlotStates
  <2>1. fsm_apply(r, "USE_BEGIN") =
          [r EXCEPT !.state = "IN_USE", !.pre_lock = r.pre_lock, !.sealed = FALSE]
    BY <2>0 DEF fsm_apply, slot_fsm_next
  <2> QED BY <1>1, <2>0, <2>1 DEF KeyStays, HoldsKey, SlotRec
<1>3. ASSUME r.state = "IN_USE", NEW worked \in BOOLEAN, NEW ok \in BOOLEAN
      PROVE  KeyStays(r, UseEnded(r, worked, ok)) /\ UseEnded(r, worked, ok).state = "LOADED"
  <2> DEFINE q == [[r EXCEPT !.state = "LOADED", !.pre_lock = r.pre_lock, !.sealed = FALSE]
                     EXCEPT !.sealed = ~worked]
             u == UseEnded(r, worked, ok)
  <2>1. u = slot_reseal(q, ok)
    BY <1>3 DEF fsm_apply, slot_fsm_next, UseEnded
  <2>2. /\ q.key = r.key /\ q.kind = r.kind /\ q.generation = r.generation
        /\ q.state = "LOADED" /\ q \in SlotRec
    BY <1>1 DEF SlotRec, SlotStates
  <2> HIDE DEF q, u
  <2>3. Alike(q, slot_reseal(q, ok))
    BY <2>2, ResealAlike
  <2>4. KeyStays(r, u) /\ u.state = "LOADED"
    BY <1>3, <2>1, <2>2, <2>3 DEF KeyStays, HoldsKey, Alike
  <2> QED BY <2>4 DEF u
<1> QED BY <1>2, <1>3

\* A save writes the metadata of a slot as it is, a start seals it.
LEMMA CopyKeys ==
  ASSUME NEW r, Good(r), KeyKind(r)
  PROVE  /\ KeyKind(slot_serialize(r)) /\ KeyKind(slot_reseal(r, TRUE))
         /\ slot_serialize(r).generation = r.generation
         /\ HoldsKey(slot_serialize(r)) = HoldsKey(r)
         /\ slot_serialize(r).key \in {r.key, 0}
         /\ slot_reseal(r, TRUE).generation = r.generation
         /\ slot_reseal(r, TRUE).key = r.key
         /\ HoldsKey(slot_reseal(r, TRUE)) = HoldsKey(r)
BY DEF Good, SlotRec, KeyKind, HoldsKey, slot_serialize, slot_wipe_key_material, slot_reseal
-----------------------------------------------------------------------------
(* The steps.                                                               *)

\* A step of a call changes the record of its own slot only, nobody else is inside that
\* slot then, and its key changes as KeyStep says.
OwnSlot(t) ==
  LET own == th[t].slot IN
  /\ own \in Slots
  /\ \A s \in Slots \ {own} : slot'[s] = slot[s]
  /\ \/ KeyKept(slot[own], slot'[own])
     \/ KeyMade(slot[own], slot'[own]) /\ CreateObject(t)
  /\ slot'[own] # slot[own] => slotLock[own] \subseteq {t}

\* A step that leaves the slots alone is one.
LEMMA SlotsAlone == ASSUME IInv, NEW t \in Threads, UNCHANGED slot PROVE OwnSlot(t)
<1>1. th[t].slot \in Slots
  BY DEF IInv, TypeOK, ThreadRec
<1> QED BY <1>1 DEF OwnSlot, KeyKept, KeyStays

\* A section that leaves a record behind is one.
LEMMA SectionOwns ==
  ASSUME IInv, NEW t \in Threads, slotLock[th[t].slot] \subseteq {t}, NEW q,
         KeyKept(slot[th[t].slot], q), slot' = [slot EXCEPT ![th[t].slot] = q]
  PROVE  OwnSlot(t)
<1>1. th[t].slot \in Slots /\ slot \in [Slots -> SlotRec]
  BY DEF IInv, TypeOK, ThreadRec
<1>2. slot'[th[t].slot] = q /\ \A s \in Slots \ {th[t].slot} : slot'[s] = slot[s]
  BY <1>1
<1> QED BY <1>1, <1>2 DEF OwnSlot

\* So is a create_object that installs a key.
LEMMA SectionMakes ==
  ASSUME IInv, NEW t \in Threads, slotLock[th[t].slot] \subseteq {t}, NEW q,
         KeyMade(slot[th[t].slot], q), CreateObject(t),
         slot' = [slot EXCEPT ![th[t].slot] = q]
  PROVE  OwnSlot(t)
<1>1. th[t].slot \in Slots /\ slot \in [Slots -> SlotRec]
  BY DEF IInv, TypeOK, ThreadRec
<1>2. slot'[th[t].slot] = q /\ \A s \in Slots \ {th[t].slot} : slot'[s] = slot[s]
  BY <1>1
<1> QED BY <1>1, <1>2 DEF OwnSlot

\* So is a call that is refused.
LEMMA RefusedOwns == ASSUME IInv, NEW t \in Threads, Refused(t) PROVE OwnSlot(t)
<1>1. th[t].slot \in Slots /\ slot \in [Slots -> SlotRec]
  BY DEF IInv, TypeOK, ThreadRec
<1>2. slot' = [slot EXCEPT ![th[t].slot] = slot[th[t].slot]]
  BY DEF Refused, Leave
<1>3. UNCHANGED slot
  BY <1>1, <1>2
<1> QED BY <1>3, SlotsAlone

\* Every step of a call.
LEMMA StepOwns ==
  ASSUME IInv, NEW t \in Threads, Step(t)
  PROVE  OwnSlot(t)
<1> DEFINE s == th[t].slot
           r == slot[s]
<1>1. s \in Slots /\ r \in SlotRec /\ Good(r)
  BY DEF IInv, TypeOK, ThreadRec, RecordsOK
<1>2. ASSUME slotLock[s] = {} PROVE Resting(r) /\ slotLock[s] \subseteq {t}
  BY <1>2, SectionRests
<1>3. CASE InitToken(t)
  <2>1. \/ /\ Legal(r.state, "INIT_TOKEN")
           /\ \E ok \in BOOLEAN : slot' = [slot EXCEPT ![s] = init_token(r, ok)]
        \/ Legal(r.state, "INIT_TOKEN") /\ slot' = [slot EXCEPT ![s] = fsm_apply(r, "INIT_TOKEN")]
        \/ Refused(t)
    BY <1>3, KdrAnswers DEF InitToken, Leave
  <2>2. Resting(r) /\ slotLock[s] \subseteq {t}
    BY <1>2, <1>3 DEF InitToken, InSection
  <2>3. Legal(r.state, "INIT_TOKEN") => KeyKept(r, fsm_apply(r, "INIT_TOKEN"))
    <3>1. TRUE \in BOOLEAN
      OBVIOUS
    <3> QED BY <2>2, <3>1, InitKeyStep
  <2>4. ASSUME NEW ok \in BOOLEAN, Legal(r.state, "INIT_TOKEN")
        PROVE  KeyKept(r, init_token(r, ok))
    BY <2>2, <2>4, InitKeyStep
  <2> QED BY <2>1, <2>2, <2>3, <2>4, SectionOwns, RefusedOwns
<1>4. CASE SetUserPin(t)
  <2>1. \/ \E ok \in BOOLEAN : slot' = [slot EXCEPT ![s] = set_user_pin(r, ok)]
        \/ slot' = [slot EXCEPT ![s] = set_user_pin_torn(r)]
        \/ Refused(t)
    BY <1>4, KdrAnswers DEF SetUserPin, Leave
  <2>2. Resting(r) /\ slotLock[s] \subseteq {t}
    BY <1>2, <1>4 DEF SetUserPin, InSection
  <2>3. ASSUME NEW ok \in BOOLEAN
        PROVE  KeyKept(r, set_user_pin(r, ok)) /\ KeyKept(r, set_user_pin_torn(r))
    BY <2>2, UserPinAlike, AlikeStays
  <2> QED BY <2>1, <2>2, <2>3, SectionOwns, RefusedOwns
<1>5. CASE Login(t)
  <2> DEFINE role == th[t].role
  <2>1. \/ /\ r.state # "UNINIT" /\ ~(r.state = "LOCKED" /\ role = "USER")
           /\ \E ok \in BOOLEAN :
                \/ \E missed \in BOOLEAN :
                     slot' = [slot EXCEPT ![s] = login_right(r, role, missed, ok)]
                \/ slot' = [slot EXCEPT ![s] = login_wrong(r, role, ok)]
        \/ UNCHANGED slot
    BY <1>5, KdrAnswers DEF Login, Leave
  <2>2. Resting(r) /\ slotLock[s] \subseteq {t}
    BY <1>2, <1>5 DEF Login, InSection
  <2>3. role \in Roles /\ role # "PUBLIC"
    BY <1>5 DEF IInv, CallsOK, Proper, ThreadRec, Login, InSection
  <2> HIDE DEF role
  <2>4. ASSUME r.state # "UNINIT" /\ ~(r.state = "LOCKED" /\ role = "USER"),
               NEW ok \in BOOLEAN
        PROVE  /\ \A missed \in BOOLEAN : KeyKept(r, login_right(r, role, missed, ok))
               /\ KeyKept(r, login_wrong(r, role, ok))
    BY <2>2, <2>3, <2>4, LoginKeyStep
  <2> QED BY <2>1, <2>2, <2>4, SectionOwns, SlotsAlone
<1>6. CASE CreateObject(t)
  <2> DEFINE k == nkeys + 1
  <2>1. \/ Refused(t)
        \/ \E ev \in {"GENERATE", "LOAD"}, kind \in {"sk", "seed", "hw"}, ok \in BOOLEAN :
             /\ Legal(r.state, ev)
             /\ \/ slot' = [slot EXCEPT ![s] = install_key(r, ev, k, kind, ok)]
                \/ slot' = [slot EXCEPT ![s] = install_key_undone(r, ev, k, kind, ok)]
    <3>1. KeyKinds \subseteq {"sk", "seed", "hw"}
      BY ConstantsAssumption
    <3> QED BY <1>6, <3>1, KdrAnswers DEF CreateObject, Leave
  <2>2. k \in Nat \ {0}
    BY DEF IInv, TypeOK
  <2>3. Resting(r) /\ slotLock[s] \subseteq {t}
    BY <1>2, <1>6 DEF CreateObject, InSection
  <2> HIDE DEF k
  <2>4. ASSUME NEW ev \in {"GENERATE", "LOAD"}, NEW kind \in {"sk", "seed", "hw"},
               NEW ok \in BOOLEAN, Legal(r.state, ev)
        PROVE  /\ KeyMade(r, install_key(r, ev, k, kind, ok))
               /\ KeyMade(r, install_key_undone(r, ev, k, kind, ok))
    BY <2>2, <2>3, <2>4, InstallKeyStep
  <2> QED BY <1>6, <2>1, <2>3, <2>4, SectionMakes, RefusedOwns
<1>7. CASE BeginUse(t)
  <2>1. \/ Legal(r.state, "USE_BEGIN") /\ slot' = [slot EXCEPT ![s] = fsm_apply(r, "USE_BEGIN")]
        \/ UNCHANGED slot
    BY <1>7 DEF BeginUse, Leave
  <2>2. slotLock[s] \subseteq {t}
    BY <1>2, <1>7 DEF BeginUse, InSection
  <2> QED BY <1>1, <2>1, <2>2, UseKeyStep, SectionOwns, SlotsAlone DEF KeyKept
<1>8. CASE EndUse(t)
  <2>1. /\ \E worked, ok \in BOOLEAN : slot' = [slot EXCEPT ![s] = UseEnded(r, worked, ok)]
        /\ th[t].pc = "using"
    BY <1>8, KdrAnswers DEF EndUse, UseEnded
  <2>2. slotLock[s] \subseteq {t} /\ r.state = "IN_USE"
    BY <1>1, <2>1 DEF IInv, LocksOK
  <2>3. \A worked, ok \in BOOLEAN : KeyKept(r, UseEnded(r, worked, ok))
    BY <1>1, <2>2, UseKeyStep DEF KeyKept
  <2> QED BY <1>1, <2>1, <2>2, <2>3, SectionOwns
<1>9. CASE Destroy(t)
  <2>1. \/ /\ Legal(r.state, "DESTROY")
           /\ \E ok \in BOOLEAN : slot' = [slot EXCEPT ![s] = destroy(r, ok)]
        \/ Refused(t)
    BY <1>9, KdrAnswers DEF Destroy, Leave
  <2>2. slotLock[s] \subseteq {t}
    BY <1>2, <1>9 DEF Destroy, InSection
  <2> QED BY <1>1, <2>1, <2>2, GoneKeyStep, SectionOwns, RefusedOwns
<1>10. CASE Zeroize(t)
  <2>1. \E ok \in BOOLEAN : slot' = [slot EXCEPT ![s] = do_zeroize(r, ok)]
    BY <1>10, KdrAnswers DEF Zeroize, Leave
  <2>2. slotLock[s] \subseteq {t}
    BY <1>2, <1>10 DEF Zeroize, InSection
  <2> QED BY <1>1, <2>1, <2>2, GoneKeyStep, SectionOwns
<1>11. CASE Unlock(t)
  <2>1. \/ /\ Legal(r.state, "SO_UNLOCK")
           /\ \E ok \in BOOLEAN : slot' = [slot EXCEPT ![s] = unlock(r, ok)]
        \/ Refused(t)
    BY <1>11, KdrAnswers DEF Unlock, Leave
  <2>2. Resting(r) /\ slotLock[s] \subseteq {t}
    BY <1>2, <1>11 DEF Unlock, InSection
  <2>3. ASSUME Legal(r.state, "SO_UNLOCK"), NEW ok \in BOOLEAN
        PROVE  KeyKept(r, unlock(r, ok))
    BY <2>2, <2>3, UnlockKeyStep
  <2> QED BY <2>1, <2>2, <2>3, SectionOwns, RefusedOwns
<1>12. CASE \/ DropSessions(t) \/ CommitSkipped(t) \/ CommitBegin(t) \/ SaveSlot(t)
            \/ SavePublish(t) \/ CommitEnd(t) \/ SetSessionRole(t)
  <2>1. UNCHANGED slot
    BY <1>12 DEF DropSessions, CommitSkipped, CommitBegin, SaveSlot, SavePublish, CommitEnd,
                 SetSessionRole
  <2> QED BY <2>1, SlotsAlone
<1> QED BY <1>3, <1>4, <1>5, <1>6, <1>7, <1>8, <1>9, <1>10, <1>11, <1>12 DEF Step

\* A step that is not part of a call, other than a restart, leaves the slots, the file and
\* the handles alone.
Other(t) ==
  \/ \E s \in Slots : SessionOpen(t, s)
  \/ \E i \in 1..MAX_SESSIONS : SessionClose(t, i) \/ SessionLogout(t, i)
  \/ \E op \in {"init_token", "zeroize_forced"}, s \in Slots : CallWithoutSession(t, op, s)
  \/ \E op \in SessionOps, i \in 1..MAX_SESSIONS : Call(t, op, i)

\* Its frame.
LEMMA OtherFrame ==
  ASSUME NEW t \in Threads, Other(t)
  PROVE  UNCHANGED <<slot, slotLock, saveVars, nkeys, issued, era, guesses>>
BY DEF Other, SessionOpen, SessionClose, SessionLogout, CallWithoutSession, Call

\* Next, by who takes the step.
LEMMA NextCases ==
  ASSUME Next
  PROVE  Restart \/ \E t \in Threads : Step(t) \/ Other(t)
BY DEF Next, Other

\* Where metadata and key agree, a step keeps them so.
LEMMA KeyStepKeeps ==
  ASSUME NEW r, NEW q, KeyStep(r, q), KeyKind(r)
  PROVE  KeyKind(q)
BY DEF KeyStep, KeyKept, KeyStays, KeyMade, KeyGone, KeyKind
-----------------------------------------------------------------------------
(* Keys.                                                                    *)

\* Every copy of a record names a key exactly when it says where it lives.
KeysOK == \A s \in Slots : KeyKind(slot[s]) /\ KeyKind(snap[s]) /\ KeyKind(disk[s])

\* It stays so.
LEMMA KeysStep == IInv /\ KeysOK /\ [Next]_vars => KeysOK'
<1> SUFFICES ASSUME IInv, KeysOK, [Next]_vars PROVE KeysOK'
  OBVIOUS
<1>1. CASE UNCHANGED vars
  BY <1>1 DEF vars, KeysOK
<1>2. CASE Restart
  <2>1. /\ slot' = [s \in Slots |-> slot_reseal(disk[s], TRUE)] /\ snap' = disk /\ disk' = disk
    BY <1>2 DEF Restart
  <2>2. \A s \in Slots : KeyKind(slot_reseal(disk[s], TRUE))
    BY CopyKeys DEF KeysOK, IInv, RecordsOK, Resting
  <2> QED BY <2>1, <2>2 DEF KeysOK
<1>3. ASSUME NEW t \in Threads, Other(t) PROVE KeysOK'
  BY <1>3, OtherFrame DEF KeysOK, saveVars
<1>4. ASSUME NEW t \in Threads, Step(t) PROVE KeysOK'
  <2>1. \A s \in Slots : KeyKind(slot'[s])
    BY <1>4, StepOwns, KeyStepKeeps DEF OwnSlot, KeyStep, KeysOK
  <2>2. \/ UNCHANGED <<snap, disk>>
        \/ snap' = disk /\ disk' = disk
        \/ disk' = snap /\ snap' = snap
        \/ /\ cursor \in Slots /\ disk' = disk
           /\ snap' = [snap EXCEPT ![cursor] = slot_serialize(slot[cursor])]
    BY <1>4 DEF Step, InitToken, SetUserPin, Login, CreateObject, BeginUse, EndUse, Destroy,
                Zeroize, DropSessions, Unlock, CommitSkipped, CommitBegin, SaveSlot,
                SavePublish, CommitEnd, SetSessionRole, saveVars
  <2>3. \A s \in Slots : KeyKind(slot_serialize(slot[s]))
    BY CopyKeys DEF KeysOK, IInv, RecordsOK
  <2>4. \A s \in Slots : KeyKind(snap'[s]) /\ KeyKind(disk'[s])
    BY <2>2, <2>3 DEF KeysOK, IInv, TypeOK
  <2> QED BY <2>1, <2>4 DEF KeysOK
<1> QED BY <1>1, <1>2, <1>3, <1>4, NextCases

\* It holds of the fresh token.
LEMMA KeysInit == Init => KeysOK
BY DEF Init, KeysOK, KeyKind, FreshSlot

\* And in every state.
LEMMA KeysHold == Spec => []KeysOK
BY KeysInit, KeysStep, Inductive, PTL DEF Spec

\* A key leaves a running slot only with a step of its generation, and is never replaced
\* directly: a handle issued for it does not match any more, whatever is installed next.
THEOREM KeysGoWithAGeneration == Spec => KeyGoneMovesGeneration
<1> DEFINE A == Restart \/ \A s \in Slots :
         LiveKey(slot[s]) # 0 /\ LiveKey(slot'[s]) # LiveKey(slot[s]) =>
           LiveKey(slot'[s]) = 0 /\ slot'[s].generation > slot[s].generation
<1>1. IInv /\ [Next]_vars => [A]_vars
  <2> SUFFICES ASSUME IInv, Next, ~Restart, NEW s \in Slots,
                      LiveKey(slot[s]) # 0, LiveKey(slot'[s]) # LiveKey(slot[s])
               PROVE  LiveKey(slot'[s]) = 0 /\ slot'[s].generation > slot[s].generation
    OBVIOUS
  <2>1. PICK t \in Threads : Step(t) \/ Other(t)
    BY NextCases
  <2>2. OwnSlot(t)
    BY <2>1, StepOwns, SlotsAlone, OtherFrame
  <2>3. KeyStep(slot[s], slot'[s])
    BY <2>2 DEF OwnSlot, KeyStep, KeyKept, KeyStays
  <2>4. HoldsKey(slot[s]) /\ slot[s].generation \in Nat
    BY DEF LiveKey, IInv, RecordsOK, Good, RecOK, SlotRec
  <2> QED BY <2>3, <2>4 DEF KeyStep, KeyKept, KeyStays, KeyMade, KeyGone, LiveKey
<1> QED BY <1>1, Inductive, PTL DEF Spec, KeyGoneMovesGeneration

\* A key left where its slot's state says there is none.
Stray(r) == r.kind # "none" /\ ~HoldsKey(r)

\* The keys that have a handle, and those of calls that may still return one.
Named == {h.key : h \in issued} \cup {th[t].key : t \in {u \in Threads : th[u].op = "create"}}

\* A stray is none of them, and no key has a number yet to be given.
StrayOK(r) == r.key \in 0..nkeys /\ (Stray(r) => r.key \notin Named)

StraysOK ==
  /\ Named \subseteq 0..nkeys
  /\ \A s \in Slots : StrayOK(slot[s]) /\ StrayOK(snap[s]) /\ StrayOK(disk[s])

\* A thread that goes on with a call that names no other key, and returns no handle but
\* for the key of its call, names nothing new.
LEMMA NamesKept ==
  ASSUME IInv, NEW t \in Threads, NEW c, NEW K, Go(t, c),
         c.op = "create" => c.key \in K \/ (th[t].op = "create" /\ c.key = th[t].key),
         \A h \in issued' : h \in issued \/ (th[t].op = "create" /\ h.key = th[t].key)
  PROVE  Named' \subseteq Named \cup K
<1>1. th' = [th EXCEPT ![t] = c] /\ th \in [Threads -> ThreadRec]
  BY DEF Go, IInv, TypeOK
<1>2. th'[t] = c /\ \A u \in Threads \ {t} : th'[u] = th[u]
  BY <1>1
<1> QED BY <1>2 DEF Named

\* What the steps of a call name: create_object its new key, the others nothing new.
LEMMA StepNames ==
  ASSUME IInv, NEW t \in Threads, Step(t), ~CreateObject(t)
  PROVE  Named' \subseteq Named /\ nkeys' = nkeys
<1>1. th[t] \in ThreadRec /\ th \in [Threads -> ThreadRec]
  BY DEF IInv, TypeOK
<1>2. nkeys' = nkeys
  BY DEF Step, InitToken, SetUserPin, Login, BeginUse, EndUse, Destroy,
         Zeroize, DropSessions, Unlock, CommitSkipped, CommitBegin, SaveSlot,
         SavePublish, CommitEnd, SetSessionRole
<1>3. \A h \in issued' : h \in issued \/ (th[t].op = "create" /\ h.key = th[t].key)
  <2>1. issued' = issued \/ Returned(t, th[t].st)
    BY DEF Step, InitToken, SetUserPin, Login, BeginUse, EndUse, Destroy,
         Zeroize, DropSessions, Unlock, CommitSkipped, CommitBegin, SaveSlot,
         SavePublish, CommitEnd, SetSessionRole
  <2>2. CASE Returned(t, th[t].st)
    <3>1. PICK e : e = [slot |-> th[t].slot, gen |-> th[t].handle, key |-> th[t].key]
      OBVIOUS
    <3>2. e.key = th[t].key
      BY <3>1
    <3>3. issued' = issued \/ (th[t].op = "create" /\ issued' = issued \cup {e})
      BY <2>2, <3>1 DEF Returned
    <3> QED BY <3>2, <3>3, Zenon
  <2>3. CASE issued' = issued
    BY <2>3, Zenon
  <2> QED BY <2>1, <2>2, <2>3, Zenon
<1>4. \E c : Go(t, c) /\ (c.op = "create" => th[t].op = "create" /\ c.key = th[t].key)
  <2> DEFINE Goes == \E c : Go(t, c) /\ (c.op = "create" => th[t].op = "create" /\ c.key = th[t].key)
  <2>1. ASSUME NEW pc, NEW st, Go(t, [th[t] EXCEPT !.pc = pc, !.st = st]) PROVE Goes
    <3>1. PICK c : c = [th[t] EXCEPT !.pc = pc, !.st = st]
      OBVIOUS
    <3>2. Go(t, c) /\ c.op = th[t].op /\ c.key = th[t].key
      BY <1>1, <2>1, <3>1 DEF ThreadRec
    <3> QED BY <3>2
  <2>2. ASSUME NEW pc, Go(t, [th[t] EXCEPT !.pc = pc]) PROVE Goes
    <3>1. PICK c : c = [th[t] EXCEPT !.pc = pc]
      OBVIOUS
    <3>2. Go(t, c) /\ c.op = th[t].op /\ c.key = th[t].key
      BY <1>1, <2>2, <3>1 DEF ThreadRec
    <3> QED BY <3>2
  <2>3. ASSUME Go(t, Idle) PROVE Goes
    BY <2>3 DEF Idle
  <2>4. ASSUME UNCHANGED th PROVE Goes
    <3>1. Go(t, th[t])
      BY <1>1, <2>4 DEF Go
    <3> QED BY <3>1
  <2>5. ASSUME NEW r, NEW pc, NEW st, Leave(t, r, pc, st) PROVE Goes
    BY <2>1, <2>5 DEF Leave
  <2>6. CASE InitToken(t) \/ SetUserPin(t) \/ Destroy(t) \/ Zeroize(t) \/ Unlock(t)
    <3>1. \E r, pc, st : Leave(t, r, pc, st)
      BY <2>6, Zenon DEF InitToken, SetUserPin, Destroy, Zeroize, Unlock, Refused
    <3> QED BY <2>5, <3>1
  <2>7. CASE Login(t)
    <3>1. \/ Go(t, Idle)
          \/ \E r, st : Leave(t, r, "commit", st)
          \/ \E ok \in BOOLEAN :
               Go(t, [th[t] EXCEPT !.pc = "commit", !.ok = TRUE, !.era = era[th[t].slot],
                                   !.st = Resealed(ok)])
      BY <2>7, KdrAnswers DEF Login
    <3>2. ASSUME NEW ok \in BOOLEAN,
                 Go(t, [th[t] EXCEPT !.pc = "commit", !.ok = TRUE, !.era = era[th[t].slot],
                                     !.st = Resealed(ok)])
          PROVE  Goes
      <4>1. PICK c : c = [th[t] EXCEPT !.pc = "commit", !.ok = TRUE, !.era = era[th[t].slot],
                                       !.st = Resealed(ok)]
        OBVIOUS
      <4>2. Go(t, c) /\ c.op = th[t].op /\ c.key = th[t].key
        BY <1>1, <3>2, <4>1 DEF ThreadRec
      <4> QED BY <4>2
    <3> QED BY <2>3, <2>5, <3>1, <3>2
  <2>8. CASE BeginUse(t) \/ EndUse(t) \/ SetSessionRole(t) \/ DropSessions(t)
    BY <2>8, <2>2, <2>3, <2>5 DEF BeginUse, EndUse, SetSessionRole, DropSessions
  <2>9. CASE CommitSkipped(t) \/ CommitBegin(t) \/ SaveSlot(t) \/ SavePublish(t) \/ CommitEnd(t)
    <3>1. CASE CommitSkipped(t) \/ CommitEnd(t)
      BY <3>1, <2>1, <2>3 DEF CommitSkipped, CommitEnd, Returned
    <3>2. CASE CommitBegin(t)
      BY <3>2, <2>2 DEF CommitBegin
    <3>3. CASE SaveSlot(t) \/ SavePublish(t)
      <4>1. \/ UNCHANGED th \/ Go(t, [th[t] EXCEPT !.pc = "unbusy"])
            \/ Go(t, [th[t] EXCEPT !.pc = "unbusy", !.st = commit_failed(@)])
        BY <3>3 DEF SaveSlot, SavePublish
      <4> QED BY <4>1, <2>1, <2>2, <2>4
    <3> QED BY <2>9, <3>1, <3>2, <3>3
  <2> QED BY <2>6, <2>7, <2>8, <2>9 DEF Step
<1>5. PICK c : Go(t, c) /\ (c.op = "create" => th[t].op = "create" /\ c.key = th[t].key)
  BY <1>4
<1>6. Named' \subseteq Named \cup {}
  BY <1>3, <1>5, NamesKept
<1> QED BY <1>2, <1>6

\* A call that starts names key 0, which is none.
LEMMA OtherNames ==
  ASSUME IInv, NEW t \in Threads, Other(t)
  PROVE  Named' \subseteq Named \cup {0} /\ nkeys' = nkeys
<1>1. issued' = issued /\ nkeys' = nkeys
  BY OtherFrame
<1>2. UNCHANGED th \/ \E c : Go(t, c) /\ (c.op = "create" => c.key = 0)
  <2>1. ASSUME NEW op \in SessionOps, NEW i \in 1..MAX_SESSIONS, Call(t, op, i)
        PROVE  \E c : Go(t, c) /\ (c.op = "create" => c.key = 0)
    <3>1. PICK role, h :
            /\ op \notin {"use", "destroy"} => h.key = 0
            /\ Go(t, [Idle EXCEPT !.pc = "cs", !.op = op, !.sess = Handle(i),
                                  !.slot = sessions[i].slot, !.role = role,
                                  !.handle = h.gen, !.key = h.key])
      BY <2>1 DEF Call
    <3>2. PICK c : c = [Idle EXCEPT !.pc = "cs", !.op = op, !.sess = Handle(i),
                                    !.slot = sessions[i].slot, !.role = role,
                                    !.handle = h.gen, !.key = h.key]
      OBVIOUS
    <3>3. Go(t, c) /\ c.op = op /\ c.key = h.key
      BY <3>1, <3>2 DEF Idle
    <3> QED BY <3>1, <3>3
  <2>2. ASSUME NEW op \in {"init_token", "zeroize_forced"}, NEW s \in Slots,
               CallWithoutSession(t, op, s)
        PROVE  \E c : Go(t, c) /\ (c.op = "create" => c.key = 0)
    <3>1. PICK c : c = [Idle EXCEPT !.pc = "cs", !.op = op, !.slot = s]
      OBVIOUS
    <3>2. Go(t, c) /\ c.op = op
      BY <2>2, <3>1 DEF CallWithoutSession, Idle
    <3> QED BY <3>2
  <2>3. ASSUME NEW s, SessionOpen(t, s) \/ SessionClose(t, s) \/ SessionLogout(t, s)
        PROVE  UNCHANGED th
    BY <2>3 DEF SessionOpen, SessionClose, SessionLogout
  <2> QED BY <2>1, <2>2, <2>3 DEF Other
<1>3. CASE UNCHANGED th
  BY <1>1, <1>3 DEF Named
<1>4. CASE \E c : Go(t, c) /\ (c.op = "create" => c.key = 0)
  <2>1. PICK c : Go(t, c) /\ (c.op = "create" => c.key = 0)
    BY <1>4
  <2>2. PICK K : K = {0}
    OBVIOUS
  <2>3. c.op = "create" => c.key \in K \/ (th[t].op = "create" /\ c.key = th[t].key)
    BY <2>1, <2>2
  <2>4. \A h \in issued' : h \in issued \/ (th[t].op = "create" /\ h.key = th[t].key)
    BY <1>1
  <2>5. Named' \subseteq Named \cup K
    BY <2>1, <2>3, <2>4, NamesKept
  <2> QED BY <1>1, <2>2, <2>5
<1> QED BY <1>1, <1>2, <1>3, <1>4

\* What a step that makes no key does to a record keeps it right.
LEMMA StrayKept ==
  ASSUME IInv, NEW r, NEW q, KeyKind(r), StrayOK(r), KeyKept(r, q),
         Named' \subseteq Named \cup {0}, nkeys' = nkeys
  PROVE  StrayOK(q)'
<1>1. nkeys \in Nat
  BY DEF IInv, TypeOK
<1>2. q.key \in 0..nkeys
  BY <1>1 DEF StrayOK, KeyKept, KeyStays, KeyGone
<1>3. ASSUME Stray(q) PROVE q.key \notin Named'
  <2>1. Stray(r) /\ q.key = r.key /\ r.key # 0
    BY <1>3 DEF Stray, KeyKept, KeyStays, KeyGone, KeyKind
  <2> QED BY <2>1 DEF StrayOK
<1> QED BY <1>2, <1>3 DEF StrayOK, Stray

\* So does a save, and a start.
LEMMA StrayCopied ==
  ASSUME NEW r, Good(r), KeyKind(r), StrayOK(r), nkeys \in Nat
  PROVE  StrayOK(slot_serialize(r)) /\ StrayOK(slot_reseal(r, TRUE))
<1>1. StrayOK(slot_serialize(r))
  BY DEF Good, SlotRec, StrayOK, Stray, HoldsKey, slot_serialize, slot_wipe_key_material
<1> DEFINE q == slot_reseal(r, TRUE)
<1>2. Alike(r, q)
  BY ResealAlike DEF Good
<1> HIDE DEF q
<1>3. StrayOK(q)
  BY <1>2 DEF Alike, StrayOK, Stray, HoldsKey
<1> QED BY <1>1, <1>3 DEF q

\* create_object gives its key a number no handle has, and names it only once it is in
\* a sealed slot.
LEMMA CreateStrays ==
  ASSUME IInv, KeysOK, StraysOK, NEW t \in Threads, CreateObject(t)
  PROVE  StraysOK'
<1> DEFINE s == th[t].slot
           r == slot[s]
           k == nkeys + 1
           made == [th[t] EXCEPT !.pc = "commit", !.key = k, !.handle = r.generation]
<1>1. /\ s \in Slots /\ Resting(r) /\ th[t].op = "create" /\ nkeys \in Nat
      /\ th[t] \in ThreadRec /\ slot \in [Slots -> SlotRec]
  BY SectionRests DEF CreateObject, InSection, IInv, TypeOK
<1>2. issued' = issued /\ UNCHANGED <<snap, disk>>
  BY DEF CreateObject, saveVars
<1>3. PICK K : K = {k}
  OBVIOUS
<1>4. PICK N : N = {}
  OBVIOUS
<1>5. \A h \in issued' : h \in issued \/ (th[t].op = "create" /\ h.key = th[t].key)
  BY <1>2
<1>6. ASSUME NEW st, NEW q, Leave(t, q, "commit", st)
      PROVE  Named' \subseteq Named
  <2>1. PICK c : c = [th[t] EXCEPT !.pc = "commit", !.st = st]
    OBVIOUS
  <2>2. Go(t, c) /\ c.op = "create" /\ c.key = th[t].key
    BY <1>1, <1>6, <2>1 DEF Leave, ThreadRec
  <2>3. Named' \subseteq Named \cup N
    BY <1>1, <1>5, <2>2, NamesKept
  <2> QED BY <1>4, <2>3
<1>7. CASE Refused(t) /\ UNCHANGED nkeys
  <2>1. Named' \subseteq Named
    BY <1>6, <1>7 DEF Refused
  <2>2. slot' = slot
    BY <1>1, <1>7 DEF Refused, Leave
  <2> QED BY <1>2, <1>7, <2>1, <2>2 DEF StraysOK, StrayOK
<1>8. ASSUME NEW ev \in {"GENERATE", "LOAD"}, NEW kind \in {"sk", "seed", "hw"},
             Legal(r.state, ev), nkeys' = k, NEW q,
             slot' = [slot EXCEPT ![s] = q], q.key = k,
             Named' \subseteq Named \/ (HoldsKey(q) /\ Named' \subseteq Named \cup K)
      PROVE  StraysOK'
  <2> HIDE DEF s
  <2>1. Named' \subseteq 0..nkeys'
    <3>1. Named \subseteq 0..nkeys /\ 0..nkeys \subseteq 0..k /\ k \in 0..k
      BY <1>1 DEF StraysOK
    <3> HIDE DEF k
    <3>2. Named' \subseteq Named \cup K /\ nkeys' = k
      BY <1>8
    <3> QED BY <1>3, <3>1, <3>2
  <2>2. ASSUME NEW x, StrayOK(x) PROVE StrayOK(x)'
    <3>1. x.key \in 0..nkeys' /\ x.key # k
      BY <1>1, <1>8, <2>2 DEF StrayOK
    <3> QED BY <1>3, <1>8, <2>2, <3>1 DEF StrayOK, Stray
  <2>3. StrayOK(q)'
    <3>1. k \notin Named /\ k \in 0..k
      BY <1>1 DEF StraysOK
    <3> QED BY <1>8, <3>1 DEF StrayOK, Stray
  <2>4. ASSUME NEW u \in Slots PROVE StrayOK(slot[u])'
    <3>1. slot'[u] = IF u = s THEN q ELSE slot[u]
      BY <1>1, <1>8
    <3>2. CASE u = s
      BY <2>3, <3>1, <3>2 DEF StrayOK
    <3>3. CASE u # s
      <4>1. PICK x : x = slot[u]
        OBVIOUS
      <4>2. StrayOK(x)'
        BY <2>2, <4>1 DEF StraysOK
      <4> QED BY <3>1, <3>3, <4>1, <4>2 DEF StrayOK
    <3> QED BY <3>2, <3>3
  <2>5. ASSUME NEW u \in Slots PROVE StrayOK(snap[u])' /\ StrayOK(disk[u])'
    <3>1. PICK x, y : x = snap[u] /\ y = disk[u]
      OBVIOUS
    <3>2. StrayOK(x)' /\ StrayOK(y)'
      BY <2>2, <3>1 DEF StraysOK
    <3> QED BY <1>2, <3>1, <3>2 DEF StrayOK
  <2> QED BY <2>1, <2>4, <2>5 DEF StraysOK, StrayOK
<1>9. \/ Refused(t) /\ UNCHANGED nkeys
      \/ \E ev \in {"GENERATE", "LOAD"}, kind \in {"sk", "seed", "hw"}, ok \in BOOLEAN :
           /\ Legal(r.state, ev) /\ nkeys' = k
           /\ \/ /\ slot' = [slot EXCEPT ![s] = install_key(r, ev, k, kind, ok)]
                 /\ Go(t, made)
              \/ Leave(t, install_key_undone(r, ev, k, kind, ok), "commit", "CRYPTO")
  <2>1. KeyKinds \subseteq {"sk", "seed", "hw"}
    BY ConstantsAssumption
  <2> QED BY <2>1, KdrAnswers DEF CreateObject
<1>10. ASSUME NEW ev \in {"GENERATE", "LOAD"}, NEW kind \in {"sk", "seed", "hw"},
              NEW ok \in BOOLEAN, Legal(r.state, ev), nkeys' = k
       PROVE  /\ /\ slot' = [slot EXCEPT ![s] = install_key(r, ev, k, kind, ok)]
                 /\ Go(t, made)
                 => StraysOK'
              /\ Leave(t, install_key_undone(r, ev, k, kind, ok), "commit", "CRYPTO")
                 => StraysOK'
  <2>0. k \in Nat \ {0}
    BY <1>1
  <2>1. PICK q, u : q = install_key(r, ev, k, kind, ok) /\ u = install_key_undone(r, ev, k, kind, ok)
    OBVIOUS
  <2>2. q.key = k /\ u.key = k /\ HoldsKey(q)
    <3> HIDE DEF k
    <3> QED BY <1>1, <1>10, <2>0, <2>1, InstallKeyStep DEF HoldsKey
  <2>3. ASSUME Leave(t, u, "commit", "CRYPTO") PROVE StraysOK'
    <3>1. Named' \subseteq Named /\ slot' = [slot EXCEPT ![s] = u]
      BY <1>6, <2>3 DEF Leave
    <3> QED BY <1>8, <1>10, <2>2, <3>1
  <2>4. ASSUME slot' = [slot EXCEPT ![s] = q], Go(t, made) PROVE StraysOK'
    <3>1. PICK c : c = made
      OBVIOUS
    <3>2. Go(t, c) /\ c.op = "create" /\ c.key \in K
      BY <1>1, <1>3, <2>4, <3>1 DEF ThreadRec
    <3>3. Named' \subseteq Named \cup K
      BY <1>5, <3>2, NamesKept
    <3> QED BY <1>8, <1>10, <2>2, <2>4, <3>3
  <2> QED BY <2>1, <2>3, <2>4
<1> QED BY <1>7, <1>9, <1>10

\* Every other step of a process that runs, and a restart.
LEMMA StraysStep == IInv /\ KeysOK /\ StraysOK /\ [Next]_vars => StraysOK'
<1> SUFFICES ASSUME IInv, KeysOK, StraysOK, [Next]_vars PROVE StraysOK'
  OBVIOUS
<1>0. nkeys \in Nat
  BY DEF IInv, TypeOK
<1>1. CASE UNCHANGED vars
  BY <1>1 DEF vars, StraysOK, StrayOK, Named
<1>2. CASE Restart
  <2>1. /\ slot' = [s \in Slots |-> slot_reseal(disk[s], TRUE)] /\ snap' = disk /\ disk' = disk
        /\ th' = [t \in Threads |-> Idle] /\ nkeys' = nkeys /\ issued' = issued
    BY <1>2 DEF Restart
  <2>2. Named' \subseteq Named
    BY <2>1 DEF Named, Idle
  <2>3. \A s \in Slots : StrayOK(slot_reseal(disk[s], TRUE)) /\ StrayOK(disk[s])
    BY <1>0, StrayCopied DEF StraysOK, KeysOK, IInv, RecordsOK, Resting
  <2> QED BY <2>1, <2>2, <2>3 DEF StraysOK, StrayOK
<1>3. ASSUME NEW t \in Threads, (Step(t) /\ ~CreateObject(t)) \/ Other(t) PROVE StraysOK'
  <2>1. Named' \subseteq Named \cup {0} /\ nkeys' = nkeys
    BY <1>3, StepNames, OtherNames
  <2>2. ASSUME NEW r, StrayOK(r), KeyKind(r) PROVE StrayOK(r)'
    BY <2>1, <2>2 DEF StrayOK, Stray, KeyKind
  <2>3. ASSUME NEW s \in Slots PROVE StrayOK(slot[s])'
    <3>1. OwnSlot(t)
      BY <1>3, StepOwns, SlotsAlone, OtherFrame
    <3>2. ~CreateObject(t) \/ slot' = slot
      BY <1>3, OtherFrame
    <3>3. KeyKept(slot[s], slot'[s])
      BY <3>1, <3>2 DEF OwnSlot, KeyKept, KeyStays
    <3>4. StrayOK(slot[s]) /\ KeyKind(slot[s])
      BY DEF StraysOK, KeysOK
    <3>5. PICK q : q = slot'[s]
      OBVIOUS
    <3>6. StrayOK(q)'
      BY <2>1, <3>3, <3>4, <3>5, StrayKept
    <3> QED BY <3>5, <3>6 DEF StrayOK
  <2>4. \/ UNCHANGED <<snap, disk>>
        \/ snap' = disk /\ disk' = disk
        \/ disk' = snap /\ snap' = snap
        \/ /\ cursor \in Slots /\ disk' = disk
           /\ snap' = [snap EXCEPT ![cursor] = slot_serialize(slot[cursor])]
    BY <1>3, OtherFrame DEF Step, InitToken, SetUserPin, Login, BeginUse, EndUse, Destroy,
       Zeroize, DropSessions, Unlock, CommitSkipped, CommitBegin, SaveSlot,
       SavePublish, CommitEnd, SetSessionRole, saveVars
  <2>5. \A s \in Slots : /\ StrayOK(slot_serialize(slot[s]))
                         /\ KeyKind(slot_serialize(slot[s]))
    BY <1>0, StrayCopied, CopyKeys DEF StraysOK, KeysOK, IInv, RecordsOK
  <2>6. \A s \in Slots : /\ StrayOK(snap'[s]) /\ KeyKind(snap'[s])
                         /\ StrayOK(disk'[s]) /\ KeyKind(disk'[s])
    BY <2>4, <2>5 DEF StraysOK, KeysOK, IInv, TypeOK
  <2>7. ASSUME NEW s \in Slots PROVE StrayOK(snap[s])' /\ StrayOK(disk[s])'
    <3>1. PICK x, y : x = snap'[s] /\ y = disk'[s]
      OBVIOUS
    <3>2. StrayOK(x)' /\ StrayOK(y)'
      BY <2>2, <2>6, <3>1
    <3> QED BY <3>1, <3>2 DEF StrayOK
  <2>8. Named' \subseteq 0..nkeys'
    BY <1>0, <2>1 DEF StraysOK
  <2> QED BY <2>3, <2>7, <2>8 DEF StraysOK, StrayOK
<1>4. ASSUME NEW t \in Threads, CreateObject(t) PROVE StraysOK'
  BY <1>4, CreateStrays
<1> QED BY <1>1, <1>2, <1>3, <1>4, NextCases

\* No key that was given out is ever left where its slot's state says there is none, in
\* memory or in the file: whatever fails, and for any number of threads, only a
\* create_object that could not seal its slot leaves a key behind, and no handle names
\* that one.  A zeroized slot has neither key nor PIN, sealed or not.
THEOREM NoGivenKeyIsLeftBehind == Spec => []StrayKeysUnreachable
<1>1. Init => StraysOK
  BY DEF Init, StraysOK, StrayOK, Stray, Named, FreshSlot, Idle
<1>2. Spec => []StraysOK
  BY <1>1, StraysStep, KeysHold, Inductive, PTL DEF Spec
<1>3. IInv /\ StraysOK => StrayKeysUnreachable
  BY DEF IInv, RecordsOK, Resting, Good, RecOK, StraysOK, StrayOK, Stray, Named,
         StrayKeysUnreachable
<1> QED BY <1>2, <1>3, Inductive, PTL
-----------------------------------------------------------------------------
(* Logins.                                                                  *)

\* The steps that change the session table; every other leaves it.
LEMMA SessionSteps ==
  ASSUME NEW t \in Threads, Step(t) \/ Other(t)
  PROVE  \/ UNCHANGED sessions
         \/ \E s \in Slots, i \in 1..MAX_SESSIONS :
              /\ sessions' = [sessions EXCEPT ![i] =
                   [ClosedSession EXCEPT !.open = TRUE, !.slot = s, !.gen = session_gen + 1]]
              /\ ~sessions[i].open /\ session_gen' = session_gen + 1 /\ th[t].pc = "idle"
              /\ UNCHANGED th
         \/ \E i \in 1..MAX_SESSIONS :
              /\ \/ sessions' = [sessions EXCEPT ![i] = ClosedSession]
                 \/ sessions' = [sessions EXCEPT ![i] = LoggedOut(sessions[i])]
              /\ th[t].pc = "idle" /\ UNCHANGED <<th, session_gen>>
         \/ sessions' = drop_sessions_on_slot(th[t].slot) /\ DropSessions(t)
         \/ /\ SetSessionRole(t) /\ SessionValid(th[t].sess)
            /\ sessions' = [sessions EXCEPT ![th[t].sess.idx] =
                 WithRole(sessions[th[t].sess.idx], th[t].role, th[t].sess.gen, th[t].era)]
<1>1. CASE Other(t)
  <2>1. ASSUME NEW s \in Slots, SessionOpen(t, s)
        PROVE \E i \in 1..MAX_SESSIONS :
              /\ sessions' = [sessions EXCEPT ![i] =
                   [ClosedSession EXCEPT !.open = TRUE, !.slot = s, !.gen = session_gen + 1]]
              /\ ~sessions[i].open /\ session_gen' = session_gen + 1 /\ th[t].pc = "idle"
              /\ UNCHANGED th
    BY <2>1 DEF SessionOpen
  <2>2. ASSUME NEW i \in 1..MAX_SESSIONS, SessionClose(t, i)
        PROVE /\ sessions' = [sessions EXCEPT ![i] = ClosedSession]
              /\ th[t].pc = "idle" /\ UNCHANGED <<th, session_gen>>
    BY <2>2 DEF SessionClose
  <2>3. ASSUME NEW i \in 1..MAX_SESSIONS, SessionLogout(t, i)
        PROVE /\ sessions' = [sessions EXCEPT ![i] = LoggedOut(sessions[i])]
              /\ th[t].pc = "idle" /\ UNCHANGED <<th, session_gen>>
    BY <2>3 DEF SessionLogout
  <2>4. ASSUME NEW op, NEW i, Call(t, op, i) \/ CallWithoutSession(t, op, i)
        PROVE  UNCHANGED sessions
    BY <2>4 DEF Call, CallWithoutSession, sessionVars
  <2> QED BY <1>1, <2>1, <2>2, <2>3, <2>4, Zenon DEF Other
<1>2. CASE Step(t)
  <2>1. CASE DropSessions(t)
    BY <2>1 DEF DropSessions
  <2>2. CASE SetSessionRole(t)
    BY <2>2 DEF SetSessionRole
  <2>3. CASE ~DropSessions(t) /\ ~SetSessionRole(t)
    BY <1>2, <2>3 DEF Step, InitToken, SetUserPin, Login, CreateObject, BeginUse, EndUse,
       Destroy, Zeroize, Unlock, CommitSkipped, CommitBegin, SaveSlot, SavePublish, CommitEnd,
       sessionVars
  <2> QED BY <2>1, <2>2, <2>3
<1> QED BY <1>1, <1>2

\* A session with a role got it from a login that named it.
OwnRole(x) == x.role # "PUBLIC" => x.open /\ x.by = x.gen

\* The records the calls make of a session.
LEMMA OwnRoles ==
  ASSUME NEW x \in SessionRec
  PROVE  /\ OwnRole(ClosedSession) /\ OwnRole(LoggedOut(x))
         /\ \A s, g : OwnRole([ClosedSession EXCEPT !.open = TRUE, !.slot = s, !.gen = g])
         /\ \A role, e : x.open => OwnRole(WithRole(x, role, x.gen, e))
BY DEF OwnRole, ClosedSession, LoggedOut, WithRole, SessionRec

\* No login sets the role of a session it did not name: set_session_role compares the
\* generation of the entry, which another session in the same entry does not have.
THEOREM LoginsAreOwn == Spec => []LoginIsOwn
<1> DEFINE R == \A i \in 1..MAX_SESSIONS : OwnRole(sessions[i])
<1>1. Init => R
  BY DEF Init, OwnRole, ClosedSession
<1>2. IInv /\ R /\ [Next]_vars => R'
  <2> SUFFICES ASSUME IInv, R, [Next]_vars PROVE R'
    OBVIOUS
  <2>1. CASE UNCHANGED vars
    BY <2>1 DEF vars, OwnRole
  <2>2. CASE Restart
    BY <2>2 DEF Restart, OwnRole, ClosedSession
  <2>3. ASSUME NEW t \in Threads, Step(t) \/ Other(t) PROVE R'
    <3>0. /\ sessions \in [1..MAX_SESSIONS -> SessionRec]
          /\ \A i \in 1..MAX_SESSIONS : sessions[i] \in SessionRec /\ OwnRole(sessions[i])
      BY DEF IInv, TypeOK
    <3>1. CASE UNCHANGED sessions
      BY <3>1 DEF OwnRole
    <3>2. ASSUME NEW i \in 1..MAX_SESSIONS, NEW y, OwnRole(y), sessions' = [sessions EXCEPT ![i] = y]
          PROVE  R'
      <4>1. \A j \in 1..MAX_SESSIONS : sessions'[j] = IF j = i THEN y ELSE sessions[j]
        BY <3>0, <3>2
      <4> QED BY <3>0, <3>2, <4>1 DEF OwnRole
    <3>3. ASSUME sessions' = drop_sessions_on_slot(th[t].slot)
          PROVE  R'
      <4>1. \A j \in 1..MAX_SESSIONS : sessions'[j] \in {LoggedOut(sessions[j]), sessions[j]}
        BY <3>3 DEF drop_sessions_on_slot
      <4>2. \A j \in 1..MAX_SESSIONS : OwnRole(sessions'[j])
        BY <3>0, <4>1, OwnRoles
      <4> QED BY <4>2 DEF OwnRole
    <3>4. ASSUME SessionValid(th[t].sess),
                 sessions' = [sessions EXCEPT ![th[t].sess.idx] =
                   WithRole(sessions[th[t].sess.idx], th[t].role, th[t].sess.gen, th[t].era)]
          PROVE  R'
      <4>1. th[t].sess.idx \in 1..MAX_SESSIONS
        BY DEF IInv, TypeOK, ThreadRec
      <4>2. sessions[th[t].sess.idx].open /\ sessions[th[t].sess.idx].gen = th[t].sess.gen
        BY <3>4 DEF SessionValid
      <4>3. OwnRole(WithRole(sessions[th[t].sess.idx], th[t].role, th[t].sess.gen, th[t].era))
        BY <3>0, <4>1, <4>2, OwnRoles
      <4> QED BY <3>2, <3>4, <4>1, <4>3
    <3>5. \/ UNCHANGED sessions
          \/ \E i \in 1..MAX_SESSIONS : \E y : OwnRole(y) /\ sessions' = [sessions EXCEPT ![i] = y]
          \/ sessions' = drop_sessions_on_slot(th[t].slot)
          \/ /\ SessionValid(th[t].sess)
             /\ sessions' = [sessions EXCEPT ![th[t].sess.idx] =
                   WithRole(sessions[th[t].sess.idx], th[t].role, th[t].sess.gen, th[t].era)]
      <4>1. 1 \in 1..MAX_SESSIONS
        BY ConstantsAssumption
      <4>2. /\ OwnRole(ClosedSession)
            /\ \A s, g : OwnRole([ClosedSession EXCEPT !.open = TRUE, !.slot = s, !.gen = g])
            /\ \A i \in 1..MAX_SESSIONS : OwnRole(LoggedOut(sessions[i]))
        BY <3>0, <4>1, OwnRoles
      <4> QED BY <2>3, <4>2, SessionSteps, Zenon
    <3> QED BY <3>1, <3>2, <3>3, <3>4, <3>5
  <2> QED BY <2>1, <2>2, <2>3, NextCases
<1>3. R => LoginIsOwn
  BY DEF LoginIsOwn, OwnRole
<1>4. Spec => []R
  BY <1>1, <1>2, Inductive, PTL DEF Spec
<1> QED BY <1>3, <1>4, PTL
-----------------------------------------------------------------------------
(* Handles.                                                                 *)

\* A handle is of this generation, and then the slot has its key (or none, where the key
\* lived in hardware and the process was started again), or of an earlier one.
HandleGood(r, g, k) ==
  /\ g <= r.generation
  /\ g = r.generation => HoldsKey(r) /\ r.key \in {k, 0}

\* A step keeps every handle good: a key is installed only where no handle of this
\* generation is, and goes only with the generation.
LEMMA HandleKept ==
  ASSUME NEW r, NEW q, KeyStep(r, q), NEW g \in Nat, r.generation \in Nat, NEW k,
         HandleGood(r, g, k)
  PROVE  HandleGood(q, g, k)
BY DEF KeyStep, KeyKept, KeyStays, KeyMade, KeyGone, HandleGood

\* What a call knows of the key it works with: a key made and not yet announced, a handle
\* it was given, the key it uses.
CallOK(c) ==
  /\ c.op = "create" /\ c.pc \in {"commit", "save", "unbusy"} /\ c.st = "OK" =>
       HandleGood(slot[c.slot], c.handle, c.key)
  /\ c.op \in {"use", "destroy"} /\ c.pc = "cs" =>
       [slot |-> c.slot, gen |-> c.handle, key |-> c.key] \in issued
  /\ c.pc = "using" => slot[c.slot].key = c.key
  /\ c.pc = "drop" => c.op # "create"

HandlesOK ==
  /\ \A h \in issued : HandleGood(slot[h.slot], h.gen, h.key)
  /\ \A t \in Threads : CallOK(th[t])

\* A call that does nothing keeps what it knows, while nobody changes the slot it is inside.
LEMMA CallKept ==
  ASSUME IInv, NEW c \in ThreadRec, CallOK(c), issued \subseteq issued',
         \A s \in Slots : KeyStep(slot[s], slot'[s]),
         c.pc = "using" => slot'[c.slot] = slot[c.slot]
  PROVE  CallOK(c)'
<1>1. c.slot \in Slots /\ c.handle \in Nat /\ slot[c.slot].generation \in Nat
  <2>1. c.slot \in Slots /\ c.handle \in Nat
    BY DEF ThreadRec
  <2> QED BY <2>1 DEF IInv, RecordsOK, Good, SlotRec
<1>2. HandleGood(slot[c.slot], c.handle, c.key) => HandleGood(slot'[c.slot], c.handle, c.key)
  BY <1>1, HandleKept
<1> QED BY <1>2 DEF CallOK

\* A call that has ended, was refused, or does not work with a key knows nothing.
LEMMA NothingKnown ==
  ASSUME NEW c, c.pc # "using", c.pc = "drop" => c.op # "create",
         c.op # "create" \/ c.st # "OK" \/ c.pc \notin {"commit", "save", "unbusy"},
         c.op \notin {"use", "destroy"} \/ c.pc # "cs"
  PROVE  CallOK(c)'
BY DEF CallOK

\* create_object either installs a key and knows its handle, or was refused.
LEMMA CreateKnows ==
  ASSUME IInv, NEW t \in Threads, CreateObject(t)
  PROVE  \E c : Go(t, c) /\ CallOK(c)'
<1> DEFINE s == th[t].slot
           r == slot[s]
           k == nkeys + 1
           made == [th[t] EXCEPT !.pc = "commit", !.key = k, !.handle = r.generation]
<1>1. th[t] \in ThreadRec /\ s \in Slots /\ r.generation \in Nat /\ Resting(r)
      /\ k \in Nat \ {0} /\ slot \in [Slots -> SlotRec] /\ th[t].op = "create"
  <2>1. s \in Slots /\ Resting(r) /\ th[t].op = "create"
    BY SectionRests DEF CreateObject, InSection
  <2>2. k \in Nat \ {0} /\ th[t] \in ThreadRec /\ slot \in [Slots -> SlotRec]
    BY DEF IInv, TypeOK
  <2> QED BY <2>1, <2>2 DEF Resting, Good, SlotRec
<1>2. ASSUME NEW q, NEW st \in {"DENIED", "CRYPTO"}, Leave(t, q, "commit", st)
      PROVE  \E c : Go(t, c) /\ CallOK(c)'
  <2>1. PICK c : c = [th[t] EXCEPT !.pc = "commit", !.st = st]
    OBVIOUS
  <2>2. Go(t, c) /\ c.st # "OK" /\ c.pc = "commit" /\ c.op = "create"
    BY <1>1, <1>2, <2>1 DEF Leave, ThreadRec
  <2>3. CallOK(c)'
    BY <2>2, NothingKnown
  <2> QED BY <2>2, <2>3
<1>3. ASSUME NEW ev \in {"GENERATE", "LOAD"}, NEW kind \in KeyKinds, Legal(r.state, ev),
             slot' = [slot EXCEPT ![s] = install_key(r, ev, k, kind, TRUE)], Go(t, made)
      PROVE  \E c : Go(t, c) /\ CallOK(c)'
  <2>1. kind \in {"sk", "seed", "hw"}
    BY ConstantsAssumption
  <2> HIDE DEF k
  <2>10. PICK ok \in BOOLEAN : ok = TRUE
    OBVIOUS
  <2>0. PICK q : q = install_key(r, ev, k, kind, ok)
    OBVIOUS
  <2>2. q.generation = r.generation /\ q.key = k /\ q.state = "LOADED"
    <3>1. PICK x : x = r
      OBVIOUS
    <3>2. Resting(x) /\ Legal(x.state, ev) /\ k \in Nat \ {0}
      BY <1>1, <1>3, <3>1
    <3>3. /\ install_key(x, ev, k, kind, ok).generation = x.generation
          /\ install_key(x, ev, k, kind, ok).key = k
          /\ install_key(x, ev, k, kind, ok).state = "LOADED"
      BY <2>1, <3>2, InstallKeyStep
    <3> QED BY <2>0, <3>1, <3>3
  <2>3. slot'[s] = q
    BY <1>1, <1>3, <2>0, <2>10
  <2>4. HandleGood(slot'[s], r.generation, k)
    BY <1>1, <2>2, <2>3 DEF HandleGood, HoldsKey
  <2>5. PICK g : g = r.generation
    OBVIOUS
  <2>6. PICK c : c = made
    OBVIOUS
  <2>7. /\ c.slot = s /\ c.handle = g /\ c.key = k /\ c.pc = "commit" /\ c.op = "create"
    BY <1>1, <2>5, <2>6 DEF ThreadRec
  <2>8. PICK n : n = s
    OBVIOUS
  <2>9. CallOK(c)'
    BY <2>4, <2>5, <2>7, <2>8 DEF CallOK
  <2> QED BY <1>3, <2>6, <2>9
<1>4. \/ \E st \in {"DENIED", "CRYPTO"} : \E q : Leave(t, q, "commit", st)
      \/ \E ev \in {"GENERATE", "LOAD"}, kind \in KeyKinds :
           /\ Legal(r.state, ev)
           /\ slot' = [slot EXCEPT ![s] = install_key(r, ev, k, kind, TRUE)] /\ Go(t, made)
  <2>1. CASE Refused(t)
    BY <2>1 DEF Refused
  <2>2. CASE \E ev \in {"GENERATE", "LOAD"}, kind \in KeyKinds, again \in Kdr :
               Leave(t, install_key_undone(r, ev, k, kind, again), "commit", "CRYPTO")
    BY <2>2
  <2> QED BY <2>1, <2>2, KdrAnswers DEF CreateObject
<1> QED BY <1>2, <1>3, <1>4

\* begin_use compares the handle with the slot: what it goes on with is the handle's key.
LEMMA UseKnows ==
  ASSUME IInv, KeysOK, HandlesOK, NEW t \in Threads, BeginUse(t)
  PROVE  \E c : Go(t, c) /\ CallOK(c)'
<1> DEFINE s == th[t].slot
           r == slot[s]
<1>1. /\ th[t] \in ThreadRec /\ s \in Slots /\ Good(r) /\ KeyKind(r) /\ CallOK(th[t])
      /\ th[t].op = "use" /\ th[t].pc = "cs" /\ slot \in [Slots -> SlotRec]
  <2>1. th[t] \in ThreadRec /\ s \in Slots /\ slot \in [Slots -> SlotRec]
    BY DEF IInv, TypeOK, ThreadRec
  <2> QED BY <2>1 DEF IInv, RecordsOK, KeysOK, HandlesOK, BeginUse, InSection
<1>2. CASE Go(t, Idle)
  <2>1. CallOK(Idle)'
    BY NothingKnown DEF Idle
  <2> QED BY <1>2, <2>1
<1>3. CASE /\ check_handle(r, th[t].handle, TRUE) /\ Legal(r.state, "USE_BEGIN") /\ r.kind # "none"
           /\ Leave(t, fsm_apply(r, "USE_BEGIN"), "using", "OK")
  <2>1. [slot |-> s, gen |-> th[t].handle, key |-> th[t].key] \in issued
    BY <1>1 DEF CallOK
  <2>2. HandleGood(r, th[t].handle, th[t].key)
    BY <2>1 DEF HandlesOK
  <2>3. r.key = th[t].key
    BY <1>1, <1>3, <2>2 DEF HandleGood, check_handle, KeyKind
  <2>4. slot' = [slot EXCEPT ![s] = fsm_apply(r, "USE_BEGIN")]
    BY <1>3 DEF Leave
  <2>5. slot'[s].key = r.key
    BY <1>1, <1>3, <2>4, UseKeyStep DEF KeyStays
  <2>6. PICK c : c = [th[t] EXCEPT !.pc = "using", !.st = "OK"]
    OBVIOUS
  <2>7. Go(t, c) /\ c.pc = "using" /\ c.slot = s /\ c.key = th[t].key
    BY <1>1, <1>3, <2>6 DEF Leave, ThreadRec
  <2>8. CallOK(c)'
    BY <2>3, <2>5, <2>7 DEF CallOK
  <2> QED BY <2>7, <2>8
<1>4. \A seen : check_handle(r, th[t].handle, seen) => check_handle(r, th[t].handle, TRUE)
  BY DEF check_handle, Intact
<1> QED BY <1>2, <1>3, <1>4 DEF BeginUse

\* A commit carries what the call knows to its end.
LEMMA CommitKnows ==
  ASSUME IInv, HandlesOK, NEW t \in Threads,
         CommitSkipped(t) \/ CommitBegin(t) \/ SaveSlot(t) \/ SavePublish(t) \/ CommitEnd(t)
  PROVE  /\ \E c : Go(t, c) /\ CallOK(c)'
         /\ issued \subseteq issued'
         /\ \A h \in issued' : HandleGood(slot'[h.slot], h.gen, h.key)
<1>1. th[t] \in ThreadRec /\ CallOK(th[t]) /\ UNCHANGED slot /\ th \in [Threads -> ThreadRec]
      /\ th[t].pc \in {"commit", "save", "unbusy"}
  BY DEF IInv, TypeOK, HandlesOK, CommitSkipped, CommitBegin, SaveSlot, SavePublish, CommitEnd
<1>2. ASSUME NEW c, Go(t, c), c.op = th[t].op, c.slot = th[t].slot, c.handle = th[t].handle,
             c.key = th[t].key, c.st = "OK" => th[t].st = "OK",
             c.pc \in {"commit", "save", "unbusy", "role"}
      PROVE  \E d : Go(t, d) /\ CallOK(d)'
  <2>1. CallOK(c)'
    BY <1>1, <1>2 DEF CallOK
  <2> QED BY <1>2, <2>1
<1>3. ASSUME UNCHANGED issued
      PROVE  issued \subseteq issued' /\ \A h \in issued' : HandleGood(slot'[h.slot], h.gen, h.key)
  BY <1>1, <1>3 DEF HandlesOK
<1>4. CASE CommitSkipped(t) \/ CommitEnd(t)
  <2>1. Returned(t, th[t].st) /\ th[t].pc \in {"commit", "unbusy"}
    BY <1>4 DEF CommitSkipped, CommitEnd
  <2>2. CASE th[t].ok
    <3> DEFINE c == [th[t] EXCEPT !.pc = "role", !.st = th[t].st]
    <3>1. Go(t, c) /\ UNCHANGED issued
      BY <2>1, <2>2 DEF Returned
    <3>2. /\ c.op = th[t].op /\ c.slot = th[t].slot /\ c.handle = th[t].handle
          /\ c.key = th[t].key /\ c.st = th[t].st /\ c.pc = "role"
      BY <1>1 DEF ThreadRec
    <3> HIDE DEF c
    <3> QED BY <1>2, <1>3, <3>1, <3>2
  <2>3. CASE ~th[t].ok
    <3>1. Go(t, Idle) /\ CallOK(Idle)'
      BY <2>1, <2>3, NothingKnown DEF Returned, Idle
    <3>2. \/ UNCHANGED issued
          \/ /\ th[t].op = "create" /\ th[t].st = "OK"
             /\ issued' = issued \cup {[slot |-> th[t].slot, gen |-> th[t].handle,
                                        key |-> th[t].key]}
      BY <2>1, <2>3 DEF Returned
    <3>3. CASE UNCHANGED issued
      BY <1>3, <3>1, <3>3
    <3>4. CASE /\ th[t].op = "create" /\ th[t].st = "OK"
               /\ issued' = issued \cup {[slot |-> th[t].slot, gen |-> th[t].handle,
                                          key |-> th[t].key]}
      <4>1. HandleGood(slot[th[t].slot], th[t].handle, th[t].key)
        BY <1>1, <3>4 DEF CallOK
      <4>2. \A h \in issued' : HandleGood(slot'[h.slot], h.gen, h.key)
        BY <1>1, <3>4, <4>1 DEF HandlesOK
      <4> QED BY <3>1, <3>4, <4>2
    <3> QED BY <3>2, <3>3, <3>4
  <2> QED BY <2>2, <2>3
<1>5. CASE CommitBegin(t)
  <2> DEFINE c == [th[t] EXCEPT !.pc = "save"]
  <2>1. Go(t, c) /\ UNCHANGED issued
    BY <1>5 DEF CommitBegin
  <2>2. /\ c.op = th[t].op /\ c.slot = th[t].slot /\ c.handle = th[t].handle
        /\ c.key = th[t].key /\ c.st = th[t].st /\ c.pc = "save"
    BY <1>1 DEF ThreadRec
  <2> HIDE DEF c
  <2> QED BY <1>2, <1>3, <2>1, <2>2
<1>6. CASE SaveSlot(t) \/ SavePublish(t)
  <2> DEFINE c == [th[t] EXCEPT !.pc = "unbusy"]
             d == [th[t] EXCEPT !.pc = "unbusy", !.st = commit_failed(@)]
  <2>1. (Go(t, c) \/ Go(t, d) \/ UNCHANGED th) /\ UNCHANGED issued
    BY <1>6 DEF SaveSlot, SavePublish
  <2>2. /\ c.op = th[t].op /\ c.slot = th[t].slot /\ c.handle = th[t].handle
        /\ c.key = th[t].key /\ c.st = th[t].st /\ c.pc = "unbusy"
    BY <1>1 DEF ThreadRec
  <2>3. /\ d.op = th[t].op /\ d.slot = th[t].slot /\ d.handle = th[t].handle
        /\ d.key = th[t].key /\ (d.st = "OK" => th[t].st = "OK") /\ d.pc = "unbusy"
    BY <1>1 DEF ThreadRec, commit_failed
  <2>4. UNCHANGED th => Go(t, th[t])
    BY <1>1 DEF Go
  <2> HIDE DEF c, d
  <2>5. CASE Go(t, c)
    BY <1>2, <1>3, <2>1, <2>2, <2>5
  <2>6. CASE Go(t, d)
    BY <1>2, <1>3, <2>1, <2>3, <2>6
  <2>7. CASE UNCHANGED th
    BY <1>1, <1>2, <1>3, <2>1, <2>4, <2>7
  <2> QED BY <2>1, <2>5, <2>6, <2>7
<1> QED BY <1>4, <1>5, <1>6

\* The other steps of a call: what they go on with works with no key, or with the one of a
\* handle that was issued.
LEMMA StepKnows ==
  ASSUME IInv, KeysOK, HandlesOK, NEW t \in Threads, Step(t)
  PROVE  \E c : Go(t, c) /\ CallOK(c)'
<1>1. th[t] \in ThreadRec /\ CallOK(th[t])
  BY DEF IInv, TypeOK, HandlesOK
<1>2. CASE CreateObject(t)
  BY <1>2, CreateKnows
<1>3. CASE BeginUse(t)
  BY <1>3, UseKnows
<1>4. CASE CommitSkipped(t) \/ CommitBegin(t) \/ SaveSlot(t) \/ SavePublish(t) \/ CommitEnd(t)
  BY <1>4, CommitKnows
<1>5. ASSUME Go(t, Idle) PROVE \E c : Go(t, c) /\ CallOK(c)'
  <2>1. CallOK(Idle)'
    BY NothingKnown DEF Idle
  <2> QED BY <1>5, <2>1
<1>6. CASE EndUse(t) \/ SetSessionRole(t)
  BY <1>5, <1>6 DEF EndUse, SetSessionRole
<1>7. ASSUME NEW r, NEW st, NEW pc \in {"commit", "drop"}, Leave(t, r, pc, st),
             th[t].op # "create"
      PROVE  \E c : Go(t, c) /\ CallOK(c)'
  <2>1. PICK c : c = [th[t] EXCEPT !.pc = pc, !.st = st]
    OBVIOUS
  <2>2. Go(t, c) /\ c.op = th[t].op /\ c.pc = pc
    BY <1>1, <1>7, <2>1 DEF Leave, ThreadRec
  <2>3. CallOK(c)'
    BY <1>7, <2>2, NothingKnown
  <2> QED BY <2>2, <2>3
<1>8. CASE \/ InitToken(t) \/ SetUserPin(t) \/ Destroy(t) \/ Zeroize(t) \/ Unlock(t)
  <2>1. \E r, st : Leave(t, r, "commit", st) \/ Leave(t, r, "drop", st)
    BY <1>8, Zenon DEF InitToken, SetUserPin, Destroy, Zeroize, Unlock, Refused
  <2>2. th[t].op # "create"
    BY <1>8 DEF InitToken, SetUserPin, Destroy, Zeroize, Unlock, InSection
  <2> QED BY <1>7, <2>1, <2>2
<1>9. CASE Login(t)
  <2>1. th[t].op = "login"
    BY <1>9 DEF Login, InSection
  <2>2. \/ Go(t, Idle)
        \/ \E r : Leave(t, r, "commit", "WRONG_PIN")
        \/ \E st : Go(t, [th[t] EXCEPT !.pc = "commit", !.ok = TRUE, !.era = era[th[t].slot],
                                       !.st = st])
    BY <1>9 DEF Login
  <2>3. ASSUME NEW st,
               Go(t, [th[t] EXCEPT !.pc = "commit", !.ok = TRUE, !.era = era[th[t].slot],
                                   !.st = st])
        PROVE  \E c : Go(t, c) /\ CallOK(c)'
    <3>1. PICK c : c = [th[t] EXCEPT !.pc = "commit", !.ok = TRUE, !.era = era[th[t].slot],
                                     !.st = st]
      OBVIOUS
    <3>2. Go(t, c) /\ c.op = "login" /\ c.pc = "commit"
      BY <1>1, <2>1, <2>3, <3>1 DEF ThreadRec
    <3>3. CallOK(c)'
      BY <3>2, NothingKnown
    <3> QED BY <3>2, <3>3
  <2> QED BY <1>5, <1>7, <2>1, <2>2, <2>3
<1>10. CASE DropSessions(t)
  <2>1. PICK c : c = [th[t] EXCEPT !.pc = "commit"]
    OBVIOUS
  <2>2. Go(t, c) /\ c.op = th[t].op /\ c.pc = "commit" /\ th[t].op # "create"
    BY <1>1, <1>10, <2>1 DEF DropSessions, ThreadRec, CallOK
  <2>3. CallOK(c)'
    BY <2>2, NothingKnown
  <2> QED BY <2>2, <2>3
<1> QED BY <1>2, <1>3, <1>4, <1>6, <1>8, <1>9, <1>10 DEF Step

\* A step that is not part of a call may start one: use and destroy start with a handle
\* that was issued.
LEMMA OtherKnows ==
  ASSUME IInv, HandlesOK, NEW t \in Threads, Other(t)
  PROVE  UNCHANGED th \/ \E c : Go(t, c) /\ CallOK(c)'
<1>1. CASE UNCHANGED th
  BY <1>1
<1>2. ASSUME NEW op \in {"init_token", "zeroize_forced"}, NEW s \in Slots,
             CallWithoutSession(t, op, s)
      PROVE  \E c : Go(t, c) /\ CallOK(c)'
  <2>1. PICK c : c = [Idle EXCEPT !.pc = "cs", !.op = op, !.slot = s]
    OBVIOUS
  <2>2. Go(t, c) /\ c.op = op /\ c.pc = "cs"
    BY <1>2, <2>1 DEF CallWithoutSession, Idle
  <2>3. CallOK(c)'
    BY <2>2, NothingKnown
  <2> QED BY <2>2, <2>3
<1>3. ASSUME NEW op \in SessionOps, NEW i \in 1..MAX_SESSIONS, Call(t, op, i)
      PROVE  \E c : Go(t, c) /\ CallOK(c)'
  <2>1. PICK role, h :
          /\ op \in {"use", "destroy"} => h \in issued /\ h.slot = sessions[i].slot
          /\ Go(t, [Idle EXCEPT !.pc = "cs", !.op = op, !.sess = Handle(i),
                                !.slot = sessions[i].slot, !.role = role,
                                !.handle = h.gen, !.key = h.key])
    BY <1>3 DEF Call
  <2>2. PICK c : c = [Idle EXCEPT !.pc = "cs", !.op = op, !.sess = Handle(i),
                                  !.slot = sessions[i].slot, !.role = role,
                                  !.handle = h.gen, !.key = h.key]
    OBVIOUS
  <2>3. /\ Go(t, c) /\ c.op = op /\ c.pc = "cs" /\ c.slot = sessions[i].slot
        /\ c.handle = h.gen /\ c.key = h.key
    BY <2>1, <2>2 DEF Idle
  <2>4. UNCHANGED issued
    BY <1>3 DEF Call
  <2>5. op \in {"use", "destroy"} => [slot |-> c.slot, gen |-> c.handle, key |-> c.key] = h
    BY <2>1, <2>3 DEF IInv, TypeOK
  <2>6. CallOK(c)'
    BY <2>1, <2>3, <2>4, <2>5 DEF CallOK
  <2> QED BY <2>3, <2>6
<1>4. ASSUME NEW s, SessionOpen(t, s) \/ SessionClose(t, s) \/ SessionLogout(t, s)
      PROVE  UNCHANGED th
  BY <1>4 DEF SessionOpen, SessionClose, SessionLogout
<1> QED BY <1>2, <1>3, <1>4 DEF Other

\* What was issued stays issued, and what is issued is good.
LEMMA IssuedKept ==
  ASSUME IInv, HandlesOK, NEW t \in Threads, Step(t) \/ Other(t)
  PROVE  /\ issued \subseteq issued'
         /\ \A h \in issued' : HandleGood(slot'[h.slot], h.gen, h.key)
<1>1. CASE CommitSkipped(t) \/ CommitBegin(t) \/ SaveSlot(t) \/ SavePublish(t) \/ CommitEnd(t)
  BY <1>1, CommitKnows
<1>2. CASE UNCHANGED issued
  <2>1. \A s \in Slots : KeyStep(slot[s], slot'[s])
    <3>1. OwnSlot(t)
      BY StepOwns, SlotsAlone, OtherFrame
    <3> QED BY <3>1 DEF OwnSlot, KeyStep, KeyKept, KeyStays
  <2>2. \A h \in issued : HandleGood(slot'[h.slot], h.gen, h.key)
    <3> SUFFICES ASSUME NEW h \in issued PROVE HandleGood(slot'[h.slot], h.gen, h.key)
      OBVIOUS
    <3>1. h.slot \in Slots /\ h.gen \in Nat /\ slot[h.slot].generation \in Nat
      <4>1. h.slot \in Slots /\ h.gen \in Nat
        BY DEF IInv, TypeOK
      <4> QED BY <4>1 DEF IInv, RecordsOK, Good, SlotRec
    <3>2. HandleGood(slot[h.slot], h.gen, h.key) /\ KeyStep(slot[h.slot], slot'[h.slot])
      BY <2>1, <3>1 DEF HandlesOK
    <3> QED BY <3>1, <3>2, HandleKept
  <2> QED BY <1>2, <2>2
<1>3. CASE Other(t)
  BY <1>2, <1>3, OtherFrame
<1>4. CASE /\ Step(t)
           /\ ~(CommitSkipped(t) \/ CommitBegin(t) \/ SaveSlot(t) \/ SavePublish(t)
                \/ CommitEnd(t))
  <2>1. UNCHANGED issued
    BY <1>4 DEF Step, InitToken, SetUserPin, Login, CreateObject, BeginUse, EndUse, Destroy,
                Zeroize, DropSessions, Unlock, SetSessionRole
  <2> QED BY <1>2, <2>1
<1> QED BY <1>1, <1>3, <1>4

\* The invariant holds of the fresh token and is kept by every step but a restart.
LEMMA HandlesInit == Init => HandlesOK
BY DEF Init, HandlesOK, CallOK, Idle

LEMMA HandlesStep == IInv /\ KeysOK /\ HandlesOK /\ [Next]_vars => HandlesOK' \/ Restart
<1> SUFFICES ASSUME IInv, KeysOK, HandlesOK, [Next]_vars, ~Restart PROVE HandlesOK'
  OBVIOUS
<1>1. CASE UNCHANGED vars
  BY <1>1 DEF vars, HandlesOK, CallOK
<1>2. ASSUME NEW t \in Threads, Step(t) \/ Other(t) PROVE HandlesOK'
  <2>1. OwnSlot(t)
    BY <1>2, StepOwns, SlotsAlone, OtherFrame
  <2>2. \A s \in Slots : KeyStep(slot[s], slot'[s])
    BY <2>1 DEF OwnSlot, KeyStep, KeyKept, KeyStays
  <2>3. issued \subseteq issued' /\ \A h \in issued' : HandleGood(slot'[h.slot], h.gen, h.key)
    BY <1>2, IssuedKept
  <2>4. ASSUME NEW u \in Threads \ {t} PROVE CallOK(th[u])'
    <3>1. PICK c : c = th[u]
      OBVIOUS
    <3>2. c \in ThreadRec /\ CallOK(c)
      BY <3>1 DEF IInv, TypeOK, HandlesOK
    <3>3. ASSUME c.pc = "using" PROVE slot'[c.slot] = slot[c.slot]
      <4>1. c.slot \in Slots /\ u \in slotLock[c.slot]
        BY <3>1, <3>2, <3>3 DEF ThreadRec, IInv, LocksOK
      <4> QED BY <2>1, <4>1 DEF OwnSlot
    <3>4. CallOK(c)'
      BY <2>2, <2>3, <3>2, <3>3, CallKept
    <3>5. th'[u] = c
      <4>1. UNCHANGED th \/ \E d : Go(t, d)
        BY <1>2, StepKnows, OtherKnows
      <4> QED BY <3>1, <4>1 DEF Go, IInv, TypeOK
    <3> QED BY <3>4, <3>5 DEF CallOK
  <2>5. CallOK(th[t])'
    <3>1. CASE \E c : Go(t, c) /\ CallOK(c)'
      <4>1. PICK c : Go(t, c) /\ CallOK(c)'
        BY <3>1
      <4>2. th'[t] = c
        BY <4>1 DEF Go, IInv, TypeOK
      <4> QED BY <4>1, <4>2 DEF CallOK
    <3>2. CASE Other(t) /\ UNCHANGED th
      <4>1. UNCHANGED slot
        BY <3>2, OtherFrame
      <4> QED BY <2>3, <3>2, <4>1 DEF HandlesOK, CallOK
    <3> QED BY <1>2, <3>1, <3>2, StepKnows, OtherKnows
  <2>6. \A u \in Threads : CallOK(th[u])'
    BY <2>4, <2>5
  <2> QED BY <2>3, <2>6 DEF HandlesOK
<1> QED BY <1>1, <1>2, NextCases

\* While the process runs, sign and decaps with a handle use the key the handle was issued
\* for, whatever other calls destroy, zeroize and install in the meantime.  Across a crash
\* it holds only of what was saved: see SingleCallerProofs.
THEOREM HandlesReachTheirKey ==
  ASSUME ~MayCrash
  PROVE  Spec => []UseReachesItsKey
<1>1. IInv /\ KeysOK /\ HandlesOK /\ [Next]_vars => HandlesOK'
  BY HandlesStep DEF Restart
<1>2. HandlesOK => UseReachesItsKey
  BY DEF HandlesOK, CallOK, UseReachesItsKey
<1>3. Spec => []HandlesOK
  BY <1>1, HandlesInit, KeysHold, Inductive, PTL DEF Spec
<1> QED BY <1>2, <1>3, PTL
-----------------------------------------------------------------------------
(* Keys as the layers above see them: module KeySlots.                      *)

\* What one step may do to what the layers above see of a slot; k is the number of the
\* key it makes, if it makes one.
LifeMove(x, y, k) ==
  \/ y = x
  \/ x.state = "UNINIT" /\ y = [x EXCEPT !.state = "EMPTY"]
  \/ x.state = "EMPTY" /\ k = nkeys + 1 /\ y = [state |-> "LOADED", gen |-> x.gen, key |-> k]
  \/ \E st \in {"EMPTY", "UNINIT"} :
       /\ st = "EMPTY" => x.state = "LOADED"
       /\ y = [state |-> st, gen |-> x.gen + 1, key |-> 0]

\* Two records are the same from there when these five fields are.
LEMMA SameLife ==
  ASSUME NEW r, NEW q, Alike(r, q)
  PROVE  LifeOf(q) = LifeOf(r)
BY DEF Alike, LifeOf, LifeState, LiveKey, HoldsKey

\* The states without a key show as they are, whatever was left there.
LEMMA PlainLife ==
  ASSUME NEW r
  PROVE  /\ r.state \in {"UNINIT", "EMPTY"} =>
              LifeOf(r) = [state |-> r.state, gen |-> r.generation, key |-> 0]
         /\ r.state = "LOADED" =>
              LifeOf(r) = [state |-> "LOADED", gen |-> r.generation, key |-> r.key]
BY DEF LifeOf, LifeState, LiveKey, HoldsKey

\* init_token, finished or not.
LEMMA InitLife ==
  ASSUME NEW r, Resting(r), Legal(r.state, "INIT_TOKEN"), NEW ok \in BOOLEAN, NEW k,
         NEW q \in {init_token(r, ok), fsm_apply(r, "INIT_TOKEN")}
  PROVE  LifeMove(LifeOf(r), LifeOf(q), k)
<1>1. r.state = "UNINIT" /\ r \in SlotRec
  BY DEF Legal, slot_fsm_next, Resting, Good, SlotRec, SlotStates
<1>2. q.state = "EMPTY" /\ q.generation = r.generation
  BY <1>1, PinLimit DEF SlotRec, init_token, fsm_apply, slot_fsm_next, slot_reseal
<1>3. LifeOf(q) = [LifeOf(r) EXCEPT !.state = "EMPTY"]
  BY <1>1, <1>2, PlainLife
<1>4. LifeOf(r).state = "UNINIT"
  BY <1>1, PlainLife
<1> QED BY <1>3, <1>4 DEF LifeMove

\* A step after which the record is alike shows nothing: set_user_pin, and most logins.
LEMMA AlikeLife ==
  ASSUME NEW r, NEW q, Alike(r, q), NEW k
  PROVE  LifeMove(LifeOf(r), LifeOf(q), k)
BY SameLife DEF LifeMove

\* Neither does a login that locks the slot: it is what it was under the lock.
LEMMA LoginLife ==
  ASSUME NEW r, Resting(r), NEW role \in Roles \ {"PUBLIC"}, NEW k,
         r.state # "UNINIT", ~(r.state = "LOCKED" /\ role = "USER"), NEW ok \in BOOLEAN
  PROVE  /\ \A missed \in BOOLEAN :
              LifeMove(LifeOf(r), LifeOf(login_right(r, role, missed, ok)), k)
         /\ LifeMove(LifeOf(r), LifeOf(login_wrong(r, role, ok)), k)
<1>1. \A missed \in BOOLEAN : Alike(r, login_right(r, role, missed, ok))
  BY LoginAlike
<1>2. \A missed \in BOOLEAN : LifeMove(LifeOf(r), LifeOf(login_right(r, role, missed, ok)), k)
  BY <1>1, AlikeLife
<1> DEFINE q == login_wrong(r, role, ok)
<1>3. \/ Alike(r, q)
      \/ /\ q.key = r.key /\ q.kind = r.kind /\ q.generation = r.generation
         /\ r.state \in {"EMPTY", "LOADED"}
         /\ q.state = "LOCKED" /\ q.pre_lock = r.state
  BY LoginAlike
<1> HIDE DEF q
<1>4. CASE Alike(r, q)
  BY <1>2, <1>4, AlikeLife DEF q
<1>5. CASE /\ q.key = r.key /\ q.kind = r.kind /\ q.generation = r.generation
           /\ r.state \in {"EMPTY", "LOADED"}
           /\ q.state = "LOCKED" /\ q.pre_lock = r.state
  <2>1. LifeOf(q) = LifeOf(r)
    BY <1>5 DEF LifeOf, LifeState, LiveKey, HoldsKey
  <2> QED BY <1>2, <2>1 DEF LifeMove, q
<1> QED BY <1>3, <1>4, <1>5

\* A key is installed where none shows, under the next number; one that is left in a
\* slot that could not be sealed does not show.
LEMMA InstallLife ==
  ASSUME NEW r, Resting(r), NEW ev \in {"GENERATE", "LOAD"}, Legal(r.state, ev),
         NEW k \in Nat \ {0}, k = nkeys + 1, NEW kind \in {"sk", "seed", "hw"},
         NEW ok \in BOOLEAN
  PROVE  /\ LifeMove(LifeOf(r), LifeOf(install_key(r, ev, k, kind, ok)), k)
         /\ LifeMove(LifeOf(r), LifeOf(install_key_undone(r, ev, k, kind, ok)), k)
<1>1. PICK q, u : q = install_key(r, ev, k, kind, ok) /\ u = install_key_undone(r, ev, k, kind, ok)
  OBVIOUS
<1>2. /\ r.state = "EMPTY"
      /\ q.key = k /\ q.generation = r.generation /\ q.state = "LOADED"
      /\ u.generation = r.generation /\ u.state = "EMPTY"
  BY <1>1, InstallKeyStep
<1>3. LifeOf(q) = [state |-> "LOADED", gen |-> LifeOf(r).gen, key |-> k]
  BY <1>2, PlainLife DEF LifeOf
<1>4. LifeOf(u) = LifeOf(r) /\ LifeOf(r).state = "EMPTY"
  BY <1>2, PlainLife
<1> QED BY <1>1, <1>3, <1>4 DEF LifeMove

\* Use shows nothing.
LEMMA UseLife ==
  ASSUME NEW r, Good(r), NEW k
  PROVE  /\ Legal(r.state, "USE_BEGIN") => LifeMove(LifeOf(r), LifeOf(fsm_apply(r, "USE_BEGIN")), k)
         /\ r.state = "IN_USE" => \A worked, ok \in BOOLEAN :
              LifeMove(LifeOf(r), LifeOf(UseEnded(r, worked, ok)), k)
<1>1. ASSUME NEW q, KeyStays(r, q), r.state \in {"LOADED", "IN_USE"},
             q.state \in {"LOADED", "IN_USE"}
      PROVE  LifeMove(LifeOf(r), LifeOf(q), k)
  <2>1. LifeOf(q) = LifeOf(r)
    BY <1>1 DEF KeyStays, LifeOf, LifeState, LiveKey, HoldsKey
  <2> QED BY <2>1 DEF LifeMove
<1> QED BY <1>1, UseKeyStep

\* destroy and zeroize lose the key and move the generation.
LEMMA LostLife ==
  ASSUME NEW r, Good(r), NEW k, NEW ok \in BOOLEAN
  PROVE  /\ Legal(r.state, "DESTROY") => LifeMove(LifeOf(r), LifeOf(destroy(r, ok)), k)
         /\ LifeMove(LifeOf(r), LifeOf(do_zeroize(r, ok)), k)
<1>1. ASSUME NEW q, NEW st \in {"EMPTY", "UNINIT"}, q.state = st,
             st = "EMPTY" => r.state = "LOADED", q.generation = r.generation + 1
      PROVE  LifeMove(LifeOf(r), LifeOf(q), k)
  <2>1. LifeOf(q) = [state |-> st, gen |-> LifeOf(r).gen + 1, key |-> 0]
    BY <1>1, PlainLife DEF LifeOf
  <2>2. st = "EMPTY" => LifeOf(r).state = "LOADED"
    BY <1>1, PlainLife
  <2> QED BY <2>1, <2>2 DEF LifeMove
<1>2. Legal(r.state, "DESTROY") => r.state = "LOADED"
  BY DEF Legal, slot_fsm_next, Good, SlotRec, SlotStates
<1>3. do_zeroize(r, ok).state = "UNINIT" /\ do_zeroize(r, ok).generation = r.generation + 1
  BY GoneKeyStep
<1>4. Legal(r.state, "DESTROY") =>
        destroy(r, ok).state = "EMPTY" /\ destroy(r, ok).generation = r.generation + 1
  BY GoneKeyStep
<1>5. LifeMove(LifeOf(r), LifeOf(do_zeroize(r, ok)), k)
  BY <1>1, <1>3
<1>6. Legal(r.state, "DESTROY") => LifeMove(LifeOf(r), LifeOf(destroy(r, ok)), k)
  BY <1>1, <1>2, <1>4
<1> QED BY <1>5, <1>6

\* An unlock goes back to what was locked.
LEMMA UnlockLife ==
  ASSUME NEW r, Resting(r), Legal(r.state, "SO_UNLOCK"), NEW k, NEW ok \in BOOLEAN
  PROVE  LifeMove(LifeOf(r), LifeOf(unlock(r, ok)), k)
<1>1. PICK q : q = unlock(r, ok)
  OBVIOUS
<1>2. /\ q.key = r.key /\ q.generation = r.generation
      /\ r.state = "LOCKED" /\ r.pre_lock # "IN_USE"
      /\ q.state = IF r.pre_lock = "LOADED" THEN "LOADED" ELSE "EMPTY"
  BY <1>1, UnlockKeyStep
<1>3. LifeOf(q) = LifeOf(r)
  BY <1>2 DEF LifeOf, LifeState, LiveKey, HoldsKey
<1> QED BY <1>1, <1>3 DEF LifeMove

\* What a save writes of a slot and what a start makes of it.
LEMMA CopyLife ==
  ASSUME NEW r, Good(r)
  PROVE  /\ LifeOf(slot_serialize(r)) \in {LifeOf(r), [LifeOf(r) EXCEPT !.key = 0]}
         /\ LifeOf(slot_reseal(r, TRUE)) = LifeOf(r)
<1>1. r \in SlotRec
  BY DEF Good
<1>2. LifeOf(slot_reseal(r, TRUE)) = LifeOf(r)
  <2>1. TRUE \in BOOLEAN
    OBVIOUS
  <2> QED BY <1>1, <2>1, SameLife, ResealAlike
<1>3. LifeOf(slot_serialize(r)) \in {LifeOf(r), [LifeOf(r) EXCEPT !.key = 0]}
  <2> DEFINE q == slot_serialize(r)
  <2>1. /\ q.state = r.state /\ q.pre_lock = r.pre_lock /\ q.generation = r.generation
        /\ q.key \in {r.key, 0}
    BY <1>1 DEF SlotRec, slot_serialize, slot_wipe_key_material
  <2> HIDE DEF q
  <2>2. LifeState(q) = LifeState(r) /\ LiveKey(q) \in {LiveKey(r), 0}
    BY <2>1 DEF LifeState, LiveKey, HoldsKey
  <2> QED BY <2>1, <2>2 DEF LifeOf, q
<1> QED BY <1>2, <1>3

\* What one step of a call does to what shows of its own slot.
LEMMA StepLives ==
  ASSUME IInv, NEW t \in Threads, Step(t)
  PROVE  /\ LifeMove(LifeOf(slot[th[t].slot]), LifeOf(slot'[th[t].slot]), nkeys')
         /\ nkeys' \in {nkeys, nkeys + 1}
<1> DEFINE s == th[t].slot
           r == slot[s]
<1>1. s \in Slots /\ Good(r) /\ slot \in [Slots -> SlotRec] /\ nkeys \in Nat
  BY DEF IInv, TypeOK, ThreadRec, RecordsOK
<1>2. ASSUME slotLock[s] = {} PROVE Resting(r)
  BY <1>2, SectionRests
<1>3. ASSUME NEW q, slot' = [slot EXCEPT ![s] = q], NEW k, LifeMove(LifeOf(r), LifeOf(q), k)
      PROVE  LifeMove(LifeOf(r), LifeOf(slot'[s]), k)
  BY <1>1, <1>3
<1>4. ASSUME UNCHANGED slot \/ Refused(t), NEW k PROVE LifeMove(LifeOf(r), LifeOf(slot'[s]), k)
  <2>1. slot'[s] = slot[s]
    BY <1>1, <1>4 DEF Refused, Leave
  <2> QED BY <2>1 DEF LifeMove
<1> HIDE DEF s, r
<1>5. CASE InitToken(t)
  <2>1. \/ \E ok \in BOOLEAN :
             /\ Legal(r.state, "INIT_TOKEN")
             /\ \/ slot' = [slot EXCEPT ![s] = init_token(r, ok)]
                \/ slot' = [slot EXCEPT ![s] = fsm_apply(r, "INIT_TOKEN")]
        \/ Refused(t)
    BY <1>5, KdrAnswers DEF InitToken, Leave, s, r
  <2>2. Resting(r) /\ nkeys' = nkeys
    BY <1>2, <1>5 DEF InitToken, InSection, s
  <2>3. ASSUME NEW ok \in BOOLEAN, Legal(r.state, "INIT_TOKEN"), NEW k
        PROVE  /\ LifeMove(LifeOf(r), LifeOf(init_token(r, ok)), k)
               /\ LifeMove(LifeOf(r), LifeOf(fsm_apply(r, "INIT_TOKEN")), k)
    BY <2>2, <2>3, InitLife
  <2> QED BY <1>3, <1>4, <2>1, <2>2, <2>3 DEF s, r
<1>6. CASE SetUserPin(t)
  <2>1. \/ \E ok \in BOOLEAN : \/ slot' = [slot EXCEPT ![s] = set_user_pin(r, ok)]
                               \/ slot' = [slot EXCEPT ![s] = set_user_pin_torn(r)]
        \/ Refused(t)
    BY <1>6, KdrAnswers DEF SetUserPin, Leave, s, r
  <2>2. Resting(r) /\ nkeys' = nkeys
    BY <1>2, <1>6 DEF SetUserPin, InSection, s
  <2>3. ASSUME NEW ok \in BOOLEAN, NEW k
        PROVE  /\ LifeMove(LifeOf(r), LifeOf(set_user_pin(r, ok)), k)
               /\ LifeMove(LifeOf(r), LifeOf(set_user_pin_torn(r)), k)
    BY <2>2, UserPinAlike, AlikeLife
  <2> QED BY <1>3, <1>4, <2>1, <2>2, <2>3 DEF s, r
<1>7. CASE Login(t)
  <2> DEFINE role == th[t].role
  <2>1. \/ /\ r.state # "UNINIT" /\ ~(r.state = "LOCKED" /\ role = "USER")
           /\ \E ok \in BOOLEAN :
                \/ \E missed \in BOOLEAN :
                     slot' = [slot EXCEPT ![s] = login_right(r, role, missed, ok)]
                \/ slot' = [slot EXCEPT ![s] = login_wrong(r, role, ok)]
        \/ UNCHANGED slot
    BY <1>7, KdrAnswers DEF Login, Leave, s, r
  <2>2. Resting(r) /\ nkeys' = nkeys
    BY <1>2, <1>7 DEF Login, InSection, s
  <2>3. role \in Roles \ {"PUBLIC"}
    BY <1>7 DEF IInv, CallsOK, Proper, ThreadRec, Login, InSection
  <2> HIDE DEF role
  <2>4. ASSUME r.state # "UNINIT" /\ ~(r.state = "LOCKED" /\ role = "USER"),
               NEW ok \in BOOLEAN, NEW k
        PROVE  /\ \A missed \in BOOLEAN :
                    LifeMove(LifeOf(r), LifeOf(login_right(r, role, missed, ok)), k)
               /\ LifeMove(LifeOf(r), LifeOf(login_wrong(r, role, ok)), k)
    BY <2>2, <2>3, <2>4, LoginLife
  <2> QED BY <1>3, <1>4, <2>1, <2>2, <2>4 DEF s, r
<1>8. CASE CreateObject(t)
  <2>1. CASE Refused(t) /\ UNCHANGED nkeys
    BY <1>4, <2>1 DEF s, r
  <2>2. PICK k : k = nkeys + 1
    OBVIOUS
  <2>3. \/ Refused(t) /\ UNCHANGED nkeys
        \/ \E ev \in {"GENERATE", "LOAD"}, kind \in {"sk", "seed", "hw"}, ok \in BOOLEAN :
             /\ Legal(r.state, ev) /\ nkeys' = k
             /\ \/ slot' = [slot EXCEPT ![s] = install_key(r, ev, k, kind, ok)]
                \/ slot' = [slot EXCEPT ![s] = install_key_undone(r, ev, k, kind, ok)]
    <3>1. KeyKinds \subseteq {"sk", "seed", "hw"}
      BY ConstantsAssumption
    <3> QED BY <1>8, <2>2, <3>1, KdrAnswers DEF CreateObject, Leave, s, r
  <2>4. Resting(r) /\ k \in Nat \ {0}
    BY <1>1, <1>2, <1>8, <2>2 DEF CreateObject, InSection, s
  <2>5. ASSUME NEW ev \in {"GENERATE", "LOAD"}, NEW kind \in {"sk", "seed", "hw"},
               NEW ok \in BOOLEAN, Legal(r.state, ev)
        PROVE  /\ LifeMove(LifeOf(r), LifeOf(install_key(r, ev, k, kind, ok)), k)
               /\ LifeMove(LifeOf(r), LifeOf(install_key_undone(r, ev, k, kind, ok)), k)
    BY <2>2, <2>4, <2>5, InstallLife
  <2>6. ASSUME ~(Refused(t) /\ UNCHANGED nkeys)
        PROVE  nkeys' = k /\ LifeMove(LifeOf(r), LifeOf(slot'[s]), k)
    BY <1>3, <2>3, <2>5, <2>6
  <2> QED BY <2>1, <2>2, <2>6 DEF s, r
<1>9. CASE BeginUse(t)
  <2>1. \/ Legal(r.state, "USE_BEGIN") /\ slot' = [slot EXCEPT ![s] = fsm_apply(r, "USE_BEGIN")]
        \/ UNCHANGED slot
    BY <1>9 DEF BeginUse, Leave, s, r
  <2>2. nkeys' = nkeys
    BY <1>9 DEF BeginUse
  <2> QED BY <1>1, <1>3, <1>4, <2>1, <2>2, UseLife DEF s, r
<1>10. CASE EndUse(t)
  <2>1. /\ \E worked, ok \in BOOLEAN : slot' = [slot EXCEPT ![s] = UseEnded(r, worked, ok)]
        /\ th[t].pc = "using"
    BY <1>10, KdrAnswers DEF EndUse, UseEnded, s, r
  <2>2. r.state = "IN_USE" /\ nkeys' = nkeys
    BY <1>1, <1>10, <2>1 DEF EndUse, IInv, LocksOK, s, r
  <2>3. \A worked, ok \in BOOLEAN : LifeMove(LifeOf(r), LifeOf(UseEnded(r, worked, ok)), nkeys)
    BY <1>1, <2>2, UseLife
  <2> QED BY <1>3, <2>1, <2>2, <2>3 DEF s, r
<1>11. CASE Destroy(t)
  <2>1. \/ /\ Legal(r.state, "DESTROY")
           /\ \E ok \in BOOLEAN : slot' = [slot EXCEPT ![s] = destroy(r, ok)]
        \/ Refused(t)
    BY <1>11, KdrAnswers DEF Destroy, Leave, s, r
  <2>2. nkeys' = nkeys
    BY <1>11 DEF Destroy
  <2> QED BY <1>1, <1>3, <1>4, <2>1, <2>2, LostLife DEF s, r
<1>12. CASE Zeroize(t)
  <2>1. (\E ok \in BOOLEAN : slot' = [slot EXCEPT ![s] = do_zeroize(r, ok)]) /\ nkeys' = nkeys
    BY <1>12, KdrAnswers DEF Zeroize, Leave, s, r
  <2> QED BY <1>1, <1>3, <2>1, LostLife DEF s, r
<1>13. CASE Unlock(t)
  <2>1. \/ /\ Legal(r.state, "SO_UNLOCK")
           /\ \E ok \in BOOLEAN : slot' = [slot EXCEPT ![s] = unlock(r, ok)]
        \/ Refused(t)
    BY <1>13, KdrAnswers DEF Unlock, Leave, s, r
  <2>2. Resting(r) /\ nkeys' = nkeys
    BY <1>2, <1>13 DEF Unlock, InSection, s
  <2> QED BY <1>3, <1>4, <2>1, <2>2, UnlockLife DEF s, r
<1>14. CASE \/ DropSessions(t) \/ CommitSkipped(t) \/ CommitBegin(t) \/ SaveSlot(t)
            \/ SavePublish(t) \/ CommitEnd(t) \/ SetSessionRole(t)
  <2>1. UNCHANGED <<slot, nkeys>>
    BY <1>14 DEF DropSessions, CommitSkipped, CommitBegin, SaveSlot, SavePublish, CommitEnd,
                 SetSessionRole
  <2> QED BY <1>4, <2>1 DEF s, r
<1> QED BY <1>5, <1>6, <1>7, <1>8, <1>9, <1>10, <1>11, <1>12, <1>13, <1>14 DEF Step

\* How a step changes what a save collects and what is stored.
LEMMA StepSaves ==
  ASSUME IInv, NEW t \in Threads, Step(t)
  PROVE  \/ UNCHANGED <<snap, disk>>
         \/ snap' = disk /\ disk' = disk
         \/ disk' = snap /\ snap' = snap
         \/ /\ cursor \in Slots /\ disk' = disk /\ slot' = slot /\ slot[cursor].sealed
            /\ snap' = [snap EXCEPT ![cursor] = slot_serialize(slot[cursor])]
BY DEF Step, InitToken, SetUserPin, Login, CreateObject, BeginUse, EndUse, Destroy,
       Zeroize, DropSessions, Unlock, CommitSkipped, CommitBegin, SaveSlot,
       SavePublish, CommitEnd, SetSessionRole, saveVars, Intact

\* One slot of a token that changes.
LEMMA OneLife ==
  ASSUME NEW f \in [Slots -> SlotRec], NEW g, DOMAIN g = Slots, NEW s \in Slots,
         \A u \in Slots \ {s} : g[u] = f[u], NEW y, y = LifeOf(g[s])
  PROVE  LifeIn(g) = [LifeIn(f) EXCEPT ![s] = y]
BY DEF LifeIn

\* A step of a call is a step of the contract.
LEMMA StepLive ==
  ASSUME IInv, NEW t \in Threads, Step(t)
  PROVE  KeyLife!Live
<1> DEFINE s == th[t].slot
           x == LifeOf(slot[s])
           y == LifeOf(slot'[s])
<1>1. s \in Slots /\ \A u \in Slots \ {s} : slot'[u] = slot[u]
  BY StepOwns DEF OwnSlot
<1>2. /\ slot \in [Slots -> SlotRec] /\ slot' \in [Slots -> SlotRec]
      /\ snap \in [Slots -> SlotRec] /\ disk \in [Slots -> SlotRec] /\ nkeys \in Nat
  <2>1. IInv'
    BY InvStep DEF Next
  <2> QED BY <2>1 DEF IInv, TypeOK
<1>3. LifeMove(x, y, nkeys') /\ nkeys' \in {nkeys, nkeys + 1}
  BY StepLives
<1>4. LifeIn(slot') = [LifeIn(slot) EXCEPT ![s] = y] /\ LifeIn(slot)[s] = x
  BY <1>1, <1>2, OneLife DEF LifeIn
<1>5. x.gen \in Nat
  BY <1>1, <1>2 DEF SlotRec, LifeOf
<1> HIDE DEF s, x, y
<1>6. nkeys' >= nkeys
  BY <1>2, <1>3
<1>7. \/ \E u \in Slots : \/ KeyLife!Initialise(u) \/ KeyLife!Install(u)
                          \/ \E st \in {"EMPTY", "UNINIT"} : KeyLife!Lose(u, st)
      \/ LifeIn(slot') = LifeIn(slot)
  <2>1. CASE y = x
    <3>1. [LifeIn(slot) EXCEPT ![s] = x] = LifeIn(slot)
      BY <1>4 DEF LifeIn
    <3> QED BY <1>4, <2>1, <3>1
  <2>2. CASE x.state = "UNINIT" /\ y = [x EXCEPT !.state = "EMPTY"]
    <3>1. KeyLife!Initialise(s)
      BY <1>4, <2>2 DEF KeyLife!Initialise, LifeIn
    <3> QED BY <1>1, <3>1
  <2>3. CASE /\ x.state = "EMPTY" /\ nkeys' = nkeys + 1
             /\ y = [state |-> "LOADED", gen |-> x.gen, key |-> nkeys']
    <3>1. nkeys' \in (nkeys + 1)..nkeys'
      BY <1>2, <2>3
    <3>2. KeyLife!Install(s)
      BY <1>4, <2>3, <3>1 DEF KeyLife!Install
    <3> QED BY <1>1, <3>2
  <2>4. ASSUME NEW st \in {"EMPTY", "UNINIT"}, st = "EMPTY" => x.state = "LOADED",
               y = [state |-> st, gen |-> x.gen + 1, key |-> 0]
        PROVE  KeyLife!Lose(s, st)
    BY <1>4, <2>4 DEF KeyLife!Lose
  <2> QED BY <1>1, <1>3, <2>1, <2>2, <2>3, <2>4 DEF LifeMove
<1>8. KeyLife!Saving
  <2>1. CASE UNCHANGED <<snap, disk>>
    BY <2>1 DEF KeyLife!Saving, LifeIn
  <2>2. CASE snap' = disk /\ disk' = disk
    BY <2>2 DEF KeyLife!Saving, LifeIn
  <2>3. CASE disk' = snap /\ snap' = snap
    BY <2>3 DEF KeyLife!Saving, LifeIn
  <2>4. CASE /\ cursor \in Slots /\ disk' = disk /\ slot' = slot
             /\ snap' = [snap EXCEPT ![cursor] = slot_serialize(slot[cursor])]
    <3> DEFINE c == cursor
               z == LifeOf(slot_serialize(slot[c]))
    <3>1. z \in {LifeOf(slot[c]), [LifeOf(slot[c]) EXCEPT !.key = 0]}
      BY <2>4, CopyLife DEF IInv, RecordsOK
    <3>2. z \in KeyLife!Kept(LifeIn(slot')[c])
      BY <2>4, <3>1 DEF KeyLife!Kept, LifeIn
    <3>3. LifeIn(snap')[c] = z /\ \A u \in Slots \ {c} : LifeIn(snap')[u] = LifeIn(snap)[u]
      BY <1>2, <2>4 DEF LifeIn
    <3> HIDE DEF z
    <3>4. LifeIn(disk') = LifeIn(disk)
      BY <2>4
    <3> QED BY <3>2, <3>3, <3>4 DEF KeyLife!Saving
  <2> QED BY <2>1, <2>2, <2>3, <2>4, StepSaves
<1> QED BY <1>6, <1>7, <1>8 DEF KeyLife!Live

\* So is a restart.
LEMMA RestartLife == ASSUME IInv, Restart PROVE KeyLife!Restart
<1>1. /\ slot' = [s \in Slots |-> slot_reseal(disk[s], TRUE)]
      /\ disk' = disk /\ snap' = disk /\ nkeys' = nkeys
  BY DEF Restart
<1>2. \A s \in Slots : LifeOf(slot_reseal(disk[s], TRUE)) = LifeOf(disk[s])
  BY CopyLife DEF IInv, RecordsOK, Resting
<1>3. LifeIn(slot') = LifeIn(disk)
  BY <1>1, <1>2 DEF LifeIn
<1> QED BY <1>1, <1>3 DEF KeyLife!Restart

\* The slot manager keeps the contract of module KeySlots, whatever threads, failures,
\* lockouts and restarts do: commit_security_state and hsm_keystore_save put into the
\* file nothing but what slots held, and no interleaving installs a key over another or
\* takes one away under the same generation.
THEOREM SlotManagerImplementsKeySlots == Spec => ImplementsKeySlots
<1>1. Init => KeyLife!KeyInit
  <2> SUFFICES ASSUME Init PROVE KeyLife!KeyInit
    OBVIOUS
  <2>1. LifeIn(slot) = [s \in Slots |-> [state |-> "UNINIT", gen |-> 0, key |-> 0]]
    BY DEF Init, LifeIn, LifeOf, LifeState, LiveKey, HoldsKey, FreshSlot
  <2>2. snap = slot /\ disk = slot /\ nkeys = 0
    BY DEF Init
  <2> QED BY <2>1, <2>2 DEF KeyLife!KeyInit
<1>2. IInv /\ [Next]_vars => [KeyLife!KeyNext]_(KeyLife!keyVars)
  <2> SUFFICES ASSUME IInv, [Next]_vars PROVE [KeyLife!KeyNext]_(KeyLife!keyVars)
    OBVIOUS
  <2>1. CASE UNCHANGED <<slot, disk, snap, nkeys>>
    BY <2>1 DEF KeyLife!keyVars, LifeIn
  <2>2. CASE Restart
    BY <2>2, RestartLife DEF KeyLife!KeyNext
  <2>3. ASSUME NEW t \in Threads, Step(t) \/ Other(t) PROVE [KeyLife!KeyNext]_(KeyLife!keyVars)
    BY <2>1, <2>3, StepLive, OtherFrame DEF KeyLife!KeyNext, saveVars
  <2> QED BY <2>1, <2>2, <2>3, NextCases DEF vars
<1> QED BY <1>1, <1>2, Inductive, PTL DEF Spec, ImplementsKeySlots, KeyLife!KeySpec
-----------------------------------------------------------------------------
(* A slot whose tag is stale.                                               *)

\* What a save writes, and what is written, is sealed.
CopiesSealed == \A s \in Slots : snap[s].sealed /\ disk[s].sealed

\* A slot whose metadata was changed and not sealed again.
Torn(r) == ~r.sealed /\ r.state # "IN_USE"

\* A step of a call leaves such a slot alone or zeroizes it.
LEMMA StepSpares ==
  ASSUME IInv, NEW t \in Threads, Step(t), NEW s \in Slots, Torn(slot[s])
  PROVE  slot'[s] \in {slot[s]} \cup {do_zeroize(slot[s], ok) : ok \in Kdr}
<1> DEFINE own == th[t].slot
<1>1. own \in Slots /\ slot \in [Slots -> SlotRec]
  BY DEF IInv, TypeOK, ThreadRec
<1>2. CASE UNCHANGED slot \/ Refused(t) \/ s # own
  BY <1>1, <1>2, StepOwns DEF OwnSlot, Refused, Leave
<1>3. CASE s = own /\ ~(UNCHANGED slot \/ Refused(t))
  <2>1. ~slot[own].sealed
    BY <1>3 DEF Torn
  <2>2. ~EndUse(t)
    BY <1>1, <1>3 DEF EndUse, Torn, IInv, LocksOK
  <2>3. Zeroize(t)
    BY <1>3, <2>1, <2>2 DEF Step, InitToken, SetUserPin, Login, CreateObject, BeginUse,
         Destroy, Unlock, DropSessions, CommitSkipped, CommitBegin, SaveSlot, SavePublish,
         CommitEnd, SetSessionRole, check_handle, Intact
  <2> QED BY <1>1, <1>3, <2>3 DEF Zeroize, Leave
<1> QED BY <1>2, <1>3

\* What a save collects and what is stored stays sealed.
LEMMA SealedStep == IInv /\ CopiesSealed /\ [Next]_vars => CopiesSealed'
<1> SUFFICES ASSUME IInv, CopiesSealed, [Next]_vars PROVE CopiesSealed'
  OBVIOUS
<1>1. CASE UNCHANGED <<snap, disk>>
  BY <1>1 DEF CopiesSealed
<1>2. CASE Restart
  BY <1>2 DEF Restart, CopiesSealed
<1>3. ASSUME NEW t \in Threads, Step(t) PROVE CopiesSealed'
  <2>1. \A s \in Slots : slot[s].sealed => slot_serialize(slot[s]).sealed
    BY DEF IInv, TypeOK, SlotRec, slot_serialize, slot_wipe_key_material
  <2> QED BY <1>1, <1>3, <2>1, StepSaves DEF CopiesSealed, IInv, TypeOK
<1>4. ASSUME NEW t \in Threads, Other(t) PROVE CopiesSealed'
  BY <1>1, <1>4, OtherFrame DEF saveVars
<1> QED BY <1>1, <1>2, <1>3, <1>4, NextCases DEF vars

\* A slot that an init_token left half done, or that could not be sealed, is changed by no call but a zeroize, and no
\* save puts it into the file, where hsm_keystore_load would seal it: for any number of
\* threads, and sessions that were logged in before.
THEOREM TornSlotsAreInert == Spec => TornSlotIsInert
<1> DEFINE A == Restart \/ \A s \in Slots : ~slot[s].sealed /\ slot[s].state # "IN_USE" =>
         /\ slot'[s] \in {slot[s]} \cup {do_zeroize(slot[s], ok) : ok \in Kdr}
         /\ disk'[s].sealed
<1>1. IInv /\ CopiesSealed /\ CopiesSealed' /\ [Next]_vars => [A]_vars
  <2> SUFFICES ASSUME IInv, CopiesSealed', Next, ~Restart, NEW s \in Slots, Torn(slot[s])
               PROVE  /\ slot'[s] \in {slot[s]} \cup {do_zeroize(slot[s], ok) : ok \in Kdr}
                      /\ disk'[s].sealed
    BY DEF Torn
  <2>1. PICK t \in Threads : Step(t) \/ Other(t)
    BY NextCases
  <2>2. slot'[s] \in {slot[s]} \cup {do_zeroize(slot[s], ok) : ok \in Kdr}
    BY <2>1, StepSpares, OtherFrame
  <2> QED BY <2>2 DEF CopiesSealed
<1>2. Init => CopiesSealed
  BY DEF Init, CopiesSealed, FreshSlot
<1> QED BY <1>1, <1>2, SealedStep, Inductive, PTL DEF Spec, TornSlotIsInert
=============================================================================
