------------------------------ MODULE KeySlots ------------------------------
(***************************************************************************)
(* What the slot manager promises the layers above it about private keys:  *)
(* each slot holds at most one, a new key is never a number used before,   *)
(* and a key leaves its slot only together with a step of the slot's       *)
(* generation.  Sessions, PINs, lockout and use are not seen from here.    *)
(*                                                                         *)
(* What is stored may lag behind what is in memory, and one slot of it may *)
(* be older than another: a save collects slot after slot.  A key that     *)
(* lives in hardware is never part of what is collected.  A restart brings *)
(* back what is stored.                                                    *)
(***************************************************************************)
EXTENDS Integers

CONSTANT Slots

VARIABLES
  slots,   \* the key, the generation and the life-cycle state of every slot
  stored,  \* what a restart brings back
  going,   \* what a save under way has collected so far
  made     \* highest number given to a key

keyVars == <<slots, stored, going, made>>

\* A token that holds no key yet; its slots may be initialised.
KeyInit ==
  /\ slots \in [Slots -> [state : {"UNINIT", "EMPTY"}, gen : {0}, key : {0}]]
  /\ stored = slots
  /\ going = slots
  /\ made = 0

Initialise(s) ==
  /\ slots[s].state = "UNINIT"
  /\ slots' = [slots EXCEPT ![s].state = "EMPTY"]

Install(s) ==
  /\ slots[s].state = "EMPTY"
  /\ \E k \in (made + 1)..made' :
       slots' = [slots EXCEPT ![s] = [state |-> "LOADED", gen |-> @.gen, key |-> k]]

\* Destroy leaves the slot EMPTY, zeroize leaves it UNINIT.
Lose(s, st) ==
  /\ st = "EMPTY" => slots[s].state = "LOADED"
  /\ slots' = [slots EXCEPT ![s] = [state |-> st, gen |-> @.gen + 1, key |-> 0]]

\* What a save may collect of a slot.
Kept(r) == {r, [r EXCEPT !.key = 0]}

\* Saves go on beside any change, and a whole one may fit into a single step.
Saving ==
  /\ stored' \in {stored, going, slots'}
  /\ \A s \in Slots : going'[s] \in {going[s], stored'[s]} \cup Kept(slots'[s])

Live ==
  /\ \/ \E s \in Slots : \/ Initialise(s) \/ Install(s)
                         \/ \E st \in {"EMPTY", "UNINIT"} : Lose(s, st)
     \/ UNCHANGED slots
  /\ made' >= made
  /\ Saving

Restart ==
  /\ stored' \in {stored, slots}
  /\ slots' = stored'
  /\ going' = stored'
  /\ UNCHANGED made

KeyNext == Live \/ Restart

KeySpec == KeyInit /\ [][KeyNext]_keyVars
=============================================================================
