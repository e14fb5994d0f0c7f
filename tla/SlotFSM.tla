------------------------------ MODULE SlotFSM ------------------------------
(***************************************************************************)
(* The slot life-cycle table of src/src/slot/fsm.c: five states, nine      *)
(* events, and the state an SO unlock restores.                            *)
(***************************************************************************)

SlotStates == {"UNINIT", "EMPTY", "LOADED", "IN_USE", "LOCKED"}

SlotEvents == {"INIT_TOKEN", "GENERATE", "LOAD", "USE_BEGIN", "USE_END",
               "DESTROY", "ZEROIZE", "PIN_LOCKOUT", "SO_UNLOCK"}

\* TRANSITION[cur][ev]; every entry not listed is SLOT_ST_INVALID.
slot_fsm_next(cur, ev) ==
  CASE ev = "ZEROIZE"                                       -> "UNINIT"
    [] cur = "UNINIT" /\ ev = "INIT_TOKEN"                  -> "EMPTY"
    [] cur = "EMPTY"  /\ ev \in {"GENERATE", "LOAD"}        -> "LOADED"
    [] cur = "LOADED" /\ ev = "USE_BEGIN"                   -> "IN_USE"
    [] cur = "LOADED" /\ ev = "DESTROY"                     -> "EMPTY"
    [] cur = "IN_USE" /\ ev = "USE_END"                     -> "LOADED"
    [] cur \in {"EMPTY", "LOADED", "IN_USE"}
         /\ ev = "PIN_LOCKOUT"                              -> "LOCKED"
    [] cur = "LOCKED" /\ ev = "SO_UNLOCK"                   -> "LOADED"
    [] OTHER                                                -> "INVALID"

Legal(cur, ev) == slot_fsm_next(cur, ev) # "INVALID"

\* Where SO_UNLOCK goes: the state before the lock, never IN_USE.
slot_fsm_unlock_target(pre) ==
  IF pre \in {"LOADED", "IN_USE"} THEN "LOADED" ELSE "EMPTY"
=============================================================================
