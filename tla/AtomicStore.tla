---------------------------- MODULE AtomicStore ----------------------------
(***************************************************************************)
(* What the key store promises the daemon: one stored version of the       *)
(* token that a save replaces as a whole.  A save that is cut off by a     *)
(* crash has happened or has not; a save that was reported done has.       *)
(* While the daemon is down someone else may exchange what is stored.      *)
(***************************************************************************)
EXTENDS Integers

VARIABLES
  up,       \* the daemon serves
  mem,      \* version of the token in memory
  stored,   \* version a start would load
  pending,  \* versions a save under way may still store
  replaced  \* has someone else exchanged what is stored

storeVars == <<up, mem, stored, pending, replaced>>

StoreInit == /\ up = FALSE /\ mem = 0 /\ stored = 0 /\ pending = {}
             /\ replaced = FALSE

Change == up /\ mem' = mem + 1 /\ UNCHANGED <<up, stored, pending, replaced>>

BeginSave == /\ up /\ pending = {}
             /\ pending' = {mem}
             /\ UNCHANGED <<up, mem, stored, replaced>>

SaveDone == /\ up
            /\ stored' \in pending
            /\ pending' = {}
            /\ UNCHANGED <<up, mem, replaced>>

SaveFailed == pending # {} /\ pending' = {} /\ UNCHANGED <<up, mem, stored, replaced>>

GoDown == /\ up /\ up' = FALSE
          /\ stored' \in {stored} \cup pending
          /\ pending' = {}
          /\ mem' = 0
          /\ UNCHANGED replaced

StartUp == /\ ~up /\ up' = TRUE
           /\ mem' = stored
           /\ UNCHANGED <<stored, pending, replaced>>

Exchange == /\ ~up
            /\ replaced' = TRUE
            /\ stored' \in Nat
            /\ UNCHANGED <<up, mem, pending>>

StoreNext == Change \/ BeginSave \/ SaveDone \/ SaveFailed \/ GoDown \/ StartUp
             \/ Exchange

StoreSpec == StoreInit /\ [][StoreNext]_storeVars
=============================================================================
