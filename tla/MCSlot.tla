------------------------------- MODULE MCSlot -------------------------------
(* Instances of SlotManager for TLC.                                         *)
EXTENDS SlotManager, TLC

CONSTANTS t1, t2

MCOneThread  == {t1}
MCTwoThreads == {t1, t2}
MCSymmetry   == Permutations(MCTwoThreads)
MCSoftKeys   == {"sk"}
MCAllKeys    == {"sk", "seed", "hw"}
=============================================================================
