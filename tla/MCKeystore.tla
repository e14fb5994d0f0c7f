----------------------------- MODULE MCKeystore -----------------------------
(* Instances of Keystore for TLC; the configurations give every constant.    *)
EXTENDS Keystore, TLC
=============================================================================
