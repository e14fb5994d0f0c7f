------------------------------ MODULE MCBoard ------------------------------
(* Environments of BoardDaemon for TLC.                                    *)
EXTENDS BoardDaemon

Env(asks, others, slow, faults) ==
  [asks |-> asks, others |-> others, late |-> slow, faults |-> faults]

\* Keys that travel as blobs while another client changes the KEK; private keys of one
\* core with seeds pushed by others, late runs and faults; both cores; symmetric keys.
mcScenarios ==
  {Env({"keygen", "use", "export", "import"} \X {"mlkem"}, {"kek"}, {}, 0),
   Env({"keygen", "use"} \X {"mlkem"}, {"seed"}, {"mlkem"}, 2),
   Env({"keygen", "use", "pub"} \X {"mldsa"}, {"seed"}, {"mldsa"}, 2),
   Env({"keygen", "pub"} \X Cores, {}, {}, 0),
   Env({"symgen", "symload", "symuse", "other"} \X {"mlkem"}, {"sym"}, {}, 2)}
=============================================================================
