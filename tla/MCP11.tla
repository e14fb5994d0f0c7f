------------------------------- MODULE MCP11 -------------------------------
(* Applications of P11Module for TLC: the calls made, the slots used, and  *)
(* bounds on the generations of a slot, the sessions opened and the objects*)
(* made.                                                                   *)
EXTENDS P11Module

App(calls, slots, gens, nopens, objects) ==
  [calls |-> calls, slots |-> slots, gens |-> gens, opens |-> nopens,
   objects |-> objects]

\* Setting up a token; handles and generations; messages in parts; session objects
\* made, destroyed and used; sessions of two slots.
mcScenarios ==
  {App({"C_InitToken", "sig", "crash", "failing save"}, 1, 1, 2, 2),
   App({"sig", "seed", "find", "crash"}, 1, 3, 2, 4),
   App({"sig", "sign"}, 1, 2, 2, 2),
   App({"sig", "verify"}, 1, 1, 2, 2),
   App({"secret", "enc"}, 1, 0, 3, 3),
   App({"kem", "dec", "C_CloseAllSessions"}, 2, 1, 3, 3)}

\* Signing only.
partsScenarios == {App({"sig", "sign"}, 1, 0, 1, 1)}
=============================================================================
