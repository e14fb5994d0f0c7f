------------------------------ MODULE MCBackup ------------------------------
(* Behaviours of Backup for TLC.                                            *)
EXTENDS Backup, Shamir

mcSecrets == {0, 83, 255}

Behaviour(calls, size, successors, m, n, keys, gens, exports) ==
  [calls |-> calls, size |-> size, successors |-> successors, m |-> m, n |-> n,
   keys |-> keys, gens |-> gens, exports |-> exports,
   policies |-> {{}, {"BACKUPABLE"}, {"INJECTABLE"}},
   rmks |-> {83}, coefs |-> {202}]

\* Another thread against an export, and against injections; failures and two
\* exports, restored on other devices; the arithmetic of the sharing.
mcScenarios ==
  {Behaviour({"create", "destroy", "zeroize", "export"}, 2, {}, 2, 2, 3, 2, 1),
   Behaviour({"create", "destroy", "inject", "mfg", "hw"}, 2, {}, 2, 2, 3, 2, 0),
   [Behaviour({"create", "destroy", "export", "restore", "crash", "fault", "hw"},
              2, {1, 2}, 2, 2, 2, 1, 2) EXCEPT
      !.policies = {{"BACKUPABLE"}}, !.rmks = {83, 117}],
   [Behaviour({"create", "export", "restore"}, 1, {}, 2, 3, 1, 0, 1) EXCEPT
      !.policies = {{"BACKUPABLE"}}, !.rmks = mcSecrets, !.coefs = {0, 1, 202}],
   [Behaviour({"create", "export", "restore"}, 1, {}, 3, 3, 1, 0, 1) EXCEPT
      !.policies = {{"BACKUPABLE"}}, !.coefs = {202}]}

\* A smaller device.
smallScenarios ==
  {[Behaviour({"create", "export", "restore"}, 2, {1}, 2, 2, 2, 0, 1) EXCEPT
      !.policies = {{"BACKUPABLE"}}]}
=============================================================================
