------------------------------- MODULE MCAudit -------------------------------
(* Instances of AuditLog for TLC.                                             *)
EXTENDS AuditLog, TLC

CONSTANTS e1, e2

MCEvents == {e1, e2}
==============================================================================
