---------------------------- MODULE MCPrintAudit ----------------------------
(* Model checking of PrintAudit. Its liveness is checked with its safety, so *)
(* no symmetry is declared.  Users are told apart only by who recorded a job *)
(* first, so the runs need not change the user before the first record.      *)
EXTENDS PrintAudit

CONSTANT FirstUser  \* the one of the users who records the first job

UserUnchanged == sql = <<>> => user' \subseteq {FirstUser}
=============================================================================
