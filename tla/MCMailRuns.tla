----------------------------- MODULE MCMailRuns ------------------------------
(* MailRuns on a small instance: two rows are enough for two users, for a   *)
(* user with two rows, and for a row that comes or goes during a run.  No   *)
(* symmetry: the run checks liveness.                                       *)
EXTENDS MailRuns
=============================================================================
