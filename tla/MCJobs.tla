------------------------------- MODULE MCJobs -------------------------------
(* One worker, one job. *)
EXTENDS Jobs
=============================================================================
