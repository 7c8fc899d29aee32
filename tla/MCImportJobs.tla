----------------------------- MODULE MCImportJobs -----------------------------
(* One job, or two jobs that import the same staged source. *)
EXTENDS ImportJobs, TLC

CONSTANTS j1, j2, src

OneSource == [j \in Jobs |-> src]
=============================================================================
