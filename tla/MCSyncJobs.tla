----------------------------- MODULE MCSyncJobs -----------------------------
(* Two sync jobs and two processes on the same course; the jobs and the    *)
(* processes are interchangeable.                                          *)
EXTENDS SyncJobs, TLC

Interchangeable == Permutations(Jobs) \cup Permutations(Workers)
=============================================================================
