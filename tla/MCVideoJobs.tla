---------------------------- MODULE MCVideoJobs ----------------------------
(***************************************************************************)
(* Video jobs for TLC: the request threads and the job ids are alike, and  *)
(* no liveness is checked of them, so permuting either is sound.           *)
(***************************************************************************)
EXTENDS VideoJobs, TLC

Alike == Permutations(Requests) \cup Permutations(Ids)
=============================================================================
