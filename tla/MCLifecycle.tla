---------------------------- MODULE MCLifecycle ----------------------------
(* Small instances of module Lifecycle for TLC. *)
EXTENDS Lifecycle, TLC

CONSTANTS q1, q2, j1, j2, c1, c2, p1

\* Each of two queues has one job.
OneEach == (j1 :> q1) @@ (j2 :> q2)

\* One queue with one job.
Single == (j1 :> q1)

\* The callers of Shutdown are interchangeable, and so are the two queues,
\* each with its job.
Swap == (q1 :> q2) @@ (q2 :> q1) @@ (j1 :> j2) @@ (j2 :> j1)
MCSymmetry == Permutations(Callers) \cup {Swap}

============================================================================
