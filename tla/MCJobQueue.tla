----------------------------- MODULE MCJobQueue -----------------------------
(* JobQueue on small instances. *)
EXTENDS JobQueue, TLC

\* Workers, clients and job ids are interchangeable.
Symmetry == Permutations(Jobs) \cup Permutations(Workers) \cup Permutations(Clients)
=============================================================================
