----------------------------- MODULE JobHandout -----------------------------
(***************************************************************************)
(* What the job queue promises its users: a submitted job is handed to one *)
(* worker, once.  A worker may let go of a job at any time, done with it   *)
(* or crashed; the job is not handed out again.                            *)
(***************************************************************************)
CONSTANTS Jobs, Workers, None

VARIABLES
  waiting,  \* jobs submitted and not yet handed out
  given,    \* jobs handed out so far
  hand      \* hand[w]: the job worker w has, or None

vars == <<waiting, given, hand>>

Init ==
  /\ waiting = {}
  /\ given = {}
  /\ hand = [w \in Workers |-> None]

Submit(j) ==
  /\ j \notin waiting \cup given
  /\ waiting' = waiting \cup {j}
  /\ UNCHANGED <<given, hand>>

Give(w, j) ==
  /\ hand[w] = None
  /\ j \in waiting
  /\ waiting' = waiting \ {j}
  /\ given' = given \cup {j}
  /\ hand' = [hand EXCEPT ![w] = j]

LetGo(w) ==
  /\ hand[w] # None
  /\ hand' = [hand EXCEPT ![w] = None]
  /\ UNCHANGED <<waiting, given>>

Next ==
  \/ \E j \in Jobs : Submit(j)
  \/ \E w \in Workers : LetGo(w) \/ \E j \in Jobs : Give(w, j)

Spec == Init /\ [][Next]_vars
=============================================================================
