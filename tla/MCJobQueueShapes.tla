--------------------------- MODULE MCJobQueueShapes ---------------------------
(* Two instances of JobQueue in one run: two jobs and two workers that a client  *)
(* may disturb once, and one job and one worker that two clients disturb as      *)
(* often as they may, while the clock runs.  A behaviour of the second leaves j2 *)
(* and w2 as they are: of its states the symmetry relates those that differ in   *)
(* the clients.                                                                  *)
EXTENDS MCJobQueue

CONSTANTS j1, j2, w1, w2

VARIABLE shape

Fits ==
  \/ shape = "jobs"  /\ calls + trouble <= 1 /\ clock = 0
  \/ shape = "races" /\ score[j2] = None /\ pc[w2] = "loop" /\ running[w2]

ShapedInit == Init /\ shape \in {"jobs", "races"}
ShapedNext ==
  /\ Next
  /\ UNCHANGED shape
  /\ Fits'
ShapedSpec == ShapedInit /\ [][ShapedNext]_<<vars, shape>>
=============================================================================
