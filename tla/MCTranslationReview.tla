------------------------ MODULE MCTranslationReview ------------------------
(* TranslationReview on small instances. *)
EXTENDS TranslationReview, TLC

\* Requests are interchangeable until they arrive.
Symmetry == Permutations(Requests)

(* Three requests over a file of one segment, two over a longer one; a failure comes before *)
(* the third request, which shows what the first two left.                                 *)
Few  == Cardinality(Arrived) <= 2
Fits == (Few \/ nsegs = 1)' /\ (Few \/ trouble' = trouble)
FittingSpec == Init /\ [][Next /\ Fits]_vars
=============================================================================
