----------------------------- MODULE SequenceParts -----------------------------
(***************************************************************************)
(* Filtering a list and sorting it by a key, as Python's comprehensions and*)
(* its stable sorted() do it, said in terms of places: what SelectSeq and  *)
(* SortSeq compute, in a form that the proofs can unfold.                  *)
(***************************************************************************)
EXTENDS Integers, Sequences, FiniteSets, SequencesExt

\* the items of s at the places in kept, in their order
Keeping(s, kept) == FlattenSeq([i \in DOMAIN s |-> IF i \in kept THEN <<s[i]>> ELSE <<>>])

\* the places whose items come before the one at i
Sooner(key, i) == {j \in DOMAIN key : key[j] < key[i] \/ (key[j] = key[i] /\ j < i)}

\* s sorted by key[i], the least first; items of one key stay in their order
SortedByKey(s, key) ==
  [k \in DOMAIN s |-> s[CHOOSE i \in DOMAIN s : Cardinality(Sooner(key, i)) = k - 1]]
=============================================================================
