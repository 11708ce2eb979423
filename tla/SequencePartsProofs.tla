-------------------------- MODULE SequencePartsProofs --------------------------
(***************************************************************************)
(* What the operators on sequences return that the modules are built from: *)
(* flattening, filtering, stable sorting and numbering the elements of a   *)
(* set, for any sequences and keys.                                        *)
(*                                                                         *)
(* The library defines flattening by a recursive function.  That it exists *)
(* is proved from a least counterexample, a set of numbers with a least    *)
(* element, since induction takes an operator as a parameter.              *)
(***************************************************************************)
EXTENDS SequenceParts, FiniteSetTheorems, SequenceTheorems, WellFoundedInduction, TLAPS

\* A set of numbers that is not empty has a least one.
LEMMA LeastNumber ==
  ASSUME NEW S, S \subseteq Nat, S # {}
  PROVE  \E m \in S : \A t \in S : m <= t
<1> DEFINE less == OpToRel(<, Nat)
<1>1. less = {ss \in Nat \X Nat : ss[1] < ss[2]}
  BY DEF OpToRel
<1>2. IsWellFoundedOn(less, Nat)
  BY NatLessThanWellFounded
<1> HIDE DEF less
<1>3. PICK m \in S : \A t \in S : ~ (<<t, m>> \in less)
  BY <1>2, WFMin
<1>4. ASSUME NEW t \in S PROVE m <= t
  <2>1. t \in Nat /\ m \in Nat /\ <<t, m>> \in Nat \X Nat
    OBVIOUS
  <2>2. ~ (<<t, m>>[1] < <<t, m>>[2])
    BY <1>1, <1>3, <2>1
  <2> QED
    BY <2>1, <2>2
<1> QED
  BY <1>4

\* A set of numbers up to n that is not empty has a greatest one.
LEMMA GreatestNumber ==
  ASSUME NEW n \in Nat, NEW S, S \subseteq 1 .. n, S # {}
  PROVE  \E m \in S : \A t \in S : t <= m
<1> DEFINE back == {b \in Nat : n - b \in S}
<1>1. back \subseteq Nat /\ back # {}
  <2>1. PICK t \in S : t \in 1 .. n
    OBVIOUS
  <2>2. n - t \in Nat /\ n - (n - t) = t
    BY <2>1
  <2>3. n - t \in back
    BY <2>1, <2>2
  <2> QED
    BY <2>3
<1>2. PICK b \in back : \A t \in back : b <= t
  <2> HIDE DEF back
  <2> QED
    BY <1>1, LeastNumber
<1>3. PICK m \in S : b = n - m
  <2>1. b \in Nat /\ n - b \in S /\ b = n - (n - b)
    OBVIOUS
  <2> QED
    BY <2>1
<1>4. ASSUME NEW t \in S PROVE t <= m
  <2>1. n - t \in back /\ t \in 1 .. n /\ m \in 1 .. n
    <3>1. t \in 1 .. n /\ m \in 1 .. n
      OBVIOUS
    <3>2. n - t \in Nat /\ n - (n - t) = t
      BY <3>1
    <3> QED
      BY <3>1, <3>2
  <2>2. n - m <= n - t
    BY <1>2, <1>3, <2>1
  <2> QED
    BY <2>1, <2>2
<1> QED
  BY <1>4

-----------------------------------------------------------------------------
(* Flattening *)

\* f puts the first m sequences of seqs together, one after another.
Joins(f, seqs, S, m) ==
  /\ f \in [1 .. m -> Seq(S)]
  /\ f[1] = seqs[1]
  /\ \A i \in 2 .. m : f[i] = f[i - 1] \o seqs[i]

\* FlattenSeq goes from piece to piece.
LEMMA Flattened ==
  ASSUME NEW S, NEW seqs \in Seq(Seq(S)), Len(seqs) # 0
  PROVE  \E f : Joins(f, seqs, S, Len(seqs)) /\ FlattenSeq(seqs) = f[Len(seqs)]
<1> DEFINE n == Len(seqs)
           bad == {m \in 1 .. n : ~ \E f : Joins(f, seqs, S, m)}
<1>1. n \in Nat /\ n # 0 /\ \A i \in 1 .. n : seqs[i] \in Seq(S)
  OBVIOUS
<1> HIDE DEF n
<1>2. bad = {}
  <2>1. SUFFICES ASSUME bad # {} PROVE FALSE
    OBVIOUS
  <2>2. bad \subseteq Nat
    BY <1>1
  <2>3. PICK m \in bad : \A t \in bad : m <= t
    BY <2>1, <2>2, LeastNumber
  <2>4. m # 1
    <3>1. Joins([i \in 1 .. 1 |-> seqs[1]], seqs, S, 1)
      BY <1>1 DEF Joins
    <3>2. 1 \notin bad
      BY <3>1
    <3> QED
      BY <2>3, <3>2
  <2>5. m \in 1 .. n /\ m - 1 \in 1 .. n /\ ~ (m <= m - 1)
    BY <1>1, <2>3, <2>4
  <2>6. m - 1 \notin bad
    BY <2>3, <2>5
  <2>7. PICK f : Joins(f, seqs, S, m - 1)
    BY <2>5, <2>6
  <2>f. /\ f \in [1 .. m - 1 -> Seq(S)] /\ f[1] = seqs[1]
        /\ \A i \in 2 .. m - 1 : f[i] = f[i - 1] \o seqs[i]
    BY <2>7 DEF Joins
  <2> DEFINE g == [i \in 1 .. m |-> IF i = m THEN f[m - 1] \o seqs[m] ELSE f[i]]
  <2>8. f[m - 1] \in Seq(S) /\ seqs[m] \in Seq(S)
    BY <1>1, <2>5, <2>f
  <2>9. f[m - 1] \o seqs[m] \in Seq(S)
    BY <2>8
  <2>10. g \in [1 .. m -> Seq(S)]
    <3>1. ASSUME NEW i \in 1 .. m, i # m PROVE f[i] \in Seq(S)
      <4>1. i \in 1 .. m - 1
        BY <2>5, <3>1
      <4> QED
        BY <2>f, <4>1
    <3> QED
      BY <2>9, <3>1
  <2>11. g[1] = seqs[1]
    BY <2>4, <2>5, <2>f
  <2>12. ASSUME NEW i \in 2 .. m PROVE g[i] = g[i - 1] \o seqs[i]
    <3>1. i \in 1 .. m /\ i - 1 \in 1 .. m /\ i - 1 # m
      BY <2>5
    <3>2. CASE i = m
      BY <3>1, <3>2
    <3>3. CASE i # m
      <4>1. i \in 2 .. m - 1
        BY <2>5, <3>3
      <4> QED
        BY <2>f, <3>1, <3>3, <4>1
    <3> QED
      BY <3>2, <3>3
  <2>13. Joins(g, seqs, S, m)
    BY <2>10, <2>11, <2>12 DEF Joins
  <2> QED
    BY <2>3, <2>13
<1>3. PICK f : Joins(f, seqs, S, n)
  <2>1. n \in 1 .. n
    BY <1>1
  <2> QED
    BY <1>2, <2>1
<1>f. /\ f \in [1 .. n -> Seq(S)] /\ f[1] = seqs[1]
      /\ \A i \in 2 .. n : f[i] = f[i - 1] \o seqs[i]
  BY <1>3 DEF Joins
<1>4. \E g : g = [i \in 1 .. n |-> IF i = 1 THEN seqs[i] ELSE g[i - 1] \o seqs[i]]
  <2> DEFINE g == [i \in 1 .. n |-> IF i = 1 THEN seqs[i] ELSE f[i - 1] \o seqs[i]]
  <2>1. ASSUME NEW i \in 1 .. n PROVE f[i] = IF i = 1 THEN seqs[i] ELSE f[i - 1] \o seqs[i]
    <3>1. i = 1 \/ i \in 2 .. n
      BY <1>1
    <3> QED
      BY <1>f, <3>1
  <2>2. f = g
    BY <1>f, <2>1
  <2> QED
    BY <2>2
<1>5. PICK g : /\ g = [i \in 1 .. n |-> IF i = 1 THEN seqs[i] ELSE g[i - 1] \o seqs[i]]
               /\ FlattenSeq(seqs) = g[n]
  BY <1>1, <1>4 DEF FlattenSeq, n
<1>6. ASSUME NEW i \in 1 .. n PROVE g[i] = IF i = 1 THEN seqs[i] ELSE g[i - 1] \o seqs[i]
  BY <1>5
<1> HIDE DEF bad
<1> DEFINE differ == {i \in 1 .. n : g[i] # f[i]}
<1>7. differ = {}
  <2> SUFFICES ASSUME differ # {} PROVE FALSE
    OBVIOUS
  <2>1. differ \subseteq Nat
    BY <1>1
  <2>2. PICK m \in differ : \A t \in differ : m <= t
    BY <2>1, LeastNumber
  <2>3. m # 1
    BY <1>1, <1>f, <1>6, <2>2
  <2>4. m \in 2 .. n /\ m - 1 \in 1 .. n /\ ~ (m <= m - 1)
    BY <1>1, <2>2, <2>3
  <2>5. g[m - 1] = f[m - 1]
    BY <2>2, <2>4
  <2>6. f[m] = f[m - 1] \o seqs[m]
    BY <1>f, <2>4
  <2>7. g[m] = g[m - 1] \o seqs[m]
    <3>1. m \in 1 .. n /\ m # 1
      BY <2>2, <2>3
    <3> HIDE DEF differ
    <3> QED
      BY <1>6, <3>1
  <2> QED
    BY <2>2, <2>5, <2>6, <2>7
<1>8. FlattenSeq(seqs) = f[n]
  <2>1. n \in 1 .. n
    BY <1>1
  <2>2. g[n] = f[n]
    BY <1>7, <2>1
  <2> QED
    BY <1>5, <2>2
<1> QED
  BY <1>3, <1>8 DEF n

\* Putting sequences together keeps their elements and adds none.
LEMMA FlattenedElements ==
  ASSUME NEW S, NEW seqs \in Seq(Seq(S))
  PROVE  /\ FlattenSeq(seqs) \in Seq(S)
         /\ Range(FlattenSeq(seqs)) = UNION {Range(seqs[i]) : i \in DOMAIN seqs}
<1>1. CASE Len(seqs) = 0
  <2>1. seqs = <<>> /\ FlattenSeq(seqs) = seqs
    BY <1>1 DEF FlattenSeq
  <2>2. DOMAIN <<>> = {} /\ <<>> \in Seq(S)
    OBVIOUS
  <2>3. Range(<<>>) = {}
    BY <2>2 DEF Range
  <2>4. UNION {Range(seqs[i]) : i \in DOMAIN seqs} = {}
    BY <2>1, <2>2
  <2> QED
    BY <2>1, <2>2, <2>3, <2>4
<1>2. CASE Len(seqs) # 0
  <2>1. PICK n \in Nat \ {0} : n = Len(seqs)
    BY <1>2
  <2>2. DOMAIN seqs = 1 .. n /\ \A i \in 1 .. n : seqs[i] \in Seq(S)
    BY <2>1
  <2>3. PICK f : Joins(f, seqs, S, n) /\ FlattenSeq(seqs) = f[n]
    BY <1>2, <2>1, Flattened
  <2>4. /\ f \in [1 .. n -> Seq(S)] /\ f[1] = seqs[1]
        /\ \A i \in 2 .. n : f[i] = f[i - 1] \o seqs[i]
    BY <2>3 DEF Joins
  <2> DEFINE All(m) == UNION {Range(seqs[i]) : i \in 1 .. m}
             bad    == {m \in 1 .. n : Range(f[m]) # All(m)}
  <2>5. All(1) = Range(seqs[1])
    OBVIOUS
  <2>6. ASSUME NEW m \in 2 .. n PROVE All(m) = All(m - 1) \cup Range(seqs[m])
    <3>1. 1 .. m = (1 .. m - 1) \cup {m}
      OBVIOUS
    <3> QED
      BY Zenon, <3>1
  <2> HIDE DEF All
  <2>7. bad = {}
    <3> SUFFICES ASSUME bad # {} PROVE FALSE
      OBVIOUS
    <3>1. PICK m \in bad : \A t \in bad : m <= t
      <4>1. bad \subseteq 1 .. n
        OBVIOUS
      <4>2. bad \subseteq Nat
        BY <4>1
      <4> HIDE DEF bad
      <4> QED
        BY <4>2, LeastNumber
    <3>2. m # 1
      BY <2>4, <2>5, <3>1
    <3>3. m \in 2 .. n /\ m - 1 \in 1 .. n /\ ~ (m <= m - 1)
      BY <3>1, <3>2
    <3>4. Range(f[m - 1]) = All(m - 1)
      BY <3>1, <3>3
    <3>5. f[m] = f[m - 1] \o seqs[m] /\ f[m - 1] \in Seq(S) /\ seqs[m] \in Seq(S)
      BY <2>2, <2>4, <3>3
    <3>6. Range(f[m - 1] \o seqs[m]) = Range(f[m - 1]) \cup Range(seqs[m])
      BY <3>5, RangeConcatenation
    <3> QED
      BY <2>6, <3>1, <3>3, <3>4, <3>5, <3>6
  <2>8. n \in 1 .. n
    OBVIOUS
  <2>9. Range(f[n]) = All(n) /\ f[n] \in Seq(S)
    BY <2>4, <2>7, <2>8
  <2> QED
    BY <2>2, <2>3, <2>9 DEF All
<1> QED
  BY <1>1, <1>2

\* Where the elements of the pieces are when FlattenSeq has put them together; off[c]
\* is how many there are in the first c pieces.
InPlace(out, seqs, off, n) ==
  /\ Len(out) = off[n]
  /\ \A p \in 1 .. off[n] : \E k \in 1 .. n : \E j \in 1 .. Len(seqs[k]) :
       p = off[k - 1] + j /\ out[p] = seqs[k][j]

LEMMA FlattenedPlaces ==
  ASSUME NEW S, NEW seqs \in Seq(Seq(S)), NEW n \in Nat \ {0}, Len(seqs) = n,
         NEW off \in [0 .. n -> Nat], off[0] = 0,
         \A c \in 1 .. n : off[c] = off[c - 1] + Len(seqs[c])
  PROVE  FlattenSeq(seqs) \in Seq(S) /\ InPlace(FlattenSeq(seqs), seqs, off, n)
<1>1. PICK f : Joins(f, seqs, S, n) /\ FlattenSeq(seqs) = f[n]
  BY Flattened
<1>2. /\ f \in [1 .. n -> Seq(S)] /\ f[1] = seqs[1]
      /\ \A i \in 2 .. n : f[i] = f[i - 1] \o seqs[i]
  BY <1>1 DEF Joins
<1> DEFINE Right(c) == /\ Len(f[c]) = off[c]
                       /\ \A p \in 1 .. off[c] : \E k \in 1 .. c : \E j \in 1 .. Len(seqs[k]) :
                            p = off[k - 1] + j /\ f[c][p] = seqs[k][j]
           wrong == {c \in 1 .. n : ~Right(c)}
<1>3. \A c \in 1 .. n : seqs[c] \in Seq(S) /\ Len(seqs[c]) \in Nat
  OBVIOUS
<1>4. wrong = {}
  <2> SUFFICES ASSUME wrong # {} PROVE FALSE
    OBVIOUS
  <2>1. PICK c \in wrong : \A t \in wrong : c <= t
    <3>1. wrong \subseteq 1 .. n
      OBVIOUS
    <3>2. wrong \subseteq Nat
      BY <3>1
    <3> HIDE DEF wrong
    <3> QED
      BY <3>2, LeastNumber
  <2>2. c \in 1 .. n /\ ~Right(c)
    BY <2>1
  <2>3. c \in 1 .. n
    BY <2>2
  <2>4. c # 1
    <3>1. off[1] = Len(seqs[1])
      BY <1>3
    <3>2. Len(f[1]) = off[1]
      BY <1>2, <3>1
    <3>3. ASSUME NEW p \in 1 .. off[1]
          PROVE  \E k \in 1 .. 1 : \E j \in 1 .. Len(seqs[k]) : p = off[k - 1] + j /\ f[1][p] = seqs[k][j]
      <4>1. p \in 1 .. Len(seqs[1]) /\ p = off[1 - 1] + p /\ f[1][p] = seqs[1][p]
        BY <1>2, <3>1
      <4> QED
        BY <4>1
    <3>4. Right(1)
      BY <3>2, <3>3
    <3> QED
      BY <2>2, <3>4
  <2> HIDE DEF Right, wrong
  <2>5. c \in 2 .. n /\ c - 1 \in 1 .. n /\ ~ (c <= c - 1) /\ c - 1 \in 0 .. n /\ c \in 0 .. n
    BY <2>3, <2>4
  <2>6. Right(c - 1)
    <3>1. c - 1 \notin wrong
      BY <2>1, <2>5
    <3> QED
      BY <2>5, <3>1 DEF wrong
  <2>7. /\ f[c] = f[c - 1] \o seqs[c] /\ f[c - 1] \in Seq(S) /\ seqs[c] \in Seq(S)
        /\ off[c] = off[c - 1] + Len(seqs[c])
    <3>1. f[c] = f[c - 1] \o seqs[c]
      BY <1>2, <2>5
    <3>2. f[c - 1] \in Seq(S) /\ seqs[c] \in Seq(S)
      BY <1>2, <1>3, <2>3, <2>5
    <3>3. off[c] = off[c - 1] + Len(seqs[c])
      BY <2>3
    <3> QED
      BY <3>1, <3>2, <3>3
  <2>8. PICK before \in Nat, all \in Nat, len \in Nat :
          before = off[c - 1] /\ all = off[c] /\ len = Len(seqs[c])
    <3>1. off[c - 1] \in Nat /\ off[c] \in Nat
      BY <2>5
    <3>2. Len(seqs[c]) \in Nat
      BY <1>3, <2>3
    <3> QED
      BY <3>1, <3>2
  <2>9. before = Len(f[c - 1])
    BY <2>6, <2>8 DEF Right
  <2>10. all = before + len
    BY <2>7, <2>8
  <2>11. /\ Len(f[c]) = all
         /\ \A p \in 1 .. before : f[c][p] = f[c - 1][p]
         /\ \A j \in 1 .. len : f[c][before + j] = seqs[c][j]
    <3>1. PICK u \in Seq(S), v \in Seq(S) : u = f[c - 1] /\ v = seqs[c]
      BY <2>7
    <3>2. Len(u) = before /\ Len(v) = len /\ f[c] = u \o v
      BY <2>7, <2>8, <2>9, <3>1
    <3>3. Len(u) = before /\ Len(v) = len
      BY <3>2
    <3>4. /\ Len(u \o v) = Len(u) + Len(v)
          /\ \A i \in 1 .. Len(u) + Len(v) : (u \o v)[i] = IF i <= Len(u) THEN u[i] ELSE v[i - Len(u)]
      BY ONLY ZenonT(40), <3>1, ConcatProperties
    <3>5. Len(u \o v) = all /\ \A p \in 1 .. before : (u \o v)[p] = u[p]
      BY <2>10, <3>3, <3>4
    <3>6. ASSUME NEW j \in 1 .. len PROVE (u \o v)[before + j] = v[j]
      <4>1. before + j \in 1 .. before + len /\ ~ (before + j <= before) /\ (before + j) - before = j
        OBVIOUS
      <4> QED
        BY <3>3, <3>4, <4>1
    <3> QED
      BY ZenonT(40), <3>1, <3>2, <3>5, <3>6
  <2>12. ASSUME NEW p \in 1 .. all
         PROVE  \E k \in 1 .. c : \E j \in 1 .. Len(seqs[k]) : p = off[k - 1] + j /\ f[c][p] = seqs[k][j]
    <3>1. CASE p <= before
      <4>1. p \in 1 .. before
        BY <3>1
      <4>2. PICK k \in 1 .. c - 1 : \E j \in 1 .. Len(seqs[k]) : p = off[k - 1] + j /\ f[c - 1][p] = seqs[k][j]
        BY <2>6, <2>8, <4>1 DEF Right
      <4>3. k \in 1 .. c
        BY <2>5
      <4> QED
        BY ZenonT(40), <2>11, <4>1, <4>2, <4>3
    <3>2. CASE p > before
      <4>1. PICK j \in 1 .. len : p = before + j
        <5>1. p - before \in 1 .. len /\ p = before + (p - before)
          BY <2>10, <3>2
        <5> QED
          BY <5>1
      <4>2. c \in 1 .. c /\ j \in 1 .. Len(seqs[c])
        BY <2>5, <2>8
      <4>3. p = off[c - 1] + j /\ f[c][p] = seqs[c][j]
        BY <2>8, <2>11, <4>1
      <4> QED
        BY <4>2, <4>3
    <3>3. p <= before \/ p > before
      OBVIOUS
    <3> QED
      BY <3>1, <3>2, <3>3, Zenon
  <2>13. Right(c)
    BY <2>8, <2>11, <2>12 DEF Right
  <2> QED
    BY <2>2, <2>13
<1>5. Right(n)
  <2>1. n \in 1 .. n
    OBVIOUS
  <2> HIDE DEF Right
  <2> QED
    BY <1>4, <2>1
<1>6. PICK out \in Seq(S) : out = f[n]
  BY <1>2
<1>7. InPlace(out, seqs, off, n)
  BY <1>5, <1>6 DEF InPlace
<1> QED
  BY <1>1, <1>6, <1>7

-----------------------------------------------------------------------------
(* Where the elements come from *)

\* out is the first m pieces of seqs, one after another: its k-th element is the q[k]-th
\* of piece p[k].
Origins(out, seqs, m, p, q) ==
  /\ p \in [1 .. Len(out) -> 1 .. m] /\ q \in [1 .. Len(out) -> Nat]
  /\ \A k \in 1 .. Len(out) : q[k] \in 1 .. Len(seqs[p[k]]) /\ out[k] = seqs[p[k]][q[k]]
  /\ \A k, l \in 1 .. Len(out) : k < l => p[k] < p[l] \/ (p[k] = p[l] /\ q[k] < q[l])
  /\ \A i \in 1 .. m : \A j \in 1 .. Len(seqs[i]) : \E k \in 1 .. Len(out) : p[k] = i /\ q[k] = j

\* One more piece at the end.
LEMMA OriginsOfOneMore ==
  ASSUME NEW S, NEW seqs, NEW m \in Nat, NEW u \in Seq(S), seqs[m + 1] \in Seq(S),
         NEW p, NEW q, Origins(u, seqs, m, p, q)
  PROVE  \E p2, q2 : Origins(u \o seqs[m + 1], seqs, m + 1, p2, q2)
<1>1. PICK v \in Seq(S) : v = seqs[m + 1]
  OBVIOUS
<1>2. PICK a \in Nat, b \in Nat : a = Len(u) /\ b = Len(v)
  OBVIOUS
<1>3. /\ Len(u \o v) = a + b
      /\ \A i \in 1 .. a + b : (u \o v)[i] = IF i <= a THEN u[i] ELSE v[i - a]
  BY ONLY ZenonT(40), <1>2, ConcatProperties
<1>4. PICK w : w = u \o v
  OBVIOUS
<1> DEFINE p2 == [k \in 1 .. a + b |-> IF k <= a THEN p[k] ELSE m + 1]
           q2 == [k \in 1 .. a + b |-> IF k <= a THEN q[k] ELSE k - a]
<1>5. /\ p \in [1 .. a -> 1 .. m] /\ q \in [1 .. a -> Nat]
      /\ \A k \in 1 .. a : q[k] \in 1 .. Len(seqs[p[k]]) /\ u[k] = seqs[p[k]][q[k]]
      /\ \A k, l \in 1 .. a : k < l => p[k] < p[l] \/ (p[k] = p[l] /\ q[k] < q[l])
      /\ \A i \in 1 .. m : \A j \in 1 .. Len(seqs[i]) : \E k \in 1 .. a : p[k] = i /\ q[k] = j
  BY <1>2 DEF Origins
<1>6. /\ Len(w) = a + b
      /\ \A k \in 1 .. a : w[k] = u[k]
      /\ \A k \in 1 .. a + b : k > a => w[k] = v[k - a]
  BY <1>3, <1>4
<1>7. /\ p2 \in [1 .. a + b -> 1 .. m + 1] /\ q2 \in [1 .. a + b -> Nat]
  BY <1>5
<1>8. ASSUME NEW k \in 1 .. a + b
      PROVE  q2[k] \in 1 .. Len(seqs[p2[k]]) /\ w[k] = seqs[p2[k]][q2[k]]
  <2>1. CASE k <= a
    <3>1. k \in 1 .. a /\ p2[k] = p[k] /\ q2[k] = q[k]
      BY <2>1
    <3> QED
      BY <1>5, <1>6, <3>1
  <2>2. CASE k > a
    <3>1. p2[k] = m + 1 /\ q2[k] = k - a /\ k - a \in 1 .. b
      BY <2>2
    <3> QED
      BY <1>1, <1>2, <1>6, <2>2, <3>1
  <2> QED
    BY <2>1, <2>2
<1>9. ASSUME NEW k \in 1 .. a + b, NEW l \in 1 .. a + b, k < l
      PROVE  p2[k] < p2[l] \/ (p2[k] = p2[l] /\ q2[k] < q2[l])
  <2>1. CASE l <= a
    BY <1>5, <1>9, <2>1
  <2>2. CASE l > a /\ k <= a
    <3>1. p2[l] = m + 1 /\ p2[k] = p[k] /\ p[k] \in 1 .. m
      BY <1>5, <2>2
    <3> QED
      BY <3>1
  <2>3. CASE l > a /\ k > a
    BY <1>9, <2>3
  <2> QED
    BY <2>1, <2>2, <2>3
<1>10. ASSUME NEW i \in 1 .. m + 1, NEW j \in 1 .. Len(seqs[i])
       PROVE  \E k \in 1 .. a + b : p2[k] = i /\ q2[k] = j
  <2>1. CASE i \in 1 .. m
    <3>1. PICK k \in 1 .. a : p[k] = i /\ q[k] = j
      BY <1>5, <2>1
    <3>2. k \in 1 .. a + b /\ p2[k] = i /\ q2[k] = j
      BY <3>1
    <3> QED
      BY <3>2
  <2>2. CASE i = m + 1
    <3>1. j \in 1 .. b
      BY <1>1, <1>2, <2>2
    <3>2. a + j \in 1 .. a + b /\ ~ (a + j <= a) /\ (a + j) - a = j
      BY <3>1
    <3>3. p2[a + j] = m + 1 /\ q2[a + j] = j
      BY <3>2
    <3> QED
      BY <2>2, <3>2, <3>3
  <2> QED
    BY <2>1, <2>2
<1> HIDE DEF p2, q2
<1>11. Origins(w, seqs, m + 1, p2, q2)
  BY <1>6, <1>7, <1>8, <1>9, <1>10 DEF Origins
<1> QED
  BY <1>1, <1>4, <1>11

\* Flattening keeps each element of each piece, once and in order, and adds none.
LEMMA FlattenedInOrder ==
  ASSUME NEW S, NEW seqs \in Seq(Seq(S))
  PROVE  /\ FlattenSeq(seqs) \in Seq(S)
         /\ \E p, q : Origins(FlattenSeq(seqs), seqs, Len(seqs), p, q)
<1>1. CASE Len(seqs) = 0
  <2>1. FlattenSeq(seqs) = <<>>
    BY <1>1 DEF FlattenSeq
  <2>2. PICK w \in Seq(S) : w = <<>>
    <3>1. <<>> \in Seq(S)
      OBVIOUS
    <3> QED
      BY <3>1
  <2>3. Len(w) = 0
    BY <2>2
  <2>4. Origins(w, seqs, 0, [k \in 1 .. 0 |-> 1], [k \in 1 .. 0 |-> 1])
    BY <2>3 DEF Origins
  <2> QED
    BY <1>1, <2>1, <2>2, <2>4
<1>2. CASE Len(seqs) # 0
  <2>1. PICK n \in Nat \ {0} : n = Len(seqs)
    BY <1>2
  <2>2. \A i \in 1 .. n : seqs[i] \in Seq(S)
    BY <2>1
  <2>3. PICK f : Joins(f, seqs, S, n) /\ FlattenSeq(seqs) = f[n]
    BY <1>2, <2>1, Flattened
  <2>4. /\ f \in [1 .. n -> Seq(S)] /\ f[1] = seqs[1]
        /\ \A i \in 2 .. n : f[i] = f[i - 1] \o seqs[i]
    BY <2>3 DEF Joins
  <2> DEFINE Right(m) == \E p, q : Origins(f[m], seqs, m, p, q)
             wrong    == {m \in 1 .. n : ~Right(m)}
  <2>5. Right(1)
    <3>1. PICK v \in Seq(S) : v = seqs[1]
      BY <2>2
    <3>2. Origins(v, seqs, 1, [k \in 1 .. Len(v) |-> 1], [k \in 1 .. Len(v) |-> k])
      BY <3>1 DEF Origins
    <3> QED
      BY <2>4, <3>1, <3>2
  <2>6. ASSUME NEW m \in 1 .. n - 1, Right(m) PROVE Right(m + 1)
    <3>1. m \in Nat /\ m + 1 \in 2 .. n /\ m \in 1 .. n /\ m + 1 \in 1 .. n /\ (m + 1) - 1 = m
      OBVIOUS
    <3>2. f[m + 1] = f[m] \o seqs[m + 1]
      BY <2>4, <3>1
    <3>3. f[m] \in Seq(S) /\ seqs[m + 1] \in Seq(S)
      BY <2>2, <2>4, <3>1
    <3>4. PICK p, q : Origins(f[m], seqs, m, p, q)
      BY <2>6
    <3>5. \E p2, q2 : Origins(f[m] \o seqs[m + 1], seqs, m + 1, p2, q2)
      BY <3>1, <3>3, <3>4, OriginsOfOneMore
    <3> QED
      BY <3>2, <3>5
  <2> HIDE DEF Right
  <2>7. wrong = {}
    <3> SUFFICES ASSUME wrong # {} PROVE FALSE
      OBVIOUS
    <3>1. PICK m \in wrong : \A t \in wrong : m <= t
      <4>1. wrong \subseteq 1 .. n
        OBVIOUS
      <4>2. wrong \subseteq Nat
        BY <4>1
      <4> HIDE DEF wrong
      <4> QED
        BY <4>2, LeastNumber
    <3>2. m \in 1 .. n /\ ~Right(m) /\ m # 1
      BY <2>5, <3>1
    <3>3. m - 1 \in 1 .. n - 1 /\ m - 1 \in 1 .. n /\ ~ (m <= m - 1) /\ (m - 1) + 1 = m
      BY <3>2
    <3>4. Right(m - 1)
      BY <3>1, <3>3
    <3>5. Right((m - 1) + 1)
      BY <2>6, <3>3, <3>4
    <3> QED
      BY <3>2, <3>3, <3>5
  <2>8. n \in 1 .. n
    OBVIOUS
  <2>9. Right(n) /\ f[n] \in Seq(S)
    BY <2>4, <2>7, <2>8
  <2> QED
    BY <2>1, <2>3, <2>9 DEF Right
<1>3. Len(seqs) = 0 \/ Len(seqs) # 0
  OBVIOUS
<1> QED
  BY <1>1, <1>2, <1>3

\* The m elements of out are those of the n pieces, each at one place of one piece.
OneOrigin(out, seqs, m, n, p, q) ==
  /\ p \in [1 .. m -> 1 .. n] /\ q \in [1 .. m -> Nat]
  /\ \A k \in 1 .. m : q[k] \in DOMAIN seqs[p[k]] /\ out[k] = seqs[p[k]][q[k]]
  /\ \A k, l \in 1 .. m : p[k] = p[l] /\ q[k] = q[l] => k = l
  /\ \A i \in 1 .. n : \A j \in DOMAIN seqs[i] : \E k \in 1 .. m : p[k] = i /\ q[k] = j

\* An element has one origin.
LEMMA OriginsByPlace ==
  ASSUME NEW S, NEW seqs \in Seq(Seq(S)), NEW out \in Seq(S), NEW p, NEW q,
         Origins(out, seqs, Len(seqs), p, q)
  PROVE  OneOrigin(out, seqs, Len(out), Len(seqs), p, q)
<1> DEFINE m == Len(out)
           n == Len(seqs)
<1>0. m \in Nat /\ n \in Nat /\ \A i \in 1 .. n : DOMAIN seqs[i] = 1 .. Len(seqs[i])
  OBVIOUS
<1> HIDE DEF m, n
<1>1. /\ p \in [1 .. m -> 1 .. n] /\ q \in [1 .. m -> Nat]
      /\ \A k \in 1 .. m : q[k] \in 1 .. Len(seqs[p[k]]) /\ out[k] = seqs[p[k]][q[k]]
      /\ \A k, l \in 1 .. m : k < l => p[k] < p[l] \/ (p[k] = p[l] /\ q[k] < q[l])
      /\ \A i \in 1 .. n : \A j \in 1 .. Len(seqs[i]) : \E k \in 1 .. m : p[k] = i /\ q[k] = j
  BY DEF Origins, m, n
<1>2. ASSUME NEW k \in 1 .. m, NEW l \in 1 .. m, p[k] = p[l], q[k] = q[l] PROVE k = l
  <2>1. p[k] \in Nat /\ q[k] \in Nat
    BY <1>0, <1>1
  <2>2. ~ (p[k] < p[l]) /\ ~ (p[l] < p[k]) /\ ~ (q[k] < q[l]) /\ ~ (q[l] < q[k])
    BY <1>2, <2>1
  <2>3. ~ (k < l) /\ ~ (l < k)
    BY <1>1, <1>2, <2>2
  <2> QED
    BY <2>3
<1>3. ASSUME NEW k \in 1 .. m PROVE q[k] \in DOMAIN seqs[p[k]] /\ out[k] = seqs[p[k]][q[k]]
  <2>1. p[k] \in 1 .. n
    BY <1>1
  <2> QED
    BY <1>0, <1>1, <2>1
<1>4. ASSUME NEW i \in 1 .. n, NEW j \in DOMAIN seqs[i]
      PROVE  \E k \in 1 .. m : p[k] = i /\ q[k] = j
  <2>1. j \in 1 .. Len(seqs[i])
    BY <1>0
  <2> QED
    BY <1>1, <2>1
<1>5. p \in [1 .. m -> 1 .. n] /\ q \in [1 .. m -> Nat]
  BY <1>1
<1> QED
  BY <1>2, <1>3, <1>4, <1>5 DEF OneOrigin, m, n

\* The k-th item of out is the g[k]-th of s, in order, and every place of kept has one.
Picks(out, s, kept, g) ==
  /\ g \in [1 .. Len(out) -> 1 .. Len(s)]
  /\ \A k \in 1 .. Len(out) : g[k] \in kept /\ out[k] = s[g[k]]
  /\ \A k, l \in 1 .. Len(out) : k < l => g[k] < g[l]
  /\ \A i \in 1 .. Len(s) : i \in kept => \E k \in 1 .. Len(out) : g[k] = i

\* A filtered list has the items it kept, each once and in order.
LEMMA KeepingPicks ==
  ASSUME NEW S, NEW s \in Seq(S), NEW kept
  PROVE  /\ Keeping(s, kept) \in Seq(S)
         /\ \E g : Picks(Keeping(s, kept), s, kept, g)
<1>1. PICK n \in Nat : n = Len(s)
  OBVIOUS
<1>2. DOMAIN s = 1 .. n /\ \A i \in 1 .. n : s[i] \in S
  BY <1>1
<1> DEFINE seqs == [i \in DOMAIN s |-> IF i \in kept THEN <<s[i]>> ELSE <<>>]
<1>3. \A i \in 1 .. n : seqs[i] \in Seq(S)
  BY <1>2
<1>4. seqs \in Seq(Seq(S)) /\ Len(seqs) = n
  <2>1. seqs \in [1 .. n -> Seq(S)]
    BY <1>2, <1>3
  <2> HIDE DEF seqs
  <2> QED
    BY <2>1
<1>5. \A i \in 1 .. n : /\ Len(seqs[i]) = IF i \in kept THEN 1 ELSE 0
                        /\ i \in kept => seqs[i][1] = s[i]
  <2>1. ASSUME NEW i \in 1 .. n
        PROVE  /\ Len(seqs[i]) = IF i \in kept THEN 1 ELSE 0
               /\ i \in kept => seqs[i][1] = s[i]
    <3>1. CASE i \in kept
      BY <1>2, <3>1
    <3>2. CASE i \notin kept
      BY <1>2, <3>2
    <3> QED
      BY <3>1, <3>2
  <2> QED
    BY <2>1
<1>6. Keeping(s, kept) = FlattenSeq(seqs)
  BY DEF Keeping
<1> HIDE DEF seqs
<1>7. PICK out \in Seq(S) : out = FlattenSeq(seqs) /\ \E p, q : Origins(out, seqs, n, p, q)
  BY <1>4, FlattenedInOrder
<1>8. PICK p, q : Origins(out, seqs, n, p, q)
  BY <1>7
<1>9. PICK m \in Nat : m = Len(out)
  BY <1>7
<1>10. /\ p \in [1 .. m -> 1 .. n] /\ q \in [1 .. m -> Nat]
       /\ \A k \in 1 .. m : q[k] \in 1 .. Len(seqs[p[k]]) /\ out[k] = seqs[p[k]][q[k]]
       /\ \A k, l \in 1 .. m : k < l => p[k] < p[l] \/ (p[k] = p[l] /\ q[k] < q[l])
       /\ \A i \in 1 .. n : \A j \in 1 .. Len(seqs[i]) : \E k \in 1 .. m : p[k] = i /\ q[k] = j
  BY <1>8, <1>9 DEF Origins
<1>11. ASSUME NEW k \in 1 .. m PROVE p[k] \in kept /\ q[k] = 1 /\ out[k] = s[p[k]]
  <2>1. p[k] \in 1 .. n /\ q[k] \in 1 .. Len(seqs[p[k]]) /\ out[k] = seqs[p[k]][q[k]]
    BY <1>10
  <2>2. p[k] \in kept
    BY <1>5, <2>1
  <2> QED
    BY <1>5, <2>1, <2>2
<1>12. \A k, l \in 1 .. m : k < l => p[k] < p[l]
  BY <1>10, <1>11
<1>13. ASSUME NEW i \in 1 .. n, i \in kept PROVE \E k \in 1 .. m : p[k] = i
  <2>1. 1 \in 1 .. Len(seqs[i])
    BY <1>5, <1>13
  <2> QED
    BY <1>10, <2>1
<1>14. Picks(out, s, kept, p)
  BY <1>1, <1>9, <1>10, <1>11, <1>12, <1>13 DEF Picks
<1> QED
  BY <1>6, <1>7, <1>14

\* The elements of the first piece come first.
LEMMA OriginsLead ==
  ASSUME NEW S, NEW seqs \in Seq(Seq(S)), NEW out \in Seq(S), NEW p, NEW q,
         Origins(out, seqs, Len(seqs), p, q), Len(seqs) # 0, NEW n \in Nat, Len(seqs[1]) = n
  PROVE  \A k \in 1 .. n : k \in 1 .. Len(out) /\ p[k] = 1 /\ q[k] = k
<1>1. PICK m \in Nat, c \in Nat : m = Len(out) /\ c = Len(seqs) /\ 1 \in 1 .. c
  OBVIOUS
<1>2. /\ p \in [1 .. m -> 1 .. c] /\ q \in [1 .. m -> Nat]
      /\ \A k \in 1 .. m : q[k] \in 1 .. Len(seqs[p[k]])
      /\ \A k, l \in 1 .. m : k < l => p[k] < p[l] \/ (p[k] = p[l] /\ q[k] < q[l])
      /\ \A j \in 1 .. n : \E k \in 1 .. m : p[k] = 1 /\ q[k] = j
  <2>1. Origins(out, seqs, c, p, q) /\ Len(out) = m /\ Len(seqs[1]) = n
    BY <1>1
  <2>2. /\ p \in [1 .. m -> 1 .. c] /\ q \in [1 .. m -> Nat]
        /\ \A k \in 1 .. m : q[k] \in 1 .. Len(seqs[p[k]])
        /\ \A k, l \in 1 .. m : k < l => p[k] < p[l] \/ (p[k] = p[l] /\ q[k] < q[l])
    BY <2>1 DEF Origins
  <2>3. ASSUME NEW j \in 1 .. n PROVE \E k \in 1 .. m : p[k] = 1 /\ q[k] = j
    BY <1>1, <2>1 DEF Origins
  <2> QED
    BY <2>2, <2>3
<1> DEFINE Leads(k) == k \in 1 .. m /\ p[k] = 1 /\ q[k] = k
           stray    == {k \in 1 .. n : ~Leads(k)}
<1>3. stray = {}
  <2> SUFFICES ASSUME stray # {} PROVE FALSE
    OBVIOUS
  <2>1. PICK k \in stray : \A t \in stray : k <= t
    <3>1. stray \subseteq 1 .. n
      OBVIOUS
    <3>2. stray \subseteq Nat
      BY <3>1
    <3> HIDE DEF stray
    <3> QED
      BY <3>2, LeastNumber
  <2>2. k \in 1 .. n /\ ~Leads(k)
    BY <2>1
  <2>3. ASSUME NEW j \in 1 .. n, j < k PROVE j \in 1 .. m /\ p[j] = 1 /\ q[j] = j
    <3>1. ~ (k <= j)
      BY <2>2, <2>3
    <3>2. j \notin stray
      BY <2>1, <3>1
    <3> QED
      BY <3>2
  <2> HIDE DEF stray
  <2>4. PICK l \in 1 .. m : p[l] = 1 /\ q[l] = k
    BY <1>2, <2>2
  <2>5. l # k
    BY <2>2, <2>4
  <2>6. ~ (l < k)
    <3>1. SUFFICES ASSUME l < k PROVE FALSE
      OBVIOUS
    <3>2. q[l] = l
      BY <2>2, <2>3, <3>1
    <3> QED
      BY <2>4, <2>5, <3>2
  <2>7. k < l /\ k \in 1 .. m
    BY <2>2, <2>5, <2>6
  <2>8. p[k] \in 1 .. c /\ q[k] \in 1 .. Len(seqs[p[k]]) /\ (p[k] < p[l] \/ (p[k] = p[l] /\ q[k] < q[l]))
    BY <1>2, <2>7
  <2>9. p[k] = 1 /\ q[k] \in 1 .. n /\ q[k] < k
    BY <2>4, <2>8
  <2>10. PICK j \in 1 .. n : j = q[k] /\ j < k
    BY <2>9
  <2>11. j \in 1 .. m /\ p[j] = 1 /\ q[j] = j
    BY <2>3, <2>10
  <2>12. ~ (p[j] < p[k]) /\ ~ (q[j] < q[k])
    BY <2>9, <2>10, <2>11
  <2> QED
    BY <1>2, <2>7, <2>10, <2>11, <2>12
<1> QED
  BY <1>1, <1>3

\* A filter that keeps the first i items leaves them where they are.
LEMMA PicksLead ==
  ASSUME NEW S, NEW s \in Seq(S), NEW out \in Seq(S), NEW kept, NEW g, Picks(out, s, kept, g),
         NEW i \in Nat, i <= Len(s), 1 .. i \subseteq kept
  PROVE  \A k \in 1 .. i : k \in 1 .. Len(out) /\ g[k] = k
<1>1. PICK m \in Nat, n \in Nat : m = Len(out) /\ n = Len(s)
  OBVIOUS
<1>2. /\ g \in [1 .. m -> 1 .. n]
      /\ \A k, l \in 1 .. m : k < l => g[k] < g[l]
      /\ \A j \in 1 .. i : \E k \in 1 .. m : g[k] = j
  <2>1. \A j \in 1 .. i : j \in 1 .. n /\ j \in kept
    BY <1>1
  <2> QED
    BY <1>1, <2>1 DEF Picks
<1> DEFINE Leads(k) == k \in 1 .. m /\ g[k] = k
           stray    == {k \in 1 .. i : ~Leads(k)}
<1>3. stray = {}
  <2> SUFFICES ASSUME stray # {} PROVE FALSE
    OBVIOUS
  <2>1. PICK k \in stray : \A t \in stray : k <= t
    <3>1. stray \subseteq 1 .. i
      OBVIOUS
    <3>2. stray \subseteq Nat
      BY <3>1
    <3> HIDE DEF stray
    <3> QED
      BY <3>2, LeastNumber
  <2>2. k \in 1 .. i /\ ~Leads(k)
    BY <2>1
  <2>3. ASSUME NEW j \in 1 .. i, j < k PROVE j \in 1 .. m /\ g[j] = j
    <3>1. ~ (k <= j)
      BY <2>2, <2>3
    <3>2. j \notin stray
      BY <2>1, <3>1
    <3> QED
      BY <3>2
  <2> HIDE DEF stray
  <2>4. PICK l \in 1 .. m : g[l] = k
    BY <1>2, <2>2
  <2>5. l # k
    BY <2>2, <2>4
  <2>6. ~ (l < k)
    <3>1. SUFFICES ASSUME l < k PROVE FALSE
      OBVIOUS
    <3>2. g[l] = l
      BY <2>2, <2>3, <3>1
    <3> QED
      BY <2>4, <2>5, <3>2
  <2>7. k < l /\ k \in 1 .. m
    BY <2>2, <2>5, <2>6
  <2>8. g[k] \in 1 .. n /\ g[k] < k
    BY <1>2, <2>4, <2>7
  <2>9. PICK j \in 1 .. i : j = g[k] /\ j < k
    BY <2>2, <2>8
  <2>10. j \in 1 .. m /\ g[j] = j
    BY <2>3, <2>9
  <2>11. g[j] < g[k]
    BY <1>2, <2>7, <2>9, <2>10
  <2> QED
    BY <2>9, <2>10, <2>11
<1> QED
  BY <1>1, <1>3

\* The k-th item of out is the g[k]-th of s; each has a place, the keys ascend and items
\* of one key keep their order.
Sorts(out, s, key, g) ==
  /\ Len(out) = Len(s)
  /\ g \in [1 .. Len(s) -> 1 .. Len(s)]
  /\ \A k \in 1 .. Len(s) : out[k] = s[g[k]]
  /\ \A k, l \in 1 .. Len(s) :
       k < l => key[g[k]] < key[g[l]] \/ (key[g[k]] = key[g[l]] /\ g[k] < g[l])
  /\ \A i \in 1 .. Len(s) : \E k \in 1 .. Len(s) : g[k] = i

\* A stable sort is a permutation that leaves items of one key in their order.
LEMMA SortedByKeySorts ==
  ASSUME NEW S, NEW s \in Seq(S), NEW key \in [1 .. Len(s) -> Int]
  PROVE  /\ SortedByKey(s, key) \in Seq(S)
         /\ \E g : Sorts(SortedByKey(s, key), s, key, g)
<1>1. PICK n \in Nat : n = Len(s)
  OBVIOUS
<1>2. DOMAIN s = 1 .. n /\ key \in [1 .. n -> Int] /\ DOMAIN key = 1 .. n
  BY <1>1
<1>3. \A i \in 1 .. n : /\ IsFiniteSet(Sooner(key, i)) /\ Sooner(key, i) \subseteq (1 .. n) \ {i}
  <2>1. \A i \in 1 .. n : Sooner(key, i) \subseteq (1 .. n) \ {i}
    BY <1>2 DEF Sooner
  <2>2. IsFiniteSet(1 .. n)
    BY FS_Interval
  <2> QED
    BY <2>1, <2>2, FS_Subset
<1> DEFINE r == [i \in 1 .. n |-> Cardinality(Sooner(key, i))]
<1>4. \A i \in 1 .. n : r[i] \in 0 .. n - 1
  <2>1. ASSUME NEW i \in 1 .. n PROVE r[i] \in 0 .. n - 1
    <3>1. IsFiniteSet(1 .. n) /\ Cardinality(1 .. n) = n
      BY FS_Interval
    <3>2. IsFiniteSet((1 .. n) \ {i}) /\ Cardinality((1 .. n) \ {i}) = n - 1
      BY <3>1, FS_RemoveElement
    <3>3. Cardinality(Sooner(key, i)) <= n - 1
      BY <1>3, <3>2, FS_Subset
    <3>4. Cardinality(Sooner(key, i)) \in Nat
      BY <1>3, FS_CardinalityType
    <3> QED
      BY <3>3, <3>4
  <2> QED
    BY <2>1
<1> DEFINE Earlier(i, j) == key[i] < key[j] \/ (key[i] = key[j] /\ i < j)
<1>5. ASSUME NEW i \in 1 .. n, NEW j \in 1 .. n, Earlier(i, j) PROVE r[i] < r[j]
  <2>1. Sooner(key, i) \subseteq Sooner(key, j)
    BY <1>2, <1>5 DEF Sooner
  <2>2. i \in Sooner(key, j) /\ i \notin Sooner(key, i)
    BY <1>2, <1>3, <1>5 DEF Sooner
  <2>3. /\ Cardinality(Sooner(key, i)) <= Cardinality(Sooner(key, j))
        /\ Cardinality(Sooner(key, i)) # Cardinality(Sooner(key, j))
    BY <1>3, <2>1, <2>2, FS_Subset
  <2>4. Cardinality(Sooner(key, i)) \in Nat /\ Cardinality(Sooner(key, j)) \in Nat
    BY <1>3, FS_CardinalityType
  <2> QED
    BY <2>3, <2>4
<1>6. \A i, j \in 1 .. n : i # j => Earlier(i, j) \/ Earlier(j, i)
  BY <1>2
<1> HIDE DEF r, Earlier
<1>7. r \in Injection(1 .. n, 0 .. n - 1)
  <2>1. \A i, j \in 1 .. n : r[i] = r[j] => i = j
    <3>1. ASSUME NEW i \in 1 .. n, NEW j \in 1 .. n, r[i] = r[j], i # j PROVE FALSE
      <4>1. r[i] < r[j] \/ r[j] < r[i]
        BY <1>5, <1>6, <3>1
      <4> QED
        BY <1>4, <3>1, <4>1
    <3> QED
      BY <3>1
  <2>2. r \in [1 .. n -> 0 .. n - 1]
    BY <1>4 DEF r
  <2> QED
    BY <2>1, <2>2 DEF Injection, IsInjective
<1>8. r \in Surjection(1 .. n, 0 .. n - 1)
  <2>1. IsFiniteSet(1 .. n) /\ Cardinality(1 .. n) = n
    BY FS_Interval
  <2>2. IsFiniteSet(0 .. n - 1) /\ Cardinality(0 .. n - 1) = n
    BY FS_Interval
  <2> QED
    BY <1>7, <2>1, <2>2, FS_Injection
<1> DEFINE g == [k \in 1 .. n |-> CHOOSE i \in DOMAIN s : Cardinality(Sooner(key, i)) = k - 1]
<1>9. ASSUME NEW k \in 1 .. n PROVE g[k] \in 1 .. n /\ r[g[k]] = k - 1
  <2>1. k - 1 \in 0 .. n - 1
    OBVIOUS
  <2>2. PICK i \in 1 .. n : r[i] = k - 1
    BY <1>8, <2>1 DEF Surjection
  <2>3. Cardinality(Sooner(key, i)) = k - 1
    BY <2>2 DEF r
  <2>4. g[k] \in 1 .. n /\ Cardinality(Sooner(key, g[k])) = k - 1
    BY <1>2, <2>3
  <2> QED
    BY <2>4 DEF r
<1>10. /\ DOMAIN SortedByKey(s, key) = 1 .. n
       /\ \A k \in 1 .. n : SortedByKey(s, key)[k] = s[g[k]]
  BY <1>2 DEF SortedByKey
<1>11. SortedByKey(s, key) = [k \in 1 .. n |-> s[g[k]]]
  BY <1>2 DEF SortedByKey
<1> HIDE DEF g
<1>12. SortedByKey(s, key) \in [1 .. n -> S]
  BY <1>2, <1>9, <1>11
<1>13. PICK out \in Seq(S) : out = SortedByKey(s, key) /\ Len(out) = n
  BY <1>12
<1>14. g \in [1 .. n -> 1 .. n]
  BY <1>9 DEF g
<1>15. ASSUME NEW k \in 1 .. n, NEW l \in 1 .. n, k < l PROVE Earlier(g[k], g[l])
  <2>1. r[g[k]] = k - 1 /\ r[g[l]] = l - 1 /\ g[k] \in 1 .. n /\ g[l] \in 1 .. n
    BY <1>9
  <2>2. g[k] # g[l] /\ ~ (r[g[l]] < r[g[k]])
    BY <1>15, <2>1
  <2> QED
    BY <1>5, <1>6, <2>1, <2>2
<1>16. ASSUME NEW i \in 1 .. n PROVE \E k \in 1 .. n : g[k] = i
  <2>1. PICK c \in 0 .. n - 1 : c = r[i]
    BY <1>4
  <2>2. c + 1 \in 1 .. n /\ r[g[c + 1]] = r[i] /\ g[c + 1] \in 1 .. n
    BY <1>9, <2>1
  <2>3. g[c + 1] = i
    BY <1>7, <2>2 DEF Injection, IsInjective
  <2> QED
    BY <2>2, <2>3
<1>17. Sorts(out, s, key, g)
  BY <1>1, <1>10, <1>13, <1>14, <1>15, <1>16 DEF Sorts, Earlier
<1> QED
  BY <1>13, <1>17

-----------------------------------------------------------------------------
(* The elements of a set in a row *)

\* SetToSeq numbers the elements of a finite set.
LEMMA SetInARow ==
  ASSUME NEW S, IsFiniteSet(S)
  PROVE  /\ SetToSeq(S) \in Seq(S)
         /\ Len(SetToSeq(S)) = Cardinality(S) /\ Cardinality(S) \in Nat
         /\ DOMAIN SetToSeq(S) = 1 .. Cardinality(S)
         /\ \A x \in S : \E i \in 1 .. Cardinality(S) : SetToSeq(S)[i] = x
<1> DEFINE c == Cardinality(S)
           s == SetToSeq(S)
<1>1. c \in Nat /\ IsFiniteSet(1 .. c) /\ Cardinality(1 .. c) = c
  BY FS_CardinalityType, FS_Interval
<1>2. \E f \in [1 .. c -> S] : IsInjective(f)
  <2>1. ExistsBijection(1 .. c, S)
    BY FS_CardinalityType
  <2>2. PICK f \in Bijection(1 .. c, S) : TRUE
    BY <2>1 DEF ExistsBijection
  <2> QED
    BY <2>2 DEF Bijection, Injection
<1>3. s \in [1 .. c -> S] /\ IsInjective(s)
  BY <1>2 DEF SetToSeq
<1> HIDE DEF c, s
<1>4. s \in Surjection(1 .. c, S)
  <2>1. s \in Injection(1 .. c, S)
    BY <1>3 DEF Injection
  <2> QED
    BY <1>1, <2>1, FS_Injection DEF c
<1>5. s \in Seq(S) /\ Len(s) = c /\ DOMAIN s = 1 .. c
  BY <1>1, <1>3
<1>6. \A x \in S : \E i \in 1 .. c : s[i] = x
  BY <1>4 DEF Surjection
<1> QED
  BY <1>1, <1>5, <1>6 DEF s, c
=============================================================================
