------------------------- MODULE ReviewWorkflowProofs -------------------------
(***************************************************************************)
(* A document in review, for any deployment, any number of providers and   *)
(* segments, any answers of the models and any order they come in.         *)
(***************************************************************************)
EXTENDS ReviewWorkflow, FiniteSetTheorems, WellFoundedInduction, TLAPS

\* an answer, the answers to a segment, the judge's word and a segment of the job
Target  == [model : Nat, text : Text, confidence : Nat]
Verdict == [winner : Nat, confidence : Int, concerns : BOOLEAN,
            by : {"heuristic", "default", "llm"}]
Reasons == {"confidence", "concerns", "tie", "length", "sample", "style", "none"}
Seg == [target : Target, winner : Nat, by : {"heuristic", "default", "llm"},
        confidence : Int, flagged : BOOLEAN, reason : Reasons, a : Nat, b : Nat]
Job == [status : {"processing", "pending_approval", "approved", "rejected"},
        mode : {"blocking", "async"}, approver : {"none", "reviewer"},
        segments : Seq(Seg), flagged : Nat, resolved : Nat, autoScore : BOOLEAN]
Metrics == [reasons : Seq(Reasons), violations : Nat, finished : BOOLEAN, flagRate : Nat]

-----------------------------------------------------------------------------
(* The invariant, in parts *)

Typed ==
  /\ setup \in Deployments
  /\ stage \in {"ask", "gather", "export", "decide", "raised", "review", "pool", "aborted",
              "rendered"}
  /\ asked \subseteq Nat
  /\ candidates \in Seq(Target)
  /\ \A i \in DOMAIN candidates : candidates[i].text \in Texts
  /\ job \in Job /\ job.mode = setup.mode
  /\ metrics \in Metrics

\* the answers on the list are those of n providers or segments without left, each once
OneEach(cs, n, left) ==
  /\ left \subseteq 1 .. n
  /\ {cs[i].model : i \in DOMAIN cs} = (1 .. n) \ left
  /\ \A i, j \in DOMAIN cs : cs[i].model = cs[j].model => i = j
InOrder(cs) == \A i \in DOMAIN cs : cs[i].model = i

\* an error has no confidence, an answer has
Failures(cs) == \A i \in DOMAIN cs : cs[i].text.error => cs[i].confidence = 0

AnswersInv ==
  /\ stage = "gather" => /\ OneEach(candidates, setup.providers, asked)
                         /\ ~Parallel \/ asked = {} => InOrder(candidates)
  /\ stage = "pool" => OneEach(candidates, Segments, asked)
  /\ stage \notin {"gather", "pool"} => asked = {}
  /\ Failures(candidates)
  /\ stage = "pool" => setup.driver = "simple"
  /\ setup.driver = "simple" => stage \in {"pool", "aborted", "rendered"}
  /\ setup.driver = "simple" /\ stage = "rendered" =>
       \A s \in 1 .. Segments : document[s].model = s

\* a segment without a flag has nothing a flag is for
Sound(seg) ==
  /\ seg.a = IF setup.providers > 0 THEN 1 ELSE 0
  /\ seg.b = IF setup.providers > 1 THEN 2 ELSE 0
  /\ seg.flagged <=> seg.reason # "none"
  /\ ~seg.flagged =>
       /\ seg.target.text.error => seg.by = "llm" \/ setup.judge = "off"
       /\ seg.confidence >= setup.block /\ seg.winner # Tie /\ seg.target.text.fits
       /\ ~(Worker /\ setup.checker /\ seg.target.text.issue)

SegmentsInv ==
  /\ Len(job.segments) <= Segments
  /\ stage = "gather" => Len(job.segments) < Segments
  /\ \A s \in DOMAIN job.segments : Sound(job.segments[s])
  /\ Len(metrics.reasons) = Cardinality(Flagged(job.segments))
  /\ stage # "rendered" => metrics.violations <= Len(job.segments)
  /\ stage = "pool" => job.segments = <<>>
  /\ metrics.violations <= Segments

Summed == job.flagged = Cardinality(Flagged(job.segments))
          /\ job.resolved = Cardinality(Resolved(job.segments))
FiguresInv ==
  /\ csv = <<>> \/ (csv = Rows(job) /\ Summed)
  /\ stage \in {"ask", "gather", "pool", "aborted", "export"} => csv = <<>>
  /\ stage \in {"export", "decide", "raised", "review"} =>
       Worker /\ Summed /\ metrics.flagRate = job.flagged
  /\ stage \in {"ask", "gather", "pool", "aborted", "rendered"} => job.status = "processing"
  /\ stage = "rendered" => ~Worker
  /\ job.flagged <= Segments /\ job.resolved <= Segments

ReviewInv == Typed /\ AnswersInv /\ SegmentsInv /\ FiguresInv

-----------------------------------------------------------------------------
(* The least of a set of numbers, the best of a list and the sort by model *)

LEMMA LeastOf ==
  ASSUME NEW S, S \subseteq Nat, S # {}
  PROVE  \E m \in S : \A t \in S : m <= t
<1> DEFINE less == OpToRel(<, Nat)
<1>1. less = {ss \in Nat \X Nat : ss[1] < ss[2]}
  BY DEF OpToRel
<1>2. IsWellFoundedOn(less, Nat)
  BY NatLessThanWellFounded
<1> HIDE DEF less
<1>3. PICK m \in S : \A t \in S : ~ (<<t, m>> \in less)
  BY <1>2, WFMin
<1>4. ASSUME NEW t \in S PROVE m <= t
  <2>1. t \in Nat /\ m \in Nat /\ <<t, m>> \in Nat \X Nat
    OBVIOUS
  <2>2. ~ (<<t, m>>[1] < <<t, m>>[2])
    BY <1>1, <1>3, <2>1
  <2> QED
    BY <2>1, <2>2
<1> QED
  BY <1>4

\* Among the first n candidates one is the first of those with the fewest dashes.
LEMMA BestOf ==
  ASSUME NEW cs \in Seq(Target), NEW n \in DOMAIN cs
  PROVE  \E i \in 1 .. n : /\ \A j \in 1 .. n : cs[j].text.style <= cs[i].text.style
                           /\ \A j \in 1 .. i - 1 : cs[j].text.style < cs[i].text.style
<1> DEFINE st == [i \in DOMAIN cs |-> cs[i].text.style]
           Best(i, m) == /\ \A j \in 1 .. m : st[j] <= st[i]
                         /\ \A j \in 1 .. i - 1 : st[j] < st[i]
           bad == {m \in DOMAIN cs : ~ \E i \in 1 .. m : Best(i, m)}
<1>1. Len(cs) \in Nat /\ DOMAIN cs = 1 .. Len(cs) /\ n \in 1 .. Len(cs)
  OBVIOUS
<1>a. ASSUME NEW i \in DOMAIN cs PROVE cs[i].text.style \in Int
  <2>1. cs[i] \in Target
    BY <1>1
  <2> QED
    BY <2>1 DEF Target, Text
<1>b. /\ st \in [1 .. Len(cs) -> Int]
      /\ \A i \in 1 .. Len(cs) : st[i] = cs[i].text.style
  BY <1>1, <1>a
<1> HIDE DEF st
<1>2. SUFFICES ASSUME bad # {} PROVE FALSE
  <2>1. PICK i \in 1 .. n : Best(i, n)
    BY <1>1, <1>2
  <2>2. \A j \in 1 .. n : cs[j].text.style <= cs[i].text.style
    BY <1>1, <1>b, <2>1
  <2>3. \A j \in 1 .. i - 1 : cs[j].text.style < cs[i].text.style
    BY <1>1, <1>b, <2>1
  <2> QED
    BY <2>2, <2>3
<1>3. bad \subseteq Nat
  BY <1>1
<1>4. PICK m \in bad : \A t \in bad : m <= t
  BY <1>2, <1>3, LeastOf
<1>5. m # 1
  <2>1. m = 1 => Best(1, 1)
    BY <1>1, <1>b
  <2> QED
    BY <1>4, <2>1
<1>6. m \in 2 .. Len(cs) /\ m - 1 \in 1 .. Len(cs) /\ m - 1 \notin bad
  <2>1. m \in 1 .. Len(cs)
    BY <1>1, <1>4
  <2>2. ~ (m <= m - 1)
    BY <2>1
  <2> HIDE DEF bad
  <2> QED
    BY <1>1, <1>4, <1>5, <2>1, <2>2
<1>7. PICK i \in 1 .. m - 1 : Best(i, m - 1)
  BY <1>1, <1>6
<1>8. CASE st[m] <= st[i]
  <2>1. \A j \in 1 .. m : j \in 1 .. m - 1 \/ j = m
    BY <1>6
  <2>2. Best(i, m) /\ i \in 1 .. m
    BY <1>6, <1>7, <1>8, <2>1
  <2> QED
    BY <1>4, <2>2
<1>9. CASE st[i] < st[m]
  <2>1. \A j \in 1 .. m - 1 : st[j] \in Int /\ st[j] <= st[i]
    <3>1. ASSUME NEW j \in 1 .. m - 1 PROVE j \in 1 .. Len(cs)
      BY <1>1, <1>6
    <3> QED
      BY <1>b, <1>7, <3>1
  <2>2. st[i] \in Int /\ st[m] \in Int
    BY SMTT(30), <1>b, <1>6, <1>7
  <2>3. \A j \in 1 .. m - 1 : st[j] < st[m]
    BY <1>9, <2>1, <2>2
  <2>4. \A j \in 1 .. m : j \in 1 .. m - 1 \/ j = m
    BY <1>6
  <2>5. \A j \in 1 .. m : st[j] <= st[m]
    BY <2>1, <2>2, <2>3, <2>4
  <2> QED
    BY SMTT(30), <1>4, <1>6, <2>3, <2>5
<1> QED
  <2>1. i \in 1 .. Len(cs) /\ m \in 1 .. Len(cs)
    BY <1>6, <1>7
  <2>2. st[i] \in Int /\ st[m] \in Int
    BY <1>b, <2>1
  <2> QED
    BY <1>8, <1>9, <2>2

\* The heuristic names a candidate.
LEMMA FallbackNames ==
  ASSUME NEW cs \in Seq(Target), cs # <<>>
  PROVE  FallbackJudge(cs) \in Verdict /\ FallbackJudge(cs).winner \in DOMAIN cs
<1>1. Len(cs) \in DOMAIN cs /\ DOMAIN cs = 1 .. Len(cs)
  OBVIOUS
<1>2. \E i \in DOMAIN cs : /\ \A j \in DOMAIN cs : cs[j].text.style <= cs[i].text.style
                           /\ \A j \in 1 .. i - 1 : cs[j].text.style < cs[i].text.style
  BY <1>1, BestOf
<1> QED
  BY <1>1, <1>2 DEF FallbackJudge, Verdict

LEMMA JudgementTyped ==
  ASSUME NEW cs \in Seq(Target), NEW r \in Reply
  PROVE  Judgement(cs, r) \in Verdict
<1>1. Only(100) \in Verdict
  BY DEF Only, Verdict
<1>2. ASSUME Len(cs) = 1 PROVE Only(cs[1].confidence) \in Verdict
  <2>1. cs[1] \in Target
    BY <1>2
  <2> QED
    BY <2>1 DEF Only, Verdict, Target
<1>3. ParsedReply(r) \in Verdict
  BY DEF ParsedReply, Verdict, Reply, Tie
<1>4. cs # <<>> => LlmJudge(cs, r) \in Verdict
  BY <1>3, FallbackNames DEF LlmJudge
<1>5. cs # <<>> => FallbackJudge(cs) \in Verdict
  BY FallbackNames
<1> QED
  BY <1>1, <1>2, <1>4, <1>5 DEF Judgement

\* Answers of 1 .. n, each once, are n answers.
LEMMA AllAnswered ==
  ASSUME NEW cs \in Seq(Target), NEW n \in Nat, OneEach(cs, n, {})
  PROVE  Len(cs) = n
<1> DEFINE f == [i \in 1 .. Len(cs) |-> cs[i].model]
<1>1. f \in Bijection(1 .. Len(cs), 1 .. n)
  <2>1. DOMAIN cs = 1 .. Len(cs) /\ {cs[i].model : i \in 1 .. Len(cs)} = 1 .. n
    BY DEF OneEach
  <2>2. f \in [1 .. Len(cs) -> 1 .. n]
    BY <2>1
  <2>3. \A i, j \in 1 .. Len(cs) : f[i] = f[j] => i = j
    BY <2>1 DEF OneEach
  <2>4. \A k \in 1 .. n : \E i \in 1 .. Len(cs) : f[i] = k
    BY <2>1
  <2> QED
    BY <2>2, <2>3, <2>4 DEF Bijection, Injection, IsInjective, Surjection
<1>2. Cardinality(1 .. n) = Cardinality(1 .. Len(cs))
  BY <1>1, FS_Bijection, FS_Interval DEF ExistsBijection
<1> QED
  BY <1>2, FS_Interval

\* The sort by model puts the answer of the k-th provider at the k-th place.
LEMMA SortPlaces ==
  ASSUME NEW cs \in Seq(Target), NEW n \in Nat, OneEach(cs, n, {})
  PROVE  /\ SortedByModel(cs) \in Seq(Target) /\ Len(SortedByModel(cs)) = n
         /\ \A k \in 1 .. n : /\ SortedByModel(cs)[k].model = k
                              /\ \E i \in DOMAIN cs : SortedByModel(cs)[k] = cs[i]
<1>1. Len(cs) = n /\ DOMAIN cs = 1 .. n
  BY AllAnswered
<1>2. \A i \in 1 .. n : cs[i].model \in 1 .. n
  BY <1>1 DEF OneEach
<1>3. ASSUME NEW i \in 1 .. n PROVE Cardinality(Before(cs, i)) = cs[i].model - 1
  <2> DEFINE m == cs[i].model
             f == [j \in Before(cs, i) |-> cs[j].model]
  <2>1. Before(cs, i) = {j \in 1 .. n : cs[j].model < m}
    BY SMTT(30), <1>1, <1>2 DEF Before, OneEach
  <2>2. f \in [Before(cs, i) -> 1 .. m - 1]
    BY <1>2, <2>1
  <2>3. \A a, b \in Before(cs, i) : f[a] = f[b] => a = b
    BY <1>1, <2>1 DEF OneEach
  <2>4. ASSUME NEW v \in 1 .. m - 1 PROVE \E a \in Before(cs, i) : f[a] = v
    <3>1. v \in 1 .. n
      BY <1>2
    <3>2. PICK a \in 1 .. n : cs[a].model = v
      BY <1>1, <3>1 DEF OneEach
    <3> QED
      BY SMTT(30), <1>2, <2>1, <3>2
  <2> HIDE DEF f
  <2>5. f \in Bijection(Before(cs, i), 1 .. m - 1)
    BY <2>2, <2>3, <2>4 DEF Bijection, Injection, IsInjective, Surjection
  <2>6. IsFiniteSet(Before(cs, i))
    BY <2>1, FS_Interval, FS_Subset
  <2>7. Cardinality(1 .. m - 1) = Cardinality(Before(cs, i))
    BY <2>5, <2>6, FS_Bijection DEF ExistsBijection
  <2>8. m \in 1 .. n
    BY <1>2
  <2> HIDE DEF m
  <2>9. Cardinality(1 .. m - 1) = m - 1
    BY <2>8, FS_Interval
  <2> QED
    BY <2>7, <2>9 DEF m
<1>4. ASSUME NEW k \in 1 .. n
      PROVE  /\ SortedByModel(cs)[k].model = k
             /\ \E i \in DOMAIN cs : SortedByModel(cs)[k] = cs[i]
  <2>1. PICK i \in 1 .. n : cs[i].model = k
    <3>1. k \in {cs[i].model : i \in DOMAIN cs}
      BY DEF OneEach
    <3> QED
      BY <1>1, <3>1
  <2>2. Cardinality(Before(cs, i)) = k - 1
    BY <1>3, <2>1
  <2> DEFINE c == CHOOSE j \in DOMAIN cs : Cardinality(Before(cs, j)) = k - 1
  <2>3. c \in 1 .. n /\ Cardinality(Before(cs, c)) = k - 1
    BY <1>1, <2>2
  <2>4. SortedByModel(cs)[k] = cs[c]
    BY <1>1 DEF SortedByModel
  <2> HIDE DEF c
  <2>5. cs[c].model = k
    BY <1>2, <1>3, <2>3
  <2> QED
    BY <1>1, <2>3, <2>4, <2>5
<1>5. DOMAIN SortedByModel(cs) = 1 .. n /\ \A k \in 1 .. n : SortedByModel(cs)[k] \in Target
  BY <1>1, <1>4 DEF SortedByModel
<1>6. SortedByModel(cs) \in [1 .. n -> Target]
  BY <1>1, <1>5 DEF SortedByModel
<1> QED
  BY <1>4, <1>6

-----------------------------------------------------------------------------
(* A segment once judged and flagged *)

\* What is kept of a segment names its first two models, and its error text, its
\* uncertainty, a tie, its length and its style have their flag.
LEMMA TranslatedSound ==
  ASSUME Deployments \subseteq Deployment, setup \in Deployments,
         NEW cs \in Seq(Target), InOrder(cs), Len(cs) = setup.providers, Failures(cs),
         NEW r \in Reply, NEW sampled \in BOOLEAN
  PROVE  LET seg == Translated(cs, Judgement(cs, r), sampled)
         IN  seg \in Seg /\ Sound(seg)
<1> DEFINE v      == Judgement(cs, r)
           target == WinnerText(v.winner, cs)
           raw    == FlagReason(target.text, v, sampled)
           reason == StyleReason(target.text, raw)
           seg    == Translated(cs, v, sampled)
<1>1. v \in Verdict
  BY JudgementTyped
<1>2. setup \in Deployment /\ setup.block \in 1 .. 100
  BY DEF Deployment
<1>b. PICK b \in 1 .. 100 : b = setup.block
  BY <1>2
<1>3. target \in Target
  <2>1. Nothing \in Target
    BY DEF Nothing, Target, Text
  <2> QED
    BY <2>1 DEF WinnerText
<1>4. target.text.error => target \in {cs[i] : i \in DOMAIN cs}
  BY DEF WinnerText, Nothing
<1>5. raw \in Reasons /\ reason \in Reasons
  BY DEF FlagReason, StyleReason, Reasons
<1>6. reason = "none" =>
        /\ ~ (v.confidence < setup.block) /\ ~v.concerns /\ v.winner # Tie /\ target.text.fits
        /\ ~(Worker /\ setup.checker /\ target.text.issue)
  BY DEF FlagReason, StyleReason
<1>7. /\ seg.target = target /\ seg.winner = v.winner /\ seg.by = v.by
      /\ seg.confidence = v.confidence /\ seg.flagged = (reason # "none")
      /\ seg.reason = reason
      /\ seg.a = IF Len(cs) > 0 THEN cs[1].model ELSE 0
      /\ seg.b = IF Len(cs) > 1 THEN cs[2].model ELSE 0
  BY DEF Translated
<1>8. /\ seg.a = IF setup.providers > 0 THEN 1 ELSE 0
      /\ seg.b = IF setup.providers > 1 THEN 2 ELSE 0
  BY <1>7 DEF InOrder
<1>9. seg \in Seg
  <2>1. seg.a \in Nat /\ seg.b \in Nat
    BY <1>8
  <2>2. seg = [target |-> target, winner |-> v.winner, by |-> v.by,
               confidence |-> v.confidence, flagged |-> reason # "none", reason |-> reason,
               a |-> seg.a, b |-> seg.b]
    BY DEF Translated
  <2>3. /\ v.winner \in Nat /\ v.confidence \in Int
        /\ v.by \in {"heuristic", "default", "llm"}
    BY <1>1 DEF Verdict
  <2>4. (reason # "none") \in BOOLEAN
    OBVIOUS
  <2> HIDE DEF target, v, reason
  <2>5. [target |-> target, winner |-> v.winner, by |-> v.by,
         confidence |-> v.confidence, flagged |-> reason # "none", reason |-> reason,
         a |-> seg.a, b |-> seg.b] \in Seg
    <3> HIDE DEF seg
    <3> QED
      BY <1>3, <1>5, <2>1, <2>3, <2>4 DEF Seg
  <2> QED
    BY <2>2, <2>5
<1>10. target.text.error /\ reason = "none" => v.by = "llm" \/ setup.judge = "off"
  <2> SUFFICES ASSUME target.text.error, reason = "none", setup.judge # "off"
               PROVE  v.by = "llm"
    OBVIOUS
  <2>1. cs # <<>>
    BY <1>4
  <2>2. Len(cs) # 1
    <3>1. SUFFICES ASSUME Len(cs) = 1 PROVE FALSE
      OBVIOUS
    <3>2. target = cs[1]
      BY <2>1, <3>1 DEF WinnerText
    <3>3. v.confidence = cs[1].confidence
      BY <2>1, <3>1 DEF Judgement, Only
    <3>4. cs[1].confidence = 0
      BY <3>1, <3>2 DEF Failures
    <3>5. 0 < b
      OBVIOUS
    <3>6. v.confidence < setup.block
      BY <1>b, <3>3, <3>4, <3>5
    <3> QED
      BY <1>6, <3>6
  <2>3. v = FallbackJudge(cs) \/ v = LlmJudge(cs, r)
    BY <2>1, <2>2 DEF Judgement
  <2>4. FallbackJudge(cs).concerns
    BY DEF FallbackJudge
  <2>5. ~v.concerns
    BY <1>6
  <2>6. v = ParsedReply(r)
    BY <2>3, <2>4, <2>5 DEF LlmJudge
  <2> HIDE DEF v
  <2> QED
    BY <2>5, <2>6 DEF ParsedReply
<1>11. v.confidence >= setup.block \/ v.confidence < setup.block
  <2>1. v.confidence \in Int
    BY <1>1 DEF Verdict
  <2>2. PICK k \in Int : k = v.confidence
    BY <2>1
  <2>3. k >= b \/ k < b
    OBVIOUS
  <2> QED
    BY <1>b, <2>2, <2>3
<1> HIDE DEF seg, target, v, reason, raw
<1>12. Sound(seg)
  BY <1>6, <1>7, <1>8, <1>10, <1>11 DEF Sound
<1> QED
  BY <1>9, <1>12 DEF seg, v

\* One more segment is one more flag if it has one.
LEMMA FlagsAppended ==
  ASSUME NEW segs \in Seq(Seg), NEW seg \in Seg
  PROVE  /\ IsFiniteSet(Flagged(segs)) /\ Cardinality(Flagged(segs)) \in Nat
         /\ Cardinality(Flagged(Append(segs, seg)))
              = Cardinality(Flagged(segs)) + IF seg.flagged THEN 1 ELSE 0
<1> DEFINE n == Len(segs)
<1>1. IsFiniteSet(Flagged(segs)) /\ Flagged(segs) \subseteq 1 .. n
  <2>1. Flagged(segs) \subseteq 1 .. n
    BY DEF Flagged
  <2> QED
    BY <2>1, FS_Interval, FS_Subset
<1>2. Flagged(Append(segs, seg)) = IF seg.flagged THEN Flagged(segs) \cup {n + 1} ELSE Flagged(segs)
  BY DEF Flagged
<1>3. Cardinality(Flagged(segs)) \in Nat /\ n + 1 \notin Flagged(segs)
  BY <1>1, FS_CardinalityType
<1>4. Cardinality(Flagged(segs) \cup {n + 1}) = Cardinality(Flagged(segs)) + 1
  BY <1>1, <1>3, FS_AddElement
<1> QED
  BY <1>1, <1>2, <1>3, <1>4

\* Flags, ties and resolved segments are no more than there are segments.
LEMMA FiguresBounded ==
  ASSUME NEW segs \in Seq(Seg)
  PROVE  /\ Cardinality(Flagged(segs)) \in 0 .. Len(segs)
         /\ Cardinality(Resolved(segs)) \in 0 .. Len(segs)
         /\ Cardinality(Resolved(segs)) + Cardinality(Ties(segs)) <= Len(segs)
<1> DEFINE all == 1 .. Len(segs)
<1>1. IsFiniteSet(all) /\ Cardinality(all) = Len(segs) /\ Len(segs) \in Nat
  <2>1. Len(segs) \in Nat
    OBVIOUS
  <2> HIDE DEF all
  <2> QED
    BY <2>1, FS_Interval DEF all
<1>2. Flagged(segs) \in SUBSET all /\ Resolved(segs) \in SUBSET all /\ Ties(segs) \in SUBSET all
  BY DEF Flagged, Resolved, Ties
<1>3. Resolved(segs) \cap Ties(segs) = {}
  BY DEF Resolved, Ties, Tie
<1>4. IsFiniteSet(Flagged(segs)) /\ IsFiniteSet(Resolved(segs)) /\ IsFiniteSet(Ties(segs))
  BY <1>1, <1>2, FS_Subset
<1>5. /\ Cardinality(Flagged(segs)) <= Len(segs) /\ Cardinality(Flagged(segs)) \in Nat
      /\ Cardinality(Resolved(segs)) <= Len(segs) /\ Cardinality(Resolved(segs)) \in Nat
      /\ Cardinality(Ties(segs)) \in Nat
  BY <1>1, <1>2, <1>4, FS_Subset, FS_CardinalityType
<1>6. Cardinality(Resolved(segs) \cup Ties(segs)) <= Len(segs)
  BY <1>1, <1>2, FS_Subset
<1>7. Cardinality(Resolved(segs) \cup Ties(segs))
        = Cardinality(Resolved(segs)) + Cardinality(Ties(segs)) - Cardinality(Resolved(segs) \cap Ties(segs))
  BY <1>4, FS_Union
<1>8. Cardinality(Resolved(segs) \cup Ties(segs))
        = Cardinality(Resolved(segs)) + Cardinality(Ties(segs))
  <2>1. Cardinality(Resolved(segs) \cap Ties(segs)) = 0
    BY <1>3, FS_EmptySet
  <2> QED
    BY <1>5, <1>7, <2>1
<1> QED
  BY <1>1, <1>5, <1>6, <1>8

-----------------------------------------------------------------------------
(* Every action keeps the invariant *)

LEMMA InvStarts ==
  ASSUME ReviewInit
  PROVE  ReviewInv
<1>1. setup \in Deployments /\ setup \in Deployment
  BY ReviewAssumption DEF ReviewInit
<1>2. Typed
  <2>1. job \in Job /\ job.mode = setup.mode
    BY <1>1 DEF ReviewInit, ReviewStart, NewJob, Job, Deployment
  <2>2. metrics \in Metrics
    BY DEF ReviewInit, ReviewStart, Metrics
  <2> QED
    BY <1>1, <2>1, <2>2 DEF Typed, ReviewInit, ReviewStart
<1>3. AnswersInv
  BY <1>1, ReviewAssumption DEF AnswersInv, ReviewInit, ReviewStart, OneEach, Failures
<1>4. SegmentsInv
  <2>1. job.segments = <<>> /\ metrics.reasons = <<>> /\ metrics.violations = 0 /\ stage # "gather"
    BY DEF ReviewInit, ReviewStart, NewJob
  <2>2. Flagged(<<>>) = {}
    BY DEF Flagged
  <2> QED
    <3>1. Len(metrics.reasons) = Cardinality(Flagged(job.segments)) /\ Len(job.segments) = 0
      BY <2>1, <2>2, FS_EmptySet
    <3>2. DOMAIN job.segments = {}
      BY <2>1
    <3> QED
      BY <2>1, <3>1, <3>2, ReviewAssumption DEF SegmentsInv
<1>5. FiguresInv
  BY <1>1, ReviewAssumption DEF FiguresInv, ReviewInit, ReviewStart, NewJob, Deployment
<1> QED
  BY <1>2, <1>3, <1>4, <1>5 DEF ReviewInv

LEMMA AskKept ==
  ASSUME ReviewInv, Ask
  PROVE  ReviewInv'
<1>0. setup \in Deployment /\ setup.providers \in Nat
  BY ReviewAssumption DEF ReviewInv, Typed, Deployment
<1>1. Typed'
  BY <1>0 DEF ReviewInv, Typed, Ask, Providers
<1>2. AnswersInv'
  BY <1>0 DEF ReviewInv, AnswersInv, Ask, Providers, OneEach, InOrder, Failures, Parallel
<1>3. SegmentsInv'
  BY DEF ReviewInv, SegmentsInv, Ask, Sound, Worker
<1>4. FiguresInv'
  BY DEF ReviewInv, FiguresInv, Ask, Summed, Worker, Rows, Row
<1> QED
  BY <1>1, <1>2, <1>3, <1>4 DEF ReviewInv

LEMMA OneMore ==
  ASSUME NEW cs \in Seq(Target), NEW n \in Nat, NEW left, OneEach(cs, n, left),
         NEW c \in Target, c.model \in left
  PROVE  OneEach(Append(cs, c), n, left \ {c.model})
<1> DEFINE ds == Append(cs, c)
<1>1. /\ DOMAIN ds = DOMAIN cs \cup {Len(cs) + 1} /\ Len(cs) + 1 \notin DOMAIN cs
      /\ \A i \in DOMAIN cs : ds[i] = cs[i]
      /\ ds[Len(cs) + 1] = c
  OBVIOUS
<1>2. {ds[i].model : i \in DOMAIN ds} = {cs[i].model : i \in DOMAIN cs} \cup {c.model}
  BY <1>1
<1>3. \A i \in DOMAIN cs : cs[i].model # c.model
  BY DEF OneEach
<1> HIDE DEF ds
<1>4. \A i, j \in DOMAIN ds : ds[i].model = ds[j].model => i = j
  BY <1>1, <1>3 DEF OneEach
<1> QED
  BY ZenonT(40), <1>2, <1>4 DEF OneEach, ds

LEMMA AnswerKept ==
  ASSUME ReviewInv, NEW p \in Providers, NEW t \in Texts, Answer(p, t)
  PROVE  ReviewInv'
<1> DEFINE c  == Candidate(p, t)
           cs == Append(candidates, c)
           n  == setup.providers
<1>0. /\ setup \in Deployment /\ n \in Nat /\ t \in Text /\ p \in 1 .. n
      /\ stage = "gather" /\ candidates \in Seq(Target) /\ OneEach(candidates, n, asked)
  BY ReviewAssumption DEF ReviewInv, Typed, Deployment, AnswersInv, Answer, Providers
<1>1. c \in Target /\ c.model = p /\ c.text = t /\ (t.error => c.confidence = 0)
  BY <1>0 DEF Candidate, Target
<1>2. /\ cs \in Seq(Target)
      /\ \A i \in DOMAIN cs : cs[i] = c \/ cs[i] \in {candidates[j] : j \in DOMAIN candidates}
  BY <1>0, <1>1
<1>3. \A i \in DOMAIN cs : cs[i].text \in Texts
  BY <1>1, <1>2 DEF ReviewInv, Typed
<1>4. Failures(cs)
  BY <1>1, <1>2 DEF ReviewInv, AnswersInv, Failures
<1> HIDE DEF c
<1>5. asked' = asked \ {p} /\ p \in asked
  BY DEF Answer
<1>6. OneEach(cs, n, asked')
  BY <1>0, <1>1, <1>5, OneMore
<1>7. ~Parallel => InOrder(cs)
  <2> SUFFICES ASSUME ~Parallel PROVE InOrder(cs)
    OBVIOUS
  <2>1. InOrder(candidates)
    BY <1>0 DEF ReviewInv, AnswersInv
  <2>2. \A q \in asked : p <= q
    BY DEF Answer
  <2> DEFINE k == Len(candidates)
  <2>3. k \in Nat /\ DOMAIN candidates = 1 .. k
    BY <1>0
  <2>4. 1 .. k = (1 .. n) \ asked
    BY <1>0, <2>1, <2>3 DEF InOrder, OneEach
  <2> HIDE DEF k
  <2>5. p = k + 1
    <3>1. k = 0 \/ k \in 1 .. n
      BY <2>3, <2>4
    <3>2. p \notin 1 .. k
      BY <1>5, <2>4
    <3>3. k + 1 \in 1 .. n
      BY <1>0, <2>3, <3>1, <3>2
    <3>4. k + 1 \in asked
      BY <2>3, <2>4, <3>3
    <3>5. p <= k + 1
      BY <2>2, <3>4
    <3> QED
      BY <1>0, <2>3, <3>2, <3>5
  <2> QED
    BY <1>0, <1>1, <2>1, <2>3, <2>5 DEF InOrder, k
<1> HIDE DEF cs
<1>8. /\ candidates' \in Seq(Target)
      /\ \A i \in DOMAIN candidates' : candidates'[i].text \in Texts
      /\ OneEach(candidates', n, asked') /\ Failures(candidates')
      /\ ~Parallel \/ asked' = {} => InOrder(candidates')
  <2>1. CASE asked' = {} /\ Parallel
    <3>1. candidates' = SortedByModel(cs)
      BY <2>1 DEF Answer, Gathered, cs, c
    <3>2. /\ candidates' \in Seq(Target) /\ Len(candidates') = n
          /\ \A k \in 1 .. n : /\ candidates'[k].model = k
                               /\ \E i \in DOMAIN cs : candidates'[k] = cs[i]
      BY <1>0, <1>2, <1>6, <2>1, <3>1, SortPlaces
    <3>3. DOMAIN candidates' = 1 .. n
      BY <3>2
    <3>4. /\ InOrder(candidates') /\ OneEach(candidates', n, {}) /\ Failures(candidates')
          /\ \A i \in DOMAIN candidates' : candidates'[i].text \in Texts
      BY <1>0, <1>3, <1>4, <3>2, <3>3 DEF InOrder, OneEach, Failures
    <3> QED
      BY <2>1, <3>2, <3>4
  <2>2. CASE ~(asked' = {} /\ Parallel)
    <3>1. candidates' = cs
      BY <2>2 DEF Answer, Gathered, cs, c
    <3> QED
      BY <1>2, <1>3, <1>4, <1>6, <1>7, <2>2, <3>1
  <2> QED
    BY <2>1, <2>2
<1>9. UNCHANGED <<setup, stage, job, document, metrics, csv>>
  BY DEF Answer
<1>12. Typed'
  BY <1>5, <1>8, <1>9 DEF ReviewInv, Typed
<1>13. AnswersInv'
  BY <1>0, <1>8, <1>9 DEF ReviewInv, AnswersInv, Parallel, OneEach, InOrder, Failures
<1>14. SegmentsInv'
  BY <1>9 DEF ReviewInv, SegmentsInv, Sound, Worker
<1>15. FiguresInv'
  BY <1>9 DEF ReviewInv, FiguresInv, Summed, Worker, Rows, Row
<1> QED
  BY <1>12, <1>13, <1>14, <1>15 DEF ReviewInv

LEMMA JudgeAndFlagKept ==
  ASSUME ReviewInv, NEW r \in Replies, NEW sampled \in BOOLEAN, JudgeAndFlag(r, sampled)
  PROVE  ReviewInv'
<1> DEFINE seg  == Translated(candidates, Judgement(candidates, r), sampled)
           segs == job.segments
<1>0. /\ setup \in Deployment /\ setup.providers \in Nat /\ r \in Reply
      /\ stage = "gather" /\ asked = {} /\ candidates \in Seq(Target)
      /\ OneEach(candidates, setup.providers, {}) /\ InOrder(candidates) /\ Failures(candidates)
      /\ job \in Job /\ segs \in Seq(Seg) /\ metrics \in Metrics
      /\ Len(segs) < Segments /\ Segments \in Nat
  BY ReviewAssumption DEF ReviewInv, Typed, Deployment, AnswersInv, SegmentsInv, JudgeAndFlag, Job
<1>1. Len(candidates) = setup.providers
  BY <1>0, AllAnswered
<1>2. seg \in Seg /\ Sound(seg)
  BY <1>0, <1>1, ReviewAssumption, TranslatedSound DEF ReviewInv, Typed
<1>3. /\ job' = [job EXCEPT !.segments = Append(segs, seg)]
      /\ metrics' = Recorded(metrics, seg)
      /\ stage' = "ask" /\ candidates' = <<>> /\ UNCHANGED <<setup, asked, csv>>
  BY DEF JudgeAndFlag
<1> HIDE DEF seg
<1>4. /\ job'.segments = Append(segs, seg) /\ job' \in Job
      /\ job'.mode = job.mode /\ job'.status = job.status
      /\ job'.flagged = job.flagged /\ job'.resolved = job.resolved
  <2>1. Append(segs, seg) \in Seq(Seg)
    BY <1>0, <1>2
  <2> QED
    BY <1>0, <1>3, <2>1 DEF Job
<1>5. /\ metrics' \in Metrics
      /\ Len(metrics'.reasons) = Len(metrics.reasons) + IF seg.flagged THEN 1 ELSE 0
      /\ metrics'.violations <= metrics.violations + 1
      /\ metrics'.violations \in Nat /\ metrics.violations \in Nat
  <2>1. seg.reason \in Reasons /\ metrics.reasons \in Seq(Reasons)
    BY <1>0, <1>2 DEF Metrics, Seg
  <2>2. Append(metrics.reasons, seg.reason) \in Seq(Reasons)
        /\ Len(Append(metrics.reasons, seg.reason)) = Len(metrics.reasons) + 1
    BY <2>1
  <2>3. PICK k \in Nat : k = metrics.violations
    BY <1>0 DEF Metrics
  <2>4. metrics'.violations = IF setup.checker /\ seg.target.text.issue THEN k + 1 ELSE k
    BY <1>0, <1>3, <2>3 DEF Recorded, Metrics
  <2>5. metrics'.violations \in Nat /\ metrics'.violations <= k + 1
    BY <2>4
  <2>6. metrics'.reasons = IF seg.flagged THEN Append(metrics.reasons, seg.reason)
                                          ELSE metrics.reasons
    BY <1>0, <1>3 DEF Recorded, Metrics
  <2>7. metrics' \in Metrics
    BY <1>0, <1>3, <2>1, <2>2, <2>4, <2>5, <2>6 DEF Recorded, Metrics
  <2>8. Len(metrics'.reasons) = Len(metrics.reasons) + IF seg.flagged THEN 1 ELSE 0
    <3>1. Len(metrics.reasons) \in Nat
      BY <2>1
    <3>2. CASE seg.flagged
      BY <2>2, <2>6, <3>1, <3>2
    <3>3. CASE ~seg.flagged
      BY <2>6, <3>1, <3>3
    <3> QED
      BY <3>2, <3>3
  <2> QED
    BY <2>3, <2>5, <2>7, <2>8
<1>6. Typed'
  BY <1>0, <1>3, <1>4, <1>5 DEF ReviewInv, Typed
<1>7. AnswersInv'
  BY <1>0, <1>3 DEF ReviewInv, AnswersInv, Failures, InOrder, OneEach
<1>8. SegmentsInv'
  <2>1. Len(job'.segments) = Len(segs) + 1 /\ Len(segs) \in Nat
    BY <1>0, <1>4
  <2>2. ASSUME NEW s \in DOMAIN job'.segments PROVE Sound(job'.segments[s])
    <3>1. job'.segments[s] = seg \/ (s \in DOMAIN segs /\ job'.segments[s] = segs[s])
      BY <1>0, <1>4
    <3> QED
      BY <1>2, <3>1 DEF ReviewInv, SegmentsInv
  <2>3. Len(metrics'.reasons) = Cardinality(Flagged(job'.segments))
    BY <1>0, <1>2, <1>4, <1>5, FlagsAppended DEF ReviewInv, SegmentsInv
  <2>4. metrics.violations <= Len(segs)
    BY <1>0 DEF ReviewInv, SegmentsInv
  <2>5. metrics'.violations <= Len(job'.segments) /\ metrics'.violations <= Segments
    BY <1>0, <1>5, <2>1, <2>4
  <2>6. (\A s \in DOMAIN job.segments : Sound(job.segments[s]))'
    BY <1>3, <2>2 DEF Sound, Worker
  <2>7. (Len(job.segments) <= Segments)' /\ stage' = "ask"
    BY <1>0, <1>3, <2>1
  <2> QED
    BY <2>3, <2>5, <2>6, <2>7 DEF SegmentsInv
<1>9. FiguresInv'
  BY <1>0, <1>3, <1>4 DEF ReviewInv, FiguresInv
<1> QED
  BY <1>6, <1>7, <1>8, <1>9 DEF ReviewInv

\* The figures of a job are counted from its segments.
LEMMA CountedRight ==
  ASSUME job \in Job, NEW j, j = Counted(job)
  PROVE  /\ j \in Job /\ j.segments = job.segments /\ j.mode = job.mode
         /\ j.status = job.status
         /\ j.flagged = Cardinality(Flagged(job.segments))
         /\ j.resolved = Cardinality(Resolved(job.segments))
         /\ j.flagged \in 0 .. Len(job.segments) /\ j.resolved \in 0 .. Len(job.segments)
<1>1. job.segments \in Seq(Seg)
  BY DEF Job
<1> DEFINE f == Cardinality(Flagged(job.segments))
           g == Cardinality(Resolved(job.segments))
           a == AtLeast(job.segments, setup.approve)
<1>2. f \in 0 .. Len(job.segments) /\ g \in 0 .. Len(job.segments) /\ Len(job.segments) \in Nat
  BY <1>1, FiguresBounded
<1>3. a \in BOOLEAN
  BY <1>1 DEF AtLeast
<1>4. j = [job EXCEPT !.flagged = f, !.resolved = g, !.autoScore = a]
  BY DEF Counted
<1> HIDE DEF f, g, a
<1>5. f \in Nat /\ g \in Nat
  BY <1>2
<1>6. j \in Job
  BY <1>3, <1>4, <1>5 DEF Job
<1>7. /\ j.segments = job.segments /\ j.mode = job.mode /\ j.status = job.status
      /\ j.flagged = f /\ j.resolved = g
  BY <1>4 DEF Job
<1> QED
  BY <1>2, <1>6, <1>7 DEF f, g

LEMMA FinishKept ==
  ASSUME ReviewInv, Finish
  PROVE  ReviewInv'
<1> DEFINE j == Counted(job)
<1>0. /\ setup \in Deployment /\ job \in Job /\ metrics \in Metrics /\ Segments \in Nat
      /\ stage = "ask" /\ Len(job.segments) = Segments /\ Worker /\ stage' = "export"
      /\ UNCHANGED <<setup, asked, candidates, document, csv>>
  BY ReviewAssumption DEF ReviewInv, Typed, Finish
<1>1. /\ job' = [j EXCEPT !.status = "pending_approval"]
      /\ metrics' = [metrics EXCEPT !.finished = TRUE, !.flagRate = job'.flagged]
  BY DEF Finish, Published
<1>2. /\ j \in Job /\ j.segments = job.segments /\ j.mode = job.mode
      /\ j.flagged = Cardinality(Flagged(job.segments))
      /\ j.resolved = Cardinality(Resolved(job.segments))
      /\ j.flagged \in 0 .. Segments /\ j.resolved \in 0 .. Segments
  BY <1>0, CountedRight
<1> HIDE DEF j
<1>3. /\ job' \in Job /\ job'.segments = job.segments /\ job'.mode = job.mode
      /\ job'.flagged = j.flagged /\ job'.resolved = j.resolved /\ job'.status = "pending_approval"
  BY <1>1, <1>2 DEF Job
<1>4. /\ metrics' \in Metrics /\ metrics'.flagRate = job'.flagged
      /\ metrics'.reasons = metrics.reasons /\ metrics'.violations = metrics.violations
  <2>1. job'.flagged \in Nat
    BY <1>2, <1>3
  <2> QED
    BY <1>0, <1>1, <2>1 DEF Metrics
<1>5. Typed'
  BY <1>0, <1>3, <1>4 DEF ReviewInv, Typed
<1>6. AnswersInv'
  BY <1>0 DEF ReviewInv, AnswersInv, Failures
<1>7. SegmentsInv'
  BY <1>0, <1>3, <1>4 DEF ReviewInv, SegmentsInv, Sound, Worker
<1>8. FiguresInv'
  <2>1. csv = <<>>
    BY <1>0 DEF ReviewInv, FiguresInv
  <2>2. Summed'
    BY <1>2, <1>3 DEF Summed
  <2>3. job'.flagged <= Segments /\ job'.resolved <= Segments
    BY <1>0, <1>2, <1>3
  <2> QED
    BY <1>0, <1>3, <1>4, <2>1, <2>2, <2>3 DEF FiguresInv, Worker
<1> QED
  BY <1>5, <1>6, <1>7, <1>8 DEF ReviewInv

LEMMA RenderReviewedKept ==
  ASSUME ReviewInv, RenderReviewed
  PROVE  ReviewInv'
<1>0. /\ setup \in Deployment /\ job \in Job /\ Segments \in Nat
      /\ stage = "ask" /\ Len(job.segments) = Segments /\ ~Worker /\ stage' = "rendered"
      /\ job' = Counted(job) /\ csv' = Rows(job)
      /\ UNCHANGED <<setup, asked, candidates, document, metrics>>
  BY ReviewAssumption DEF ReviewInv, Typed, RenderReviewed
<1>1. /\ job' \in Job /\ job'.segments = job.segments /\ job'.mode = job.mode
      /\ job'.status = job.status
      /\ job'.flagged = Cardinality(Flagged(job.segments))
      /\ job'.resolved = Cardinality(Resolved(job.segments))
      /\ job'.flagged \in 0 .. Segments /\ job'.resolved \in 0 .. Segments
  BY <1>0, CountedRight
<1>2. Typed'
  BY <1>0, <1>1 DEF ReviewInv, Typed
<1>3. AnswersInv'
  BY <1>0 DEF ReviewInv, AnswersInv, Failures
<1>4. SegmentsInv'
  BY <1>0, <1>1 DEF ReviewInv, SegmentsInv, Sound, Worker
<1>5. FiguresInv'
  <2>1. Summed' /\ csv' = Rows(job)'
    BY <1>0, <1>1 DEF Summed, Rows, Row
  <2>2. job'.flagged <= Segments /\ job'.resolved <= Segments
    BY <1>0, <1>1
  <2>3. job'.status = "processing" /\ ~Worker'
    BY <1>0, <1>1 DEF ReviewInv, FiguresInv, Worker
  <2> QED
    BY <1>0, <2>1, <2>2, <2>3 DEF FiguresInv
<1> QED
  BY <1>2, <1>3, <1>4, <1>5 DEF ReviewInv

\* The steps after the figures are taken: rows, decision, approval, rejection.
LEMMA ConcludedKept ==
  ASSUME ReviewInv, Export \/ AutoApprove \/ NeedsReview \/ Approve \/ Reject
  PROVE  ReviewInv'
<1>0. /\ setup \in Deployment /\ job \in Job
      /\ stage \in {"export", "decide", "review"} /\ stage' \in {"decide", "raised", "review"}
      /\ UNCHANGED <<setup, asked, candidates, document, metrics>>
      /\ csv' = csv \/ csv' = Rows(job)
      /\ \/ job' = job
         \/ job' = [job EXCEPT !.status = "approved", !.approver = "reviewer"]
         \/ job' = [job EXCEPT !.status = "rejected"]
  BY ReviewAssumption DEF ReviewInv, Typed, Export, AutoApprove, NeedsReview, Approve, Reject
<1>1. /\ job' \in Job /\ job'.segments = job.segments /\ job'.mode = job.mode
      /\ job'.flagged = job.flagged /\ job'.resolved = job.resolved
  BY <1>0 DEF Job
<1>2. Typed'
  BY <1>0, <1>1 DEF ReviewInv, Typed
<1>3. AnswersInv'
  BY <1>0 DEF ReviewInv, AnswersInv, Failures
<1>4. SegmentsInv'
  BY <1>0, <1>1 DEF ReviewInv, SegmentsInv, Sound, Worker
<1>5. FiguresInv'
  <2>1. Summed /\ Worker /\ metrics.flagRate = job.flagged
    BY <1>0 DEF ReviewInv, FiguresInv
  <2>2. Summed' /\ Worker' /\ Rows(job)' = Rows(job)
    BY <1>0, <1>1, <2>1 DEF Summed, Worker, Rows, Row
  <2> QED
    BY <1>0, <1>1, <2>1, <2>2 DEF ReviewInv, FiguresInv
<1> QED
  BY <1>2, <1>3, <1>4, <1>5 DEF ReviewInv

LEMMA TranslateKept ==
  ASSUME ReviewInv, NEW s \in 1 .. Segments, NEW t \in Texts, Translate(s, t)
  PROVE  ReviewInv'
<1> DEFINE c == Candidate(s, t)
<1>0. /\ stage = "pool" /\ candidates \in Seq(Target) /\ OneEach(candidates, Segments, asked)
      /\ t \in Text /\ Segments \in Nat /\ s \in Nat /\ s \in asked
      /\ asked' = asked \ {s} /\ candidates' = Append(candidates, c)
      /\ UNCHANGED <<setup, stage, job, document, metrics, csv>>
  BY ReviewAssumption DEF ReviewInv, Typed, AnswersInv, Translate
<1>1. c \in Target /\ c.model = s /\ c.text = t /\ (t.error => c.confidence = 0)
  BY <1>0 DEF Candidate, Target
<1> HIDE DEF c
<1>2. /\ candidates' \in Seq(Target)
      /\ \A i \in DOMAIN candidates' :
           candidates'[i] = c \/ candidates'[i] \in {candidates[j] : j \in DOMAIN candidates}
  BY <1>0, <1>1
<1>3. OneEach(candidates', Segments, asked')
  BY <1>0, <1>1, OneMore
<1>4. Typed'
  BY <1>0, <1>1, <1>2 DEF ReviewInv, Typed
<1>5. Failures(candidates')
  BY <1>1, <1>2 DEF ReviewInv, AnswersInv, Failures
<1>6. AnswersInv'
  BY <1>0, <1>3, <1>5 DEF ReviewInv, AnswersInv, OneEach, Failures
<1>7. SegmentsInv'
  BY <1>0 DEF ReviewInv, SegmentsInv, Sound, Worker
<1>8. FiguresInv'
  BY <1>0 DEF ReviewInv, FiguresInv, Summed, Worker, Rows, Row
<1> QED
  BY <1>4, <1>6, <1>7, <1>8 DEF ReviewInv

LEMMA ReplaceKept ==
  ASSUME ReviewInv, Replace
  PROVE  ReviewInv'
<1>0. /\ stage = "pool" /\ candidates \in Seq(Target) /\ OneEach(candidates, Segments, {})
      /\ Segments \in Nat /\ metrics \in Metrics /\ asked = {} /\ setup.driver = "simple"
      /\ document' = SortedByModel(candidates) /\ stage' = "rendered"
      /\ UNCHANGED <<setup, asked, candidates, job, csv>>
  BY ReviewAssumption DEF ReviewInv, Typed, AnswersInv, Replace, MapOrder
<1>1. \A s \in 1 .. Segments : document'[s].model = s
  BY <1>0, SortPlaces
<1> DEFINE issues == {s \in 1 .. Segments : ~document'[s].text.error /\ document'[s].text.issue}
           v == IF setup.checker THEN Cardinality(issues) ELSE 0
<1>2. v \in 0 .. Segments
  <2>1. IsFiniteSet(1 .. Segments) /\ Cardinality(1 .. Segments) = Segments
    BY <1>0, FS_Interval
  <2>2. IsFiniteSet(issues) /\ Cardinality(issues) <= Segments /\ Cardinality(issues) \in Nat
    BY <2>1, FS_Subset, FS_CardinalityType
  <2> HIDE DEF issues
  <2> QED
    BY <1>0, <2>2
<1>3. metrics' = [metrics EXCEPT !.violations = v]
  BY DEF Replace
<1> HIDE DEF v
<1>4. /\ metrics' \in Metrics /\ metrics'.violations <= Segments
      /\ metrics'.reasons = metrics.reasons
  BY <1>0, <1>2, <1>3 DEF Metrics
<1>5. Typed'
  BY <1>0, <1>4 DEF ReviewInv, Typed
<1>6. AnswersInv'
  BY <1>0, <1>1 DEF ReviewInv, AnswersInv, OneEach, Failures
<1>7. SegmentsInv'
  BY <1>0, <1>4 DEF ReviewInv, SegmentsInv, Sound, Worker
<1>8. FiguresInv'
  <2>1. csv = <<>> /\ ~Worker
    BY <1>0 DEF ReviewInv, FiguresInv, Worker
  <2> QED
    BY <1>0, <2>1 DEF ReviewInv, FiguresInv, Worker
<1> QED
  BY <1>5, <1>6, <1>7, <1>8 DEF ReviewInv

\* Nothing of a document that is not rendered is replaced.
LEMMA ReplaceRaisesKept ==
  ASSUME ReviewInv, ReplaceRaises
  PROVE  ReviewInv'
<1>0. /\ stage = "pool" /\ asked = {} /\ stage' = "aborted" /\ setup.driver = "simple"
      /\ UNCHANGED <<setup, asked, candidates, job, document, metrics, csv>>
  BY DEF ReviewInv, AnswersInv, ReplaceRaises
<1>1. Typed'
  BY <1>0 DEF ReviewInv, Typed
<1>2. AnswersInv'
  BY <1>0 DEF ReviewInv, AnswersInv, Failures
<1>3. SegmentsInv'
  BY <1>0 DEF ReviewInv, SegmentsInv, Sound, Worker
<1>4. FiguresInv'
  BY <1>0 DEF ReviewInv, FiguresInv, Worker
<1> QED
  BY <1>1, <1>2, <1>3, <1>4 DEF ReviewInv

\* A step that changes nothing.
LEMMA StutterKept ==
  ASSUME ReviewInv, UNCHANGED reviewVars
  PROVE  ReviewInv'
  BY DEF ReviewInv, Typed, AnswersInv, SegmentsInv, FiguresInv, reviewVars, OneEach, InOrder,
         Failures, Parallel, Sound, Worker, Summed, Rows, Row

\* Every step of the review keeps the invariant.
LEMMA ReviewNextKeeps ==
  ASSUME ReviewInv, [ReviewNext]_reviewVars
  PROVE  ReviewInv'
  BY AskKept, AnswerKept, JudgeAndFlagKept, FinishKept, RenderReviewedKept, ConcludedKept,
     TranslateKept, ReplaceKept, ReplaceRaisesKept, StutterKept DEF ReviewNext

\* At every stage of a review (workflow.py, multi_llm_translator.py) the answers, the
\* segments and the figures agree with the sources they were made from.
THEOREM InvHolds == ReviewSpec => []ReviewInv
<1>1. ReviewInit => ReviewInv
  BY InvStarts
<1>2. ReviewInv /\ [ReviewNext]_reviewVars => ReviewInv'
  BY ReviewNextKeeps
<1> QED
  BY <1>1, <1>2, PTL DEF ReviewSpec

\* What the invariant says of the types.
LEMMA ReviewInvTypes ==
  ASSUME ReviewInv
  PROVE  ReviewTypeOK
<1>1. /\ setup \in Deployment /\ job \in Job /\ metrics \in Metrics /\ Segments \in Nat
  BY ReviewAssumption DEF ReviewInv, Typed
<1>2. asked \subseteq 1 .. setup.providers \cup 1 .. Segments
  BY DEF ReviewInv, AnswersInv, OneEach
<1>3. job.flagged \in 0 .. Segments /\ job.resolved \in 0 .. Segments
  BY <1>1 DEF ReviewInv, FiguresInv, Job
<1>4. Len(metrics.reasons) <= Segments
  <2>1. job.segments \in Seq(Seg)
    BY <1>1 DEF Job
  <2>2. Cardinality(Flagged(job.segments)) \in 0 .. Len(job.segments)
    BY <2>1, FiguresBounded
  <2> QED
    BY <1>1, <2>1, <2>2 DEF ReviewInv, SegmentsInv
<1>5. metrics.violations \in 0 .. Segments
  BY <1>1 DEF ReviewInv, SegmentsInv, Metrics
<1> QED
  BY <1>1, <1>2, <1>3, <1>4, <1>5 DEF ReviewTypeOK, ReviewInv, Typed, SegmentsInv, Job

\* Stages, figures and statuses stay within their types, as ReviewTypeOK says.
THEOREM TypesHold == ReviewSpec => []ReviewTypeOK
<1>1. ReviewInv => ReviewTypeOK
  BY ReviewInvTypes
<1> QED
  BY <1>1, InvHolds, PTL

\* Whichever provider or thread answers first, an answer is kept under the name of its
\* provider or at the place of its source (_translate_parallel, thread pool map), and no
\* error text passes for a translation unless the judge's model or no judge let it pass.
THEOREM AnswersNotMixed == ReviewSpec => []AnswersToldApart
<1>1. ReviewInv => AnswersToldApart
  BY DEF ReviewInv, AnswersInv, SegmentsInv, Sound, AnswersToldApart, AnswersInPlace, ErrorsFlagged
<1> QED
  BY <1>1, InvHolds, PTL

\* update_metrics, the metrics recorder and the CSV exporter say the same of the flags,
\* and what qualifies for automatic approval in blocking mode has nothing a reviewer
\* would look at.
THEOREM DecisionsInformed == ReviewSpec => []DecisionInformed
<1>1. ReviewInv => FiguresAgree
  <2> SUFFICES ASSUME ReviewInv, csv # <<>>
               PROVE  /\ job.flagged = Cardinality(Flagged(job.segments))
                      /\ job.flagged = Len(metrics.reasons)
                      /\ job.flagged = Cardinality({s \in DOMAIN csv : csv[s].reason # "none"})
                      /\ Worker => metrics.flagRate = job.flagged
                      /\ job.resolved + Cardinality(Ties(job.segments)) <= Segments
    BY DEF FiguresAgree
  <2>1. csv = Rows(job) /\ Summed
    BY DEF ReviewInv, FiguresInv
  <2>2. job \in Job /\ job.segments \in Seq(Seg) /\ Segments \in Nat
    BY ReviewAssumption DEF ReviewInv, Typed, Job
  <2>3. {s \in DOMAIN csv : csv[s].reason # "none"} = Flagged(job.segments)
    BY <2>1 DEF Rows, Row, Flagged, ReviewInv, SegmentsInv, Sound
  <2>4. Worker => metrics.flagRate = job.flagged
    <3>1. stage \notin {"ask", "gather", "pool", "aborted", "export"}
      BY DEF ReviewInv, FiguresInv
    <3> QED
      BY <3>1 DEF ReviewInv, FiguresInv, Typed
  <2>5. Cardinality(Resolved(job.segments)) + Cardinality(Ties(job.segments)) <= Segments
    <3>1. PICK r : r = Cardinality(Resolved(job.segments)) + Cardinality(Ties(job.segments))
      OBVIOUS
    <3>2. Len(job.segments) \in Nat /\ Len(job.segments) <= Segments
      BY <2>2 DEF ReviewInv, SegmentsInv
    <3>3. Cardinality(Ties(job.segments)) \in Nat
      <4>1. Ties(job.segments) \in SUBSET (1 .. Len(job.segments))
        BY <2>2 DEF Ties
      <4>2. IsFiniteSet(1 .. Len(job.segments))
        BY <3>2, FS_Interval
      <4>3. IsFiniteSet(Ties(job.segments))
        BY <4>1, <4>2, FS_Subset
      <4> QED
        BY <4>3, FS_CardinalityType
    <3> QED
      BY <2>2, <3>2, <3>3, FiguresBounded
  <2> QED
    BY <2>1, <2>3, <2>4, <2>5 DEF Summed, ReviewInv, SegmentsInv
<1>2. ReviewInv => BlockingApprovalClean
  <2> SUFFICES ASSUME ReviewInv, setup.mode = "blocking", CanAutoApprove(job),
                      NEW s \in DOMAIN job.segments
               PROVE  /\ ~ShouldBlock(job.segments)
                      /\ job.segments[s].confidence >= setup.block /\ job.segments[s].winner # Tie
                      /\ job.segments[s].target.text.fits
                      /\ ~(setup.checker /\ job.segments[s].target.text.issue)
    BY DEF BlockingApprovalClean
  <2>1. job.flagged = 0 /\ job.status = "pending_approval"
    BY DEF CanAutoApprove, ReviewInv, Typed
  <2>2. stage \in {"export", "decide", "raised", "review"} /\ Worker /\ Summed
    BY <2>1 DEF ReviewInv, FiguresInv, Typed
  <2>3. job.segments \in Seq(Seg)
    BY DEF ReviewInv, Typed, Job
  <2>4. Flagged(job.segments) = {}
    <3>1. Flagged(job.segments) \in SUBSET (1 .. Len(job.segments)) /\ Len(job.segments) \in Nat
      BY <2>3 DEF Flagged
    <3>2. IsFiniteSet(1 .. Len(job.segments))
      BY <3>1, FS_Interval
    <3>3. IsFiniteSet(Flagged(job.segments))
      BY <3>1, <3>2, FS_Subset
    <3> QED
      BY <2>1, <2>2, <3>3, FS_EmptySet DEF Summed
  <2>5. ~job.segments[s].flagged
    BY <2>4 DEF Flagged
  <2> QED
    BY <2>2, <2>4, <2>5 DEF ReviewInv, SegmentsInv, Sound, ShouldBlock
<1> QED
  BY <1>1, <1>2, InvHolds, PTL DEF DecisionInformed
=============================================================================
