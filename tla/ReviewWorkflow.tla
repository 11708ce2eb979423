--------------------------- MODULE ReviewWorkflow ---------------------------
(***************************************************************************)
(* One document on its way through the review package of the translation   *)
(* worker: candidates from several models (multimodel.py), the judge       *)
(* (judge.py), the flags (flagging.py), the style check, the figures       *)
(* (models.py, metrics.py, prometheus.py) and the decision (workflow.py).  *)
(* TranslationWorkflow and `document --review` of the command line drive   *)
(* the same parts, and `document` alone translates without a judge.        *)
(*                                                                         *)
(* A text is what the code tells apart in it.  Confidences and scores are  *)
(* in hundredths.                                                          *)
(***************************************************************************)
EXTENDS Integers, Sequences, FiniteSets, SequencesExt

CONSTANTS
  Deployments, \* the ways the parts are put together
  Segments,    \* number of segments of the document
  Texts,       \* what a provider may answer
  Replies      \* what the judge's provider may answer

Text  == [error : BOOLEAN, style : Int, fits : BOOLEAN, issue : BOOLEAN]
Reply == [kind : {"json", "garbage", "fails"}, winner : {"A", "B", "other"},
          confidence : Int, concerns : BOOLEAN]
Deployment ==
  [driver : {"workflow", "review", "simple"}, providers : Nat, parallel : BOOLEAN,
   judge : {"off", "none", "llm"}, checker : BOOLEAN, mode : {"blocking", "async"},
   block : 1 .. 100, engine : 1 .. 100, approve : 1 .. 100]

ASSUME ReviewAssumption ==
  /\ Deployments \subseteq Deployment
  /\ Segments \in Nat \ {0}
  /\ Texts \subseteq Text
  /\ Replies \subseteq Reply

VARIABLES
  setup,      \* the deployment
  stage,      \* what the driver does next
  asked,      \* providers whose answer is outstanding, or segments without judge
  candidates, \* answers to the segment under way, in the order of the list
  job,        \* the TranslationJob
  document,   \* document[s]: what stands for segment s, its source at first
  metrics,    \* JobMetrics of the job, then the Prometheus counters
  csv         \* rows of the bilingual CSV

reviewVars == <<setup, stage, asked, candidates, job, document, metrics, csv>>

Source == [model |-> 0, text |-> "source", confidence |-> 0]
Tie    == 0
Worker == setup.driver = "workflow"

(***************************************************************************)
(* Candidates and judge                                                    *)
(***************************************************************************)
CandidateTrusted(p, t) == [model |-> p, text |-> t, confidence |-> 90]
\* _translate_with_provider: an exception becomes a candidate of its own
Candidate(p, t) == [model |-> p, text |-> t, confidence |-> IF t.error THEN 0 ELSE 90]

Providers == 1 .. setup.providers

\* _fallback_judge: the first candidate with the fewest dashes and a fair length
FallbackJudge(cs) ==
  LET best == CHOOSE i \in DOMAIN cs :
                /\ \A j \in DOMAIN cs : cs[j].text.style <= cs[i].text.style
                /\ \A j \in 1 .. i - 1 : cs[j].text.style < cs[i].text.style
  IN  [winner |-> best, confidence |-> 70, concerns |-> TRUE, by |-> "heuristic"]

\* _parse_judge_response: an unknown winner is a tie; nothing bounds the confidence.  One
\* that is no number is below no threshold and scores 1.0, as one above all bounds does.
ParsedReply(r) ==
  IF r.kind = "garbage"
    THEN [winner |-> 1, confidence |-> 60, concerns |-> TRUE, by |-> "default"]
    ELSE [winner     |-> CASE r.winner = "A" -> 1 [] r.winner = "B" -> 2 [] OTHER -> Tie,
          confidence |-> r.confidence, concerns |-> r.concerns, by |-> "llm"]

\* _llm_judge: whatever the provider or the parser raises leads to the fallback
LlmJudge(cs, r) == IF r.kind = "fails" THEN FallbackJudge(cs) ELSE ParsedReply(r)

Only(c) == [winner |-> 1, confidence |-> c, concerns |-> FALSE, by |-> "default"]

Judgement(cs, r) ==
  IF setup.judge = "off" \/ cs = <<>> THEN Only(100)
  ELSE IF Len(cs) = 1                 THEN Only(cs[1].confidence)
  ELSE IF setup.judge = "none"        THEN FallbackJudge(cs)
  ELSE LlmJudge(cs, r)

\* _get_winner_text: "model_c" has no number in it, so a third candidate never wins
Nothing == [model |-> 0, text |-> [error |-> FALSE, style |-> 0, fits |-> FALSE,
                                  issue |-> FALSE], confidence |-> 0]
WinnerText(w, cs) ==
  IF cs = <<>> THEN Nothing ELSE cs[IF w = 2 /\ Len(cs) > 1 THEN 2 ELSE 1]

(***************************************************************************)
(* Flags                                                                   *)
(***************************************************************************)
\* FlaggingEngine.evaluate; sampled is the random quality sample
FlagReason(text, verdict, sampled) ==
  IF verdict.confidence < setup.block THEN "confidence"
  ELSE IF verdict.concerns            THEN "concerns"
  ELSE IF verdict.winner = Tie        THEN "tie"
  ELSE IF ~text.fits                  THEN "length"
  ELSE IF sampled                     THEN "sample"
  ELSE "none"

\* process_job adds the checker's findings; the command line only lists them
StyleReason(text, reason) ==
  IF Worker /\ setup.checker /\ text.issue /\ reason = "none"
    THEN "style" ELSE reason

Translated(cs, verdict, sampled) ==
  LET target == WinnerText(verdict.winner, cs)
      reason == StyleReason(target.text, FlagReason(target.text, verdict, sampled))
  IN  [target |-> target, winner |-> verdict.winner, by |-> verdict.by,
       confidence |-> verdict.confidence, flagged |-> reason # "none", reason |-> reason,
       a |-> IF Len(cs) > 0 THEN cs[1].model ELSE 0,
       b |-> IF Len(cs) > 1 THEN cs[2].model ELSE 0]

(***************************************************************************)
(* Figures of the job                                                      *)
(***************************************************************************)
Flagged(segs)  == {s \in DOMAIN segs : segs[s].flagged}
Resolved(segs) == {s \in DOMAIN segs : segs[s].winner \in {1, 2}}
Ties(segs)     == {s \in DOMAIN segs : segs[s].winner = Tie}

\* calculate_score, as a sum over the segments that the job size divides
ScoreSum(segs) ==
  FoldSeq(LAMBDA seg, sum : sum + seg.confidence, 0, segs)
    - 20 * Cardinality(Flagged(segs)) - 10 * Cardinality(Ties(segs))
AtLeast(segs, threshold) == segs = <<>> \/ ScoreSum(segs) >= threshold * Len(segs)

CountedTwice(j) == [j EXCEPT !.flagged = Cardinality(Flagged(j.segments)) + Len(metrics.reasons)]
CountedWithoutStyle(j) ==
  [j EXCEPT !.flagged = Cardinality({s \in Flagged(j.segments) : j.segments[s].reason # "style"}),
            !.autoScore = AtLeast(j.segments, setup.approve)]
\* update_metrics
Counted(j) == [j EXCEPT !.flagged   = Cardinality(Flagged(j.segments)),
                        !.resolved  = Cardinality(Resolved(j.segments)),
                        !.autoScore = AtLeast(j.segments, setup.approve)]

CanAutoApproveAnyMode(j) == j.status = "pending_approval" /\ j.autoScore
\* can_auto_approve of the job; the workflow asks with its own threshold
CanAutoApprove(j) ==
  /\ j.status = "pending_approval"
  /\ j.autoScore
  /\ j.mode = "blocking" => j.flagged = 0

\* should_block_output, which neither driver asks: the threshold is the engine's own
ShouldBlock(segs) == \E s \in Flagged(segs) : segs[s].confidence < setup.engine

(***************************************************************************)
(* The drivers                                                             *)
(***************************************************************************)
\* create_job: the segments are added as process_job reaches them
NewJob == [status |-> "processing", mode |-> setup.mode, approver |-> "none",
           segments |-> <<>>, flagged |-> 0, resolved |-> 0, autoScore |-> TRUE]

ReviewStart ==
  /\ stage = IF setup.driver = "simple" THEN "pool" ELSE "ask"
  /\ asked = IF setup.driver = "simple" THEN 1 .. Segments ELSE {}
  /\ candidates = <<>>
  /\ job = NewJob
  /\ document = [s \in 1 .. Segments |-> Source]
  /\ metrics = [reasons |-> <<>>, violations |-> 0, finished |-> FALSE, flagRate |-> 0]
  /\ csv = <<>>
ReviewInit == setup \in Deployments /\ ReviewStart

\* translate of the next segment: the providers are all asked
Ask ==
  /\ stage = "ask" /\ Len(job.segments) < Segments
  /\ stage' = "gather"
  /\ asked' = Providers
  /\ candidates' = <<>>
  /\ UNCHANGED <<setup, job, document, metrics, csv>>

\* _translate_parallel: the answers are appended as they come, then sorted by model
Parallel == setup.parallel /\ setup.providers > 1
\* the places of the answers a stable sort by model puts before the one at i
Before(cs, i) ==
  {j \in DOMAIN cs : \/ cs[j].model < cs[i].model
                     \/ cs[j].model = cs[i].model /\ j < i}
SortedByModel(cs) ==
  [k \in DOMAIN cs |-> cs[CHOOSE i \in DOMAIN cs : Cardinality(Before(cs, i)) = k - 1]]
GatheredAsTheyCame(cs) == cs
Gathered(cs) == IF Parallel THEN SortedByModel(cs) ELSE cs

Answer(p, t) ==
  /\ stage = "gather" /\ p \in asked
  /\ Parallel \/ \A q \in asked : p <= q
  /\ asked' = asked \ {p}
  /\ LET cs == Append(candidates, Candidate(p, t)) IN
       candidates' = IF asked' = {} THEN Gathered(cs) ELSE cs
  /\ UNCHANGED <<setup, stage, job, document, metrics, csv>>

\* record_style_issues and record_flag; the command line keeps two counters instead
Recorded(m, seg) ==
  [m EXCEPT !.reasons = IF seg.flagged THEN Append(@, seg.reason) ELSE @,
            !.violations = IF setup.checker /\ seg.target.text.issue THEN @ + 1 ELSE @]

\* process_job and run_review_document_workflow once the candidates are there
JudgeAndFlag(r, sampled) ==
  /\ stage = "gather" /\ asked = {}
  /\ LET seg == Translated(candidates, Judgement(candidates, r), sampled) IN
       /\ job' = [job EXCEPT !.segments = Append(@, seg)]
       /\ document' = IF Worker THEN document
                      ELSE [document EXCEPT ![Len(job.segments) + 1] = seg.target]
       /\ metrics' = Recorded(metrics, seg)
  /\ stage' = "ask"
  /\ candidates' = <<>>
  /\ UNCHANGED <<setup, asked, csv>>

\* record_job_metrics of the finished job
Published(m, j) == [m EXCEPT !.finished = TRUE, !.flagRate = j.flagged]

Finish ==
  /\ stage = "ask" /\ Len(job.segments) = Segments /\ Worker
  /\ job' = [Counted(job) EXCEPT !.status = "pending_approval"]
  /\ metrics' = Published(metrics, job')
  /\ stage' = "export"
  /\ UNCHANGED <<setup, asked, candidates, document, csv>>

\* export_job, with one row a segment
Row(seg) == [target |-> seg.target, flagged |-> seg.flagged, reason |-> seg.reason]
Rows(j)  == [s \in DOMAIN j.segments |-> Row(j.segments[s])]

Export ==
  /\ stage = "export"
  /\ csv' = Rows(job)
  /\ stage' = "decide"
  /\ UNCHANGED <<setup, asked, candidates, job, document, metrics>>

\* the end of run_review_document_workflow: count, export, render
RenderReviewed ==
  /\ stage = "ask" /\ Len(job.segments) = Segments /\ ~Worker
  /\ job' = Counted(job)
  /\ csv' = Rows(job)
  /\ stage' = "rendered"
  /\ UNCHANGED <<setup, asked, candidates, document, metrics>>

\* process_and_export calls approve_job without the job it asks for: TypeError
AutoApprove ==
  /\ stage = "decide" /\ CanAutoApprove(job)
  /\ stage' = "raised"
  /\ UNCHANGED <<setup, asked, candidates, job, document, metrics, csv>>

\* process_and_export returns with the job left to a reviewer
NeedsReview ==
  /\ stage = "decide" /\ ~CanAutoApprove(job)
  /\ stage' = "review"
  /\ UNCHANGED <<setup, asked, candidates, job, document, metrics, csv>>

\* approve_job only warns about a status other than pending_approval
Approve ==
  /\ stage = "review"
  /\ job' = [job EXCEPT !.status = "approved", !.approver = "reviewer"]
  /\ UNCHANGED <<setup, stage, asked, candidates, document, metrics, csv>>

\* reject_job asks for no status and leaves the approver
Reject ==
  /\ stage = "review"
  /\ job' = [job EXCEPT !.status = "rejected"]
  /\ UNCHANGED <<setup, stage, asked, candidates, document, metrics, csv>>

\* run_simple_document_workflow: five threads translate, map keeps the order and
\* the texts are replaced after the last one; candidates holds the results by segment
Translate(s, t) ==
  /\ stage = "pool" /\ s \in asked
  /\ asked' = asked \ {s}
  /\ candidates' = Append(candidates, Candidate(s, t))
  /\ UNCHANGED <<setup, stage, job, document, metrics, csv>>

MapOrder(results) == SortedByModel(results)
Replace ==
  /\ stage = "pool" /\ asked = {}
  /\ document' = MapOrder(candidates)
  /\ metrics' = [metrics EXCEPT !.violations =
       IF setup.checker THEN Cardinality({s \in 1 .. Segments :
                               ~document'[s].text.error /\ document'[s].text.issue}) ELSE 0]
  /\ stage' = "rendered"
  /\ UNCHANGED <<setup, asked, candidates, job, csv>>

\* An exception without a message passes for a translation, of None, and the style
\* check cannot take it: nothing is rendered.
ReplaceRaises ==
  /\ stage = "pool" /\ asked = {} /\ setup.checker
  /\ \E i \in DOMAIN candidates : candidates[i].text.error
  /\ stage' = "aborted"
  /\ UNCHANGED <<setup, asked, candidates, job, document, metrics, csv>>

ReviewNext ==
  \/ Ask
  \/ \E p \in Providers, t \in Texts : Answer(p, t)
  \/ \E r \in Replies, sampled \in BOOLEAN : JudgeAndFlag(r, sampled)
  \/ Finish \/ Export \/ RenderReviewed \/ AutoApprove \/ NeedsReview \/ Approve \/ Reject
  \/ \E s \in 1 .. Segments, t \in Texts : Translate(s, t)
  \/ Replace \/ ReplaceRaises

ReviewSpec == ReviewInit /\ [][ReviewNext]_reviewVars

(***************************************************************************)
(* Properties                                                              *)
(***************************************************************************)
\* The stages, the figures and the statuses stay within their types.
ReviewTypeOK ==
  /\ setup \in Deployments
  /\ stage \in {"ask", "gather", "export", "decide", "raised", "review", "pool", "aborted",
              "rendered"}
  /\ asked \subseteq 1 .. setup.providers \cup 1 .. Segments
  /\ \A i \in DOMAIN candidates : candidates[i].text \in Texts
  /\ job.status \in {"processing", "pending_approval", "approved", "rejected"}
  /\ job.flagged \in 0 .. Segments /\ job.resolved \in 0 .. Segments
  /\ Len(job.segments) <= Segments
  /\ Len(metrics.reasons) <= Segments /\ metrics.violations \in 0 .. Segments

\* model_a_output and model_b_output are what the first and the second provider
\* said, and a translation of the thread pool stands where its source stood,
\* whichever thread answers first.
AnswersInPlace ==
  /\ \A s \in DOMAIN job.segments : LET seg == job.segments[s] IN
       /\ seg.a = IF setup.providers > 0 THEN 1 ELSE 0
       /\ seg.b = IF setup.providers > 1 THEN 2 ELSE 0
  /\ setup.driver = "simple" /\ stage = "rendered" =>
       \A s \in 1 .. Segments : document[s].model = s

\* The error text of a failed provider becomes the translation of a segment without
\* a flag only if the judge's model named it or the judge is switched off.
ErrorsFlagged ==
  \A s \in DOMAIN job.segments : LET seg == job.segments[s] IN
    seg.target.text.error /\ ~seg.flagged => seg.by = "llm" \/ setup.judge = "off"

\* Answers are not mixed up with each other, nor failures with answers.
AnswersToldApart == AnswersInPlace /\ ErrorsFlagged

\* What the job, its metrics and the CSV say about flags is what its segments say,
\* those flagged by the style check included.
FiguresAgree ==
  csv # <<>> =>
    /\ job.flagged = Cardinality(Flagged(job.segments))
    /\ job.flagged = Len(metrics.reasons)
    /\ job.flagged = Cardinality({s \in DOMAIN csv : csv[s].reason # "none"})
    /\ Worker => metrics.flagRate = job.flagged
    /\ job.resolved + Cardinality(Ties(job.segments)) <= Segments

\* A job in blocking mode that qualifies for automatic approval has no segment a
\* reviewer would have to look at: none uncertain, tied, of a suspicious length or
\* with a style issue.
BlockingApprovalClean ==
  setup.mode = "blocking" /\ CanAutoApprove(job) =>
    \A s \in DOMAIN job.segments : LET seg == job.segments[s] IN
      /\ ~ShouldBlock(job.segments) /\ seg.confidence >= setup.block /\ seg.winner # Tie
      /\ seg.target.text.fits /\ ~(setup.checker /\ seg.target.text.issue)

\* Whoever decides on a job, a reviewer or can_auto_approve, decides on what is in it.
DecisionInformed == FiguresAgree /\ BlockingApprovalClean
=============================================================================
