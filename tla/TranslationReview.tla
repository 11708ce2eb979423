------------------------- MODULE TranslationReview -------------------------
(***************************************************************************)
(* One translation job as the Go API sees it: its PostgreSQL rows          *)
(* (handlers/translation.go, models/translation.go) and the Redis keys it  *)
(* shares with the Python worker (SegmentStore in main.py).                *)
(*                                                                         *)
(* Every HTTP request runs in a goroutine of its own; every database       *)
(* statement and Redis command of a handler is one action, so requests     *)
(* interleave with each other and with the worker between any two of them. *)
(* A request is identified by an element of Requests and is served once.   *)
(***************************************************************************)
EXTENDS Naturals, FiniteSets

CONSTANTS
  Requests,  \* HTTP requests about the job, other than its creation
  Lengths,   \* numbers of segments a source file may have
  None,      \* absent row or key
  MaxTrouble \* bound on failing commands and worker failures

ASSUME TranslationReviewAssumption ==
  /\ Lengths \subseteq Nat \ {0}
  /\ MaxTrouble \in Nat

VARIABLES
  nsegs,   \* number of segments of the source file
  create,  \* how far createJobLogic has come
  row,     \* the job's row in translation_jobs
  rows,    \* its rows in translation_segments
  hash,    \* the hash user:<U>:trans:<J>
  list,    \* the list user:<U>:trans:<J>:segments, a function of the segment
  worker,  \* where the worker's workflow is
  kind,    \* kind[r]: the handler that serves request r
  pc,      \* pc[r]: its next statement
  loc,     \* loc[r]: its local variables
  before,  \* history: before[r], the requests answered before r arrived
  outcome, \* history: outcome[r], what became of r's looking for rows and counting them
  trouble  \* failures so far

vars == <<nsegs, create, row, rows, hash, list, worker, kind, pc, loc, before, outcome, trouble>>

db    == <<row, rows>>
redis == <<hash, list>>

-----------------------------------------------------------------------------
(* Types *)

\* The segments in their order
Segs == 1..nsegs

Decided  == {"approved", "rejected"}
Statuses == {"pending", "processing", "pending_approval"} \cup Decided

\* Faulty variant: an approved job is synchronised further
TerminalWithoutApproved == {"rejected"}

\* models.TranslationJob.IsTerminal, on the statuses that occur here
Terminal == Decided

\* A segment: not translated yet, translated, translated and flagged for
\* review, or rewritten by the user
Items == {"empty", "clean", "flagged", "edited"}

Job == [status : Statuses,
        queued : BOOLEAN,    \* redis_job_id is set
        edits : BOOLEAN,     \* has_user_edits
        segments : Nat,      \* segment_count
        flagged : Nat]       \* flagged_count

ASSUME NoneAssumption == None \notin Job

\* meta: the hash carries the job_id and user_id redisMetadataMatches wants
Hash == [status : Statuses, meta : BOOLEAN]

\* by: the request that inserted the row (stands for its UUID)
SegmentRow == [seg : Segs, by : Requests, item : Items]

Lists == [Segs -> Items]

Blank == [job |-> None, list |-> None, known |-> {}, todo |-> {},
          target |-> None, count |-> None]

Kinds == {"get", "edit", "delete"} \cup Decided

-----------------------------------------------------------------------------
(* Helpers *)

Go(r, next) == pc' = [pc EXCEPT ![r] = next]

\* The response is sent: 200, or an error
Answer(r, how) == Go(r, how) /\ loc' = [loc EXCEPT ![r] = Blank]
Finish(r) == Answer(r, "done")

Refuse(r) ==
  /\ Go(r, "refused")
  /\ UNCHANGED loc

\* UPDATE translation_jobs ... WHERE id = ?: no effect without the row
UpdateJob(new) == row' = IF row = None THEN None ELSE new

FlaggedRows == {x \in rows : x.item = "flagged"}

First(S) == CHOOSE s \in S : \A t \in S : s <= t

Without(S, s) == {x \in S : x # s}

Init ==
  /\ nsegs \in Lengths
  /\ create = "row"
  /\ row = None
  /\ rows = {}
  /\ hash = None
  /\ list = None
  /\ worker = [next |-> 1, step |-> "wait", out |-> [s \in Segs |-> "empty"]]
  /\ kind = [r \in Requests |-> None]
  /\ pc = [r \in Requests |-> "new"]
  /\ loc = [r \in Requests |-> Blank]
  /\ before = [r \in Requests |-> {}]
  /\ outcome = [r \in Requests |-> {}]
  /\ trouble = 0

-----------------------------------------------------------------------------
(* createJobLogic: the row, redis_job_id, the hash and the queue entry.  A *)
(* failing statement ends it with what was written so far.                 *)

CreateStep(at, next) == create = at /\ create' = next

CreateJob ==
  /\ \/ /\ CreateStep("row", "redis_id")
        /\ row' = [status |-> "pending", queued |-> FALSE, edits |-> FALSE,
                   segments |-> 0, flagged |-> 0]
        /\ UNCHANGED hash
     \/ /\ CreateStep("redis_id", "hset")
        /\ UpdateJob([row EXCEPT !.queued = TRUE])
        /\ UNCHANGED hash
     \/ /\ CreateStep("hset", "lpush")
        /\ hash' = [status |-> "pending", meta |-> TRUE]
        /\ UNCHANGED row
     \/ /\ CreateStep("lpush", "queued")
        /\ UNCHANGED <<row, hash>>
  /\ UNCHANGED <<rows, list, worker, kind, pc, loc, before, outcome, trouble>>

CreateFails ==
  /\ create \in {"redis_id", "hset", "lpush"}
  /\ trouble < MaxTrouble
  /\ trouble' = trouble + 1
  /\ create' = "failed"
  /\ UNCHANGED <<db, redis, worker, kind, pc, loc, before, outcome>>

-----------------------------------------------------------------------------
(* The worker: TranslationWorkflow.process_job calls the progress callback *)
(* before each segment and the queue consumer stores the finished job.     *)
(* Every store replaces the list and then writes the metadata.             *)

\* The status of the workflow's job while segment worker.next is at work
WorkflowStatus ==
  IF worker.next \in Segs THEN "processing" ELSE "pending_approval"

\* The queue entry reaches the worker
WorkerTake ==
  /\ create = "queued"
  /\ worker.step = "wait"
  /\ worker' = [worker EXCEPT !.step = "del"]
  /\ UNCHANGED <<create, db, redis, kind, pc, loc, before, outcome, trouble>>

\* SegmentStore.store: DEL, RPUSH
StoreSegments ==
  /\ \/ /\ worker.step = "del"
        /\ list' = None
        /\ worker' = [worker EXCEPT !.step = "rpush"]
     \/ /\ worker.step = "rpush"
        /\ list' = worker.out
        /\ worker' = [worker EXCEPT !.step = "hset"]
  /\ UNCHANGED <<create, db, hash, kind, pc, loc, before, outcome, trouble>>

\* Faulty variant: one segment too many
StoreJobMetaOneMore ==
  /\ worker.step = "hset"
  /\ hash' = [status |-> WorkflowStatus, meta |-> TRUE]
  /\ worker' = [worker EXCEPT !.step =
                  IF worker.next <= nsegs + 1 THEN "translate" ELSE "done"]
  /\ UNCHANGED <<create, db, list, kind, pc, loc, before, outcome, trouble>>

\* _store_job_meta: HSET of status, job_id and user_id among others
StoreJobMeta ==
  /\ worker.step = "hset"
  /\ hash' = [status |-> WorkflowStatus, meta |-> TRUE]
  /\ worker' = [worker EXCEPT !.step =
                  IF worker.next \in Segs THEN "translate" ELSE "done"]
  /\ UNCHANGED <<create, db, list, kind, pc, loc, before, outcome, trouble>>

\* The loop body of process_job: the segment gets its target and perhaps a flag
TranslateSegment ==
  /\ worker.step = "translate"
  /\ \E item \in {"clean", "flagged"} :
       worker' = [worker EXCEPT !.out[worker.next] = item,
                                !.next = @ + 1, !.step = "del"]
  /\ UNCHANGED <<create, db, redis, kind, pc, loc, before, outcome, trouble>>

\* A command of store fails: the exception is swallowed and the rest of the
\* store is skipped.
StoreFails ==
  /\ worker.step \in {"del", "rpush", "hset"}
  /\ trouble < MaxTrouble
  /\ trouble' = trouble + 1
  /\ worker' = [worker EXCEPT !.step =
                  IF worker.next \in Segs THEN "translate" ELSE "done"]
  /\ UNCHANGED <<create, db, redis, kind, pc, loc, before, outcome>>

\* The workflow raises, or the process dies: nothing tells the hash
WorkerFails ==
  /\ worker.step \notin {"wait", "done"}
  /\ trouble < MaxTrouble
  /\ trouble' = trouble + 1
  /\ worker' = [worker EXCEPT !.step = "done"]
  /\ UNCHANGED <<create, db, redis, kind, pc, loc, before, outcome>>

WorkerStep == \/ WorkerTake \/ StoreSegments \/ StoreJobMeta
              \/ TranslateSegment \/ StoreFails \/ WorkerFails

-----------------------------------------------------------------------------
(* Requests: the first statement of every handler loads the job's row *)

Answered(r) == pc[r] \in {"done", "refused"}

Arrive(r, k) ==
  /\ pc[r] = "new"
  /\ kind' = [kind EXCEPT ![r] = k]
  /\ before' = [before EXCEPT ![r] = {q \in Requests : Answered(q)}]

\* loadJobForUser succeeds and the handler goes on
Load(r, next) ==
  /\ loc' = [loc EXCEPT ![r].job = row]
  /\ Go(r, next)

-----------------------------------------------------------------------------
(* getJobLogic: syncJobStatusFromRedis, then syncSegmentsFromRedis *)

Get(r) ==
  /\ Arrive(r, "get")
  /\ IF row # None /\ row.status \notin Terminal /\ row.queued
       THEN Load(r, "get_hash")
       ELSE Refuse(r)
  /\ UNCHANGED <<create, db, redis, worker, outcome, trouble>>

\* HGETALL; the statuses the switch does not list leave the loaded one as it is
GetHash(r) ==
  /\ pc[r] = "get_hash"
  /\ IF hash = None \/ ~hash.meta
       THEN /\ Go(r, "get_list")
            /\ UNCHANGED loc
       ELSE /\ loc' = [loc EXCEPT ![r].job.status =
                         IF hash.status \in {"processing", "pending_approval"}
                           THEN hash.status ELSE @]
            /\ Go(r, "put_status")
  /\ UNCHANGED <<create, db, redis, worker, kind, before, outcome, trouble>>

\* UPDATE of the status as loaded or synchronised, whatever the row says now
PutStatus(r) ==
  /\ pc[r] = "put_status"
  /\ UpdateJob([row EXCEPT !.status = loc[r].job.status])
  /\ Go(r, "get_list")
  /\ UNCHANGED <<create, rows, redis, worker, kind, loc, before, outcome, trouble>>

\* LRANGE
GetList(r) ==
  /\ pc[r] = "get_list"
  /\ IF list = None
       THEN Finish(r)
       ELSE /\ loc' = [loc EXCEPT ![r].list = list, ![r].todo = Segs]
            /\ Go(r, "get_meta")
  /\ UNCHANGED <<create, db, redis, worker, kind, before, outcome, trouble>>

\* The second HGETALL, for the metadata
GetMeta(r) ==
  /\ pc[r] = "get_meta"
  /\ IF hash = None \/ ~hash.meta
       THEN Finish(r)
       ELSE Go(r, "find") /\ UNCHANGED loc
  /\ UNCHANGED <<create, db, redis, worker, kind, before, outcome, trouble>>

\* Faulty variant: the rows are looked for under another id
FindNoSegments(r) ==
  /\ pc[r] = "find"
  /\ Go(r, "sync")
  /\ UNCHANGED <<create, db, redis, worker, kind, loc, before, outcome, trouble>>

\* SELECT of the existing segments
FindSegments(r) ==
  /\ pc[r] = "find"
  /\ loc' = [loc EXCEPT ![r].known = rows]
  /\ Go(r, "sync")
  /\ UNCHANGED <<create, db, redis, worker, kind, before, outcome, trouble>>

\* Faulty variant: the row goes in although the job is gone
InsertOrphan(r, s) ==
  rows' = rows \cup {[seg |-> s, by |-> r, item |-> loc[r].list[s]]}

\* INSERT; the foreign key refuses it once the job is gone
Insert(r, s) ==
  rows' = IF row = None THEN rows
          ELSE rows \cup {[seg |-> s, by |-> r, item |-> loc[r].list[s]]}

\* UPDATE of the row found, unless the job as loaded has the user's edits
Overwrite(r, s, x) ==
  rows' = {IF y.seg = s /\ y.by = x.by /\ ~loc[r].job.edits
             THEN [y EXCEPT !.item = loc[r].list[s]] ELSE y
             : y \in rows}

\* One turn of the loop over the list.  segmentMap keeps one of the rows with
\* the segment's id, whichever the database returned last.
SyncSegment(r) ==
  /\ pc[r] = "sync"
  /\ loc[r].todo # {}
  /\ LET s == First(loc[r].todo)
         found == {x \in loc[r].known : x.seg = s}
     IN /\ IF found = {} THEN Insert(r, s)
                         ELSE \E x \in found : Overwrite(r, s, x)
        /\ loc' = [loc EXCEPT ![r].todo = Without(@, s)]
  /\ UNCHANGED <<create, row, redis, worker, kind, pc, before, outcome, trouble>>

\* SELECT COUNT(*), SUM(...); or COUNT(*) of the flagged rows in updateSegment
Counts == [segments |-> Cardinality(rows), flagged |-> Cardinality(FlaggedRows)]

CountSegments(r) ==
  /\ \/ /\ pc[r] = "sync"
        /\ loc[r].todo = {}
        /\ Go(r, "put_counts")
     \/ /\ pc[r] = "edit_count"
        /\ Go(r, "edit_job")
  /\ loc' = [loc EXCEPT ![r].count = Counts]
  /\ UNCHANGED <<create, db, redis, worker, kind, before, outcome, trouble>>

PutCounts(r) ==
  /\ pc[r] = "put_counts"
  /\ UpdateJob([row EXCEPT !.segments = loc[r].count.segments,
                           !.flagged = loc[r].count.flagged])
  /\ outcome' = [outcome EXCEPT ![r] = @ \cup {"counted"}]
  /\ Finish(r)
  /\ UNCHANGED <<create, rows, redis, worker, kind, before, trouble>>

-----------------------------------------------------------------------------
(* approveJobLogic and rejectJobLogic *)

\* Faulty variant: CanApprove is not asked
DecideAnyTime(r, k) ==
  /\ Arrive(r, k)
  /\ IF row # None THEN Load(r, "put_decision") ELSE Refuse(r)
  /\ UNCHANGED <<create, db, redis, worker, outcome, trouble>>

\* CanApprove
Decide(r, k) ==
  /\ Arrive(r, k)
  /\ IF row # None /\ row.status = "pending_approval"
       THEN Load(r, "put_decision")
       ELSE Refuse(r)
  /\ UNCHANGED <<create, db, redis, worker, outcome, trouble>>

PutDecision(r) ==
  /\ pc[r] = "put_decision"
  /\ UpdateJob([row EXCEPT !.status = kind[r]])
  /\ IF loc[r].job.queued THEN Go(r, "put_hash") /\ UNCHANGED loc ELSE Finish(r)
  /\ UNCHANGED <<create, rows, redis, worker, kind, before, outcome, trouble>>

\* HSET status; without the hash it makes one that holds nothing else
TellWorker(r) ==
  /\ pc[r] = "put_hash"
  /\ hash' = [status |-> kind[r], meta |-> hash # None /\ hash.meta]
  /\ Finish(r)
  /\ UNCHANGED <<create, db, list, worker, kind, before, outcome, trouble>>

-----------------------------------------------------------------------------
(* updateSegmentLogic *)

Edit(r) ==
  /\ Arrive(r, "edit")
  /\ IF row # None THEN Load(r, "edit_find") ELSE Refuse(r)
  /\ UNCHANGED <<create, db, redis, worker, outcome, trouble>>

\* The segment's row by its UUID
EditFind(r) ==
  /\ pc[r] = "edit_find"
  /\ \/ \E x \in rows : /\ loc' = [loc EXCEPT ![r].target = [seg |-> x.seg, by |-> x.by]]
                        /\ Go(r, "edit_row")
     \/ Answer(r, "refused")
  /\ UNCHANGED <<create, db, redis, worker, kind, before, outcome, trouble>>

Targets(r, x) == x.seg = loc[r].target.seg /\ x.by = loc[r].target.by

EditRow(r) ==
  /\ pc[r] = "edit_row"
  /\ rows' = {IF Targets(r, x) THEN [x EXCEPT !.item = "edited"] ELSE x : x \in rows}
  /\ Go(r, IF loc[r].job.queued THEN "edit_list" ELSE "edit_count")
  /\ UNCHANGED <<create, row, redis, worker, kind, loc, before, outcome, trouble>>

\* LRANGE finds the segment's place
EditList(r) ==
  /\ pc[r] = "edit_list"
  /\ Go(r, IF list = None THEN "edit_count" ELSE "edit_set")
  /\ UNCHANGED <<create, db, redis, worker, kind, loc, before, outcome, trouble>>

\* LSET at that place, an error when the list is gone meanwhile
EditSet(r) ==
  /\ pc[r] = "edit_set"
  /\ list' = IF list = None THEN None
             ELSE [list EXCEPT ![loc[r].target.seg] = "edited"]
  /\ Go(r, "edit_count")
  /\ UNCHANGED <<create, db, hash, worker, kind, loc, before, outcome, trouble>>

\* Faulty variant: the edit is not noted in the job
EditJobCountOnly(r) ==
  /\ pc[r] = "edit_job"
  /\ UpdateJob([row EXCEPT !.flagged = loc[r].count.flagged])
  /\ Finish(r)
  /\ UNCHANGED <<create, rows, redis, worker, kind, before, outcome, trouble>>

\* Faulty variant: the job's flagged count is left alone
EditJobNoCount(r) ==
  /\ pc[r] = "edit_job"
  /\ UpdateJob([row EXCEPT !.edits = TRUE])
  /\ Finish(r)
  /\ UNCHANGED <<create, rows, redis, worker, kind, before, outcome, trouble>>

\* flagged_count and has_user_edits, after everything else
EditJob(r) ==
  /\ pc[r] = "edit_job"
  /\ UpdateJob([row EXCEPT !.flagged = loc[r].count.flagged, !.edits = TRUE])
  /\ Finish(r)
  /\ UNCHANGED <<create, rows, redis, worker, kind, before, outcome, trouble>>

-----------------------------------------------------------------------------
(* deleteJobLogic *)

Delete(r) ==
  /\ Arrive(r, "delete")
  /\ IF row # None /\ row.status \notin {"pending", "processing"}
       THEN Load(r, "del_rows")
       ELSE Refuse(r)
  /\ UNCHANGED <<create, db, redis, worker, outcome, trouble>>

\* DELETE of the segments
DeleteRows(r) ==
  /\ pc[r] = "del_rows"
  /\ rows' = {}
  /\ Go(r, "del_job")
  /\ UNCHANGED <<create, row, redis, worker, kind, loc, before, outcome, trouble>>

\* DELETE of the job; the foreign key cascades to its segments
DeleteJob(r) ==
  /\ pc[r] = "del_job"
  /\ row' = None
  /\ rows' = {}
  /\ Go(r, "del_keys")
  /\ UNCHANGED <<create, redis, worker, kind, loc, before, outcome, trouble>>

\* DEL of the hash, DEL of the list
DeleteKeys(r) ==
  /\ \/ /\ pc[r] = "del_keys"
        /\ hash' = None
        /\ Go(r, "del_list")
        /\ UNCHANGED <<list, loc>>
     \/ /\ pc[r] = "del_list"
        /\ list' = None
        /\ Finish(r)
        /\ UNCHANGED hash
  /\ UNCHANGED <<create, db, worker, kind, before, outcome, trouble>>

-----------------------------------------------------------------------------
(* A statement of a request fails: nothing is changed and an error comes   *)
(* back.  Approve, reject, edit and the DELETE of the job answer 500; all  *)
(* other errors are passed over.                                           *)

AnswersError == {"put_decision", "edit_find", "edit_row", "edit_count", "edit_job", "del_job"}
EndsAnyway   == {"get_list", "get_meta", "put_counts", "put_hash", "del_list"}
GoesOn == [get_hash |-> "get_list", put_status |-> "get_list", edit_list |-> "edit_count",
           edit_set |-> "edit_count", del_rows |-> "del_job", del_keys |-> "del_list"]

\* of the synchronisation: an INSERT or UPDATE, and the SELECT of the counts
WritesSegment(r) == pc[r] = "sync" /\ loc[r].todo # {}
SelectsCounts(r) == pc[r] = "sync" /\ loc[r].todo = {}

\* what the failure costs: the knowledge of the rows, or the counts of the job
Miscounts(r) == SelectsCounts(r) \/ pc[r] \in {"put_counts", "edit_count", "edit_job", "del_job"}
Missed(r)    == IF pc[r] = "find" THEN {"misread"}
                ELSE IF Miscounts(r) THEN {"miscounted"} ELSE {}

StatementFails(r) ==
  /\ trouble < MaxTrouble
  /\ trouble' = trouble + 1
  /\ \/ pc[r] \in AnswersError /\ Answer(r, "refused")
     \/ pc[r] \in EndsAnyway /\ Finish(r)
     \/ pc[r] \in DOMAIN GoesOn /\ Go(r, GoesOn[pc[r]]) /\ UNCHANGED loc
     \/ /\ pc[r] = "find"   \* Find keeps the rows that came before the error, or none
        /\ \E some \in SUBSET rows : loc' = [loc EXCEPT ![r].known = some]
        /\ Go(r, "sync")
     \/ /\ WritesSegment(r)
        /\ loc' = [loc EXCEPT ![r].todo = Without(@, First(@))]
        /\ UNCHANGED pc
     \/ /\ SelectsCounts(r) \* Scan leaves the zeroes
        /\ loc' = [loc EXCEPT ![r].count = [segments |-> 0, flagged |-> 0]]
        /\ Go(r, "put_counts")
  /\ outcome' = [outcome EXCEPT ![r] = @ \cup Missed(r)]
  /\ UNCHANGED <<create, db, redis, worker, kind, before>>

-----------------------------------------------------------------------------
GetStep(r) == \/ Get(r) \/ GetHash(r) \/ PutStatus(r) \/ GetList(r) \/ GetMeta(r)
              \/ FindSegments(r) \/ SyncSegment(r) \/ CountSegments(r) \/ PutCounts(r)

DecideStep(r) == \/ \E k \in Decided : Decide(r, k)
                 \/ PutDecision(r) \/ TellWorker(r)

EditStep(r) == Edit(r) \/ EditFind(r) \/ EditRow(r) \/ EditList(r) \/ EditSet(r) \/ EditJob(r)

DeleteStep(r) == Delete(r) \/ DeleteRows(r) \/ DeleteJob(r) \/ DeleteKeys(r)

RequestStep(r) == \/ GetStep(r) \/ DecideStep(r) \/ EditStep(r) \/ DeleteStep(r)
                  \/ StatementFails(r)

Next ==
  /\ UNCHANGED nsegs
  /\ \/ CreateJob \/ CreateFails
     \/ WorkerStep
     \/ \E r \in Requests : RequestStep(r)

Spec == Init /\ [][Next]_vars

-----------------------------------------------------------------------------
(* Properties *)

\* Type invariant.
TypeOK ==
  /\ nsegs \in Lengths
  /\ create \in {"row", "redis_id", "hset", "lpush", "queued", "failed"}
  /\ row \in Job \cup {None}
  /\ rows \subseteq SegmentRow
  /\ hash \in Hash \cup {None}
  /\ list \in Lists \cup {None}
  /\ worker.next \in 1..nsegs + 1 /\ worker.out \in Lists
  /\ worker.step \in {"wait", "del", "rpush", "hset", "translate", "done"}
  /\ kind \in [Requests -> Kinds \cup {None}]
  /\ before \in [Requests -> SUBSET Requests]
  /\ outcome \in [Requests -> SUBSET {"misread", "miscounted", "counted"}]
  /\ trouble \in 0..MaxTrouble
  /\ \A r \in Requests :
       /\ loc[r].job \in Job \cup {None}
       /\ loc[r].list \in Lists \cup {None}
       /\ loc[r].known \subseteq SegmentRow
       /\ loc[r].todo \subseteq Segs

\* A job is approved or rejected only once the worker has delivered it whole:
\* the decision travels from the worker's last store over the hash, a
\* synchronisation and the row to the approving request.
DecidedJobTranslated ==
  row # None /\ row.status \in Decided =>
    \A s \in Segs : worker.out[s] # "empty"

\* Once the delete has removed the job's row, neither the row nor a segment of
\* it comes back, whatever synchronisations and decisions were under way.
DeletedJobStaysDeleted ==
  [][create # "row" /\ row = None => row' = None /\ rows' = {}]_vars

\* A request that changes a decided status was under way when that decision
\* was taken: a decision that had been answered when it arrived, it leaves alone.
DecisionRespected ==
  \A r \in Requests :
    /\ pc[r]' # pc[r]
    /\ row # None /\ row.status \in Decided
    /\ row' # None /\ row'.status # row.status
    => \E q \in Requests \ before[r] :
         kind[q] = row.status /\ pc[q] \in {"put_hash", "done"}

\* A request that arrives after the answer to a user's edit of any segment
\* never synchronises an edited segment back to the worker's text.
EditsRespected ==
  \A r \in Requests, x \in rows :
    /\ pc[r] = "sync" /\ loc[r]' # loc[r]
    /\ x.item = "edited"
    /\ \E q \in before[r] : pc[q] = "done" /\ kind[q] = "edit"
    => x \in rows'

\* What a user was told of stays as it is, whatever requests come later.
AnswersRespected == [][DecisionRespected /\ EditsRespected]_vars

\* Two rows for one segment come from two synchronisations that overlapped, or the later
\* one could not read the rows.
RowsUniqueUnlessOverlapping ==
  \A x, y \in rows : x.seg = y.seg /\ x.by \in before[y.by] => "misread" \in outcome[y.by]

\* requests that came one after the other and got their counts written, if they write any
InSequence(R) ==
  /\ \A r \in R : Answered(r) /\ "miscounted" \notin outcome[r]
  /\ \A q, r \in R : q # r => q \in before[r] \/ r \in before[q]

Arrived  == {r \in Requests : pc[r] # "new"}
After(q) == {r \in Requests : q \in before[r]}
Alone(q) == \A r \in Arrived \ {q} : r \in before[q] \/ q \in before[r]

CountsRight ==
  /\ row.flagged = Cardinality(FlaggedRows)
  /\ row.segments = Cardinality(rows)

\* The counts, maintained by two handlers, are exact as long as requests come one after the
\* other; and whatever overlapping or failing requests made of them, a synchronisation that
\* runs alone sets them right, for the requests after it too.
CountsExact ==
  row # None =>
    /\ InSequence(Arrived) => CountsRight
    /\ \A q \in Requests :
         "counted" \in outcome[q] /\ Alone(q) /\ InSequence({q} \cup After(q)) => CountsRight

\* The rows of a job and what it says of them: one row for each segment, counted.
SegmentsAccounted == RowsUniqueUnlessOverlapping /\ CountsExact

\* translation.go:60 calls approved and rejected, among others, terminal.
DecisionFinal ==
  [][row # None /\ row' # None /\ row.status \in Decided
     => row'.status = row.status]_vars
=============================================================================
