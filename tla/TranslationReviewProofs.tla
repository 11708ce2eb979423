------------------------ MODULE TranslationReviewProofs ------------------------
(***************************************************************************)
(* What a user was told of a translation job and what its rows amount to,  *)
(* for any number of requests, any file and any number of failures.        *)
(***************************************************************************)
EXTENDS TranslationReview, FiniteSetTheorems, WellFoundedInduction, TLAPS

Pcs == {"new", "refused", "done", "get_hash", "put_status", "get_list", "get_meta",
        "find", "sync", "put_counts", "put_decision", "put_hash", "edit_find",
        "edit_row", "edit_list", "edit_set", "edit_count", "edit_job", "del_rows",
        "del_job", "del_keys", "del_list"}
Loaded == Pcs \ {"new", "refused", "done"}
GetPcs == {"get_hash", "put_status", "get_list", "get_meta", "find", "sync", "put_counts"}
DecidePcs == {"put_decision", "put_hash"}
EditPcs == {"edit_find", "edit_row", "edit_list", "edit_set", "edit_count", "edit_job"}
DeletePcs == {"del_rows", "del_job", "del_keys", "del_list"}

Counted == [segments : Nat, flagged : Nat]
Target  == [seg : Segs, by : Requests]
Locals  == [job : Job \cup {None}, list : Lists \cup {None}, known : SUBSET SegmentRow,
            todo : SUBSET Segs, target : Target \cup {None}, count : Counted \cup {None}]

-----------------------------------------------------------------------------
(* The invariant, in parts *)

SharedTyped ==
  /\ nsegs \in Lengths
  /\ create \in {"row", "redis_id", "hset", "lpush", "queued", "failed"}
  /\ row \in Job \cup {None}
  /\ rows \subseteq SegmentRow /\ IsFiniteSet(rows)
  /\ hash \in Hash \cup {None}
  /\ list \in Lists \cup {None}
  /\ trouble \in 0 .. MaxTrouble

WorkerTyped ==
  worker \in [next : 1 .. nsegs + 1, out : Lists,
              step : {"wait", "del", "rpush", "hset", "translate", "done"}]

RequestsTyped ==
  /\ kind \in [Requests -> Kinds \cup {None}]
  /\ pc \in [Requests -> Pcs]
  /\ loc \in [Requests -> Locals]
  /\ before \in [Requests -> SUBSET Requests]

\* what a request has in its variables d at the statement p of a handler k
PreparedAs(p, d, k) ==
  /\ p \in Loaded => d.job \in Job
  /\ p \in GetPcs => k = "get"
  /\ p \in DecidePcs => k \in Decided
  /\ p \in EditPcs => k = "edit"
  /\ p \in DeletePcs => k = "delete"
  /\ p \in {"get_meta", "find", "sync"} => d.list \in Lists
  /\ p \in {"put_counts", "edit_job"} => d.count \in Counted
  /\ p \in {"edit_row", "edit_list", "edit_set"} => d.target \in Target
  /\ p \in {"get_hash", "put_status"} => d.job.status \notin Decided

Prepared(r) == PreparedAs(pc[r], loc[r], kind[r])

\* the segments before worker.next have their text
WorkerInv ==
  /\ worker.step = "translate" => worker.next \in Segs
  /\ \A s \in Segs : s < worker.next => worker.out[s] # "empty"

Delivered == \A s \in Segs : worker.out[s] # "empty"
Final     == Decided \cup {"pending_approval"}

\* whatever speaks of a finished translation comes after the worker's last segment
FinalInv ==
  /\ hash # None /\ hash.status \in Final => Delivered
  /\ row # None /\ row.status \in Final => Delivered
  /\ \A r \in Requests :
       /\ loc[r].job # None /\ loc[r].job.status \in Final => Delivered
       /\ pc[r] \in DecidePcs => Delivered

RowInv ==
  /\ row = None => rows = {}
  /\ create = "row" => row = None /\ \A r \in Requests : pc[r] \in {"new", "refused"}

BeforeInv == \A r \in Requests : \A q \in before[r] : Answered(q)

EditedBy(q) == pc[q] = "done" /\ kind[q] = "edit"

\* an answered edit is noted in the row, and in the copy of whoever loads it later
EditsInv ==
  \A q \in Requests : EditedBy(q) =>
    /\ row = None \/ row.edits
    /\ \A r \in Requests : pc[r] \in Loaded /\ q \in before[r] => loc[r].job.edits

TookDecision(q) == pc[q] \in {"put_hash", "done"} /\ kind[q] = row.status
WritesStatus == {"get_hash", "put_status", "put_decision"}

\* a decision that stands while r is about to write the status is not one r could see
DecisionInv ==
  \A r \in Requests :
    pc[r] \in WritesStatus /\ row # None /\ row.status \in Decided
    => \E q \in Requests \ before[r] : TookDecision(q)

ReviewInv ==
  /\ SharedTyped /\ WorkerTyped /\ RequestsTyped
  /\ \A r \in Requests : Prepared(r)
  /\ WorkerInv /\ FinalInv /\ RowInv /\ BeforeInv /\ EditsInv /\ DecisionInv

-----------------------------------------------------------------------------
(* Steps of each kind *)

LEMMA SameSegments ==
  ASSUME nsegs' = nsegs
  PROVE  /\ Segs' = Segs /\ Lists' = Lists /\ SegmentRow' = SegmentRow
         /\ Target' = Target /\ Locals' = Locals
  BY DEF Segs, Lists, SegmentRow, Target, Locals

LEMMA BlankTyped == Blank \in Locals /\ Blank.job = None
  BY DEF Blank, Locals

\* What the invariant says of a request.
LEMMA RequestFacts ==
  ASSUME ReviewInv, NEW r \in Requests
  PROVE  /\ pc[r] \in Pcs /\ loc[r] \in Locals /\ kind[r] \in Kinds \cup {None}
         /\ PreparedAs(pc[r], loc[r], kind[r])
         /\ pc[r] \in Loaded => create # "row"
  BY DEF ReviewInv, RequestsTyped, Prepared, RowInv, Loaded

LEMMA WorkerKept ==
  ASSUME ReviewInv, nsegs' = nsegs, worker' = worker
  PROVE  WorkerTyped' /\ WorkerInv' /\ (Delivered' <=> Delivered)
  BY SameSegments DEF ReviewInv, WorkerTyped, WorkerInv, Delivered

\* The types of the shared variables, where a step leaves them alone.
LEMMA SharedKept ==
  ASSUME ReviewInv, nsegs' = nsegs, row' \in Job \cup {None},
         rows' = rows \/ rows' = {} \/ (rows' \subseteq SegmentRow /\ IsFiniteSet(rows')),
         create' = create, hash' \in Hash \cup {None}, list' \in Lists \cup {None},
         trouble' = trouble \/ (trouble < MaxTrouble /\ trouble' = trouble + 1)
  PROVE  SharedTyped'
  BY SameSegments, FS_EmptySet, TranslationReviewAssumption DEF ReviewInv, SharedTyped

\* A request at a statement goes on to p with the variables d.
LEMMA StatementStep ==
  ASSUME ReviewInv, nsegs' = nsegs, worker' = worker, create' = create,
         kind' = kind, before' = before,
         NEW r \in Requests, NEW p \in Pcs, NEW d \in Locals, pc[r] \in Loaded,
         pc' = [pc EXCEPT ![r] = p], loc' = [loc EXCEPT ![r] = d],
         p # "new", PreparedAs(p, d, kind[r]),
         p \in Loaded => d.job.edits = loc[r].job.edits,
         d.job # None /\ d.job.status \in Final => Delivered,
         p \in DecidePcs => pc[r] \in DecidePcs,
         p \in WritesStatus => pc[r] \in WritesStatus,
         pc[r] = "put_hash" => p = "done",
         p = "done" /\ kind[r] = "edit" => row' = None \/ row'.edits,
         row' # None => /\ row # None
                        /\ row.edits => row'.edits
                        /\ row'.status \in Final => Delivered,
         row' # None /\ row'.status \in Decided =>
            \/ row'.status = row.status
            \/ row'.status = kind[r] /\ p \in {"put_hash", "done"},
         hash' # None /\ hash'.status \in Final => Delivered,
         SharedTyped', row' = None => rows' = {}
  PROVE  ReviewInv'
<1>1. /\ kind \in [Requests -> Kinds \cup {None}] /\ pc \in [Requests -> Pcs]
      /\ loc \in [Requests -> Locals] /\ before \in [Requests -> SUBSET Requests]
  BY DEF ReviewInv, RequestsTyped
<1>2. RequestsTyped'
  BY <1>1, SameSegments DEF RequestsTyped
<1>3. ASSUME NEW q \in Requests PROVE Prepared(q)'
  <2>1. PreparedAs(pc'[q], loc'[q], kind'[q])
    BY <1>1, RequestFacts
  <2> QED
    BY <2>1, SameSegments DEF Prepared, PreparedAs
<1>4. BeforeInv'
  BY <1>1 DEF ReviewInv, BeforeInv, Answered, Loaded
<1>5. FinalInv'
  BY <1>1, WorkerKept DEF ReviewInv, FinalInv
<1>6. RowInv'
  BY <1>1, RequestFacts DEF ReviewInv, RowInv
<1>7. EditsInv'
  <2> SUFFICES ASSUME NEW q \in Requests, EditedBy(q)'
               PROVE  /\ row' = None \/ row'.edits
                      /\ \A x \in Requests : pc'[x] \in Loaded /\ q \in before'[x]
                                               => loc'[x].job.edits
    BY DEF EditsInv
  <2>1. CASE q = r
    <3>1. row' = None \/ row'.edits
      BY <1>1, <2>1 DEF EditedBy
    <3>2. \A x \in Requests : r \notin before[x]
      BY DEF ReviewInv, BeforeInv, Answered, Loaded
    <3> QED
      BY <2>1, <3>1, <3>2
  <2>2. CASE q # r
    <3>1. EditedBy(q)
      BY <1>1, <2>2 DEF EditedBy
    <3>2. row = None \/ row.edits
      BY <3>1 DEF ReviewInv, EditsInv
    <3>3. ASSUME NEW x \in Requests, pc'[x] \in Loaded, q \in before'[x]
          PROVE  loc'[x].job.edits
      <4>1. pc[x] \in Loaded
        BY <1>1, <3>3
      <4>2. loc[x].job.edits
        BY <3>1, <3>3, <4>1 DEF ReviewInv, EditsInv
      <4>3. loc'[x].job.edits = loc[x].job.edits
        BY <1>1, <3>3
      <4> QED
        BY <4>2, <4>3
    <3> QED
      BY <3>2, <3>3
  <2> QED
    BY <2>1, <2>2
<1>8. DecisionInv'
  <2> SUFFICES ASSUME NEW x \in Requests, pc'[x] \in WritesStatus,
                      row' # None, row'.status \in Decided
               PROVE  \E q \in Requests \ before'[x] : TookDecision(q)'
    BY DEF DecisionInv
  <2>1. pc[x] \in WritesStatus /\ row # None
    BY <1>1
  <2>2. CASE row'.status = row.status
    <3>1. PICK q \in Requests \ before[x] : TookDecision(q)
      BY <2>1, <2>2 DEF ReviewInv, DecisionInv
    <3>2. pc'[q] \in {"put_hash", "done"}
      BY <1>1, <3>1 DEF TookDecision, Loaded
    <3> QED
      BY <2>2, <3>1, <3>2 DEF TookDecision
  <2>3. CASE row'.status = kind[r] /\ p \in {"put_hash", "done"}
    <3>1. r \notin before[x]
      BY DEF ReviewInv, BeforeInv, Answered, Loaded
    <3> QED
      BY <1>1, <2>3, <3>1 DEF TookDecision
  <2> QED
    BY <2>2, <2>3
<1>9. WorkerTyped' /\ WorkerInv'
  BY WorkerKept
<1> QED
  BY <1>2, <1>3, <1>4, <1>5, <1>6, <1>7, <1>8, <1>9 DEF ReviewInv

\* A request arrives and is refused, or loads the job's row into d and goes on to p.
LEMMA ArriveStep ==
  ASSUME ReviewInv, nsegs' = nsegs, worker' = worker, UNCHANGED <<create, db, redis, trouble>>,
         NEW r \in Requests, NEW k \in Kinds, Arrive(r, k), NEW p \in Pcs,
         p \in Loaded => loc' = [loc EXCEPT ![r].job = row] /\ row # None,
         p \notin Loaded => loc' = loc /\ p = "refused",
         pc' = [pc EXCEPT ![r] = p],
         p \in Loaded => p \in {"get_hash", "put_decision", "edit_find", "del_rows"},
         p = "get_hash" => k = "get", p = "put_decision" => k \in Decided,
         p = "edit_find" => k = "edit", p = "del_rows" => k = "delete",
         p \in WritesStatus => row.status \notin Decided,
         p = "put_decision" => row.status \in Final
  PROVE  ReviewInv'
<1> DEFINE d == loc'[r]
<1>1. /\ kind \in [Requests -> Kinds \cup {None}] /\ pc \in [Requests -> Pcs]
      /\ loc \in [Requests -> Locals] /\ before \in [Requests -> SUBSET Requests]
      /\ row \in Job \cup {None}
  BY DEF ReviewInv, RequestsTyped, SharedTyped
<1>2. /\ kind' = [kind EXCEPT ![r] = k] /\ pc[r] = "new"
      /\ before' = [before EXCEPT ![r] = {q \in Requests : Answered(q)}]
      /\ create' = create /\ row' = row /\ rows' = rows /\ hash' = hash /\ list' = list
  BY DEF Arrive, db, redis
<1>3. d \in Locals /\ (p \in Loaded => d.job = row /\ row \in Job)
  <2>1. CASE p \notin Loaded
    BY <1>1, <2>1
  <2>2. CASE p \in Loaded
    <3>1. loc[r] \in Locals /\ row \in Job
      BY <1>1, <2>2
    <3>2. d = [loc[r] EXCEPT !.job = row]
      BY <1>1, <2>2
    <3> HIDE DEF d
    <3> QED
      BY <3>1, <3>2 DEF Locals
  <2> QED
    BY <2>1, <2>2
<1>4. loc' = [loc EXCEPT ![r] = d]
  BY <1>1
<1> HIDE DEF d
<1>5. RequestsTyped'
  BY <1>1, <1>2, <1>3, <1>4, SameSegments DEF RequestsTyped
<1>6. ASSUME NEW q \in Requests PROVE Prepared(q)'
  <2>1. CASE q = r
    <3>1. PreparedAs(p, d, k)
      BY <1>3 DEF PreparedAs, Loaded, GetPcs, DecidePcs, EditPcs, DeletePcs, WritesStatus
    <3>2. PreparedAs(pc'[q], loc'[q], kind'[q])
      BY <1>1, <1>2, <1>4, <2>1, <3>1
    <3> QED
      BY <3>2, SameSegments DEF Prepared, PreparedAs
  <2>2. CASE q # r
    <3>1. PreparedAs(pc'[q], loc'[q], kind'[q])
      BY <1>1, <1>2, <1>4, <2>2, RequestFacts
    <3> QED
      BY <3>1, SameSegments DEF Prepared, PreparedAs
  <2> QED
    BY <2>1, <2>2
<1>7. BeforeInv'
  BY <1>1, <1>2 DEF ReviewInv, BeforeInv, Answered
<1>8. FinalInv'
  <2>1. row # None /\ row.status \in Final => Delivered
    BY DEF ReviewInv, FinalInv
  <2>2. p \in DecidePcs => Delivered
    BY <2>1, NoneAssumption DEF Loaded, DecidePcs
  <2>3. ASSUME NEW q \in Requests
        PROVE  /\ loc'[q].job # None /\ loc'[q].job.status \in Final => Delivered
               /\ pc'[q] \in DecidePcs => Delivered
    <3>1. CASE p \notin Loaded
      BY <1>1, <2>2, <3>1 DEF ReviewInv, FinalInv
    <3>2. CASE p \in Loaded
      BY <1>1, <1>3, <1>4, <2>1, <2>2, <3>2 DEF ReviewInv, FinalInv
    <3> QED
      BY <3>1, <3>2
  <2> QED
    BY <1>2, <2>1, <2>3, WorkerKept DEF ReviewInv, FinalInv
<1>9. RowInv'
  BY <1>1, <1>2, <1>3, NoneAssumption DEF ReviewInv, RowInv, Loaded
<1>10. EditsInv'
  <2> SUFFICES ASSUME NEW q \in Requests, EditedBy(q)'
               PROVE  /\ row' = None \/ row'.edits
                      /\ \A x \in Requests : pc'[x] \in Loaded /\ q \in before'[x]
                                               => loc'[x].job.edits
    BY DEF EditsInv
  <2>1. q # r
    BY <1>1 DEF EditedBy, Loaded
  <2>2. EditedBy(q)
    BY <1>1, <1>2, <2>1 DEF EditedBy
  <2>3. row = None \/ row.edits
    BY <2>2 DEF ReviewInv, EditsInv
  <2>4. ASSUME NEW x \in Requests, pc'[x] \in Loaded, q \in before'[x]
        PROVE  loc'[x].job.edits
    <3>1. CASE x = r
      BY <1>1, <1>3, <1>4, <2>3, <2>4, <3>1
    <3>2. CASE x # r
      <4>1. pc[x] \in Loaded /\ q \in before[x] /\ loc'[x] = loc[x]
        BY <1>1, <1>2, <1>4, <2>4, <3>2
      <4> QED
        BY <2>2, <4>1 DEF ReviewInv, EditsInv
    <3> QED
      BY <3>1, <3>2
  <2> QED
    BY <1>2, <2>3, <2>4
<1>11. DecisionInv'
  <2> SUFFICES ASSUME NEW x \in Requests, pc'[x] \in WritesStatus,
                      row # None, row.status \in Decided
               PROVE  \E q \in Requests \ before'[x] : TookDecision(q)'
    BY <1>2 DEF DecisionInv
  <2>1. x # r
    BY <1>1
  <2>2. pc[x] \in WritesStatus /\ before'[x] = before[x]
    BY <1>1, <1>2, <2>1
  <2>3. PICK q \in Requests \ before[x] : TookDecision(q)
    BY <2>2 DEF ReviewInv, DecisionInv
  <2>4. q # r
    BY <1>2, <2>3 DEF TookDecision
  <2> QED
    BY <1>1, <1>2, <2>2, <2>3, <2>4 DEF TookDecision
<1>12. SharedTyped'
  <2>1. /\ row' = row /\ hash' = hash /\ list' = list /\ rows' = rows
        /\ create' = create /\ trouble' = trouble
    BY <1>2
  <2> QED
    BY <2>1, SameSegments DEF ReviewInv, SharedTyped
<1> QED
  BY <1>5, <1>6, <1>7, <1>8, <1>9, <1>10, <1>11, <1>12, WorkerKept DEF ReviewInv

\* A step of the worker or of the creation, with what it may tell of the translation.
LEMMA OutsideStep ==
  ASSUME ReviewInv, nsegs' = nsegs, UNCHANGED <<kind, pc, loc, before>>,
         SharedTyped', WorkerTyped', WorkerInv', RowInv', Delivered => Delivered',
         hash' = hash \/ (hash'.status \in Final => Delivered'),
         \/ row' = row
         \/ create = "row" /\ row'.status \notin Final
         \/ row # None /\ row' # None /\ row'.status = row.status /\ row'.edits = row.edits
  PROVE  ReviewInv'
<1>1. RequestsTyped' /\ \A r \in Requests : Prepared(r)'
  BY SameSegments DEF ReviewInv, RequestsTyped, Prepared, PreparedAs
<1>2. BeforeInv'
  BY DEF ReviewInv, BeforeInv, Answered
<1>3. FinalInv'
  BY DEF ReviewInv, FinalInv
<1>4. EditsInv'
  BY DEF ReviewInv, EditsInv, EditedBy, RowInv
<1>5. DecisionInv'
  <2> SUFFICES ASSUME NEW x \in Requests, pc[x] \in WritesStatus,
                      row' # None, row'.status \in Decided
               PROVE  \E q \in Requests \ before[x] : TookDecision(q)'
    BY DEF DecisionInv
  <2>1. row # None /\ row'.status = row.status
    BY DEF ReviewInv, RowInv, WritesStatus
  <2>2. PICK q \in Requests \ before[x] : TookDecision(q)
    BY <2>1 DEF ReviewInv, DecisionInv
  <2> QED
    BY <2>1, <2>2 DEF TookDecision
<1> QED
  BY <1>1, <1>2, <1>3, <1>4, <1>5 DEF ReviewInv

\* A request goes on without touching what others share.
LEMMA LocalStep ==
  ASSUME ReviewInv, nsegs' = nsegs, worker' = worker, create' = create,
         kind' = kind, before' = before, row' = row, rows' = rows,
         hash' = hash, list' = list, trouble' = trouble,
         NEW r \in Requests, NEW p \in Pcs, NEW d \in Locals, pc[r] \in Loaded,
         pc' = [pc EXCEPT ![r] = p], loc' = [loc EXCEPT ![r] = d],
         p # "new", PreparedAs(p, d, kind[r]),
         p \in Loaded => d.job.edits = loc[r].job.edits,
         d.job # None /\ d.job.status \in Final => Delivered,
         p \in DecidePcs => pc[r] \in DecidePcs,
         p \in WritesStatus => pc[r] \in WritesStatus,
         pc[r] = "put_hash" => p = "done",
         p = "done" => kind[r] # "edit"
  PROVE  ReviewInv'
<1>1. SharedTyped'
  BY SameSegments DEF ReviewInv, SharedTyped
<1>2. row' = None => rows' = {}
  BY DEF ReviewInv, RowInv
<1>3. /\ hash' # None /\ hash'.status \in Final => Delivered
      /\ row' # None /\ row'.status \in Final => Delivered
  BY DEF ReviewInv, FinalInv
<1> QED
  BY <1>1, <1>2, <1>3, StatementStep

LEMMA UpdateFacts ==
  ASSUME ReviewInv, NEW new, UpdateJob(new), row # None => new \in Job
  PROVE  /\ row' \in Job \cup {None} /\ (row' = None <=> row = None)
         /\ row' # None => row' = new
  BY NoneAssumption DEF UpdateJob

\* A request updates the row, and goes on to p with the variables d.
LEMMA RowStep ==
  ASSUME ReviewInv, nsegs' = nsegs, worker' = worker, create' = create,
         kind' = kind, before' = before, rows' = rows,
         hash' = hash, list' = list, trouble' = trouble,
         NEW r \in Requests, NEW p \in Pcs, NEW d \in Locals, pc[r] \in Loaded,
         NEW new, UpdateJob(new), row # None => new \in Job,
         row # None => /\ row.edits => new.edits
                       /\ new.status \in Final => Delivered
                       /\ new.status \in Decided =>
                            \/ new.status = row.status
                            \/ new.status = kind[r] /\ p \in {"put_hash", "done"},
         pc' = [pc EXCEPT ![r] = p], loc' = [loc EXCEPT ![r] = d],
         p # "new", PreparedAs(p, d, kind[r]),
         p \in Loaded => d.job = loc[r].job,
         p \notin Loaded => d = Blank,
         p \in DecidePcs => pc[r] \in DecidePcs,
         p \notin WritesStatus, pc[r] # "put_hash",
         row # None /\ p = "done" /\ kind[r] = "edit" => new.edits
  PROVE  ReviewInv'
<1>1. /\ row' \in Job \cup {None} /\ (row' = None <=> row = None)
      /\ row' # None => row' = new
  BY UpdateFacts
<1>2. SharedTyped'
  BY <1>1, SameSegments DEF ReviewInv, SharedTyped
<1>3. row' = None => rows' = {}
  BY <1>1 DEF ReviewInv, RowInv
<1>4. hash' # None /\ hash'.status \in Final => Delivered
  BY DEF ReviewInv, FinalInv
<1>5. d.job # None /\ d.job.status \in Final => Delivered
  BY BlankTyped DEF ReviewInv, FinalInv
<1> QED
  BY <1>1, <1>2, <1>3, <1>4, <1>5, StatementStep

LEMMA GetHashKept ==
  ASSUME ReviewInv, NEW r \in Requests, nsegs' = nsegs, GetHash(r)
  PROVE  ReviewInv'
<1> DEFINE s == IF hash.status \in {"processing", "pending_approval"}
                  THEN hash.status ELSE loc[r].job.status
           d == [loc[r] EXCEPT !.job.status = s]
<1>1. /\ worker' = worker /\ create' = create /\ kind' = kind /\ before' = before
      /\ row' = row /\ rows' = rows /\ hash' = hash /\ list' = list /\ trouble' = trouble
      /\ pc[r] = "get_hash"
  BY DEF GetHash, db, redis
<1>2. /\ loc[r] \in Locals /\ loc[r].job \in Job /\ loc[r].job.status \notin Decided
      /\ kind[r] = "get"
  BY <1>1, RequestFacts DEF PreparedAs, Loaded, Pcs, GetPcs
<1>3. loc \in [Requests -> Locals] /\ hash \in Hash \cup {None}
  BY DEF ReviewInv, RequestsTyped, SharedTyped
<1>4. CASE hash = None \/ ~hash.meta
  <2>1. loc' = [loc EXCEPT ![r] = loc[r]] /\ pc' = [pc EXCEPT ![r] = "get_list"]
    BY <1>3, <1>4 DEF GetHash, Go
  <2>2. loc[r].job # None /\ loc[r].job.status \in Final => Delivered
    BY DEF ReviewInv, FinalInv
  <2>3. PreparedAs("get_list", loc[r], kind[r])
    BY <1>2 DEF PreparedAs, Loaded, Pcs, GetPcs, DecidePcs, EditPcs, DeletePcs
  <2> QED
    BY <1>1, <1>2, <2>1, <2>2, <2>3, LocalStep DEF Loaded, Pcs, DecidePcs, WritesStatus
<1>5. CASE ~(hash = None \/ ~hash.meta)
  <2>1. loc' = [loc EXCEPT ![r] = d] /\ pc' = [pc EXCEPT ![r] = "put_status"]
    BY <1>2, <1>3, <1>5 DEF GetHash, Go, Locals, Job
  <2>2. /\ d.job = [loc[r].job EXCEPT !.status = s]
        /\ s \in Statuses \ Decided
    BY <1>2, <1>3, <1>5 DEF Locals, Job, Hash, Statuses, Decided
  <2>3. d.job \in Job /\ d.job.status = s /\ d.job.edits = loc[r].job.edits
    BY <1>2, <2>2 DEF Job
  <2>4. d \in Locals
    BY <1>2, <2>3 DEF Locals
  <2>5. s \in Final => Delivered
    BY <1>2, <1>5, NoneAssumption DEF ReviewInv, FinalInv
  <2> HIDE DEF d
  <2>6. PreparedAs("put_status", d, kind[r])
    BY <1>2, <2>2, <2>3 DEF PreparedAs, Loaded, Pcs, GetPcs, DecidePcs, EditPcs, DeletePcs
  <2> QED
    BY <1>1, <1>2, <2>1, <2>3, <2>4, <2>5, <2>6, LocalStep
    DEF Loaded, Pcs, DecidePcs, WritesStatus
<1> QED
  BY <1>4, <1>5

LEMMA PutStatusKept ==
  ASSUME ReviewInv, NEW r \in Requests, nsegs' = nsegs, PutStatus(r)
  PROVE  ReviewInv'
<1> DEFINE new == [row EXCEPT !.status = loc[r].job.status]
<1>1. /\ worker' = worker /\ create' = create /\ kind' = kind /\ before' = before
      /\ rows' = rows /\ hash' = hash /\ list' = list /\ trouble' = trouble
      /\ pc[r] = "put_status" /\ pc' = [pc EXCEPT ![r] = "get_list"] /\ loc' = loc
      /\ UpdateJob(new)
  BY DEF PutStatus, Go, redis
<1>2. /\ loc[r] \in Locals /\ loc[r].job \in Job /\ loc[r].job.status \notin Decided
      /\ kind[r] = "get"
  BY <1>1, RequestFacts DEF PreparedAs, Loaded, Pcs, GetPcs
<1>3. loc' = [loc EXCEPT ![r] = loc[r]] /\ row \in Job \cup {None}
  BY <1>1 DEF ReviewInv, RequestsTyped, SharedTyped
<1>4. row # None => /\ new \in Job /\ new.edits = row.edits
                    /\ new.status = loc[r].job.status
  BY <1>2, <1>3 DEF Job
<1>5. loc[r].job.status \in Final => Delivered
  BY <1>2, NoneAssumption DEF ReviewInv, FinalInv
<1>6. PreparedAs("get_list", loc[r], kind[r])
  BY <1>2 DEF PreparedAs, Loaded, Pcs, GetPcs, DecidePcs, EditPcs, DeletePcs
<1> HIDE DEF new
<1> QED
  BY <1>1, <1>2, <1>3, <1>4, <1>5, <1>6, RowStep DEF Loaded, Pcs, DecidePcs, WritesStatus

LEMMA GetListKept ==
  ASSUME ReviewInv, NEW r \in Requests, nsegs' = nsegs, GetList(r)
  PROVE  ReviewInv'
<1> DEFINE d == [loc[r] EXCEPT !.list = list, !.todo = Segs]
<1>1. /\ worker' = worker /\ create' = create /\ kind' = kind /\ before' = before
      /\ row' = row /\ rows' = rows /\ hash' = hash /\ list' = list /\ trouble' = trouble
      /\ pc[r] = "get_list"
  BY DEF GetList, db, redis
<1>2. loc[r] \in Locals /\ loc[r].job \in Job /\ kind[r] = "get"
  BY <1>1, RequestFacts DEF PreparedAs, Loaded, Pcs, GetPcs
<1>3. loc \in [Requests -> Locals] /\ list \in Lists \cup {None}
  BY DEF ReviewInv, RequestsTyped, SharedTyped
<1>4. CASE list = None
  <2>1. loc' = [loc EXCEPT ![r] = Blank] /\ pc' = [pc EXCEPT ![r] = "done"]
    BY <1>4 DEF GetList, Finish, Answer, Go
  <2>2. PreparedAs("done", Blank, kind[r])
    BY DEF PreparedAs, Loaded, Pcs, GetPcs, DecidePcs, EditPcs, DeletePcs
  <2> QED
    BY <1>1, <1>2, <2>1, <2>2, BlankTyped, LocalStep DEF Loaded, Pcs, DecidePcs, WritesStatus
<1>5. CASE list # None
  <2>1. loc' = [loc EXCEPT ![r] = d] /\ pc' = [pc EXCEPT ![r] = "get_meta"]
    BY <1>2, <1>3, <1>5 DEF GetList, Go, Locals
  <2>2. d \in Locals /\ d.job = loc[r].job /\ d.list \in Lists
    BY <1>2, <1>3, <1>5 DEF Locals
  <2>3. loc[r].job # None /\ loc[r].job.status \in Final => Delivered
    BY DEF ReviewInv, FinalInv
  <2> HIDE DEF d
  <2>4. PreparedAs("get_meta", d, kind[r])
    BY <1>2, <2>2 DEF PreparedAs, Loaded, Pcs, GetPcs, DecidePcs, EditPcs, DeletePcs
  <2> QED
    BY <1>1, <1>2, <2>1, <2>2, <2>3, <2>4, LocalStep DEF Loaded, Pcs, DecidePcs, WritesStatus
<1> QED
  BY <1>4, <1>5

LEMMA GetMetaKept ==
  ASSUME ReviewInv, NEW r \in Requests, nsegs' = nsegs, GetMeta(r)
  PROVE  ReviewInv'
<1>1. /\ worker' = worker /\ create' = create /\ kind' = kind /\ before' = before
      /\ row' = row /\ rows' = rows /\ hash' = hash /\ list' = list /\ trouble' = trouble
      /\ pc[r] = "get_meta"
  BY DEF GetMeta, db, redis
<1>2. /\ loc[r] \in Locals /\ loc[r].job \in Job /\ kind[r] = "get"
      /\ loc[r].list \in Lists
  BY <1>1, RequestFacts DEF PreparedAs, Loaded, Pcs, GetPcs
<1>3. loc \in [Requests -> Locals]
  BY DEF ReviewInv, RequestsTyped
<1>4. CASE hash = None \/ ~hash.meta
  <2>1. loc' = [loc EXCEPT ![r] = Blank] /\ pc' = [pc EXCEPT ![r] = "done"]
    BY <1>4 DEF GetMeta, Finish, Answer, Go
  <2>2. PreparedAs("done", Blank, kind[r])
    BY DEF PreparedAs, Loaded, Pcs, GetPcs, DecidePcs, EditPcs, DeletePcs
  <2> QED
    BY <1>1, <1>2, <2>1, <2>2, BlankTyped, LocalStep DEF Loaded, Pcs, DecidePcs, WritesStatus
<1>5. CASE ~(hash = None \/ ~hash.meta)
  <2>1. loc' = [loc EXCEPT ![r] = loc[r]] /\ pc' = [pc EXCEPT ![r] = "find"]
    BY <1>3, <1>5 DEF GetMeta, Go
  <2>2. loc[r].job # None /\ loc[r].job.status \in Final => Delivered
    BY DEF ReviewInv, FinalInv
  <2>3. PreparedAs("find", loc[r], kind[r])
    BY <1>2 DEF PreparedAs, Loaded, Pcs, GetPcs, DecidePcs, EditPcs, DeletePcs
  <2> QED
    BY <1>1, <1>2, <2>1, <2>2, <2>3, LocalStep DEF Loaded, Pcs, DecidePcs, WritesStatus
<1> QED
  BY <1>4, <1>5

LEMMA FindSegmentsKept ==
  ASSUME ReviewInv, NEW r \in Requests, nsegs' = nsegs, FindSegments(r)
  PROVE  ReviewInv'
<1> DEFINE d == [loc[r] EXCEPT !.known = rows]
<1>1. /\ worker' = worker /\ create' = create /\ kind' = kind /\ before' = before
      /\ row' = row /\ rows' = rows /\ hash' = hash /\ list' = list /\ trouble' = trouble
      /\ pc[r] = "find" /\ pc' = [pc EXCEPT ![r] = "sync"]
  BY DEF FindSegments, Go, db, redis
<1>2. /\ loc[r] \in Locals /\ loc[r].job \in Job /\ kind[r] = "get"
      /\ loc[r].list \in Lists
  BY <1>1, RequestFacts DEF PreparedAs, Loaded, Pcs, GetPcs
<1>3. loc \in [Requests -> Locals] /\ rows \in SUBSET SegmentRow
  BY DEF ReviewInv, RequestsTyped, SharedTyped
<1>4. loc' = [loc EXCEPT ![r] = d]
  BY <1>2, <1>3 DEF FindSegments, Locals
<1>5. d \in Locals /\ d.job = loc[r].job /\ d.list = loc[r].list
  BY <1>2, <1>3 DEF Locals
<1>6. loc[r].job # None /\ loc[r].job.status \in Final => Delivered
  BY DEF ReviewInv, FinalInv
<1> HIDE DEF d
<1>7. PreparedAs("sync", d, kind[r])
  BY <1>2, <1>5 DEF PreparedAs, Loaded, Pcs, GetPcs, DecidePcs, EditPcs, DeletePcs
<1> QED
  BY <1>1, <1>2, <1>4, <1>5, <1>6, <1>7, LocalStep DEF Loaded, Pcs, DecidePcs, WritesStatus

RowsFit(S) == S \subseteq SegmentRow /\ IsFiniteSet(S) /\ (row = None => S = {})

\* The rows after an update of some of them.
LEMMA RowsUpdated ==
  ASSUME ReviewInv, NEW f \in [rows -> SegmentRow], rows' = {f[x] : x \in rows}
  PROVE  RowsFit(rows')
<1>1. IsFiniteSet(rows)
  BY DEF ReviewInv, SharedTyped
<1>2. f \in Surjection(rows, rows')
  BY DEF Surjection
<1>3. row = None => rows = {}
  BY DEF ReviewInv, RowInv
<1> QED
  BY <1>1, <1>2, <1>3, FS_Surjection DEF RowsFit

\* A request changes the segments' rows, and goes on to p with the variables d.
LEMMA RowsStep ==
  ASSUME ReviewInv, nsegs' = nsegs, worker' = worker, create' = create,
         kind' = kind, before' = before, row' = row,
         RowsFit(rows'), hash' = hash, list' = list,
         trouble' = trouble \/ (trouble < MaxTrouble /\ trouble' = trouble + 1),
         NEW r \in Requests, NEW p \in Pcs, NEW d \in Locals, pc[r] \in Loaded, p \in Loaded,
         pc' = [pc EXCEPT ![r] = p], loc' = [loc EXCEPT ![r] = d],
         PreparedAs(p, d, kind[r]), d.job = loc[r].job,
         p \notin DecidePcs, p \notin WritesStatus, pc[r] # "put_hash"
  PROVE  ReviewInv'
<1>1. SharedTyped'
  BY SameSegments, TranslationReviewAssumption DEF ReviewInv, SharedTyped, RowsFit
<1>2. /\ hash' # None /\ hash'.status \in Final => Delivered
      /\ row' # None /\ row'.status \in Final => Delivered
      /\ d.job # None /\ d.job.status \in Final => Delivered
  BY DEF ReviewInv, FinalInv
<1>3. p # "new" /\ p # "done"
  BY DEF Loaded
<1>4. row' = None => rows' = {}
  BY DEF RowsFit
<1> QED
  BY <1>1, <1>2, <1>3, <1>4, StatementStep

\* The loop over the list has a first segment left.
LEMMA SmallestOf ==
  ASSUME NEW S, S \subseteq Nat, S # {}
  PROVE  \E m \in S : \A t \in S : m <= t
<1> DEFINE less == OpToRel(<, Nat)
<1>1. less = {ss \in Nat \X Nat : ss[1] < ss[2]}
  BY DEF OpToRel
<1>2. IsWellFoundedOn(less, Nat)
  BY NatLessThanWellFounded
<1> HIDE DEF less
<1>3. PICK m \in S : \A t \in S : ~ (<<t, m>> \in less)
  BY <1>2, WFMin
<1>4. ASSUME NEW t \in S PROVE m <= t
  <2>1. t \in Nat /\ m \in Nat /\ <<t, m>> \in Nat \X Nat
    OBVIOUS
  <2>2. ~ (<<t, m>>[1] < <<t, m>>[2])
    BY <1>1, <1>3, <2>1
  <2> QED
    BY <2>1, <2>2
<1> QED
  BY <1>4

LEMMA SyncSegmentKept ==
  ASSUME ReviewInv, NEW r \in Requests, nsegs' = nsegs, SyncSegment(r)
  PROVE  ReviewInv'
<1> DEFINE s == First(loc[r].todo)
           d == [loc[r] EXCEPT !.todo = Without(loc[r].todo, s)]
           found == {x \in loc[r].known : x.seg = s}
<1>1. /\ worker' = worker /\ create' = create /\ kind' = kind /\ before' = before
      /\ row' = row /\ hash' = hash /\ list' = list /\ trouble' = trouble
      /\ pc[r] = "sync" /\ pc' = pc /\ loc[r].todo # {}
      /\ loc' = [loc EXCEPT ![r].todo = Without(@, s)]
  BY DEF SyncSegment, redis
<1>2. /\ loc[r] \in Locals /\ loc[r].job \in Job /\ kind[r] = "get"
      /\ loc[r].list \in Lists
  BY <1>1, RequestFacts DEF PreparedAs, Loaded, Pcs, GetPcs
<1>3. /\ loc \in [Requests -> Locals] /\ pc \in [Requests -> Pcs]
      /\ rows \in SUBSET SegmentRow /\ IsFiniteSet(rows)
      /\ row = None => rows = {}
  BY DEF ReviewInv, RequestsTyped, SharedTyped, RowInv
<1>4. pc' = [pc EXCEPT ![r] = "sync"] /\ loc' = [loc EXCEPT ![r] = d]
  BY <1>1, <1>2, <1>3 DEF Locals
<1>5. d \in Locals /\ d.job = loc[r].job /\ d.list = loc[r].list
  BY <1>2 DEF Locals, Without
<1>6. s \in Segs /\ loc[r].list[s] \in Items
  <2>1. loc[r].todo \subseteq Segs /\ loc[r].todo # {}
    BY <1>1, <1>2 DEF Locals
  <2>2. Segs \subseteq Nat
    BY DEF Segs
  <2>3. \E m \in loc[r].todo : \A t \in loc[r].todo : m <= t
    BY <2>1, <2>2, SmallestOf
  <2>4. s \in loc[r].todo
    BY <2>3 DEF First
  <2> QED
    BY <1>2, <2>1, <2>4 DEF Lists
<1>7. RowsFit(rows')
  <2>1. CASE Insert(r, s)
    <3>1. [seg |-> s, by |-> r, item |-> loc[r].list[s]] \in SegmentRow
      BY <1>6 DEF SegmentRow
    <3> QED
      BY <1>3, <2>1, <3>1, FS_AddElement DEF Insert, RowsFit
  <2>2. ASSUME NEW x \in found, Overwrite(r, s, x)
        PROVE  RowsFit(rows')
    <3> DEFINE f == [y \in rows |-> IF y.seg = s /\ y.by = x.by /\ ~loc[r].job.edits
                                      THEN [y EXCEPT !.item = loc[r].list[s]] ELSE y]
    <3>1. ASSUME NEW y \in rows PROVE f[y] \in SegmentRow
      BY <1>3, <1>6 DEF SegmentRow
    <3>2. f \in [rows -> SegmentRow]
      BY <3>1
    <3>3. rows' = {f[y] : y \in rows}
      BY <2>2 DEF Overwrite
    <3> HIDE DEF f
    <3> QED
      BY <3>2, <3>3, RowsUpdated
  <2>3. IF found = {} THEN Insert(r, s) ELSE \E x \in found : Overwrite(r, s, x)
    BY DEF SyncSegment
  <2> HIDE DEF found, s
  <2> QED
    BY <2>1, <2>2, <2>3
<1> HIDE DEF d, s, found
<1>8. PreparedAs("sync", d, kind[r])
  BY <1>2, <1>5 DEF PreparedAs, Loaded, Pcs, GetPcs, DecidePcs, EditPcs, DeletePcs
<1>9. /\ worker' = worker /\ create' = create /\ kind' = kind /\ before' = before
      /\ row' = row /\ hash' = hash /\ list' = list /\ trouble' = trouble
      /\ pc[r] = "sync"
  BY <1>1
<1> QED
  BY <1>4, <1>5, <1>7, <1>8, <1>9, RowsStep DEF Loaded, Pcs, DecidePcs, WritesStatus

LEMMA CountSegmentsKept ==
  ASSUME ReviewInv, NEW r \in Requests, nsegs' = nsegs, CountSegments(r)
  PROVE  ReviewInv'
<1> DEFINE d == [loc[r] EXCEPT !.count = Counts]
<1>1. /\ worker' = worker /\ create' = create /\ kind' = kind /\ before' = before
      /\ row' = row /\ rows' = rows /\ hash' = hash /\ list' = list /\ trouble' = trouble
  BY DEF CountSegments, db, redis
<1>2. /\ loc \in [Requests -> Locals] /\ rows \in SUBSET SegmentRow /\ IsFiniteSet(rows)
  BY DEF ReviewInv, RequestsTyped, SharedTyped
<1>3. Counts \in Counted
  <2>1. IsFiniteSet(FlaggedRows)
    BY <1>2, FS_Subset DEF FlaggedRows
  <2>2. Cardinality(rows) \in Nat /\ Cardinality(FlaggedRows) \in Nat
    BY <1>2, <2>1, FS_CardinalityType
  <2> QED
    BY <2>2 DEF Counts, Counted
<1>4. loc' = [loc EXCEPT ![r] = d] /\ d \in Locals /\ d.job = loc[r].job /\ d.count \in Counted
  BY <1>2, <1>3 DEF CountSegments, Locals
<1>5. loc[r].job # None /\ loc[r].job.status \in Final => Delivered
  BY DEF ReviewInv, FinalInv
<1> HIDE DEF d
<1>6. CASE pc[r] = "sync" /\ Go(r, "put_counts")
  <2>1. loc[r].job \in Job /\ kind[r] = "get"
    BY <1>6, RequestFacts DEF PreparedAs, Loaded, Pcs, GetPcs
  <2>2. PreparedAs("put_counts", d, kind[r])
    BY <1>4, <2>1 DEF PreparedAs, Loaded, Pcs, GetPcs, DecidePcs, EditPcs, DeletePcs
  <2> QED
    BY <1>1, <1>4, <1>5, <1>6, <2>1, <2>2, LocalStep DEF Go, Loaded, Pcs, DecidePcs, WritesStatus
<1>7. CASE pc[r] = "edit_count" /\ Go(r, "edit_job")
  <2>1. loc[r].job \in Job /\ kind[r] = "edit"
    BY <1>7, RequestFacts DEF PreparedAs, Loaded, Pcs, EditPcs
  <2>2. PreparedAs("edit_job", d, kind[r])
    BY <1>4, <2>1 DEF PreparedAs, Loaded, Pcs, GetPcs, DecidePcs, EditPcs, DeletePcs
  <2> QED
    BY <1>1, <1>4, <1>5, <1>7, <2>1, <2>2, LocalStep DEF Go, Loaded, Pcs, DecidePcs, WritesStatus
<1> QED
  BY <1>6, <1>7 DEF CountSegments

LEMMA PutCountsKept ==
  ASSUME ReviewInv, NEW r \in Requests, nsegs' = nsegs, PutCounts(r)
  PROVE  ReviewInv'
<1> DEFINE c == loc[r].count
           new == [row EXCEPT !.segments = c.segments, !.flagged = c.flagged]
<1>1. /\ worker' = worker /\ create' = create /\ kind' = kind /\ before' = before
      /\ rows' = rows /\ hash' = hash /\ list' = list /\ trouble' = trouble
      /\ pc[r] = "put_counts" /\ pc' = [pc EXCEPT ![r] = "done"]
      /\ loc' = [loc EXCEPT ![r] = Blank] /\ UpdateJob(new)
  BY DEF PutCounts, Finish, Answer, Go, redis
<1>2. kind[r] = "get" /\ c.segments \in Nat /\ c.flagged \in Nat
  BY <1>1, RequestFacts DEF PreparedAs, Loaded, Pcs, GetPcs, Counted
<1>3. row # None => /\ new \in Job /\ new.edits = row.edits /\ new.status = row.status
  BY <1>2 DEF ReviewInv, SharedTyped, Job
<1>4. row # None /\ row.status \in Final => Delivered
  BY DEF ReviewInv, FinalInv
<1>5. PreparedAs("done", Blank, kind[r])
  BY DEF PreparedAs, Loaded, Pcs, GetPcs, DecidePcs, EditPcs, DeletePcs
<1> HIDE DEF new
<1> QED
  BY <1>1, <1>2, <1>3, <1>4, <1>5, BlankTyped, RowStep DEF Loaded, Pcs, DecidePcs, WritesStatus

LEMMA PutDecisionKept ==
  ASSUME ReviewInv, NEW r \in Requests, nsegs' = nsegs, PutDecision(r)
  PROVE  ReviewInv'
<1> DEFINE new == [row EXCEPT !.status = kind[r]]
<1>1. /\ worker' = worker /\ create' = create /\ kind' = kind /\ before' = before
      /\ rows' = rows /\ hash' = hash /\ list' = list /\ trouble' = trouble
      /\ pc[r] = "put_decision" /\ UpdateJob(new)
  BY DEF PutDecision, redis
<1>2. loc[r] \in Locals /\ loc[r].job \in Job /\ kind[r] \in Decided
  BY <1>1, RequestFacts DEF PreparedAs, Loaded, Pcs, DecidePcs
<1>3. row # None => /\ new \in Job /\ new.edits = row.edits /\ new.status = kind[r]
  BY <1>2 DEF ReviewInv, SharedTyped, Job, Statuses
<1>4. Delivered
  BY <1>1 DEF ReviewInv, FinalInv, DecidePcs
<1> HIDE DEF new
<1>5. CASE loc[r].job.queued
  <2>1. pc' = [pc EXCEPT ![r] = "put_hash"] /\ loc' = [loc EXCEPT ![r] = loc[r]]
    BY <1>5 DEF PutDecision, Go, ReviewInv, RequestsTyped
  <2>2. PreparedAs("put_hash", loc[r], kind[r])
    BY <1>2 DEF PreparedAs, Loaded, Pcs, GetPcs, DecidePcs, EditPcs, DeletePcs
  <2> QED
    BY <1>1, <1>2, <1>3, <1>4, <2>1, <2>2, RowStep DEF Loaded, Pcs, DecidePcs, WritesStatus
<1>6. CASE ~loc[r].job.queued
  <2>1. pc' = [pc EXCEPT ![r] = "done"] /\ loc' = [loc EXCEPT ![r] = Blank]
    BY <1>6 DEF PutDecision, Finish, Answer, Go
  <2>2. PreparedAs("done", Blank, kind[r]) /\ kind[r] # "edit"
    BY <1>2 DEF PreparedAs, Loaded, Pcs, GetPcs, DecidePcs, EditPcs, DeletePcs, Decided
  <2> QED
    BY <1>1, <1>2, <1>3, <1>4, <2>1, <2>2, BlankTyped, RowStep
    DEF Loaded, Pcs, DecidePcs, WritesStatus
<1> QED
  BY <1>5, <1>6

\* A request changes the keys in Redis, and goes on to p with the variables d.
LEMMA KeysStep ==
  ASSUME ReviewInv, nsegs' = nsegs, worker' = worker, create' = create,
         kind' = kind, before' = before, row' = row, rows' = rows,
         hash' \in Hash \cup {None}, list' \in Lists \cup {None},
         hash' # None /\ hash'.status \in Final => Delivered,
         trouble' = trouble \/ (trouble < MaxTrouble /\ trouble' = trouble + 1),
         NEW r \in Requests, NEW p \in Pcs, NEW d \in Locals, pc[r] \in Loaded,
         pc' = [pc EXCEPT ![r] = p], loc' = [loc EXCEPT ![r] = d],
         p # "new", PreparedAs(p, d, kind[r]),
         p \in Loaded => d.job = loc[r].job,
         p \notin Loaded => d = Blank,
         p \notin DecidePcs, p \notin WritesStatus, pc[r] = "put_hash" => p = "done",
         p = "done" => kind[r] # "edit"
  PROVE  ReviewInv'
<1>1. SharedTyped'
  BY SameSegments, TranslationReviewAssumption DEF ReviewInv, SharedTyped
<1>2. row' = None => rows' = {}
  BY DEF ReviewInv, RowInv
<1>3. /\ row' # None /\ row'.status \in Final => Delivered
      /\ d.job # None /\ d.job.status \in Final => Delivered
  BY BlankTyped DEF ReviewInv, FinalInv
<1>4. p \in Loaded => d.job.edits = loc[r].job.edits
  OBVIOUS
<1> QED
  BY <1>1, <1>2, <1>3, <1>4, StatementStep

LEMMA TellWorkerKept ==
  ASSUME ReviewInv, NEW r \in Requests, nsegs' = nsegs, TellWorker(r)
  PROVE  ReviewInv'
<1>1. /\ worker' = worker /\ create' = create /\ kind' = kind /\ before' = before
      /\ row' = row /\ rows' = rows /\ list' = list /\ trouble' = trouble
      /\ pc[r] = "put_hash" /\ pc' = [pc EXCEPT ![r] = "done"]
      /\ loc' = [loc EXCEPT ![r] = Blank]
      /\ hash' = [status |-> kind[r], meta |-> hash # None /\ hash.meta]
  BY DEF TellWorker, Finish, Answer, Go, db
<1>2. kind[r] \in Decided
  BY <1>1, RequestFacts DEF PreparedAs, Loaded, Pcs, DecidePcs
<1>3. Delivered /\ hash \in Hash \cup {None} /\ list \in Lists \cup {None}
  BY <1>1 DEF ReviewInv, FinalInv, DecidePcs, SharedTyped
<1>4. hash' \in Hash
  <2>1. hash # None => hash.meta \in BOOLEAN
    BY <1>3 DEF Hash
  <2>2. (hash # None /\ hash.meta) \in BOOLEAN /\ kind[r] \in Statuses
    BY <1>2 DEF Statuses
  <2> QED
    BY <1>1, <2>2 DEF Hash
<1>5. PreparedAs("done", Blank, kind[r]) /\ kind[r] # "edit"
  BY <1>2 DEF PreparedAs, Loaded, Pcs, GetPcs, DecidePcs, EditPcs, DeletePcs, Decided
<1> QED
  BY <1>1, <1>3, <1>4, <1>5, BlankTyped, KeysStep DEF Loaded, Pcs, DecidePcs, WritesStatus

LEMMA EditFindKept ==
  ASSUME ReviewInv, NEW r \in Requests, nsegs' = nsegs, EditFind(r)
  PROVE  ReviewInv'
<1>1. /\ worker' = worker /\ create' = create /\ kind' = kind /\ before' = before
      /\ row' = row /\ rows' = rows /\ hash' = hash /\ list' = list /\ trouble' = trouble
      /\ pc[r] = "edit_find"
  BY DEF EditFind, db, redis
<1>2. loc[r] \in Locals /\ loc[r].job \in Job /\ kind[r] = "edit"
  BY <1>1, RequestFacts DEF PreparedAs, Loaded, Pcs, EditPcs
<1>3. loc \in [Requests -> Locals] /\ rows \in SUBSET SegmentRow
  BY DEF ReviewInv, RequestsTyped, SharedTyped
<1>4. ASSUME NEW x \in rows, Go(r, "edit_row"),
             loc' = [loc EXCEPT ![r].target = [seg |-> x.seg, by |-> x.by]]
      PROVE  ReviewInv'
  <2> DEFINE t == [seg |-> x.seg, by |-> x.by]
             d == [loc[r] EXCEPT !.target = t]
  <2>1. t \in Target
    BY <1>3 DEF SegmentRow, Target
  <2> HIDE DEF t
  <2>2. loc' = [loc EXCEPT ![r] = d]
    BY <1>2, <1>3, <1>4 DEF Locals, t
  <2>3. d \in Locals /\ d.job = loc[r].job /\ d.target \in Target
    BY <1>2, <2>1 DEF Locals
  <2>4. loc[r].job # None /\ loc[r].job.status \in Final => Delivered
    BY DEF ReviewInv, FinalInv
  <2> HIDE DEF d
  <2>5. PreparedAs("edit_row", d, kind[r])
    BY <1>2, <2>3 DEF PreparedAs, Loaded, Pcs, GetPcs, DecidePcs, EditPcs, DeletePcs
  <2>6. pc' = [pc EXCEPT ![r] = "edit_row"]
    BY <1>4 DEF Go
  <2> QED
    BY <1>1, <1>2, <2>2, <2>3, <2>4, <2>5, <2>6, LocalStep
    DEF Loaded, Pcs, DecidePcs, WritesStatus
<1>5. CASE Answer(r, "refused")
  <2>1. PreparedAs("refused", Blank, kind[r])
    BY DEF PreparedAs, Loaded, Pcs, GetPcs, DecidePcs, EditPcs, DeletePcs
  <2>2. pc' = [pc EXCEPT ![r] = "refused"] /\ loc' = [loc EXCEPT ![r] = Blank]
    BY <1>5 DEF Answer, Go
  <2> QED
    BY <1>1, <1>2, <2>1, <2>2, BlankTyped, LocalStep
    DEF Loaded, Pcs, DecidePcs, WritesStatus
<1> QED
  BY <1>4, <1>5 DEF EditFind

LEMMA EditRowKept ==
  ASSUME ReviewInv, NEW r \in Requests, nsegs' = nsegs, EditRow(r)
  PROVE  ReviewInv'
<1> DEFINE p == IF loc[r].job.queued THEN "edit_list" ELSE "edit_count"
           f == [x \in rows |-> IF Targets(r, x) THEN [x EXCEPT !.item = "edited"] ELSE x]
<1>1. /\ worker' = worker /\ create' = create /\ kind' = kind /\ before' = before
      /\ row' = row /\ hash' = hash /\ list' = list /\ trouble' = trouble
      /\ pc[r] = "edit_row" /\ pc' = [pc EXCEPT ![r] = p] /\ loc' = loc
  BY DEF EditRow, Go, redis
<1>2. /\ loc[r] \in Locals /\ loc[r].job \in Job /\ kind[r] = "edit"
      /\ loc[r].target \in Target
  BY <1>1, RequestFacts DEF PreparedAs, Loaded, Pcs, EditPcs
<1>3. /\ loc' = [loc EXCEPT ![r] = loc[r]] /\ rows \in SUBSET SegmentRow
  BY <1>1 DEF ReviewInv, RequestsTyped, SharedTyped
<1>4. f \in [rows -> SegmentRow] /\ rows' = {f[x] : x \in rows}
  BY <1>3 DEF EditRow, SegmentRow, Items
<1> HIDE DEF f
<1>5. RowsFit(rows')
  BY <1>4, RowsUpdated
<1>6. /\ worker' = worker /\ create' = create /\ kind' = kind /\ before' = before
      /\ row' = row /\ hash' = hash /\ list' = list /\ trouble' = trouble
      /\ pc[r] = "edit_row" /\ loc' = [loc EXCEPT ![r] = loc[r]]
  BY <1>1, <1>3
<1>7. /\ PreparedAs("edit_list", loc[r], kind[r])
      /\ PreparedAs("edit_count", loc[r], kind[r])
  BY <1>2 DEF PreparedAs, Loaded, Pcs, GetPcs, DecidePcs, EditPcs, DeletePcs
<1>8. pc' = [pc EXCEPT ![r] = "edit_list"] \/ pc' = [pc EXCEPT ![r] = "edit_count"]
  BY <1>1
<1>9. CASE pc' = [pc EXCEPT ![r] = "edit_list"]
  BY <1>2, <1>5, <1>6, <1>7, <1>9, RowsStep DEF Loaded, Pcs, DecidePcs, WritesStatus
<1>10. CASE pc' = [pc EXCEPT ![r] = "edit_count"]
  BY <1>2, <1>5, <1>6, <1>7, <1>10, RowsStep DEF Loaded, Pcs, DecidePcs, WritesStatus
<1> QED
  BY <1>8, <1>9, <1>10

LEMMA EditListKept ==
  ASSUME ReviewInv, NEW r \in Requests, nsegs' = nsegs, EditList(r)
  PROVE  ReviewInv'
<1>1. /\ worker' = worker /\ create' = create /\ kind' = kind /\ before' = before
      /\ row' = row /\ rows' = rows /\ hash' = hash /\ list' = list /\ trouble' = trouble
      /\ pc[r] = "edit_list" /\ loc' = [loc EXCEPT ![r] = loc[r]]
  BY DEF EditList, db, redis, ReviewInv, RequestsTyped
<1>2. /\ loc[r] \in Locals /\ loc[r].job \in Job /\ kind[r] = "edit"
      /\ loc[r].target \in Target
  BY <1>1, RequestFacts DEF PreparedAs, Loaded, Pcs, EditPcs
<1>3. loc[r].job # None /\ loc[r].job.status \in Final => Delivered
  BY DEF ReviewInv, FinalInv
<1>4. /\ PreparedAs("edit_count", loc[r], kind[r])
      /\ PreparedAs("edit_set", loc[r], kind[r])
  BY <1>2 DEF PreparedAs, Loaded, Pcs, GetPcs, DecidePcs, EditPcs, DeletePcs
<1>5. pc' = [pc EXCEPT ![r] = "edit_count"] \/ pc' = [pc EXCEPT ![r] = "edit_set"]
  BY DEF EditList, Go
<1>6. CASE pc' = [pc EXCEPT ![r] = "edit_count"]
  BY <1>1, <1>2, <1>3, <1>4, <1>6, LocalStep DEF Loaded, Pcs, DecidePcs, WritesStatus
<1>7. CASE pc' = [pc EXCEPT ![r] = "edit_set"]
  BY <1>1, <1>2, <1>3, <1>4, <1>7, LocalStep DEF Loaded, Pcs, DecidePcs, WritesStatus
<1> QED
  BY <1>5, <1>6, <1>7

LEMMA EditSetKept ==
  ASSUME ReviewInv, NEW r \in Requests, nsegs' = nsegs, EditSet(r)
  PROVE  ReviewInv'
<1>1. /\ worker' = worker /\ create' = create /\ kind' = kind /\ before' = before
      /\ row' = row /\ rows' = rows /\ hash' = hash /\ trouble' = trouble
      /\ pc[r] = "edit_set" /\ pc' = [pc EXCEPT ![r] = "edit_count"]
      /\ loc' = [loc EXCEPT ![r] = loc[r]]
  BY DEF EditSet, Go, db, ReviewInv, RequestsTyped
<1>2. /\ loc[r] \in Locals /\ loc[r].job \in Job /\ kind[r] = "edit"
  BY <1>1, RequestFacts DEF PreparedAs, Loaded, Pcs, EditPcs
<1>3. hash \in Hash \cup {None} /\ list \in Lists \cup {None}
  BY DEF ReviewInv, SharedTyped
<1>4. list' \in Lists \cup {None}
  BY <1>3 DEF EditSet, Lists, Items
<1>5. hash' # None /\ hash'.status \in Final => Delivered
  BY <1>1 DEF ReviewInv, FinalInv
<1>6. PreparedAs("edit_count", loc[r], kind[r])
  BY <1>2 DEF PreparedAs, Loaded, Pcs, GetPcs, DecidePcs, EditPcs, DeletePcs
<1> QED
  BY <1>1, <1>2, <1>3, <1>4, <1>5, <1>6, KeysStep DEF Loaded, Pcs, DecidePcs, WritesStatus

LEMMA EditJobKept ==
  ASSUME ReviewInv, NEW r \in Requests, nsegs' = nsegs, EditJob(r)
  PROVE  ReviewInv'
<1> DEFINE c == loc[r].count
           new == [row EXCEPT !.flagged = c.flagged, !.edits = TRUE]
<1>1. /\ worker' = worker /\ create' = create /\ kind' = kind /\ before' = before
      /\ rows' = rows /\ hash' = hash /\ list' = list /\ trouble' = trouble
      /\ pc[r] = "edit_job" /\ pc' = [pc EXCEPT ![r] = "done"]
      /\ loc' = [loc EXCEPT ![r] = Blank] /\ UpdateJob(new)
  BY DEF EditJob, Finish, Answer, Go, redis
<1>2. kind[r] = "edit" /\ c.flagged \in Nat
  BY <1>1, RequestFacts DEF PreparedAs, Loaded, Pcs, EditPcs, Counted
<1>3. row # None => /\ new \in Job /\ new.edits = TRUE /\ new.status = row.status
  BY <1>2 DEF ReviewInv, SharedTyped, Job
<1>4. row # None /\ row.status \in Final => Delivered
  BY DEF ReviewInv, FinalInv
<1>5. PreparedAs("done", Blank, kind[r])
  BY DEF PreparedAs, Loaded, Pcs, GetPcs, DecidePcs, EditPcs, DeletePcs
<1> HIDE DEF new
<1> QED
  BY <1>1, <1>2, <1>3, <1>4, <1>5, BlankTyped, RowStep DEF Loaded, Pcs, DecidePcs, WritesStatus

LEMMA DeleteRowsKept ==
  ASSUME ReviewInv, NEW r \in Requests, nsegs' = nsegs, DeleteRows(r)
  PROVE  ReviewInv'
<1>1. /\ worker' = worker /\ create' = create /\ kind' = kind /\ before' = before
      /\ row' = row /\ hash' = hash /\ list' = list
      /\ trouble' = trouble
      /\ pc[r] = "del_rows" /\ pc' = [pc EXCEPT ![r] = "del_job"]
      /\ loc' = [loc EXCEPT ![r] = loc[r]]
  BY DEF DeleteRows, Go, redis, ReviewInv, RequestsTyped
<1>2. /\ loc[r] \in Locals /\ loc[r].job \in Job /\ kind[r] = "delete"
  BY <1>1, RequestFacts DEF PreparedAs, Loaded, Pcs, DeletePcs
<1>3. RowsFit(rows')
  BY FS_EmptySet DEF DeleteRows, RowsFit, ReviewInv, SharedTyped, RowInv
<1>4. PreparedAs("del_job", loc[r], kind[r])
  BY <1>2 DEF PreparedAs, Loaded, Pcs, GetPcs, DecidePcs, EditPcs, DeletePcs
<1> QED
  BY <1>1, <1>2, <1>3, <1>4, RowsStep DEF Loaded, Pcs, DecidePcs, WritesStatus

LEMMA DeleteJobKept ==
  ASSUME ReviewInv, NEW r \in Requests, nsegs' = nsegs, DeleteJob(r)
  PROVE  ReviewInv'
<1>1. /\ worker' = worker /\ create' = create /\ kind' = kind /\ before' = before
      /\ row' = None /\ rows' = {} /\ hash' = hash /\ list' = list /\ trouble' = trouble
      /\ pc[r] = "del_job" /\ pc' = [pc EXCEPT ![r] = "del_keys"]
      /\ loc' = [loc EXCEPT ![r] = loc[r]]
  BY DEF DeleteJob, Go, redis, ReviewInv, RequestsTyped
<1>2. /\ loc[r] \in Locals /\ loc[r].job \in Job /\ kind[r] = "delete"
  BY <1>1, RequestFacts DEF PreparedAs, Loaded, Pcs, DeletePcs
<1>3. SharedTyped'
  BY <1>1, SameSegments, FS_EmptySet DEF ReviewInv, SharedTyped
<1>4. /\ hash' # None /\ hash'.status \in Final => Delivered
      /\ loc[r].job # None /\ loc[r].job.status \in Final => Delivered
  BY <1>1 DEF ReviewInv, FinalInv
<1>5. PreparedAs("del_keys", loc[r], kind[r])
  BY <1>2 DEF PreparedAs, Loaded, Pcs, GetPcs, DecidePcs, EditPcs, DeletePcs
<1> QED
  BY <1>1, <1>2, <1>3, <1>4, <1>5, StatementStep DEF Loaded, Pcs, DecidePcs, WritesStatus

LEMMA DeleteKeysKept ==
  ASSUME ReviewInv, NEW r \in Requests, nsegs' = nsegs, DeleteKeys(r)
  PROVE  ReviewInv'
<1>1. /\ worker' = worker /\ create' = create /\ kind' = kind /\ before' = before
      /\ row' = row /\ rows' = rows /\ trouble' = trouble
      /\ pc[r] \in {"del_keys", "del_list"}
  BY DEF DeleteKeys, db
<1>2. /\ loc[r] \in Locals /\ loc[r].job \in Job /\ kind[r] = "delete"
  BY <1>1, RequestFacts DEF PreparedAs, Loaded, Pcs, DeletePcs
<1>3. /\ loc \in [Requests -> Locals]
      /\ hash \in Hash \cup {None} /\ list \in Lists \cup {None}
      /\ hash # None /\ hash.status \in Final => Delivered
  BY DEF ReviewInv, RequestsTyped, SharedTyped, FinalInv
<1>4. CASE pc[r] = "del_keys"
  <2>1. /\ hash' = None /\ list' = list /\ loc' = [loc EXCEPT ![r] = loc[r]]
        /\ pc' = [pc EXCEPT ![r] = "del_list"]
    BY <1>3, <1>4 DEF DeleteKeys, Go
  <2>2. PreparedAs("del_list", loc[r], kind[r])
    BY <1>2 DEF PreparedAs, Loaded, Pcs, GetPcs, DecidePcs, EditPcs, DeletePcs
  <2> QED
    BY <1>1, <1>2, <1>3, <2>1, <2>2, KeysStep DEF Loaded, Pcs, DecidePcs, WritesStatus
<1>5. CASE pc[r] = "del_list"
  <2>1. /\ hash' = hash /\ list' = None /\ loc' = [loc EXCEPT ![r] = Blank]
        /\ pc' = [pc EXCEPT ![r] = "done"]
    BY <1>5 DEF DeleteKeys, Finish, Answer, Go
  <2>2. PreparedAs("done", Blank, kind[r])
    BY DEF PreparedAs, Loaded, Pcs, GetPcs, DecidePcs, EditPcs, DeletePcs
  <2> QED
    BY <1>1, <1>2, <1>3, <2>1, <2>2, BlankTyped, KeysStep
    DEF Loaded, Pcs, DecidePcs, WritesStatus
<1> QED
  BY <1>1, <1>4, <1>5

\* A statement of a request fails: it goes on with the rows, the row and the keys as they are.
LEMMA StatementFailsKept ==
  ASSUME ReviewInv, NEW r \in Requests, nsegs' = nsegs, StatementFails(r)
  PROVE  ReviewInv'
<1>1. /\ worker' = worker /\ create' = create /\ kind' = kind /\ before' = before
      /\ row' = row /\ rows' = rows /\ hash' = hash /\ list' = list
      /\ trouble' = trouble \/ (trouble < MaxTrouble /\ trouble' = trouble + 1)
  BY DEF StatementFails, db, redis
<1>2. /\ hash' \in Hash \cup {None} /\ list' \in Lists \cup {None}
      /\ hash' # None /\ hash'.status \in Final => Delivered
      /\ loc \in [Requests -> Locals] /\ pc \in [Requests -> Pcs]
      /\ rows \subseteq SegmentRow
  BY <1>1 DEF ReviewInv, SharedTyped, FinalInv, RequestsTyped
<1>3. /\ loc[r] \in Locals /\ PreparedAs(pc[r], loc[r], kind[r])
      /\ loc[r].job # None /\ loc[r].job.status \in Final => Delivered
  BY RequestFacts DEF ReviewInv, FinalInv
<1> DEFINE Ends(how) == pc' = [pc EXCEPT ![r] = how] /\ loc' = [loc EXCEPT ![r] = Blank]
           GoesTo(p, d) == /\ pc' = [pc EXCEPT ![r] = p] /\ loc' = [loc EXCEPT ![r] = d]
                           /\ d.job = loc[r].job
<1>4. ASSUME NEW how \in {"refused", "done"}, Ends(how), pc[r] \in Loaded,
             how = "done" => pc[r] \notin EditPcs,
             pc[r] = "put_hash" => how = "done"
      PROVE  ReviewInv'
  <2>1. PreparedAs(how, Blank, kind[r])
    BY DEF PreparedAs, Loaded, Pcs, GetPcs, DecidePcs, EditPcs, DeletePcs
  <2>2. how = "done" => kind[r] # "edit"
    BY <1>3, <1>4 DEF PreparedAs, Loaded, Pcs, GetPcs, DecidePcs, EditPcs, DeletePcs, Decided
  <2>3. how \in Pcs /\ how \notin DecidePcs /\ how \notin WritesStatus /\ how # "new"
        /\ how \notin Loaded
    BY DEF Pcs, DecidePcs, WritesStatus, Loaded
  <2> QED
    BY <1>1, <1>2, <1>4, <2>1, <2>2, <2>3, BlankTyped, KeysStep
<1>5. ASSUME NEW p \in Pcs, NEW d \in Locals, GoesTo(p, d), pc[r] \in Loaded, p \in Loaded,
             PreparedAs(p, d, kind[r]), p \notin DecidePcs, p \notin WritesStatus,
             pc[r] # "put_hash"
      PROVE  ReviewInv'
  BY <1>1, <1>2, <1>5, KeysStep DEF Loaded
<1>6. CASE pc[r] \in AnswersError /\ Answer(r, "refused")
  BY <1>4, <1>6 DEF AnswersError, Answer, Go, Loaded, Pcs, EditPcs
<1>7. CASE pc[r] \in EndsAnyway /\ Finish(r)
  BY <1>4, <1>7 DEF EndsAnyway, Finish, Answer, Go, Loaded, Pcs, EditPcs
<1>8. CASE pc[r] \in DOMAIN GoesOn /\ Go(r, GoesOn[pc[r]]) /\ UNCHANGED loc
  <2>1. /\ pc' = [pc EXCEPT ![r] = GoesOn[pc[r]]] /\ loc' = [loc EXCEPT ![r] = loc[r]]
        /\ pc[r] \in {"get_hash", "put_status", "edit_list", "edit_set", "del_rows", "del_keys"}
    BY <1>2, <1>8 DEF Go, GoesOn
  <2>2. /\ GoesOn[pc[r]] \in {"get_list", "edit_count", "del_job", "del_list"}
        /\ GoesOn[pc[r]] = "get_list" <=> pc[r] \in {"get_hash", "put_status"}
        /\ GoesOn[pc[r]] = "edit_count" <=> pc[r] \in {"edit_list", "edit_set"}
        /\ GoesOn[pc[r]] \in {"del_job", "del_list"} <=> pc[r] \in {"del_rows", "del_keys"}
    BY <2>1 DEF GoesOn
  <2>3. PICK p : p = GoesOn[pc[r]]
    OBVIOUS
  <2>4. PreparedAs(p, loc[r], kind[r])
    BY <1>3, <2>1, <2>2, <2>3
    DEF PreparedAs, Loaded, Pcs, GetPcs, DecidePcs, EditPcs, DeletePcs
  <2>5. /\ p \in Pcs /\ p \in Loaded /\ p \notin DecidePcs /\ p \notin WritesStatus
        /\ pc[r] \in Loaded /\ pc[r] # "put_hash"
    BY <2>1, <2>2, <2>3 DEF Pcs, Loaded, DecidePcs, WritesStatus
  <2>6. GoesTo(p, loc[r])
    BY <2>1, <2>3
  <2> QED
    BY <1>3, <1>5, <2>4, <2>5, <2>6
<1>9. ASSUME pc[r] = "find", NEW some \in SUBSET rows, Go(r, "sync"),
             loc' = [loc EXCEPT ![r].known = some]
      PROVE  ReviewInv'
  <2> DEFINE d == [loc[r] EXCEPT !.known = some]
  <2>1. loc' = [loc EXCEPT ![r] = d] /\ pc' = [pc EXCEPT ![r] = "sync"]
    BY <1>2, <1>9 DEF Go, Locals
  <2>2. d \in Locals /\ d.job = loc[r].job /\ d.list = loc[r].list
    BY <1>2, <1>3 DEF Locals
  <2> HIDE DEF d
  <2>3. PreparedAs("sync", d, kind[r])
    BY <1>3, <1>9, <2>2 DEF PreparedAs, Loaded, Pcs, GetPcs, DecidePcs, EditPcs, DeletePcs
  <2> QED
    BY <1>5, <1>9, <2>1, <2>2, <2>3 DEF Pcs, Loaded, DecidePcs, WritesStatus
<1>10. CASE /\ WritesSegment(r)
            /\ loc' = [loc EXCEPT ![r].todo = Without(@, First(@))]
            /\ UNCHANGED pc
  <2> DEFINE d == [loc[r] EXCEPT !.todo = Without(@, First(@))]
  <2>1. loc' = [loc EXCEPT ![r] = d] /\ pc' = [pc EXCEPT ![r] = "sync"] /\ pc[r] = "sync"
    BY <1>2, <1>10 DEF WritesSegment, Locals
  <2>2. d \in Locals /\ d.job = loc[r].job /\ d.list = loc[r].list
    BY <1>3 DEF Locals, Without
  <2> HIDE DEF d
  <2>3. PreparedAs("sync", d, kind[r])
    BY <1>3, <2>1, <2>2 DEF PreparedAs, Loaded, Pcs, GetPcs, DecidePcs, EditPcs, DeletePcs
  <2> QED
    BY <1>5, <2>1, <2>2, <2>3 DEF Pcs, Loaded, DecidePcs, WritesStatus
<1>11. CASE /\ SelectsCounts(r)
            /\ loc' = [loc EXCEPT ![r].count = [segments |-> 0, flagged |-> 0]]
            /\ Go(r, "put_counts")
  <2> DEFINE d == [loc[r] EXCEPT !.count = [segments |-> 0, flagged |-> 0]]
  <2>1. /\ loc' = [loc EXCEPT ![r] = d] /\ pc' = [pc EXCEPT ![r] = "put_counts"]
        /\ pc[r] = "sync"
    BY <1>2, <1>11 DEF SelectsCounts, Go, Locals
  <2>2. d \in Locals /\ d.job = loc[r].job /\ d.count \in Counted
    BY <1>3 DEF Locals, Counted
  <2> HIDE DEF d
  <2>3. PreparedAs("put_counts", d, kind[r])
    BY <1>3, <2>1, <2>2 DEF PreparedAs, Loaded, Pcs, GetPcs, DecidePcs, EditPcs, DeletePcs
  <2> QED
    BY <1>5, <2>1, <2>2, <2>3 DEF Pcs, Loaded, DecidePcs, WritesStatus
<1> QED
  BY <1>6, <1>7, <1>8, <1>9, <1>10, <1>11 DEF StatementFails

LEMMA ArrivalsKept ==
  ASSUME ReviewInv, NEW r \in Requests, nsegs' = nsegs,
         Get(r) \/ Edit(r) \/ Delete(r) \/ \E k \in Decided : Decide(r, k)
  PROVE  ReviewInv'
<1>1. row \in Job \cup {None}
  BY DEF ReviewInv, SharedTyped
<1>2. CASE Get(r)
  <2>1. CASE row # None /\ row.status \notin Terminal /\ row.queued
    BY <1>1, <1>2, <2>1, ArriveStep
    DEF Get, Load, Go, Terminal, Kinds, Pcs, Loaded, WritesStatus
  <2>2. CASE ~(row # None /\ row.status \notin Terminal /\ row.queued)
    BY <1>2, <2>2, ArriveStep DEF Get, Refuse, Go, Kinds, Pcs, Loaded, WritesStatus
  <2> QED
    BY <2>1, <2>2
<1>3. CASE Edit(r)
  <2>1. CASE row # None
    BY <1>3, <2>1, ArriveStep DEF Edit, Load, Go, Kinds, Pcs, Loaded, WritesStatus
  <2>2. CASE row = None
    BY <1>3, <2>2, ArriveStep DEF Edit, Refuse, Go, Kinds, Pcs, Loaded, WritesStatus
  <2> QED
    BY <2>1, <2>2
<1>4. CASE Delete(r)
  <2>1. CASE row # None /\ row.status \notin {"pending", "processing"}
    BY <1>4, <2>1, ArriveStep DEF Delete, Load, Go, Kinds, Pcs, Loaded, WritesStatus
  <2>2. CASE ~(row # None /\ row.status \notin {"pending", "processing"})
    BY <1>4, <2>2, ArriveStep DEF Delete, Refuse, Go, Kinds, Pcs, Loaded, WritesStatus
  <2> QED
    BY <2>1, <2>2
<1>5. ASSUME NEW k \in Decided, Decide(r, k) PROVE ReviewInv'
  <2>1. CASE row # None /\ row.status = "pending_approval"
    BY <1>5, <2>1, ArriveStep
    DEF Decide, Load, Go, Kinds, Pcs, Loaded, WritesStatus, Decided, Final
  <2>2. CASE ~(row # None /\ row.status = "pending_approval")
    BY <1>5, <2>2, ArriveStep DEF Decide, Refuse, Go, Kinds, Pcs, Loaded, WritesStatus
  <2> QED
    BY <2>1, <2>2
<1> QED
  BY <1>2, <1>3, <1>4, <1>5

-----------------------------------------------------------------------------
(* The creation and the worker *)

LEMMA CreateJobKept ==
  ASSUME ReviewInv, nsegs' = nsegs, CreateJob
  PROVE  ReviewInv'
<1>1. /\ worker' = worker /\ kind' = kind /\ pc' = pc /\ loc' = loc /\ before' = before
      /\ rows' = rows /\ list' = list /\ trouble' = trouble
  BY DEF CreateJob
<1>2. UNCHANGED <<kind, pc, loc, before>>
  BY <1>1
<1>3. /\ row \in Job \cup {None} /\ hash \in Hash \cup {None}
      /\ row = None => rows = {}
      /\ create = "row" => row = None
  BY DEF ReviewInv, SharedTyped, RowInv
<1>4. CASE CreateStep("row", "redis_id") /\ hash' = hash
           /\ row' = [status |-> "pending", queued |-> FALSE, edits |-> FALSE,
                      segments |-> 0, flagged |-> 0]
  <2>1. row' \in Job /\ row'.status = "pending"
    BY <1>4 DEF Job, Statuses
  <2>2. SharedTyped'
    BY <1>1, <1>4, <2>1, SameSegments DEF ReviewInv, SharedTyped, CreateStep
  <2>3. RowInv'
    BY <1>4, <2>1, NoneAssumption DEF RowInv, CreateStep
  <2> QED
    BY <1>1, <1>2, <1>4, <2>1, <2>2, <2>3, WorkerKept, OutsideStep
    DEF CreateStep, Final, Decided
<1>5. CASE CreateStep("redis_id", "hset") /\ hash' = hash
           /\ UpdateJob([row EXCEPT !.queued = TRUE])
  <2>1. CASE row = None
    <3>1. row' = row
      BY <1>5, <2>1 DEF UpdateJob
    <3>2. SharedTyped' /\ RowInv'
      BY <1>1, <1>5, <3>1, SameSegments DEF ReviewInv, SharedTyped, CreateStep, RowInv
    <3>3. hash' = hash
      BY <1>5
    <3> QED
      BY <1>1, <1>2, <3>1, <3>2, <3>3, WorkerKept, OutsideStep
  <2>2. CASE row # None
    <3>1. row' = [row EXCEPT !.queued = TRUE]
      BY <1>5, <2>2 DEF UpdateJob
    <3>2. row' \in Job /\ row'.status = row.status /\ row'.edits = row.edits
      BY <1>3, <2>2, <3>1 DEF Job
    <3>3. row' # None
      BY <3>2, NoneAssumption
    <3>4. SharedTyped'
      BY <1>1, <1>5, <3>2, SameSegments DEF ReviewInv, SharedTyped, CreateStep
    <3>5. RowInv' /\ hash' = hash
      BY <1>5, <3>3 DEF RowInv, CreateStep
    <3> QED
      BY <1>1, <1>2, <2>2, <3>2, <3>3, <3>4, <3>5, WorkerKept, OutsideStep
  <2> QED
    BY <2>1, <2>2
<1>6. CASE CreateStep("hset", "lpush") /\ row' = row
           /\ hash' = [status |-> "pending", meta |-> TRUE]
  <2>1. hash' \in Hash /\ hash'.status \notin Final
    BY <1>6 DEF Hash, Statuses, Final, Decided
  <2>2. SharedTyped'
    BY <1>1, <1>6, <2>1, SameSegments DEF ReviewInv, SharedTyped, CreateStep
  <2>3. RowInv'
    BY <1>1, <1>6 DEF ReviewInv, RowInv, CreateStep
  <2>4. row' = row
    BY <1>6
  <2> QED
    BY <1>1, <1>2, <2>1, <2>2, <2>3, <2>4, WorkerKept, OutsideStep
<1>7. CASE CreateStep("lpush", "queued") /\ row' = row /\ hash' = hash
  <2>1. SharedTyped' /\ RowInv'
    BY <1>1, <1>7, SameSegments DEF ReviewInv, SharedTyped, CreateStep, RowInv
  <2>2. row' = row /\ hash' = hash
    BY <1>7
  <2> QED
    BY <1>1, <1>2, <2>1, <2>2, WorkerKept, OutsideStep
<1> QED
  BY <1>4, <1>5, <1>6, <1>7 DEF CreateJob

\* A step that at most fails, and moves the worker.
LEMMA WorkerMoves ==
  ASSUME ReviewInv, nsegs' = nsegs,
         kind' = kind, pc' = pc, loc' = loc, before' = before,
         row' = row, rows' = rows, create' \in {create, "failed"},
         create = "row" => create' = create,
         list' \in Lists \cup {None}, hash' \in Hash \cup {None},
         hash' = hash \/ (hash'.status \in Final => Delivered'),
         trouble' = trouble \/ (trouble < MaxTrouble /\ trouble' = trouble + 1),
         WorkerTyped', WorkerInv', Delivered => Delivered'
  PROVE  ReviewInv'
<1>1. SharedTyped'
  BY SameSegments, TranslationReviewAssumption DEF ReviewInv, SharedTyped
<1>2. RowInv'
  BY DEF ReviewInv, RowInv
<1>3. UNCHANGED <<kind, pc, loc, before>>
  OBVIOUS
<1> QED
  BY <1>1, <1>2, <1>3, OutsideStep

\* The worker goes on to another step, with the segments as they are.
LEMMA WorkerGoes ==
  ASSUME ReviewInv, nsegs' = nsegs,
         NEW s \in {"wait", "del", "rpush", "hset", "translate", "done"},
         worker' = [worker EXCEPT !.step = s],
         s = "translate" => worker.next \in Segs
  PROVE  WorkerTyped' /\ WorkerInv' /\ (Delivered' <=> Delivered)
<1>1. worker \in [next : 1 .. nsegs + 1, out : Lists,
                  step : {"wait", "del", "rpush", "hset", "translate", "done"}]
  BY DEF ReviewInv, WorkerTyped
<1>2. worker'.next = worker.next /\ worker'.out = worker.out /\ worker'.step = s
  BY <1>1
<1>3. WorkerTyped'
  BY <1>1, SameSegments DEF WorkerTyped
<1> QED
  BY <1>2, <1>3, SameSegments DEF ReviewInv, WorkerInv, Delivered

LEMMA WorkerStepKept ==
  ASSUME ReviewInv, nsegs' = nsegs, WorkerStep \/ CreateFails
  PROVE  ReviewInv'
<1>1. /\ kind' = kind /\ pc' = pc /\ loc' = loc /\ before' = before
      /\ row' = row /\ rows' = rows
  BY DEF WorkerStep, CreateFails, WorkerTake, StoreSegments, StoreJobMeta, TranslateSegment,
         StoreFails, WorkerFails, db
<1>2. /\ list \in Lists \cup {None} /\ hash \in Hash \cup {None}
      /\ worker.out \in Lists /\ worker.next \in 1 .. nsegs + 1 /\ nsegs \in Nat
  BY TranslationReviewAssumption DEF ReviewInv, SharedTyped, WorkerTyped
<1>3. CASE CreateFails
  <2>1. /\ list' = list /\ hash' = hash /\ worker' = worker /\ create' = "failed"
        /\ trouble < MaxTrouble /\ trouble' = trouble + 1 /\ create # "row"
    BY <1>3 DEF CreateFails, redis
  <2> QED
    BY <1>1, <1>2, <2>1, WorkerKept, WorkerMoves
<1>4. CASE WorkerTake
  <2>1. /\ list' = list /\ hash' = hash /\ create' = create /\ trouble' = trouble
        /\ worker' = [worker EXCEPT !.step = "del"]
    BY <1>4 DEF WorkerTake, redis
  <2> QED
    BY <1>1, <1>2, <2>1, WorkerGoes, WorkerMoves
<1>5. CASE StoreSegments
  <2>1. /\ hash' = hash /\ create' = create /\ trouble' = trouble
        /\ list' \in {None, worker.out}
        /\ \/ worker' = [worker EXCEPT !.step = "rpush"]
           \/ worker' = [worker EXCEPT !.step = "hset"]
    BY <1>5 DEF StoreSegments
  <2>2. WorkerTyped' /\ WorkerInv' /\ (Delivered' <=> Delivered)
    BY <2>1, WorkerGoes
  <2> QED
    BY <1>1, <1>2, <2>1, <2>2, WorkerMoves
<1>6. CASE StoreJobMeta
  <2> DEFINE s == IF worker.next \in Segs THEN "translate" ELSE "done"
  <2>1. /\ list' = list /\ create' = create /\ trouble' = trouble
        /\ hash' = [status |-> WorkflowStatus, meta |-> TRUE]
        /\ worker' = [worker EXCEPT !.step = s]
    BY <1>6 DEF StoreJobMeta
  <2>2. /\ s \in {"wait", "del", "rpush", "hset", "translate", "done"}
        /\ s = "translate" => worker.next \in Segs
    OBVIOUS
  <2> HIDE DEF s
  <2>3. WorkerTyped' /\ WorkerInv' /\ (Delivered' <=> Delivered)
    BY <2>1, <2>2, WorkerGoes
  <2>4. hash' \in Hash /\ hash'.status = WorkflowStatus
    BY <2>1 DEF Hash, WorkflowStatus, Statuses
  <2>5. WorkflowStatus \in Final => Delivered
    <3>1. CASE worker.next \in Segs
      BY <3>1 DEF WorkflowStatus, Final, Decided
    <3>2. CASE worker.next \notin Segs
      BY <1>2, <3>2 DEF ReviewInv, WorkerInv, Delivered, Segs
    <3> QED
      BY <3>1, <3>2
  <2> QED
    BY <1>1, <1>2, <2>1, <2>3, <2>4, <2>5, WorkerMoves
<1>7. CASE TranslateSegment
  <2>1. PICK item \in {"clean", "flagged"} :
          worker' = [worker EXCEPT !.out[worker.next] = item, !.next = @ + 1, !.step = "del"]
    BY <1>7 DEF TranslateSegment
  <2>2. /\ list' = list /\ hash' = hash /\ create' = create /\ trouble' = trouble
        /\ worker.next \in Segs
    BY <1>7 DEF TranslateSegment, redis, ReviewInv, WorkerInv
  <2>3. /\ worker'.next = worker.next + 1 /\ worker'.step = "del"
        /\ worker'.out = [worker.out EXCEPT ![worker.next] = item]
        /\ worker' = [next |-> worker'.next, out |-> worker'.out, step |-> worker'.step]
    BY <2>1 DEF ReviewInv, WorkerTyped
  <2>4. worker'.next \in 1 .. nsegs + 1 /\ worker'.out \in Lists
    BY <1>2, <2>2, <2>3 DEF Segs, Lists, Items
  <2>5. WorkerTyped'
    BY <2>3, <2>4, SameSegments DEF WorkerTyped
  <2>6. \A s \in Segs : worker'.out[s] = IF s = worker.next THEN item ELSE worker.out[s]
    BY <1>2, <2>2, <2>3 DEF Lists
  <2>7. WorkerInv'
    <3>1. ASSUME NEW s \in Segs, s < worker.next + 1 PROVE worker'.out[s] # "empty"
      <4>1. s \in Nat /\ worker.next \in Nat /\ (s = worker.next \/ s < worker.next)
        BY <1>2, <3>1 DEF Segs
      <4> QED
        BY <2>6, <4>1 DEF ReviewInv, WorkerInv
    <3> QED
      BY <2>3, <3>1, SameSegments DEF WorkerInv
  <2>8. Delivered => Delivered'
    BY <2>6, SameSegments DEF Delivered
  <2> QED
    BY <1>1, <1>2, <2>2, <2>5, <2>7, <2>8, WorkerMoves
<1>8. CASE StoreFails \/ WorkerFails
  <2> DEFINE s == IF StoreFails /\ worker.next \in Segs THEN "translate" ELSE "done"
  <2>1. /\ list' = list /\ hash' = hash /\ create' = create
        /\ trouble < MaxTrouble /\ trouble' = trouble + 1
    BY <1>8 DEF StoreFails, WorkerFails, redis
  <2>2. \/ worker' = [worker EXCEPT !.step = "translate"] /\ worker.next \in Segs
        \/ worker' = [worker EXCEPT !.step = "done"]
    BY <1>8 DEF StoreFails, WorkerFails
  <2>3. WorkerTyped' /\ WorkerInv' /\ (Delivered' <=> Delivered)
    BY <2>2, WorkerGoes
  <2> QED
    BY <1>1, <1>2, <2>1, <2>3, WorkerMoves
<1> QED
  BY <1>3, <1>4, <1>5, <1>6, <1>7, <1>8 DEF WorkerStep

-----------------------------------------------------------------------------
(* Inductiveness *)

LEMMA RequestStepKept ==
  ASSUME ReviewInv, NEW r \in Requests, nsegs' = nsegs, RequestStep(r)
  PROVE  ReviewInv'
<1>1. CASE GetStep(r)
  BY <1>1, ArrivalsKept, GetHashKept, PutStatusKept, GetListKept, GetMetaKept,
     FindSegmentsKept, SyncSegmentKept, CountSegmentsKept, PutCountsKept DEF GetStep
<1>2. CASE DecideStep(r)
  BY <1>2, ArrivalsKept, PutDecisionKept, TellWorkerKept DEF DecideStep
<1>3. CASE EditStep(r)
  BY <1>3, ArrivalsKept, EditFindKept, EditRowKept, EditListKept, EditSetKept, EditJobKept
  DEF EditStep
<1>4. CASE DeleteStep(r)
  BY <1>4, ArrivalsKept, DeleteRowsKept, DeleteJobKept, DeleteKeysKept DEF DeleteStep
<1> QED
  BY <1>1, <1>2, <1>3, <1>4, StatementFailsKept DEF RequestStep

LEMMA ReviewInit == Init => ReviewInv
<1> SUFFICES ASSUME Init PROVE ReviewInv
  OBVIOUS
<1>1. /\ nsegs \in Nat \ {0} /\ 1 \in Segs /\ 0 \in 0 .. MaxTrouble
      /\ [s \in Segs |-> "empty"] \in Lists
  BY TranslationReviewAssumption DEF Init, Segs, Lists, Items
<1>2. SharedTyped
  BY <1>1, FS_EmptySet DEF Init, SharedTyped
<1>3. WorkerTyped
  BY <1>1 DEF Init, WorkerTyped
<1>4. RequestsTyped
  BY BlankTyped DEF Init, RequestsTyped, Pcs
<1>5. \A r \in Requests : Prepared(r)
  BY DEF Init, Prepared, PreparedAs, Loaded, Pcs, GetPcs, DecidePcs, EditPcs, DeletePcs
<1>6. WorkerInv
  BY <1>1 DEF Init, WorkerInv, Segs
<1>7. FinalInv
  BY BlankTyped DEF Init, FinalInv, DecidePcs
<1>8. RowInv /\ BeforeInv /\ EditsInv /\ DecisionInv
  BY DEF Init, RowInv, BeforeInv, EditsInv, EditedBy, DecisionInv
<1> QED
  BY <1>2, <1>3, <1>4, <1>5, <1>6, <1>7, <1>8 DEF ReviewInv

LEMMA ReviewNext == ReviewInv /\ [Next]_vars => ReviewInv'
<1> SUFFICES ASSUME ReviewInv, [Next]_vars PROVE ReviewInv'
  OBVIOUS
<1>1. CASE Next
  <2>1. nsegs' = nsegs
    BY <1>1 DEF Next
  <2>2. CASE CreateJob
    BY <2>1, <2>2, CreateJobKept
  <2>3. CASE WorkerStep \/ CreateFails
    BY <2>1, <2>3, WorkerStepKept
  <2>4. ASSUME NEW r \in Requests, RequestStep(r) PROVE ReviewInv'
    BY <2>1, <2>4, RequestStepKept
  <2> QED
    BY <1>1, <2>2, <2>3, <2>4 DEF Next
<1>2. CASE UNCHANGED vars
  <2>1. /\ nsegs' = nsegs /\ create' = create /\ row' = row /\ rows' = rows /\ hash' = hash
        /\ list' = list /\ worker' = worker /\ kind' = kind /\ pc' = pc /\ loc' = loc
        /\ before' = before /\ trouble' = trouble
    BY <1>2 DEF vars
  <2>2. create = "row" => create' = create
    BY <2>1
  <2>3. /\ list' \in Lists \cup {None} /\ hash' \in Hash \cup {None}
    BY <2>1 DEF ReviewInv, SharedTyped
  <2> QED
    BY <2>1, <2>2, <2>3, WorkerKept, WorkerMoves
<1> QED
  BY <1>1, <1>2

\* At every statement of every request (translation.go, main.py) the rows, the keys and
\* the requests' own copies stand in the relation ReviewInv spells out.
THEOREM ReviewInvariant == Spec => []ReviewInv
BY ReviewInit, ReviewNext, PTL DEF Spec

-----------------------------------------------------------------------------
(* What the steps may not do *)

Inserters == {"sync", "put_counts", "done"}

\* The history of what became of the requests' looking for rows and counting them.
Outcomes == {"misread", "miscounted", "counted"}

HistoryInv ==
  /\ outcome \in [Requests -> SUBSET Outcomes]
  /\ \A r \in Requests : /\ pc[r] = "new" => before[r] = {} /\ outcome[r] = {}
                         /\ "counted" \in outcome[r] => pc[r] = "done"

\* A failing statement is the request's own, and the request goes on or ends.
LEMMA FailureMoves ==
  ASSUME ReviewInv, NEW r \in Requests, StatementFails(r)
  PROVE  /\ pc[r] \in Loaded /\ pc'[r] # "new"
         /\ pc' = [pc EXCEPT ![r] = pc'[r]] /\ loc' = [loc EXCEPT ![r] = loc'[r]]
         /\ row' = row /\ rows' = rows /\ before' = before
         /\ outcome' = [outcome EXCEPT ![r] = @ \cup Missed(r)]
         /\ pc[r] \in Inserters => pc'[r] \in Inserters
         /\ pc'[r] = "sync" =>
              \/ pc[r] = "find"
              \/ /\ pc[r] = "sync" /\ loc'[r].known = loc[r].known
                 /\ loc'[r].todo \subseteq loc[r].todo
<1>1. pc \in [Requests -> Pcs] /\ loc \in [Requests -> Locals]
  BY DEF ReviewInv, RequestsTyped
<1>2. /\ row' = row /\ rows' = rows /\ before' = before
      /\ outcome' = [outcome EXCEPT ![r] = @ \cup Missed(r)]
  BY DEF StatementFails, db
<1>3. CASE pc[r] \in AnswersError /\ Answer(r, "refused")
  BY <1>1, <1>2, <1>3 DEF AnswersError, Answer, Go, Loaded, Pcs, Inserters
<1>4. CASE pc[r] \in EndsAnyway /\ Finish(r)
  BY <1>1, <1>2, <1>4 DEF EndsAnyway, Finish, Answer, Go, Loaded, Pcs, Inserters
<1>5. CASE pc[r] \in DOMAIN GoesOn /\ Go(r, GoesOn[pc[r]]) /\ UNCHANGED loc
  BY <1>1, <1>2, <1>5 DEF GoesOn, Go, Loaded, Pcs, Inserters
<1>6. CASE /\ pc[r] = "find"
           /\ \E some \in SUBSET rows : loc' = [loc EXCEPT ![r].known = some]
           /\ Go(r, "sync")
  BY <1>1, <1>2, <1>6 DEF Go, Loaded, Pcs, Inserters
<1>7. CASE /\ WritesSegment(r)
           /\ loc' = [loc EXCEPT ![r].todo = Without(@, First(@))]
           /\ UNCHANGED pc
  <2>1. pc[r] = "sync" /\ pc' = pc
    BY <1>7 DEF WritesSegment
  <2>2. /\ loc'[r].known = loc[r].known
        /\ loc'[r].todo = Without(loc[r].todo, First(loc[r].todo))
    BY <1>1, <1>7 DEF Locals
  <2>3. loc'[r].todo \subseteq loc[r].todo
    BY <2>2 DEF Without
  <2> QED
    BY <1>1, <1>2, <1>7, <2>1, <2>2, <2>3 DEF Loaded, Pcs, Inserters
<1>8. CASE /\ SelectsCounts(r)
           /\ loc' = [loc EXCEPT ![r].count = [segments |-> 0, flagged |-> 0]]
           /\ Go(r, "put_counts")
  BY <1>1, <1>2, <1>8 DEF SelectsCounts, Go, Loaded, Pcs, Inserters
<1> QED
  BY <1>3, <1>4, <1>5, <1>6, <1>7, <1>8 DEF StatementFails

\* A request's step is its own.
LEMMA OthersStill ==
  ASSUME ReviewInv, NEW x \in Requests, RequestStep(x), NEW r \in Requests, r # x
  PROVE  pc'[r] = pc[r] /\ loc'[r] = loc[r]
<1>1. pc \in [Requests -> Pcs] /\ loc \in [Requests -> Locals]
  BY DEF ReviewInv, RequestsTyped
<1>2. CASE GetStep(x)
  BY <1>1, <1>2 DEF GetStep, Get, GetHash, PutStatus, GetList, GetMeta, FindSegments,
     SyncSegment, CountSegments, PutCounts, Go, Finish, Answer, Refuse, Load
<1>3. CASE DecideStep(x)
  BY <1>1, <1>3 DEF DecideStep, Decide, PutDecision, TellWorker, Go, Finish, Answer, Refuse, Load
<1>4. CASE EditStep(x)
  BY <1>1, <1>4 DEF EditStep, Edit, EditFind, EditRow, EditList, EditSet, EditJob,
     Go, Finish, Answer, Refuse, Load
<1>5. CASE DeleteStep(x)
  BY <1>1, <1>5 DEF DeleteStep, Delete, DeleteRows, DeleteJob, DeleteKeys,
     Go, Finish, Answer, Refuse, Load
<1>6. CASE StatementFails(x)
  BY <1>1, <1>6, FailureMoves
<1> QED
  BY <1>2, <1>3, <1>4, <1>5, <1>6 DEF RequestStep

\* Only a synchronisation and a decision change the status of a row that is there,
\* and only the creation makes one.
LEMMA StatusWriters ==
  ASSUME ReviewInv, NEW x \in Requests, RequestStep(x)
  PROVE  /\ row = None => row' = None
         /\ row # None /\ row' # None /\ row'.status # row.status => pc[x] \in WritesStatus
<1>1. row \in Job \cup {None}
  BY DEF ReviewInv, SharedTyped
<1>2. CASE GetStep(x)
  BY <1>1, <1>2 DEF GetStep, Get, GetHash, PutStatus, GetList, GetMeta, FindSegments,
     SyncSegment, CountSegments, PutCounts, UpdateJob, db, WritesStatus, Job
<1>3. CASE DecideStep(x)
  BY <1>1, <1>3 DEF DecideStep, Decide, PutDecision, TellWorker, UpdateJob, db, WritesStatus
<1>4. CASE EditStep(x)
  BY <1>1, <1>4 DEF EditStep, Edit, EditFind, EditRow, EditList, EditSet, EditJob,
     UpdateJob, db, Job
<1>5. CASE DeleteStep(x)
  BY <1>1, <1>5 DEF DeleteStep, Delete, DeleteRows, DeleteJob, DeleteKeys, db
<1>6. CASE StatementFails(x)
  BY <1>6, FailureMoves
<1> QED
  BY <1>2, <1>3, <1>4, <1>5, <1>6 DEF RequestStep

LEMMA WorkerStill ==
  ASSUME CreateJob \/ CreateFails \/ WorkerStep
  PROVE  /\ pc' = pc /\ loc' = loc
         /\ create # "row" /\ row = None => row' = None
BY DEF CreateJob, CreateStep, UpdateJob, CreateFails, WorkerStep, WorkerTake, StoreSegments,
       StoreJobMeta, TranslateSegment, StoreFails, WorkerFails, db

\* At the loop over the list a request has but two statements, which may fail.
LEMMA SyncSteps ==
  ASSUME NEW r \in Requests, RequestStep(r), pc[r] = "sync"
  PROVE  SyncSegment(r) \/ CountSegments(r) \/ StatementFails(r)
<1>1. CASE GetStep(r)
  BY <1>1 DEF GetStep, Get, Arrive, GetHash, PutStatus, GetList, GetMeta, FindSegments, PutCounts
<1>2. CASE DecideStep(r)
  BY <1>2 DEF DecideStep, Decide, Arrive, PutDecision, TellWorker
<1>3. CASE EditStep(r)
  BY <1>3 DEF EditStep, Edit, Arrive, EditFind, EditRow, EditList, EditSet, EditJob
<1>4. CASE DeleteStep(r)
  BY <1>4 DEF DeleteStep, Delete, Arrive, DeleteRows, DeleteJob, DeleteKeys
<1> QED
  BY <1>1, <1>2, <1>3, <1>4 DEF RequestStep

\* A synchronisation whose copy of the job has the user's edits overwrites nothing.
LEMMA EditedCopyAddsOnly ==
  ASSUME ReviewInv, NEW r \in Requests,
         SyncSegment(r) \/ CountSegments(r) \/ StatementFails(r), loc[r].job.edits
  PROVE  rows \subseteq rows'
<1>1. CASE CountSegments(r)
  BY <1>1 DEF CountSegments, db
<1>3. CASE StatementFails(r)
  BY <1>3 DEF StatementFails, db
<1>2. CASE SyncSegment(r)
  <2>1. PICK s : Insert(r, s) \/ \E x \in loc[r].known : Overwrite(r, s, x)
    BY <1>2 DEF SyncSegment
  <2>2. CASE Insert(r, s)
    BY <2>2 DEF Insert
  <2>3. ASSUME NEW x \in loc[r].known, Overwrite(r, s, x) PROVE rows \subseteq rows'
    BY <2>3 DEF Overwrite
  <2> QED
    BY <2>1, <2>2, <2>3
<1> QED
  BY <1>1, <1>2, <1>3

LEMMA AnswersStep ==
  ASSUME ReviewInv, [Next]_vars
  PROVE  /\ DecisionRespected /\ EditsRespected
         /\ create # "row" /\ row = None => row' = None
<1>1. CASE CreateJob \/ CreateFails \/ WorkerStep
  BY <1>1, WorkerStill DEF DecisionRespected, EditsRespected
<1>2. ASSUME NEW x \in Requests, RequestStep(x)
      PROVE  /\ DecisionRespected /\ EditsRespected
             /\ create # "row" /\ row = None => row' = None
  <2>1. DecisionRespected
    <3> SUFFICES ASSUME NEW r \in Requests, pc'[r] # pc[r],
                        row # None, row.status \in Decided,
                        row' # None, row'.status # row.status
                 PROVE  \E q \in Requests \ before[r] :
                          kind[q] = row.status /\ pc[q] \in {"put_hash", "done"}
      BY DEF DecisionRespected
    <3>1. r = x
      BY <1>2, OthersStill
    <3>2. pc[r] \in WritesStatus
      BY <1>2, <3>1, StatusWriters
    <3> QED
      BY <3>2 DEF ReviewInv, DecisionInv, TookDecision
  <2>2. EditsRespected
    <3> SUFFICES ASSUME NEW r \in Requests, NEW y \in rows, pc[r] = "sync", loc'[r] # loc[r],
                        NEW q \in before[r], pc[q] = "done", kind[q] = "edit"
                 PROVE  y \in rows'
      BY DEF EditsRespected
    <3>1. r = x
      BY <1>2, OthersStill
    <3>2. SyncSegment(r) \/ CountSegments(r) \/ StatementFails(r)
      BY <1>2, <3>1, SyncSteps
    <3>3. loc[r].job.edits
      BY DEF ReviewInv, EditsInv, EditedBy, RequestsTyped, Loaded, Pcs
    <3> QED
      BY <3>2, <3>3, EditedCopyAddsOnly
  <2> QED
    BY <1>2, <2>1, <2>2, StatusWriters
<1>3. CASE UNCHANGED vars
  BY <1>3 DEF vars, DecisionRespected, EditsRespected
<1> QED
  BY <1>1, <1>2, <1>3 DEF Next

-----------------------------------------------------------------------------
(* The rows of the segments *)

\* A segment's row is there once for each synchronisation that overlapped or could not read
\* the rows; one under way that could knows of every row that was there when it arrived.
UniqueInv ==
  /\ \A x \in rows : pc[x.by] \in Inserters
  /\ \A x, y \in rows : x.seg = y.seg =>
       /\ x.by = y.by => x = y
       /\ x.by \in before[y.by] => "misread" \in outcome[y.by]
  /\ \A r \in Requests : pc[r] = "sync" => \A x \in rows :
       /\ x.by = r => x.seg \notin loc[r].todo
       /\ x.by \in before[r] => \/ "misread" \in outcome[r]
                              \/ \E z \in loc[r].known : z.seg = x.seg

\* A request's step, as the other requests see it.
LEMMA RequestMoves ==
  ASSUME ReviewInv, NEW r \in Requests, RequestStep(r)
  PROVE  /\ pc[r] \notin {"done", "refused"} /\ pc'[r] # "new"
         /\ pc[r] \in Inserters => pc'[r] \in Inserters
         /\ \A q \in Requests : q # r => before'[q] = before[q]
         /\ pc[r] # "new" => before' = before
         /\ pc'[r] = "sync" => pc[r] \in {"find", "sync"}
<1>1. pc \in [Requests -> Pcs] /\ before \in [Requests -> SUBSET Requests]
  BY DEF ReviewInv, RequestsTyped
<1> USE <1>1 DEF Inserters
<1>2. CASE GetStep(r)
  BY <1>2 DEF GetStep, Get, Arrive, GetHash, PutStatus, GetList, GetMeta, FindSegments,
     SyncSegment, CountSegments, PutCounts, Go, Finish, Answer, Refuse, Load
<1>3. CASE DecideStep(r)
  BY <1>3 DEF DecideStep, Decide, Arrive, PutDecision, TellWorker, Go, Finish, Answer, Refuse, Load
<1>4. CASE EditStep(r)
  BY <1>4 DEF EditStep, Edit, Arrive, EditFind, EditRow, EditList, EditSet, EditJob,
     CountSegments, Go, Finish, Answer, Refuse, Load
<1>5. CASE DeleteStep(r)
  BY <1>5 DEF DeleteStep, Delete, Arrive, DeleteRows, DeleteJob, DeleteKeys,
     Go, Finish, Answer, Refuse, Load
<1>6. CASE StatementFails(r)
  BY <1>6, FailureMoves DEF Loaded
<1> QED
  BY <1>2, <1>3, <1>4, <1>5, <1>6 DEF RequestStep

\* Three statements write rows, the others at most delete them all.
LEMMA RowsWriters ==
  ASSUME ReviewInv, NEW r \in Requests, RequestStep(r)
  PROVE  rows' = rows \/ rows' = {} \/ SyncSegment(r) \/ EditRow(r)
<1>2. CASE GetStep(r)
  BY <1>2 DEF GetStep, Get, GetHash, PutStatus, GetList, GetMeta, FindSegments,
     CountSegments, PutCounts, db
<1>3. CASE DecideStep(r)
  BY <1>3 DEF DecideStep, Decide, PutDecision, TellWorker, db
<1>4. CASE EditStep(r)
  BY <1>4 DEF EditStep, Edit, EditFind, EditList, EditSet, EditJob, db
<1>5. CASE DeleteStep(r)
  BY <1>5 DEF DeleteStep, Delete, DeleteRows, DeleteJob, DeleteKeys, db
<1>6. CASE StatementFails(r)
  BY <1>6, FailureMoves
<1> QED
  BY <1>2, <1>3, <1>4, <1>5, <1>6 DEF RequestStep

\* The history is written where counts are put and where a statement fails.
LEMMA OutcomeWriters ==
  ASSUME NEW r \in Requests, RequestStep(r)
  PROVE  \/ outcome' = outcome
         \/ PutCounts(r) /\ outcome' = [outcome EXCEPT ![r] = @ \cup {"counted"}]
         \/ StatementFails(r) /\ outcome' = [outcome EXCEPT ![r] = @ \cup Missed(r)]
<1>2. CASE GetStep(r)
  BY <1>2 DEF GetStep, Get, GetHash, PutStatus, GetList, GetMeta, FindSegments,
     SyncSegment, CountSegments, PutCounts
<1>3. CASE DecideStep(r)
  BY <1>3 DEF DecideStep, Decide, PutDecision, TellWorker
<1>4. CASE EditStep(r)
  BY <1>4 DEF EditStep, Edit, EditFind, EditRow, EditList, EditSet, EditJob
<1>5. CASE DeleteStep(r)
  BY <1>5 DEF DeleteStep, Delete, DeleteRows, DeleteJob, DeleteKeys
<1>6. CASE StatementFails(r)
  BY <1>6 DEF StatementFails
<1> QED
  BY <1>2, <1>3, <1>4, <1>5, <1>6 DEF RequestStep

LEMMA OutcomeGrows ==
  ASSUME HistoryInv, NEW r \in Requests, RequestStep(r), NEW q \in Requests
  PROVE  outcome[q] \subseteq outcome'[q] /\ (q # r => outcome'[q] = outcome[q])
BY OutcomeWriters DEF HistoryInv

LEMMA HistoryKept ==
  ASSUME ReviewInv, HistoryInv, NEW r \in Requests, RequestStep(r)
  PROVE  HistoryInv'
<1>1. outcome' \in [Requests -> SUBSET Outcomes]
  BY OutcomeWriters DEF HistoryInv, Outcomes, Missed
<1>2. ASSUME NEW q \in Requests, pc'[q] = "new"
      PROVE  before'[q] = {} /\ outcome'[q] = {}
  <2>1. q # r /\ pc[q] = "new"
    BY <1>2, RequestMoves, OthersStill
  <2> QED
    BY <2>1, RequestMoves, OutcomeGrows DEF HistoryInv
<1>3. ASSUME NEW q \in Requests, "counted" \in outcome'[q] PROVE pc'[q] = "done"
  <2>1. CASE "counted" \in outcome[q]
    BY <2>1, RequestMoves, OthersStill DEF HistoryInv
  <2>2. CASE "counted" \notin outcome[q]
    <3>1. q = r
      BY <1>3, <2>2, OutcomeGrows
    <3>2. PutCounts(r)
      BY <1>3, <2>2, <3>1, OutcomeWriters DEF HistoryInv, Missed
    <3> QED
      BY <3>1, <3>2 DEF PutCounts, Finish, Answer, Go, ReviewInv, RequestsTyped
  <2> QED
    BY <2>1, <2>2
<1> QED
  BY <1>1, <1>2, <1>3 DEF HistoryInv

LEMMA RowFacts ==
  ASSUME ReviewInv, NEW x \in rows
  PROVE  x \in SegmentRow /\ x.seg \in Segs /\ x.by \in Requests
  BY DEF ReviewInv, SharedTyped, SegmentRow

\* The rows of S become the rows there are; f says which becomes which.
Become(S, f) ==
  /\ rows' = {f[x] : x \in S}
  /\ \A x \in S : f[x].seg = x.seg /\ f[x].by = x.by

\* A request that synchronises has just read the rows, or failed to, or goes on with what
\* it read.
SyncsOn(r) ==
  pc'[r] = "sync" => \/ pc[r] = "find" /\ (loc'[r].known = rows \/ "misread" \in outcome'[r])
                     \/ /\ pc[r] = "sync" /\ loc'[r].known = loc[r].known
                        /\ loc'[r].todo \subseteq loc[r].todo

\* A step that inserts no row.
LEMMA UniqueKept ==
  ASSUME ReviewInv, HistoryInv, UniqueInv, NEW r \in Requests, RequestStep(r), NEW S \in SUBSET rows,
         NEW f, Become(S, f), SyncsOn(r)
  PROVE  UniqueInv'
<1> USE DEF Become, SyncsOn
<1>1. \A q \in Requests \ {r} : pc'[q] = pc[q] /\ loc'[q] = loc[q]
  BY OthersStill
<1>2. ASSUME NEW y \in rows' PROVE pc'[y.by] \in Inserters
  <2>1. PICK x \in S : y = f[x] /\ y.by = x.by
    OBVIOUS
  <2>2. pc[x.by] \in Inserters /\ x.by \in Requests
    BY RowFacts DEF UniqueInv
  <2> QED
    BY <1>1, <2>1, <2>2, RequestMoves
<1>3. ASSUME NEW a \in rows', NEW b \in rows', a.seg = b.seg
      PROVE  /\ a.by = b.by => a = b
             /\ a.by \in before'[b.by] => "misread" \in outcome'[b.by]
  <2>1. PICK x \in S : a = f[x] /\ a.seg = x.seg /\ a.by = x.by
    OBVIOUS
  <2>2. PICK y \in S : b = f[y] /\ b.seg = y.seg /\ b.by = y.by
    OBVIOUS
  <2>3. (x.by = y.by => x = y) /\ (x.by \in before[y.by] => "misread" \in outcome[y.by])
    BY <1>3, <2>1, <2>2 DEF UniqueInv
  <2>4. pc[y.by] \in Inserters /\ y.by \in Requests
    BY RowFacts DEF UniqueInv
  <2>5. before'[y.by] = before[y.by]
    BY <2>4, RequestMoves DEF Inserters
  <2>6. outcome[y.by] \subseteq outcome'[y.by]
    BY <2>4, OutcomeGrows
  <2> QED
    BY <2>1, <2>2, <2>3, <2>5, <2>6
<1>4. ASSUME NEW q \in Requests, pc'[q] = "sync", NEW y \in rows'
      PROVE  /\ y.by = q => y.seg \notin loc'[q].todo
             /\ y.by \in before'[q] => \/ "misread" \in outcome'[q]
                                     \/ \E z \in loc'[q].known : z.seg = y.seg
  <2>1. PICK x \in S : y = f[x] /\ y.seg = x.seg /\ y.by = x.by
    OBVIOUS
  <2>2. pc[x.by] \in Inserters /\ outcome[q] \subseteq outcome'[q]
    BY OutcomeGrows DEF UniqueInv
  <2>3. CASE q # r
    <3>1. pc[q] = "sync" /\ loc'[q] = loc[q] /\ before'[q] = before[q]
      BY <1>1, <1>4, <2>3, RequestMoves
    <3> QED
      BY <2>1, <2>2, <3>1 DEF UniqueInv
  <2>4. CASE q = r /\ pc[r] = "find"
    <3>1. x.by # q
      BY <2>2, <2>4 DEF Inserters
    <3>2. loc'[q].known = rows \/ "misread" \in outcome'[q]
      BY <1>4, <2>4
    <3> QED
      BY <2>1, <3>1, <3>2
  <2>5. CASE q = r /\ pc[r] = "sync"
    <3>1. /\ loc'[q].known = loc[q].known /\ loc'[q].todo \subseteq loc[q].todo
          /\ before'[q] = before[q]
      BY <1>4, <2>5, RequestMoves
    <3> QED
      BY <2>1, <2>2, <2>5, <3>1 DEF UniqueInv
  <2> QED
    BY <1>4, <2>3, <2>4, <2>5
<1> QED
  BY <1>2, <1>3, <1>4 DEF UniqueInv

LEMMA SyncUnique ==
  ASSUME ReviewInv, HistoryInv, UniqueInv, NEW r \in Requests, SyncSegment(r)
  PROVE  UniqueInv'
<1> DEFINE s == First(loc[r].todo)
           found == {x \in loc[r].known : x.seg = s}
<1>1. /\ pc[r] = "sync" /\ pc' = pc /\ loc[r].todo # {}
      /\ before' = before /\ outcome' = outcome
      /\ loc' = [loc EXCEPT ![r].todo = Without(@, s)]
      /\ IF found = {} THEN Insert(r, s) ELSE \E x \in found : Overwrite(r, s, x)
  BY DEF SyncSegment
<1>2. loc \in [Requests -> Locals] /\ loc[r].todo \subseteq Segs
  BY DEF ReviewInv, RequestsTyped, Locals
<1>3. s \in loc[r].todo
  <2>1. loc[r].todo \subseteq Nat
    BY <1>2 DEF Segs
  <2> QED
    BY <1>1, <2>1, SmallestOf DEF First
<1> HIDE DEF s
<1>4. /\ loc'[r].known = loc[r].known /\ loc'[r].todo = Without(loc[r].todo, s)
      /\ \A q \in Requests \ {r} : loc'[q] = loc[q]
  BY <1>1, <1>2 DEF Locals
<1>5. s \notin loc'[r].todo /\ loc'[r].todo \subseteq loc[r].todo
  BY <1>4 DEF Without
<1>6. RequestStep(r)
  BY DEF RequestStep, GetStep
<1>7. ASSUME NEW x \in found, Overwrite(r, s, x) PROVE UniqueInv'
  <2> DEFINE f == [y \in rows |-> IF y.seg = s /\ y.by = x.by /\ ~loc[r].job.edits
                                    THEN [y EXCEPT !.item = loc[r].list[s]] ELSE y]
  <2>1. rows' = {f[y] : y \in rows}
    BY <1>7 DEF Overwrite
  <2>2. ASSUME NEW y \in rows PROVE f[y].seg = y.seg /\ f[y].by = y.by
    BY RowFacts DEF SegmentRow
  <2> HIDE DEF f
  <2>3. Become(rows, f) /\ SyncsOn(r)
    BY <1>1, <1>4, <1>5, <2>1, <2>2 DEF Become, SyncsOn
  <2>4. rows \in SUBSET rows
    OBVIOUS
  <2> QED
    BY <1>6, <2>3, <2>4, UniqueKept
<1>8. CASE rows' = rows
  <2> DEFINE f == [y \in rows |-> y]
  <2>1. rows' = {f[y] : y \in rows} /\ \A y \in rows : f[y].seg = y.seg /\ f[y].by = y.by
    BY <1>8
  <2> HIDE DEF f
  <2>3. Become(rows, f) /\ SyncsOn(r)
    BY <1>1, <1>4, <1>5, <2>1 DEF Become, SyncsOn
  <2>4. rows \in SUBSET rows
    OBVIOUS
  <2> QED
    BY <1>6, <2>3, <2>4, UniqueKept
<1>9. CASE found = {} /\ rows' = rows \cup {[seg |-> s, by |-> r, item |-> loc[r].list[s]]}
  <2>1. PICK new : new = [seg |-> s, by |-> r, item |-> loc[r].list[s]]
    OBVIOUS
  <2>2. new.seg = s /\ new.by = r /\ rows' = rows \cup {new}
    BY <1>9, <2>1
  <2>3. \A x \in rows : x.seg = s =>
          x.by # r /\ (x.by \in before[r] => "misread" \in outcome[r])
    BY <1>1, <1>3, <1>9 DEF UniqueInv
  <2>4. \A q \in Requests : r \notin before[q]
    BY <1>1 DEF ReviewInv, BeforeInv, Answered
  <2>5. \A x \in rows : x.by \in Requests /\ pc[x.by] \in Inserters
    BY RowFacts DEF UniqueInv
  <2>6. \A y \in rows' : pc'[y.by] \in Inserters
    BY <1>1, <2>2, <2>5 DEF Inserters
  <2>7. ASSUME NEW x \in rows', NEW y \in rows', x.seg = y.seg
        PROVE  /\ x.by = y.by => x = y
               /\ x.by \in before'[y.by] => "misread" \in outcome'[y.by]
    <3>1. CASE x \in rows /\ y \in rows
      BY <1>1, <2>7, <3>1 DEF UniqueInv
    <3>2. CASE x \in rows /\ y = new
      BY <1>1, <2>2, <2>3, <2>7, <3>2
    <3>3. CASE x = new /\ y \in rows
      BY <1>1, <2>2, <2>3, <2>4, <2>5, <2>7, <3>3
    <3>4. CASE x = new /\ y = new
      BY <1>1, <2>2, <2>4, <3>4
    <3> QED
      BY <2>2, <3>1, <3>2, <3>3, <3>4
  <2>8. ASSUME NEW q \in Requests, pc'[q] = "sync", NEW x \in rows'
        PROVE  /\ x.by = q => x.seg \notin loc'[q].todo
               /\ x.by \in before'[q] => \/ "misread" \in outcome'[q]
                                       \/ \E z \in loc'[q].known : z.seg = x.seg
    <3>1. pc[q] = "sync" /\ before' = before
      BY <1>1, <2>8
    <3>2. CASE x \in rows
      <4>1. /\ x.by = q => x.seg \notin loc[q].todo
            /\ x.by \in before[q] => \/ "misread" \in outcome[q]
                                   \/ \E z \in loc[q].known : z.seg = x.seg
        BY <3>1, <3>2 DEF UniqueInv
      <4>2. loc'[q].known = loc[q].known /\ loc'[q].todo \subseteq loc[q].todo
        BY <1>4, <1>5
      <4> QED
        BY <1>1, <3>1, <4>1, <4>2
    <3>3. CASE x = new
      BY <1>5, <2>2, <2>4, <3>1, <3>3
    <3> QED
      BY <2>2, <3>2, <3>3
  <2> QED
    BY <2>6, <2>7, <2>8 DEF UniqueInv
<1> QED
  BY <1>1, <1>7, <1>8, <1>9 DEF Insert

LEMMA EditUnique ==
  ASSUME ReviewInv, HistoryInv, UniqueInv, NEW r \in Requests, EditRow(r)
  PROVE  UniqueInv'
<1> DEFINE f == [x \in rows |-> IF Targets(r, x) THEN [x EXCEPT !.item = "edited"] ELSE x]
<1>1. rows' = {f[y] : y \in rows}
  BY DEF EditRow
<1>2. ASSUME NEW y \in rows PROVE f[y].seg = y.seg /\ f[y].by = y.by
  BY RowFacts DEF SegmentRow
<1>3. RequestStep(r) /\ pc'[r] # "sync"
  BY DEF RequestStep, EditStep, EditRow, Go, ReviewInv, RequestsTyped
<1> HIDE DEF f
<1>4. Become(rows, f) /\ SyncsOn(r)
  BY <1>1, <1>2, <1>3 DEF Become, SyncsOn
<1>5. rows \in SUBSET rows
  OBVIOUS
<1> QED
  BY <1>3, <1>4, <1>5, UniqueKept

LEMMA RequestUnique ==
  ASSUME ReviewInv, HistoryInv, UniqueInv, NEW r \in Requests, RequestStep(r)
  PROVE  UniqueInv'
<1>1. CASE SyncSegment(r) \/ EditRow(r)
  BY <1>1, SyncUnique, EditUnique
<1>2. CASE ~SyncSegment(r) /\ (rows' = rows \/ rows' = {})
  <2>1. SyncsOn(r)
    <3> SUFFICES ASSUME pc'[r] = "sync" PROVE SyncsOn(r)
      BY DEF SyncsOn
    <3>1. pc[r] \in {"find", "sync"} /\ pc \in [Requests -> Pcs]
      BY RequestMoves DEF ReviewInv, RequestsTyped
    <3>2. CASE FindSegments(r)
      BY <3>2 DEF FindSegments, SyncsOn, ReviewInv, RequestsTyped, Locals
    <3>3. CASE StatementFails(r)
      <4>1. pc[r] = "find" => "misread" \in outcome'[r]
        BY <3>3, FailureMoves DEF HistoryInv, Missed
      <4> QED
        BY <3>3, <4>1, FailureMoves DEF SyncsOn
    <3>4. CASE GetStep(r)
      BY <1>2, <3>1, <3>2, <3>4 DEF GetStep, Get, Arrive, GetHash, PutStatus, GetList, GetMeta,
         CountSegments, PutCounts, Go
    <3>5. CASE DecideStep(r)
      BY <3>1, <3>5 DEF DecideStep, Decide, Arrive, PutDecision, TellWorker
    <3>6. CASE EditStep(r)
      BY <3>1, <3>6 DEF EditStep, Edit, Arrive, EditFind, EditRow, EditList, EditSet, EditJob
    <3>7. CASE DeleteStep(r)
      BY <3>1, <3>7 DEF DeleteStep, Delete, Arrive, DeleteRows, DeleteJob, DeleteKeys
    <3> QED
      BY <3>3, <3>4, <3>5, <3>6, <3>7 DEF RequestStep
  <2> DEFINE f == [y \in rows |-> y]
  <2>2. PICK S \in SUBSET rows : rows' = {f[y] : y \in S}
    BY <1>2
  <2>3. \A y \in S : f[y].seg = y.seg /\ f[y].by = y.by
    OBVIOUS
  <2> HIDE DEF f
  <2>4. Become(S, f) /\ SyncsOn(r)
    BY <2>1, <2>2, <2>3 DEF Become
  <2> QED
    BY <2>2, <2>4, UniqueKept
<1> QED
  BY <1>1, <1>2, RowsWriters

LEMMA OutsideStill ==
  ASSUME CreateJob \/ CreateFails \/ WorkerStep \/ UNCHANGED vars
  PROVE  /\ rows' = rows /\ pc' = pc /\ loc' = loc /\ before' = before /\ outcome' = outcome
         /\ \/ create = "row" /\ row' = [status |-> "pending", queued |-> FALSE, edits |-> FALSE,
                                         segments |-> 0, flagged |-> 0]
            \/ row' = row
            \/ UpdateJob([row EXCEPT !.queued = TRUE])
BY DEF CreateJob, CreateStep, CreateFails, WorkerStep, WorkerTake, StoreSegments,
       StoreJobMeta, TranslateSegment, StoreFails, WorkerFails, db, vars

LEMMA UniqueInit == Init => UniqueInv /\ HistoryInv
BY DEF Init, UniqueInv, HistoryInv

LEMMA UniqueNext ==
  ASSUME ReviewInv, HistoryInv, UniqueInv, [Next]_vars
  PROVE  UniqueInv' /\ HistoryInv'
<1>1. CASE CreateJob \/ CreateFails \/ WorkerStep \/ UNCHANGED vars
  <2>1. rows' = rows /\ pc' = pc /\ loc' = loc /\ before' = before /\ outcome' = outcome
    BY <1>1, OutsideStill
  <2> QED
    BY <2>1 DEF UniqueInv, HistoryInv
<1>2. ASSUME NEW r \in Requests, RequestStep(r) PROVE UniqueInv' /\ HistoryInv'
  BY <1>2, RequestUnique, HistoryKept
<1> QED
  BY <1>1, <1>2 DEF Next

-----------------------------------------------------------------------------
(* The counts *)

Ordered(R) == \A q, r \in R : q # r => q \in before[r] \/ r \in before[q]

NoneMiscounted(R) == \A r \in R : "miscounted" \notin outcome[r]

SegmentsRight == row # None => row.segments = Cardinality(rows)
FlaggedRight  == row # None => row.flagged = Cardinality(FlaggedRows)

\* where a request has not touched the rows, or has counted them since
AtExact == {"refused", "done", "get_hash", "put_status", "get_list", "get_meta", "find",
            "put_decision", "put_hash", "edit_find", "edit_row", "del_rows"}

\* What the counts of the job are worth while r alone is at work on it.
Account(r) ==
  /\ pc[r] \in AtExact => SegmentsRight /\ FlaggedRight
  /\ pc[r] \in {"edit_list", "edit_set", "edit_count", "edit_job"} => SegmentsRight
  /\ pc[r] \in {"put_counts", "edit_job"} => loc[r].count = Counts
  /\ pc[r] \in {"del_keys", "del_list"} => row = None

\* The counts, where the requests R came one after the other and none failed to count.
CountedFrom(R) ==
  Ordered(R) /\ NoneMiscounted(R) =>
    /\ (\A r \in Requests : pc[r] \notin Loaded) => SegmentsRight /\ FlaggedRight
    /\ \A r \in Requests : pc[r] \in Loaded => Account(r)

\* Nobody else is at work.
Covers(R) == \A r \in Requests : pc[r] \in Loaded => r \in R

Since(q) == {q} \cup After(q)

\* From the first request on, and from every synchronisation that ran alone.
CountInv ==
  /\ CountedFrom(Arrived)
  /\ \A q \in Requests : "counted" \in outcome[q] /\ Alone(q) => CountedFrom(Since(q))
  /\ \A q \in Requests : pc[q] = "put_counts" /\ Alone(q) /\ "miscounted" \notin outcome[q]
       => loc[q].count = Counts

\* Of requests that come one after the other at most one is at work.
LEMMA OneAtWork ==
  ASSUME ReviewInv, NEW R, Ordered(R), Covers(R),
         NEW r \in Requests, pc[r] \in Loaded, NEW q \in Requests, q # r
  PROVE  pc[q] \notin Loaded
<1> SUFFICES ASSUME pc[q] \in Loaded PROVE FALSE
  OBVIOUS
<1>1. q \in before[r] \/ r \in before[q]
  BY DEF Covers, Ordered
<1> QED
  BY <1>1 DEF ReviewInv, BeforeInv, Answered, Loaded

\* A step leaves the rows alone and the counts of the job as they are.
Quiet ==
  /\ rows' = rows
  /\ row = None => row' = None
  /\ row' # None => row'.segments = row.segments /\ row'.flagged = row.flagged

LEMMA QuietCounts ==
  ASSUME Quiet
  PROVE  /\ Counts' = Counts
         /\ SegmentsRight => SegmentsRight'
         /\ FlaggedRight => FlaggedRight'
<1>1. rows' = rows /\ FlaggedRows' = FlaggedRows
  BY DEF Quiet, FlaggedRows
<1>2. Counts' = Counts
  BY <1>1 DEF Counts
<1> QED
  BY <1>1, <1>2 DEF Quiet, SegmentsRight, FlaggedRight

\* The statements of a get that neither insert nor count.
LEMMA GetAccount ==
  ASSUME ReviewInv, NEW r \in Requests, Account(r),
         GetHash(r) \/ PutStatus(r) \/ GetList(r) \/ GetMeta(r) \/ FindSegments(r)
  PROVE  Account(r)'
<1>1. pc \in [Requests -> Pcs] /\ row \in Job \cup {None}
  BY DEF ReviewInv, RequestsTyped, SharedTyped
<1>2. Quiet
  BY <1>1 DEF GetHash, PutStatus, GetList, GetMeta, FindSegments, UpdateJob, db, Quiet, Job
<1>3. pc[r] \in AtExact /\ pc'[r] \in AtExact \cup {"sync"}
  BY <1>1 DEF GetHash, PutStatus, GetList, GetMeta, FindSegments, Go, Finish, Answer, AtExact
<1>4. SegmentsRight' /\ FlaggedRight'
  BY <1>2, <1>3, QuietCounts DEF Account
<1> QED
  BY <1>3, <1>4 DEF Account, AtExact

LEMMA SyncAccount ==
  ASSUME ReviewInv, NEW r \in Requests, SyncSegment(r)
  PROVE  Account(r)'
<1>1. pc'[r] = "sync"
  BY DEF SyncSegment
<1> QED
  BY <1>1 DEF Account, AtExact

LEMMA CountAccount ==
  ASSUME ReviewInv, NEW r \in Requests, Account(r), CountSegments(r)
  PROVE  Account(r)'
<1>1. pc \in [Requests -> Pcs] /\ loc \in [Requests -> Locals]
  BY DEF ReviewInv, RequestsTyped
<1>2. Quiet
  BY DEF CountSegments, db, Quiet
<1>3. loc'[r].count = Counts
  BY <1>1 DEF CountSegments, Locals
<1>4. pc'[r] = "put_counts" \/ (pc'[r] = "edit_job" /\ pc[r] = "edit_count")
  BY <1>1 DEF CountSegments, Go
<1> QED
  BY <1>2, <1>3, <1>4, QuietCounts DEF Account, AtExact

LEMMA PutCountsAccount ==
  ASSUME ReviewInv, NEW r \in Requests, loc[r].count = Counts, PutCounts(r)
  PROVE  pc'[r] = "done" /\ SegmentsRight' /\ FlaggedRight'
<1>1. pc \in [Requests -> Pcs] /\ row \in Job \cup {None}
  BY DEF ReviewInv, RequestsTyped, SharedTyped
<1>2. /\ loc[r].count = Counts /\ rows' = rows /\ pc'[r] = "done"
      /\ row' = IF row = None THEN None ELSE [row EXCEPT !.segments = loc[r].count.segments,
                                                       !.flagged = loc[r].count.flagged]
  BY <1>1 DEF PutCounts, UpdateJob, Finish, Answer, Go
<1>3. row' # None => row'.segments = Counts.segments /\ row'.flagged = Counts.flagged
  BY <1>1, <1>2 DEF Job
<1>4. row' # None => row'.segments = Cardinality(rows) /\ row'.flagged = Cardinality(FlaggedRows)
  BY <1>3 DEF Counts
<1>5. FlaggedRows' = FlaggedRows
  BY <1>2 DEF FlaggedRows
<1>6. SegmentsRight' /\ FlaggedRight'
  BY <1>2, <1>4, <1>5 DEF SegmentsRight, FlaggedRight
<1> QED
  BY <1>2, <1>6

LEMMA DecideAccount ==
  ASSUME ReviewInv, NEW r \in Requests, Account(r), PutDecision(r) \/ TellWorker(r)
  PROVE  Account(r)'
<1>1. pc \in [Requests -> Pcs] /\ row \in Job \cup {None}
  BY DEF ReviewInv, RequestsTyped, SharedTyped
<1>2. Quiet
  BY <1>1 DEF PutDecision, TellWorker, UpdateJob, db, Quiet, Job
<1>3. pc[r] \in AtExact /\ pc'[r] \in {"put_hash", "done"}
  BY <1>1 DEF PutDecision, TellWorker, Go, Finish, Answer, AtExact
<1>4. SegmentsRight' /\ FlaggedRight'
  BY <1>2, <1>3, QuietCounts DEF Account
<1> QED
  BY <1>3, <1>4 DEF Account, AtExact

\* The statements of an edit that leave the rows alone.
LEMMA EditAccount ==
  ASSUME ReviewInv, NEW r \in Requests, Account(r), EditFind(r) \/ EditList(r) \/ EditSet(r)
  PROVE  Account(r)'
<1>1. pc \in [Requests -> Pcs]
  BY DEF ReviewInv, RequestsTyped
<1>2. Quiet
  BY DEF EditFind, EditList, EditSet, db, Quiet
<1>3. \/ pc[r] = "edit_find" /\ pc'[r] \in {"edit_row", "refused"}
      \/ pc[r] \in {"edit_list", "edit_set"} /\ pc'[r] \in {"edit_set", "edit_count"}
  BY <1>1 DEF EditFind, EditList, EditSet, Answer, Go
<1> QED
  BY <1>2, <1>3, QuietCounts DEF Account, AtExact

\* An edit puts one row in the place of another.
LEMMA EditRowAccount ==
  ASSUME ReviewInv, UniqueInv, NEW r \in Requests, Account(r), EditRow(r)
  PROVE  Account(r)'
<1> DEFINE f == [x \in rows |-> IF Targets(r, x) THEN [x EXCEPT !.item = "edited"] ELSE x]
<1>1. pc \in [Requests -> Pcs] /\ IsFiniteSet(rows)
  BY DEF ReviewInv, RequestsTyped, SharedTyped
<1>2. /\ rows' = {f[x] : x \in rows} /\ row' = row
      /\ pc[r] = "edit_row" /\ pc'[r] \in {"edit_list", "edit_count"}
  BY <1>1 DEF EditRow, Go
<1>3. f \in [rows -> rows'] /\ \A y \in rows' : \E x \in rows : f[x] = y
  BY <1>2
<1>4. \A x \in rows : f[x].seg = x.seg /\ f[x].by = x.by
  BY RowFacts DEF SegmentRow
<1> HIDE DEF f
<1>5. \A x, y \in rows : f[x] = f[y] => x = y
  BY <1>4 DEF UniqueInv
<1>6. f \in Bijection(rows, rows')
  BY <1>3, <1>5 DEF Bijection, Injection, IsInjective, Surjection
<1>7. Cardinality(rows') = Cardinality(rows)
  BY <1>1, <1>6, FS_Bijection DEF ExistsBijection
<1>8. SegmentsRight
  BY <1>2 DEF Account, AtExact
<1>9. SegmentsRight'
  BY <1>2, <1>7, <1>8 DEF SegmentsRight
<1> QED
  BY <1>2, <1>9 DEF Account, AtExact

LEMMA EditJobAccount ==
  ASSUME ReviewInv, NEW r \in Requests, Account(r), EditJob(r)
  PROVE  Account(r)'
<1>1. pc \in [Requests -> Pcs] /\ row \in Job \cup {None}
  BY DEF ReviewInv, RequestsTyped, SharedTyped
<1>2. /\ loc[r].count = Counts /\ SegmentsRight /\ rows' = rows /\ pc'[r] = "done"
      /\ row' = IF row = None THEN None ELSE [row EXCEPT !.flagged = loc[r].count.flagged,
                                                       !.edits = TRUE]
  BY <1>1 DEF EditJob, UpdateJob, Finish, Answer, Go, Account
<1>3. row' # None => row # None /\ row'.segments = row.segments /\ row'.flagged = Counts.flagged
  BY <1>1, <1>2 DEF Job
<1>4. row' # None => row'.segments = Cardinality(rows) /\ row'.flagged = Cardinality(FlaggedRows)
  BY <1>2, <1>3 DEF Counts, SegmentsRight
<1>5. FlaggedRows' = FlaggedRows
  BY <1>2 DEF FlaggedRows
<1>6. SegmentsRight' /\ FlaggedRight'
  BY <1>2, <1>4, <1>5 DEF SegmentsRight, FlaggedRight
<1> QED
  BY <1>2, <1>6 DEF Account, AtExact

LEMMA DeleteAccount ==
  ASSUME ReviewInv, NEW r \in Requests, Account(r),
         DeleteRows(r) \/ DeleteJob(r) \/ DeleteKeys(r)
  PROVE  Account(r)'
<1>1. pc \in [Requests -> Pcs]
  BY DEF ReviewInv, RequestsTyped
<1>2. \/ pc'[r] = "del_job"
      \/ row' = None /\ pc'[r] \in {"del_keys", "del_list", "done"}
  BY <1>1 DEF DeleteRows, DeleteJob, DeleteKeys, Go, Finish, Answer, Account, db
<1> QED
  BY <1>2 DEF Account, AtExact, SegmentsRight, FlaggedRight

\* A statement that fails leaves the counts as they are, or is one that counts.
LEMMA FailureAccount ==
  ASSUME ReviewInv, HistoryInv, NEW r \in Requests, Account(r), StatementFails(r),
         "miscounted" \notin outcome'[r]
  PROVE  Account(r)'
<1>1. pc \in [Requests -> Pcs] /\ loc \in [Requests -> Locals]
  BY DEF ReviewInv, RequestsTyped
<1>2. row' = row /\ rows' = rows
  BY FailureMoves
<1>3. Quiet
  BY <1>2 DEF Quiet
<1>4. ~Miscounts(r)
  BY FailureMoves DEF HistoryInv, Missed, Miscounts, SelectsCounts
<1>5. CASE pc[r] \in AnswersError /\ Answer(r, "refused")
  <2>1. pc[r] \in {"put_decision", "edit_find", "edit_row"} /\ pc'[r] = "refused"
    BY <1>1, <1>4, <1>5 DEF AnswersError, Miscounts, Answer, Go
  <2> QED
    BY <1>3, <2>1, QuietCounts DEF Account, AtExact
<1>6. CASE pc[r] \in EndsAnyway /\ Finish(r)
  <2>1. pc[r] \in {"get_list", "get_meta", "put_hash", "del_list"} /\ pc'[r] = "done"
    BY <1>1, <1>4, <1>6 DEF EndsAnyway, Miscounts, Finish, Answer, Go
  <2>2. CASE pc[r] = "del_list"
    BY <1>2, <2>1, <2>2 DEF Account, AtExact, SegmentsRight, FlaggedRight
  <2> QED
    BY <1>3, <2>1, <2>2, QuietCounts DEF Account, AtExact
<1>7. CASE pc[r] \in DOMAIN GoesOn /\ Go(r, GoesOn[pc[r]]) /\ UNCHANGED loc
  <2>1. \/ pc[r] \in {"get_hash", "put_status"} /\ pc'[r] = "get_list"
        \/ pc[r] \in {"edit_list", "edit_set"} /\ pc'[r] = "edit_count"
        \/ pc[r] = "del_rows" /\ pc'[r] = "del_job"
        \/ pc[r] = "del_keys" /\ pc'[r] = "del_list"
    BY <1>1, <1>7 DEF GoesOn, Go
  <2> QED
    BY <1>2, <1>3, <2>1, QuietCounts DEF Account, AtExact
<1>8. CASE \/ pc[r] = "find" /\ Go(r, "sync")
           \/ WritesSegment(r) /\ UNCHANGED pc
  <2>1. pc'[r] = "sync"
    BY <1>1, <1>8 DEF WritesSegment, Go
  <2> QED
    BY <2>1 DEF Account, AtExact
<1> QED
  BY <1>4, <1>5, <1>6, <1>7, <1>8 DEF StatementFails, Miscounts

LEMMA StatementAccount ==
  ASSUME ReviewInv, HistoryInv, UniqueInv, NEW r \in Requests, RequestStep(r),
         pc[r] # "new", Account(r), "miscounted" \notin outcome'[r]
  PROVE  Account(r)'
<1>1. CASE GetStep(r)
  <2>1. ASSUME PutCounts(r) PROVE Account(r)'
    <3>1. loc[r].count = Counts
      BY <2>1 DEF PutCounts, Account
    <3> QED
      BY <2>1, <3>1, PutCountsAccount DEF Account, AtExact
  <2> QED
    BY <1>1, <2>1, GetAccount, SyncAccount, CountAccount DEF GetStep, Get, Arrive
<1>2. CASE DecideStep(r)
  BY <1>2, DecideAccount DEF DecideStep, Decide, Arrive
<1>3. CASE EditStep(r)
  BY <1>3, EditAccount, EditRowAccount, EditJobAccount DEF EditStep, Edit, Arrive
<1>4. CASE DeleteStep(r)
  BY <1>4, DeleteAccount DEF DeleteStep, Delete, Arrive
<1> QED
  BY <1>1, <1>2, <1>3, <1>4, FailureAccount DEF RequestStep

\* The first statement of a handler.
LEMMA ArrivalMoves ==
  ASSUME ReviewInv, NEW r \in Requests, RequestStep(r), pc[r] = "new"
  PROVE  rows' = rows /\ row' = row /\ pc'[r] \in AtExact
<1>1. pc \in [Requests -> Pcs]
  BY DEF ReviewInv, RequestsTyped
<1>2. CASE GetStep(r)
  BY <1>1, <1>2 DEF GetStep, Get, Arrive, GetHash, PutStatus, GetList, GetMeta, FindSegments,
     SyncSegment, CountSegments, PutCounts, Go, Refuse, Load, db, AtExact
<1>3. CASE DecideStep(r)
  BY <1>1, <1>3 DEF DecideStep, Decide, Arrive, PutDecision, TellWorker, Go, Refuse, Load, db,
     AtExact
<1>4. CASE EditStep(r)
  BY <1>1, <1>4 DEF EditStep, Edit, Arrive, EditFind, EditRow, EditList, EditSet, EditJob,
     Go, Refuse, Load, db, AtExact
<1>5. CASE DeleteStep(r)
  BY <1>1, <1>5 DEF DeleteStep, Delete, Arrive, DeleteRows, DeleteJob, DeleteKeys, Go, Refuse,
     Load, db, AtExact
<1>6. ~StatementFails(r)
  BY FailureMoves DEF Loaded
<1> QED
  BY <1>2, <1>3, <1>4, <1>5, <1>6 DEF RequestStep

\* Requests that came one after the other did so before.
LEMMA OrderedBefore ==
  ASSUME ReviewInv, HistoryInv, NEW r \in Requests, RequestStep(r), NEW R \in SUBSET Arrived,
         Ordered(R)', NoneMiscounted(R)'
  PROVE  Ordered(R) /\ NoneMiscounted(R)
<1>1. \A x \in R : x \in Requests /\ before'[x] = before[x] /\ outcome[x] \subseteq outcome'[x]
  BY RequestMoves, OutcomeGrows DEF Arrived
<1> QED
  BY <1>1 DEF Ordered, NoneMiscounted

\* The requests R, with the one that arrives.
With(R, r) == IF pc[r] = "new" THEN R \cup {r} ELSE R

\* One step of one of the requests, from counts that were right.
LEMMA CountedOn ==
  ASSUME ReviewInv, ReviewInv', HistoryInv, UniqueInv, NEW r \in Requests, RequestStep(r),
         NEW R \in SUBSET Arrived, Covers(R), CountedFrom(R), NEW T, T = With(R, r)
  PROVE  CountedFrom(T)'
<1> SUFFICES ASSUME Ordered(T)', NoneMiscounted(T)'
             PROVE  /\ (\A q \in Requests : pc'[q] \notin Loaded)
                         => SegmentsRight' /\ FlaggedRight'
                    /\ \A q \in Requests : pc'[q] \in Loaded => Account(q)'
  BY DEF CountedFrom, Loaded, Pcs
<1>0. R \subseteq T
  BY DEF With
<1>1. Ordered(R) /\ NoneMiscounted(R)
  <2>1. Ordered(R)' /\ NoneMiscounted(R)'
    BY <1>0 DEF Ordered, NoneMiscounted
  <2> QED
    BY <2>1, OrderedBefore
<1>2. \A q \in Requests : q # r => pc'[q] = pc[q] /\ loc'[q] = loc[q]
  BY OthersStill
<1>3. pc[r] \in Pcs /\ pc'[r] \in Pcs /\ pc[r] \notin {"done", "refused"} /\ pc'[r] # "new"
  BY RequestMoves DEF ReviewInv, RequestsTyped
<1>4. CASE pc[r] # "new"
  <2>1. pc[r] \in Loaded
    BY <1>3, <1>4 DEF Loaded
  <2>2. Account(r)'
    <3>1. r \in T /\ Account(r)
      BY <1>0, <1>1, <2>1 DEF Covers, CountedFrom
    <3>2. "miscounted" \notin outcome'[r]
      BY <3>1 DEF NoneMiscounted
    <3> QED
      BY <1>4, <3>1, <3>2, StatementAccount
  <2>3. \A q \in Requests : q # r => pc'[q] \notin Loaded
    BY <1>1, <1>2, <2>1, OneAtWork
  <2>4. pc'[r] \notin Loaded => pc'[r] \in AtExact
    BY <1>3 DEF Loaded, AtExact
  <2> QED
    BY <2>2, <2>3, <2>4 DEF Account
<1>5. CASE pc[r] = "new"
  <2>1. rows' = rows /\ row' = row /\ pc'[r] \in AtExact
    BY <1>5, ArrivalMoves
  <2>2. Quiet
    BY <2>1 DEF Quiet
  <2>3. pc[r] \notin Loaded
    BY <1>5 DEF Loaded
  <2>4. CASE pc'[r] \in Loaded
    <3>1. \A q \in Requests : q # r => pc'[q] \notin Loaded
      <4> SUFFICES ASSUME NEW q \in Requests, q # r, pc'[q] \in Loaded PROVE FALSE
        OBVIOUS
      <4>1. q \in T /\ r \in T
        BY <1>2, <1>5 DEF Covers, With
      <4>2. q \in before'[r] \/ r \in before'[q]
        BY <4>1 DEF Ordered
      <4> QED
        BY <2>4, <4>2 DEF ReviewInv, BeforeInv, Answered, Loaded, Pcs
    <3>2. SegmentsRight /\ FlaggedRight
      BY <1>1, <1>2, <2>3, <3>1 DEF CountedFrom
    <3>3. Account(r)'
      BY <2>1, <2>2, <3>2, QuietCounts DEF Account, AtExact
    <3> QED
      BY <2>4, <3>1, <3>3
  <2>5. CASE pc'[r] \notin Loaded
    <3>1. ASSUME NEW q \in Requests, pc'[q] \in Loaded PROVE Account(q)'
      <4>1. q # r /\ pc'[q] = pc[q] /\ loc'[q] = loc[q]
        BY <1>2, <2>5, <3>1
      <4>2. Account(q)
        BY <1>1, <3>1, <4>1 DEF CountedFrom
      <4> QED
        BY <2>1, <2>2, <4>1, <4>2, QuietCounts DEF Account
    <3>2. ASSUME \A q \in Requests : pc'[q] \notin Loaded PROVE SegmentsRight' /\ FlaggedRight'
      <4>1. \A q \in Requests : pc[q] \notin Loaded
        BY <1>2, <2>3, <3>2
      <4> QED
        BY <1>1, <2>2, <4>1, QuietCounts DEF CountedFrom
    <3> QED
      BY <3>1, <3>2
  <2> QED
    BY <2>4, <2>5
<1> QED
  BY <1>4, <1>5

\* The request that arrives knows who was answered before.
LEMMA NewArrives ==
  ASSUME ReviewInv, NEW r \in Requests, RequestStep(r), pc[r] = "new",
         NEW q \in Requests, Answered(q)
  PROVE  q \in before'[r]
<1>1. pc \in [Requests -> Pcs] /\ before \in [Requests -> SUBSET Requests]
  BY DEF ReviewInv, RequestsTyped
<1>2. ~StatementFails(r)
  BY FailureMoves DEF Loaded
<1>3. PICK k : Arrive(r, k)
  <2>1. CASE GetStep(r)
    BY <2>1 DEF GetStep, Get, Arrive, GetHash, PutStatus, GetList, GetMeta, FindSegments,
       SyncSegment, CountSegments, PutCounts
  <2>2. CASE DecideStep(r)
    BY <2>2 DEF DecideStep, Decide, Arrive, PutDecision, TellWorker
  <2>3. CASE EditStep(r)
    BY <2>3 DEF EditStep, Edit, Arrive, EditFind, EditRow, EditList, EditSet, EditJob
  <2>4. CASE DeleteStep(r)
    BY <2>4 DEF DeleteStep, Delete, Arrive, DeleteRows, DeleteJob, DeleteKeys
  <2> QED
    BY <1>2, <2>1, <2>2, <2>3, <2>4 DEF RequestStep
<1> QED
  BY <1>1, <1>3 DEF Arrive

\* Who has arrived, and since whom.
LEMMA ArrivedStep ==
  ASSUME ReviewInv, HistoryInv, NEW r \in Requests, RequestStep(r)
  PROVE  /\ Arrived' = With(Arrived, r)
         /\ \A q \in Requests : Answered(q) => Since(q)' = With(Since(q), r)
         /\ \A q \in Arrived : Alone(q)' => Alone(q)
<1>1. /\ \A q \in Requests \ {r} : pc'[q] = pc[q] /\ before'[q] = before[q]
      /\ pc'[r] # "new" /\ (pc[r] # "new" => before' = before)
  BY OthersStill, RequestMoves
<1>2. Arrived' = With(Arrived, r)
  BY <1>1 DEF Arrived, With
<1>3. ASSUME NEW q \in Requests, Answered(q) PROVE Since(q)' = With(Since(q), r)
  <2>1. CASE pc[r] # "new"
    BY <1>1, <2>1 DEF Since, After, With
  <2>2. CASE pc[r] = "new"
    <3>1. q \in before'[r]
      BY <1>3, <2>2, NewArrives
    <3> QED
      BY <1>1, <2>2, <3>1 DEF Since, After, With
  <2> QED
    BY <2>1, <2>2
<1>4. ASSUME NEW q \in Arrived, Alone(q)' PROVE Alone(q)
  <2>1. ASSUME NEW x \in Arrived \ {q} PROVE x \in before[q] \/ q \in before[x]
    <3>1. x \in Arrived' \ {q} /\ x \in Requests /\ q \in Requests
      BY <1>2 DEF With, Arrived
    <3>2. before'[x] = before[x] /\ before'[q] = before[q]
      BY <1>1, <3>1 DEF Arrived
    <3> QED
      BY <1>4, <3>1, <3>2 DEF Alone
  <2> QED
    BY <2>1 DEF Alone
<1> QED
  BY <1>2, <1>3, <1>4

\* While a request alone is at work nobody else is.
LEMMA AloneAtWork ==
  ASSUME ReviewInv, NEW q \in Requests, pc[q] \in Loaded, Alone(q),
         NEW r \in Requests, r # q
  PROVE  pc[r] \notin Loaded
<1> SUFFICES ASSUME pc[r] \in Loaded PROVE FALSE
  OBVIOUS
<1>1. r \in before[q] \/ q \in before[r]
  BY DEF Alone, Arrived, Loaded
<1> QED
  BY <1>1 DEF ReviewInv, BeforeInv, Answered, Loaded

\* Where the base is an answered request that was alone, everybody at work came after it.
LEMMA AloneCovers ==
  ASSUME ReviewInv, HistoryInv, NEW q \in Requests, Answered(q), Alone(q)
  PROVE  Covers(Since(q)) /\ Since(q) \subseteq Arrived
<1>1. ASSUME NEW r \in Requests, pc[r] \in Loaded PROVE r \in Since(q)
  <2>1. r # q /\ r \in Arrived
    BY <1>1 DEF Answered, Loaded, Arrived
  <2>2. r \notin before[q]
    BY <1>1 DEF ReviewInv, BeforeInv, Answered, Loaded
  <2> QED
    BY <2>1, <2>2 DEF Alone, Since, After
<1>2. Since(q) \subseteq Arrived
  BY DEF Since, After, Arrived, Answered, HistoryInv
<1> QED
  BY <1>1, <1>2 DEF Covers

\* The counts that a synchronisation alone at work is about to put.
LEMMA ReadyKept ==
  ASSUME ReviewInv, ReviewInv', HistoryInv, CountInv, NEW r \in Requests, RequestStep(r),
         NEW q \in Requests, pc'[q] = "put_counts", Alone(q)', "miscounted" \notin outcome'[q]
  PROVE  loc'[q].count = Counts'
<1>1. pc \in [Requests -> Pcs] /\ loc \in [Requests -> Locals] /\ pc'[q] \in Loaded
  BY DEF ReviewInv, RequestsTyped, Loaded, Pcs
<1>2. CASE q = r
  <2>1. CountSegments(r)
    <3>1. ~StatementFails(r)
      <4> SUFFICES ASSUME StatementFails(r) PROVE FALSE
        OBVIOUS
      <4>1. pc[r] # "sync" \/ loc[r].todo # {}
        BY <1>2, FailureMoves DEF HistoryInv, Missed, Miscounts, SelectsCounts
      <4> QED
        BY <1>1, <1>2, <4>1
        DEF StatementFails, Answer, Finish, Go, GoesOn, WritesSegment, SelectsCounts
    <3>2. CASE GetStep(r)
      BY <1>1, <1>2, <3>2 DEF GetStep, Get, Arrive, Load, Refuse, GetHash, PutStatus, GetList,
         GetMeta, FindSegments, SyncSegment, PutCounts, Finish, Answer, Go
    <3>3. CASE DecideStep(r)
      BY <1>1, <1>2, <3>3 DEF DecideStep, Decide, Arrive, Load, Refuse, PutDecision, TellWorker,
         Finish, Answer, Go
    <3>4. CASE EditStep(r)
      BY <1>1, <1>2, <3>4 DEF EditStep, Edit, Arrive, Load, Refuse, EditFind, EditRow, EditList,
         EditSet, EditJob, Finish, Answer, Go
    <3>5. CASE DeleteStep(r)
      BY <1>1, <1>2, <3>5 DEF DeleteStep, Delete, Arrive, Load, Refuse, DeleteRows, DeleteJob,
         DeleteKeys, Finish, Answer, Go
    <3> QED
      BY <3>1, <3>2, <3>3, <3>4, <3>5 DEF RequestStep
  <2>2. Quiet
    BY <2>1 DEF CountSegments, db, Quiet
  <2>3. loc'[r].count = Counts
    BY <1>1, <2>1 DEF CountSegments, Locals
  <2> QED
    BY <1>2, <2>2, <2>3, QuietCounts
<1>3. CASE q # r
  <2>1. pc[q] = "put_counts" /\ loc'[q] = loc[q] /\ outcome'[q] = outcome[q]
    BY <1>3, OthersStill, OutcomeGrows
  <2>2. q \in Arrived /\ pc[q] \in Loaded
    BY <2>1 DEF Arrived, Loaded, Pcs
  <2>3. Alone(q)
    BY <2>2, ArrivedStep
  <2>5. pc[r] \notin Loaded
    BY <1>3, <2>2, <2>3, AloneAtWork
  <2>6. pc[r] = "new"
    BY <1>1, <2>5, RequestMoves DEF Loaded
  <2>7. Quiet
    BY <2>6, ArrivalMoves DEF Quiet
  <2> QED
    BY <2>1, <2>3, <2>7, QuietCounts DEF CountInv
<1> QED
  BY <1>2, <1>3

LEMMA RequestCount ==
  ASSUME ReviewInv, ReviewInv', HistoryInv, UniqueInv, CountInv, NEW r \in Requests, RequestStep(r)
  PROVE  CountInv'
<1>1. CountedFrom(Arrived)'
  <2>1. PICK R : R = Arrived
    OBVIOUS
  <2>2. R \in SUBSET Arrived /\ Covers(R) /\ CountedFrom(R)
    BY <2>1 DEF CountInv, CountedFrom, Ordered, NoneMiscounted, Covers, Arrived, Loaded
  <2>3. PICK T : T = With(R, r)
    OBVIOUS
  <2>4. CountedFrom(T)'
    BY <2>2, <2>3, CountedOn
  <2>5. Arrived' = T
    BY <2>1, <2>3, ArrivedStep DEF With
  <2> QED
    BY <2>4, <2>5 DEF CountedFrom, Ordered, NoneMiscounted
<1>2. ASSUME NEW q \in Requests, "counted" \in outcome'[q], Alone(q)'
      PROVE  CountedFrom(Since(q))'
  <2>1. CASE "counted" \in outcome[q]
    <3>1. Answered(q) /\ q \in Arrived
      BY <2>1 DEF HistoryInv, Answered, Arrived
    <3>2. Alone(q)
      BY <1>2, <3>1, ArrivedStep
    <3>3. PICK R : R = Since(q)
      OBVIOUS
    <3>4. R \in SUBSET Arrived /\ Covers(R)
      BY <3>1, <3>2, <3>3, AloneCovers DEF Covers
    <3>5. CountedFrom(R)
      BY <2>1, <3>2, <3>3 DEF CountInv, CountedFrom, Ordered, NoneMiscounted
    <3>6. PICK T : T = With(R, r)
      OBVIOUS
    <3>7. CountedFrom(T)'
      BY <3>4, <3>5, <3>6, CountedOn
    <3>8. Since(q)' = T
      BY <3>1, <3>3, <3>6, ArrivedStep DEF With
    <3> QED
      BY <3>7, <3>8 DEF CountedFrom, Ordered, NoneMiscounted
  <2>2. CASE "counted" \notin outcome[q]
    <3>1. q = r /\ PutCounts(r)
      <4>1. q = r
        BY <1>2, <2>2, OutcomeGrows
      <4> QED
        BY <1>2, <2>2, <4>1, OutcomeWriters DEF HistoryInv, Missed
    <3>2. SUFFICES ASSUME NoneMiscounted(Since(q))'
                   PROVE  /\ SegmentsRight' /\ FlaggedRight'
                          /\ \A x \in Requests : pc'[x] \notin Loaded
      BY DEF CountedFrom, Loaded, Pcs
    <3>3. "miscounted" \notin outcome[r]
      BY <3>1, <3>2, OutcomeGrows DEF NoneMiscounted, Since
    <3>4. pc[r] = "put_counts" /\ pc[r] \in Loaded /\ r \in Arrived
      BY <3>1 DEF PutCounts, Loaded, Pcs, Arrived
    <3>5. Alone(r)
      BY <1>2, <3>1, <3>4, ArrivedStep
    <3>6. loc[r].count = Counts
      BY <3>3, <3>4, <3>5 DEF CountInv
    <3>7. pc'[r] = "done" /\ SegmentsRight' /\ FlaggedRight'
      BY <3>1, <3>6, PutCountsAccount
    <3>8. ASSUME NEW x \in Requests PROVE pc'[x] \notin Loaded
      BY <3>4, <3>5, <3>7, AloneAtWork, OthersStill DEF Loaded
    <3> QED
      BY <3>7, <3>8
  <2> QED
    BY <2>1, <2>2
<1> QED
  BY <1>1, <1>2, ReadyKept DEF CountInv

LEMMA OutsideCount ==
  ASSUME ReviewInv, CountInv, CreateJob \/ CreateFails \/ WorkerStep \/ UNCHANGED vars
  PROVE  CountInv'
<1>1. rows' = rows /\ pc' = pc /\ loc' = loc /\ before' = before /\ outcome' = outcome
  BY OutsideStill
<1>2. /\ Arrived' = Arrived
      /\ \A q \in Requests : (Alone(q)' <=> Alone(q)) /\ Since(q)' = Since(q)
  BY <1>1 DEF Arrived, Alone, Since, After
<1>3. Counts' = Counts
  BY <1>1 DEF Counts, FlaggedRows
<1>4. ASSUME NEW R, CountedFrom(R) PROVE CountedFrom(R)'
  <2>1. (Ordered(R)' <=> Ordered(R)) /\ (NoneMiscounted(R)' <=> NoneMiscounted(R))
    BY <1>1 DEF Ordered, NoneMiscounted
  <2>2. CASE create = "row" /\ row' = [status |-> "pending", queued |-> FALSE, edits |-> FALSE,
                                       segments |-> 0, flagged |-> 0]
    <3>1. rows = {} /\ \A r \in Requests : pc[r] \notin Loaded
      BY <2>2 DEF ReviewInv, RowInv, Loaded
    <3>2. FlaggedRows' = {} /\ rows' = {}
      BY <1>1, <3>1 DEF FlaggedRows
    <3>3. SegmentsRight' /\ FlaggedRight'
      BY <2>2, <3>2, FS_EmptySet DEF SegmentsRight, FlaggedRight
    <3> QED
      BY <1>1, <3>1, <3>3 DEF CountedFrom, Loaded, Pcs
  <2>3. CASE row' = row \/ UpdateJob([row EXCEPT !.queued = TRUE])
    <3>1. Quiet
      BY <1>1, <2>3 DEF Quiet, UpdateJob, ReviewInv, SharedTyped, Job
    <3>2. \A r \in Requests : Account(r) => Account(r)'
      BY <1>1, <3>1, QuietCounts DEF Account, Quiet
    <3> QED
      BY <1>1, <1>4, <2>1, <3>1, <3>2, QuietCounts DEF CountedFrom, Loaded, Pcs
  <2> QED
    BY <2>2, <2>3, OutsideStill
<1>5. CountedFrom(Arrived)'
  <2>1. PICK R : R = Arrived
    OBVIOUS
  <2>2. CountedFrom(R)'
    BY <1>4, <2>1 DEF CountInv, CountedFrom, Ordered, NoneMiscounted
  <2> QED
    BY <1>2, <2>1, <2>2 DEF CountedFrom, Ordered, NoneMiscounted
<1>6. ASSUME NEW q \in Requests, "counted" \in outcome'[q], Alone(q)'
      PROVE  CountedFrom(Since(q))'
  <2>1. PICK R : R = Since(q)
    OBVIOUS
  <2>2. CountedFrom(R)'
    BY <1>1, <1>2, <1>4, <1>6, <2>1 DEF CountInv, CountedFrom, Ordered, NoneMiscounted
  <2> QED
    BY <1>2, <2>1, <2>2 DEF CountedFrom, Ordered, NoneMiscounted
<1>7. ASSUME NEW q \in Requests, pc'[q] = "put_counts", Alone(q)',
             "miscounted" \notin outcome'[q]
      PROVE  loc'[q].count = Counts'
  BY <1>1, <1>2, <1>3, <1>7 DEF CountInv
<1> QED
  BY <1>5, <1>6, <1>7 DEF CountInv

LEMMA CountInit == Init => CountInv
BY DEF Init, CountInv, CountedFrom, SegmentsRight, FlaggedRight, Loaded

-----------------------------------------------------------------------------
(* Theorems *)

\* The rows and the history agree, at every statement of every synchronisation
\* (translation.go:601-701).
THEOREM RowsInvariant == Spec => [](UniqueInv /\ HistoryInv)
<1>1. ReviewInv /\ HistoryInv /\ UniqueInv /\ [Next]_vars => UniqueInv' /\ HistoryInv'
  BY UniqueNext
<1> QED
  BY <1>1, UniqueInit, ReviewInvariant, PTL DEF Spec

\* The rows, the Redis keys, the worker and every request's variables are what the
\* code declares them to be, at every statement (models/translation.go, main.py).
THEOREM ReviewTypeCorrect == Spec => []TypeOK
<1>1. ReviewInv /\ HistoryInv => TypeOK
  <2> SUFFICES ASSUME ReviewInv, HistoryInv PROVE TypeOK
    OBVIOUS
  <2>1. SharedTyped /\ WorkerTyped /\ RequestsTyped
    BY DEF ReviewInv
  <2>2. ASSUME NEW r \in Requests
        PROVE  /\ loc[r].job \in Job \cup {None} /\ loc[r].list \in Lists \cup {None}
               /\ loc[r].known \subseteq SegmentRow /\ loc[r].todo \subseteq Segs
    BY <2>1 DEF RequestsTyped, Locals
  <2> QED
    BY <2>1, <2>2 DEF SharedTyped, WorkerTyped, RequestsTyped, HistoryInv, Outcomes, TypeOK
<1> QED
  BY <1>1, ReviewInvariant, RowsInvariant, PTL

\* A job is approved or rejected (translation.go:310-367) only once the worker has
\* delivered every segment, whatever requests and failures there were.
THEOREM DecidedOnceDelivered == Spec => []DecidedJobTranslated
<1>1. ReviewInv => DecidedJobTranslated
  BY DEF ReviewInv, FinalInv, DecidedJobTranslated, Delivered, Final
<1> QED
  BY <1>1, ReviewInvariant, PTL

\* A deleted job (translation.go:395-434) stays deleted, with its segments.
THEOREM DeletionStays == Spec => DeletedJobStaysDeleted
<1>1. ReviewInv /\ ReviewInv' /\ [Next]_vars
      => [create # "row" /\ row = None => row' = None /\ rows' = {}]_vars
  BY AnswersStep DEF ReviewInv, RowInv
<1> QED
  BY <1>1, ReviewInvariant, PTL DEF Spec, DeletedJobStaysDeleted

\* No request undoes a decision or an edit that was answered before it arrived
\* (translation.go:310-367, 440-500, 564-688).
THEOREM AnswersStand == Spec => AnswersRespected
<1>1. ReviewInv /\ [Next]_vars => [DecisionRespected /\ EditsRespected]_vars
  BY AnswersStep
<1> QED
  BY <1>1, ReviewInvariant, PTL DEF Spec, AnswersRespected

\* Two rows for one segment come from synchronisations that overlapped or from one that could
\* not read the rows; the counts of the job are those of its rows once requests came one after
\* the other, and again after a synchronisation that ran alone, whatever overlapped or failed
\* before (syncSegmentsFromRedis, updateSegmentLogic).
THEOREM SegmentsCounted == Spec => []SegmentsAccounted
<1>1. Init => UniqueInv /\ HistoryInv /\ CountInv
  BY UniqueInit, CountInit
<1>2. ReviewInv /\ ReviewInv' /\ HistoryInv /\ UniqueInv /\ CountInv /\ [Next]_vars
      => UniqueInv' /\ HistoryInv' /\ CountInv'
  <2> SUFFICES ASSUME ReviewInv, ReviewInv', HistoryInv, UniqueInv, CountInv, [Next]_vars
               PROVE  UniqueInv' /\ HistoryInv' /\ CountInv'
    OBVIOUS
  <2>1. CASE CreateJob \/ CreateFails \/ WorkerStep \/ UNCHANGED vars
    BY <2>1, OutsideCount, UniqueNext
  <2>2. ASSUME NEW r \in Requests, RequestStep(r) PROVE CountInv'
    BY <2>2, RequestCount
  <2> QED
    BY <2>1, <2>2, UniqueNext DEF Next
<1>3. ReviewInv /\ UniqueInv /\ HistoryInv /\ CountInv => SegmentsAccounted
  <2> SUFFICES ASSUME ReviewInv, UniqueInv, HistoryInv, CountInv PROVE SegmentsAccounted
    OBVIOUS
  <2>1. RowsUniqueUnlessOverlapping
    BY DEF UniqueInv, RowsUniqueUnlessOverlapping
  <2>2. ASSUME NEW R \in SUBSET Arrived, Covers(R), CountedFrom(R), InSequence(R), row # None
        PROVE  CountsRight
    <3>1. Ordered(R) /\ NoneMiscounted(R) /\ \A r \in Requests : pc[r] \notin Loaded
      BY <2>2 DEF InSequence, Ordered, NoneMiscounted, Covers, Answered, Loaded
    <3> QED
      BY <2>2, <3>1 DEF CountedFrom, SegmentsRight, FlaggedRight, CountsRight
  <2>3. row # None /\ InSequence(Arrived) => CountsRight
    <3>1. PICK R : R = Arrived
      OBVIOUS
    <3>2. Covers(R) /\ CountedFrom(R) /\ (InSequence(Arrived) => InSequence(R))
      BY <3>1 DEF Covers, Arrived, Loaded, CountInv, CountedFrom, Ordered, NoneMiscounted, InSequence
    <3> QED
      BY <2>2, <3>1, <3>2
  <2>4. ASSUME NEW q \in Requests, "counted" \in outcome[q], Alone(q),
               InSequence({q} \cup After(q)), row # None
        PROVE  CountsRight
    <3>1. PICK R : R = Since(q)
      OBVIOUS
    <3>2. Answered(q)
      BY <2>4 DEF HistoryInv, Answered
    <3>3. R \in SUBSET Arrived /\ Covers(R)
      BY <2>4, <3>1, <3>2, AloneCovers DEF Covers
    <3>4. CountedFrom(R) /\ InSequence(R)
      BY <2>4, <3>1 DEF CountInv, CountedFrom, Ordered, NoneMiscounted, InSequence, Since
    <3> QED
      BY <2>2, <2>4, <3>3, <3>4
  <2>5. CountsExact
    BY <2>3, <2>4 DEF CountsExact
  <2> QED
    BY <2>1, <2>5 DEF SegmentsAccounted
<1> QED
  BY <1>1, <1>2, <1>3, ReviewInvariant, PTL DEF Spec
===============================================================================
