------------------------------ MODULE JobQueue ------------------------------
(***************************************************************************)
(* The Redis job queue of the translation worker: JobManager               *)
(* (job_queue/manager.py) and the QueueConsumer loop of main.py that       *)
(* drives it.                                                              *)
(*                                                                         *)
(* Every Redis command is atomic; an operation of several commands is one  *)
(* action per command, so the operations of different processes interleave *)
(* between them.  set_state is SET state, GET job, SET job; _get_job holds *)
(* a snapshot of the record across a whole set_state and writes it back.   *)
(*                                                                         *)
(* Workers run QueueConsumer.start (a single thread each).  Clients are    *)
(* other processes that call the remaining JobManager operations: enqueue, *)
(* cancel_job, fail_job, save_checkpoint, cleanup_old_jobs.                *)
(***************************************************************************)
EXTENDS Naturals, FiniteSets

CONSTANTS
  Jobs,         \* job ids (a UUID each, so an id is enqueued once)
  Workers,      \* worker processes
  Clients,      \* processes that call the other JobManager operations
  None,         \* absent key, no job, no worker id
  HasWorkflow,  \* QueueConsumer was built with a workflow
  MaxConcurrent,\* max_concurrent of the QueueConsumer
  MaxDelay,     \* largest delay_seconds passed to enqueue
  MaxClock,     \* bound on time.time()
  MaxCalls,     \* bound on the client calls after enqueue
  MaxTrouble    \* bound on crashes, stops, Redis errors and expiries

ASSUME JobQueueAssumption ==
  /\ None \notin Jobs \cup Workers \cup Nat
  /\ Workers \cap Clients = {}
  /\ HasWorkflow \in BOOLEAN
  /\ MaxConcurrent \in Nat \ {0}
  /\ MaxDelay \in Nat
  /\ MaxClock \in Nat
  /\ MaxCalls \in Nat
  /\ MaxTrouble \in Nat

VARIABLES
  clock,     \* time.time(), in seconds
  queue,     \* queue[p]: members of the sorted set trans:queue:<p>
  score,     \* score[j]: its score in that sorted set, None before enqueue
  stateKey,  \* stateKey[j]: value of trans:state:<j>
  jobKey,    \* jobKey[j]: value of trans:job:<j>
  ckptKeys,  \* jobs with a trans:checkpoint:<j>
  pc,        \* pc[a]: the next Redis command of process a
  level,     \* level[w]: the priority dequeue checks next
  cur,       \* cur[a]: the job process a is working on
  task,      \* task[a]: what a's read-modify-write does to the record
  data,      \* data[a]: the record a's read-modify-write has read
  jobData,   \* jobData[w]: the snapshot _get_job holds
  active,    \* active[w]: keys of QueueConsumer.active_jobs
  running,   \* running[w]: QueueConsumer.running
  popper,    \* history: the worker that popped the job
  marks,     \* history: what disturbed the job's normal course
  calls,     \* client calls made
  trouble    \* crashes, stops, errors and expiries so far

vars == <<clock, queue, score, stateKey, jobKey, ckptKeys, pc, level, cur,
          task, data, jobData, active, running, popper, marks, calls, trouble>>

redisVars == <<queue, score, stateKey, jobKey, ckptKeys>>
budgets   == <<clock, calls, trouble>>

-----------------------------------------------------------------------------
(* Types *)

Agents == Workers \cup Clients

\* dequeue's order: 1 urgent, 2 normal, 3 bulk
Priorities == 1..3

Terminal  == {"completed", "failed", "cancelled"}
Active    == {"processing", "translating"}
JobStates == {"pending", "review_pending", "approved"} \cup Active \cup Terminal

\* Where a worker leaves a job it has handled
Settled == Terminal \cup {"review_pending"}

StateRecord == [state : JobStates, worker : Workers \cup {None}]

JobRecord == [state : JobStates, worker : Workers \cup {None},
              completed : BOOLEAN,   \* completed_at is set
              error : BOOLEAN,       \* error is set
              checkpoint : BOOLEAN]  \* checkpoint_id is set

\* A set_state to that state, or an RMW of a field of the record alone
Tasks == JobStates \cup {"error", "progress", "checkpoint"}

\* An absent key is no value of a key
ASSUME AbsentAssumption == None \notin StateRecord \cup JobRecord

WorkerPCs == {"loop", "poll", "get", "assign", "begin", "translate",
              "release", "down"}
ClientPCs == {"idle", "save", "del_job", "del_state", "del_ckpt"}
RmwPCs    == {"write_state", "read_record", "write_record"}

Marks == {"call", "kill", "crash", "error", "expired"}

-----------------------------------------------------------------------------
(* Helpers *)

Queued(j) == \E p \in Priorities : j \in queue[p]

Held(j) == \E w \in Workers : cur[w] = j

\* Faulty variants: the caller's own name is passed; no worker id is passed
WorkerIdOfCaller(a) == a
WorkerIdForgotten(a) == None

\* The worker_id argument of set_state: cancel_job and fail_job pass none
WorkerId(a) == IF a \in Workers THEN a ELSE None

\* Faulty variant: completed_at is never set
UpdatedNoTimestamp(rec, t, w) ==
  CASE t = "error"      -> [rec EXCEPT !.error = TRUE]
    [] t = "checkpoint" -> [rec EXCEPT !.checkpoint = TRUE]
    [] t = "progress"   -> rec
    [] OTHER -> [rec EXCEPT !.state = t, !.worker = IF w # None THEN w ELSE @]

\* The record after the read-modify-write that task t stands for
Updated(rec, t, w) ==
  CASE t = "error"      -> [rec EXCEPT !.error = TRUE]
    [] t = "checkpoint" -> [rec EXCEPT !.checkpoint = TRUE]
    [] t = "progress"   -> rec
    [] OTHER -> [rec EXCEPT !.state = t,
                            !.worker = IF w # None THEN w ELSE @,
                            !.completed = @ \/ t \in Terminal]

-----------------------------------------------------------------------------
Init ==
  /\ clock = 0
  /\ queue = [p \in Priorities |-> {}]
  /\ score = [j \in Jobs |-> None]
  /\ stateKey = [j \in Jobs |-> None]
  /\ jobKey = [j \in Jobs |-> None]
  /\ ckptKeys = {}
  /\ pc = [a \in Agents |-> IF a \in Workers THEN "loop" ELSE "idle"]
  /\ level = [w \in Workers |-> 1]
  /\ cur = [a \in Agents |-> None]
  /\ task = [a \in Agents |-> "pending"]
  /\ data = [a \in Agents |-> None]
  /\ jobData = [w \in Workers |-> None]
  /\ active = [w \in Workers |-> {}]
  /\ running = [w \in Workers |-> TRUE]
  /\ popper = [j \in Jobs |-> None]
  /\ marks = [j \in Jobs |-> {}]
  /\ calls = 0
  /\ trouble = 0

Tick ==
  /\ clock < MaxClock
  /\ clock' = clock + 1
  /\ UNCHANGED <<redisVars, pc, level, cur, task, data, jobData, active,
                 running, popper, marks, calls, trouble>>

\* Faulty variant: an id in use is enqueued again
EnqueueAgain(j, p, delay) ==
  /\ score' = [score EXCEPT ![j] = clock + delay]
  /\ queue' = [queue EXCEPT ![p] = @ \cup {j}]
  /\ stateKey' = [stateKey EXCEPT ![j] = [state |-> "pending", worker |-> None]]
  /\ jobKey' = [jobKey EXCEPT ![j] =
                  [state |-> "pending", worker |-> None, completed |-> FALSE,
                   error |-> FALSE, checkpoint |-> FALSE]]
  /\ UNCHANGED <<ckptKeys, pc, level, cur, task, data, jobData, active,
                 running, popper, marks, budgets>>

(* enqueue: one MULTI/EXEC pipeline writes the record, the queue member    *)
(* with score time() + delay_seconds, and the state.                       *)
Enqueue(j, p, delay) ==
  /\ score[j] = None
  /\ score' = [score EXCEPT ![j] = clock + delay]
  /\ queue' = [queue EXCEPT ![p] = @ \cup {j}]
  /\ stateKey' = [stateKey EXCEPT ![j] = [state |-> "pending", worker |-> None]]
  /\ jobKey' = [jobKey EXCEPT ![j] =
                  [state |-> "pending", worker |-> None, completed |-> FALSE,
                   error |-> FALSE, checkpoint |-> FALSE]]
  /\ UNCHANGED <<ckptKeys, pc, level, cur, task, data, jobData, active,
                 running, popper, marks, budgets>>

-----------------------------------------------------------------------------
(* set_state and the other read-modify-writes of a record, by any process *)

\* Where process a continues when its read-modify-write returns.  fail_job
\* goes on to store the error, save_checkpoint the checkpoint id.
Returned(a) ==
  CASE a \in Workers /\ task[a] = "processing"  -> "assign"
    [] a \in Workers /\ task[a] = "translating" -> "begin"
    [] a \in Workers /\ task[a] \in Settled     -> "release"
    [] a \in Clients /\ task[a] \in {"failed", "progress"} -> "read_record"
    [] OTHER -> "idle"

NextTask(a) ==
  CASE a \in Clients /\ task[a] = "failed"   -> "error"
    [] a \in Clients /\ task[a] = "progress" -> "checkpoint"
    [] OTHER -> "pending"

Return(a) ==
  /\ pc' = [pc EXCEPT ![a] = Returned(a)]
  /\ task' = [task EXCEPT ![a] = NextTask(a)]
  /\ cur' = [cur EXCEPT ![a] = IF Returned(a) = "idle" THEN None ELSE @]
  /\ data' = [data EXCEPT ![a] = None]

\* set_state: SET trans:state:<job>
WriteState(a) ==
  /\ pc[a] = "write_state"
  /\ stateKey' = [stateKey EXCEPT ![cur[a]] =
                    [state |-> task[a], worker |-> WorkerId(a)]]
  /\ pc' = [pc EXCEPT ![a] = "read_record"]
  /\ UNCHANGED <<queue, score, jobKey, ckptKeys, level, cur, task, data,
                 jobData, active, running, popper, marks, budgets>>

\* GET trans:job:<job>; an absent record is left absent
ReadRecord(a) ==
  /\ pc[a] = "read_record"
  /\ IF jobKey[cur[a]] = None
       THEN Return(a)
       ELSE /\ data' = [data EXCEPT ![a] = jobKey[cur[a]]]
            /\ pc' = [pc EXCEPT ![a] = "write_record"]
            /\ UNCHANGED <<task, cur>>
  /\ UNCHANGED <<redisVars, level, jobData, active, running, popper, marks,
                 budgets>>

\* SET trans:job:<job> with the updated copy of what was read
WriteRecord(a) ==
  /\ pc[a] = "write_record"
  /\ jobKey' = [jobKey EXCEPT ![cur[a]] = Updated(data[a], task[a], WorkerId(a))]
  /\ Return(a)
  /\ UNCHANGED <<queue, score, stateKey, ckptKeys, level, jobData, active,
                 running, popper, marks, budgets>>

\* A Redis command inside the try block raises: the operation ends there and
\* its caller goes on.
RedisError(a) ==
  /\ pc[a] \in RmwPCs
  /\ trouble < MaxTrouble
  /\ trouble' = trouble + 1
  /\ marks' = [marks EXCEPT ![cur[a]] = @ \cup {"error"}]
  /\ Return(a)
  /\ UNCHANGED <<redisVars, level, jobData, active, running, popper, clock,
                 calls>>

-----------------------------------------------------------------------------
(* A worker: QueueConsumer.start, _process_cycle, dequeue, _get_job and    *)
(* _process_job.                                                           *)

SetState(w, s) ==
  /\ pc' = [pc EXCEPT ![w] = "write_state"]
  /\ task' = [task EXCEPT ![w] = s]

\* Top of the loop: leave it when stopped; _process_cycle returns at capacity
\* and polls the queues otherwise.
Loop(w) ==
  /\ pc[w] = "loop"
  /\ \/ /\ ~running[w]
        /\ pc' = [pc EXCEPT ![w] = "down"]
     \/ /\ running[w]
        /\ Cardinality(active[w]) < MaxConcurrent
        /\ pc' = [pc EXCEPT ![w] = "poll"]
  /\ UNCHANGED <<redisVars, level, cur, task, data, jobData, active, running,
                 popper, marks, budgets>>

\* _cleanup_completed_jobs, at the end of every cycle, on the set of active jobs
Tidy(jobs) == {j \in jobs : stateKey[j] = None \/ stateKey[j].state \notin Terminal}

\* Faulty variant: the last priority is left out
PollEmptyTwoLevels(w) ==
  /\ pc[w] = "poll"
  /\ queue[level[w]] = {}
  /\ IF level[w] < 2
       THEN /\ level' = [level EXCEPT ![w] = @ + 1]
            /\ UNCHANGED <<pc, active>>
       ELSE /\ pc' = [pc EXCEPT ![w] = "loop"]
            /\ level' = [level EXCEPT ![w] = 1]
            /\ active' = [active EXCEPT ![w] = Tidy(@)]
  /\ UNCHANGED <<redisVars, cur, task, data, jobData, running, popper, marks,
                 budgets>>

\* zpopmin of an empty sorted set: the next priority, or the end of the cycle
PollEmpty(w) ==
  /\ pc[w] = "poll"
  /\ queue[level[w]] = {}
  /\ IF level[w] < 3
       THEN /\ level' = [level EXCEPT ![w] = @ + 1]
            /\ UNCHANGED <<pc, active>>
       ELSE /\ pc' = [pc EXCEPT ![w] = "loop"]
            /\ level' = [level EXCEPT ![w] = 1]
            /\ active' = [active EXCEPT ![w] = Tidy(@)]
  /\ UNCHANGED <<redisVars, cur, task, data, jobData, running, popper, marks,
                 budgets>>

\* Faulty variant: the job is read with ZRANGE and stays in the sorted set
PopWithoutRemoval(w, j) ==
  /\ pc[w] = "poll"
  /\ j \in queue[level[w]]
  /\ \A k \in queue[level[w]] : score[j] <= score[k]
  /\ cur' = [cur EXCEPT ![w] = j]
  /\ pc' = [pc EXCEPT ![w] = "get"]
  /\ level' = [level EXCEPT ![w] = 1]
  /\ popper' = [popper EXCEPT ![j] = w]
  /\ UNCHANGED <<redisVars, task, data, jobData, active, running, marks,
                 budgets>>

\* zpopmin takes the member with the lowest score; the score is not compared
\* with the clock.
Pop(w, j) ==
  /\ pc[w] = "poll"
  /\ j \in queue[level[w]]
  /\ \A k \in queue[level[w]] : score[j] <= score[k]
  /\ queue' = [queue EXCEPT ![level[w]] = @ \ {j}]
  /\ cur' = [cur EXCEPT ![w] = j]
  /\ pc' = [pc EXCEPT ![w] = "get"]
  /\ level' = [level EXCEPT ![w] = 1]
  /\ popper' = [popper EXCEPT ![j] = w]
  /\ UNCHANGED <<score, stateKey, jobKey, ckptKeys, task, data, jobData,
                 active, running, marks, budgets>>

\* _get_job reads the record; without one dequeue returns None and the cycle
\* ends with the job dropped.
GetJob(w) ==
  /\ pc[w] = "get"
  /\ IF jobKey[cur[w]] = None
       THEN /\ pc' = [pc EXCEPT ![w] = "loop"]
            /\ cur' = [cur EXCEPT ![w] = None]
            /\ active' = [active EXCEPT ![w] = Tidy(@)]
            /\ UNCHANGED <<task, jobData>>
       ELSE /\ jobData' = [jobData EXCEPT ![w] = jobKey[cur[w]]]
            /\ SetState(w, "processing")
            /\ UNCHANGED <<cur, active>>
  /\ UNCHANGED <<redisVars, level, data, running, popper, marks, budgets>>

\* _get_job stores its snapshot with the worker id over the record;
\* _process_job starts set_state(TRANSLATING).
Assign(w) ==
  /\ pc[w] = "assign"
  /\ jobKey' = [jobKey EXCEPT ![cur[w]] = [jobData[w] EXCEPT !.worker = w]]
  /\ jobData' = [jobData EXCEPT ![w] = None]
  /\ SetState(w, "translating")
  /\ UNCHANGED <<queue, score, stateKey, ckptKeys, level, cur, data, active,
                 running, popper, marks, budgets>>

\* The job enters active_jobs
Begin(w) ==
  /\ pc[w] = "begin"
  /\ active' = [active EXCEPT ![w] = @ \cup {cur[w]}]
  /\ pc' = [pc EXCEPT ![w] = "translate"]
  /\ UNCHANGED <<redisVars, level, cur, task, data, jobData, running, popper,
                 marks, budgets>>

\* A job ends COMPLETED when there is no workflow, else FAILED without segments
\* or after an exception, or REVIEW_PENDING: process_job returns the status
\* "pending_approval" only.
Outcomes == IF HasWorkflow THEN {"failed", "review_pending"} ELSE {"completed"}

\* Faulty variant: an exception leaves the state as it was
TranslateNoFailed(w) ==
  /\ pc[w] = "translate"
  /\ \/ \E s \in Outcomes : SetState(w, s)
     \/ pc' = [pc EXCEPT ![w] = "release"] /\ UNCHANGED task
  /\ UNCHANGED <<redisVars, level, cur, data, jobData, active, running, popper,
                 marks, budgets>>

Translate(w) ==
  /\ pc[w] = "translate"
  /\ \E s \in Outcomes : SetState(w, s)
  /\ UNCHANGED <<redisVars, level, cur, data, jobData, active, running, popper,
                 marks, budgets>>

\* Faulty variant: the job is left in active_jobs
ReleaseNotRemoved(w) ==
  /\ pc[w] = "release"
  /\ pc' = [pc EXCEPT ![w] = "loop"]
  /\ cur' = [cur EXCEPT ![w] = None]
  /\ active' = [active EXCEPT ![w] = Tidy(@)]
  /\ UNCHANGED <<redisVars, level, task, data, jobData, running, popper, marks,
                 budgets>>

\* The finally block and the end of the cycle
Release(w) ==
  /\ pc[w] = "release"
  /\ pc' = [pc EXCEPT ![w] = "loop"]
  /\ cur' = [cur EXCEPT ![w] = None]
  /\ active' = [active EXCEPT ![w] = Tidy(@ \ {cur[w]})]
  /\ UNCHANGED <<redisVars, level, task, data, jobData, running, popper, marks,
                 budgets>>

\* SIGTERM or SIGINT: the handler calls QueueConsumer.stop
Stop(w) ==
  /\ running[w]
  /\ pc[w] # "down"
  /\ trouble < MaxTrouble
  /\ trouble' = trouble + 1
  /\ running' = [running EXCEPT ![w] = FALSE]
  /\ UNCHANGED <<redisVars, pc, level, cur, task, data, jobData, active,
                 popper, marks, clock, calls>>

\* The process dies, killed or by an exception dequeue lets through; its
\* memory is gone and nothing puts the popped job back.
Crash(w) ==
  /\ pc[w] # "down"
  /\ trouble < MaxTrouble
  /\ trouble' = trouble + 1
  /\ pc' = [pc EXCEPT ![w] = "down"]
  /\ level' = [level EXCEPT ![w] = 1]
  /\ cur' = [cur EXCEPT ![w] = None]
  /\ task' = [task EXCEPT ![w] = "pending"]
  /\ data' = [data EXCEPT ![w] = None]
  /\ jobData' = [jobData EXCEPT ![w] = None]
  /\ active' = [active EXCEPT ![w] = {}]
  /\ marks' = [j \in Jobs |-> IF cur[w] = j THEN marks[j] \cup {"crash"}
                                            ELSE marks[j]]
  /\ UNCHANGED <<redisVars, running, popper, clock, calls>>

\* The process is started again with a new QueueConsumer
Restart(w) ==
  /\ pc[w] = "down"
  /\ pc' = [pc EXCEPT ![w] = "loop"]
  /\ running' = [running EXCEPT ![w] = TRUE]
  /\ active' = [active EXCEPT ![w] = {}]
  /\ UNCHANGED <<redisVars, level, cur, task, data, jobData, popper, marks,
                 budgets>>

-----------------------------------------------------------------------------
(* Clients: the JobManager operations other processes call on a known id *)

Call(c, j, first, t, m) ==
  /\ pc[c] = "idle"
  /\ score[j] # None
  /\ calls < MaxCalls
  /\ calls' = calls + 1
  /\ pc' = [pc EXCEPT ![c] = first]
  /\ cur' = [cur EXCEPT ![c] = j]
  /\ task' = [task EXCEPT ![c] = t]
  /\ marks' = [marks EXCEPT ![j] = @ \cup m]
  /\ UNCHANGED <<redisVars, level, data, jobData, active, running, popper,
                 clock, trouble>>

\* cancel_job: set_state(CANCELLED), whatever the state and without removing
\* the job from its queue
CancelJob(c, j) == Call(c, j, "write_state", "cancelled", {"call", "kill"})

\* fail_job: set_state(FAILED), then the error
FailJob(c, j) == Call(c, j, "write_state", "failed", {"call", "kill"})

\* save_checkpoint: the checkpoint, update_progress when a progress is given,
\* then the checkpoint id
SaveCheckpoint(c, j) ==
  \E t \in {"progress", "checkpoint"} : Call(c, j, "save", t, {"call"})

StoreCheckpoint(c) ==
  /\ pc[c] = "save"
  /\ ckptKeys' = ckptKeys \cup {cur[c]}
  /\ pc' = [pc EXCEPT ![c] = "read_record"]
  /\ UNCHANGED <<queue, score, stateKey, jobKey, level, cur, task, data,
                 jobData, active, running, popper, marks, budgets>>

\* Faulty variant: completed_at is not looked at
CleanupAnyJob(c, j) ==
  /\ jobKey[j] # None
  /\ Call(c, j, "del_job", "pending", {"call"})

\* cleanup_old_jobs meets a record with a completed_at before the cutoff.
\* Ages are left out: any completed record may be old enough.
CleanupOldJob(c, j) ==
  /\ jobKey[j] # None
  /\ jobKey[j].completed
  /\ Call(c, j, "del_job", "pending", {"call"})

\* ... and deletes its record, its state and its checkpoint
DeleteKeys(c) ==
  /\ \/ /\ pc[c] = "del_job"
        /\ jobKey' = [jobKey EXCEPT ![cur[c]] = None]
        /\ pc' = [pc EXCEPT ![c] = "del_state"]
        /\ UNCHANGED <<stateKey, ckptKeys, cur>>
     \/ /\ pc[c] = "del_state"
        /\ stateKey' = [stateKey EXCEPT ![cur[c]] = None]
        /\ pc' = [pc EXCEPT ![c] = "del_ckpt"]
        /\ UNCHANGED <<jobKey, ckptKeys, cur>>
     \/ /\ pc[c] = "del_ckpt"
        /\ ckptKeys' = ckptKeys \ {cur[c]}
        /\ pc' = [pc EXCEPT ![c] = "idle"]
        /\ cur' = [cur EXCEPT ![c] = None]
        /\ UNCHANGED <<stateKey, jobKey>>
  /\ UNCHANGED <<queue, score, level, task, data, jobData, active, running,
                 popper, marks, budgets>>

\* A client dies, or a command outside a nested try raises: the operation
\* stops where it is.
Abandon(c) ==
  /\ pc[c] # "idle"
  /\ trouble < MaxTrouble
  /\ trouble' = trouble + 1
  /\ pc' = [pc EXCEPT ![c] = "idle"]
  /\ cur' = [cur EXCEPT ![c] = None]
  /\ task' = [task EXCEPT ![c] = "pending"]
  /\ data' = [data EXCEPT ![c] = None]
  /\ UNCHANGED <<redisVars, level, jobData, active, running, popper,
                 marks, clock, calls>>

\* Redis expires a record or a state JOB_TTL / STATE_TTL after its last SET;
\* queue members have no expiry.
Expire(j) ==
  /\ trouble < MaxTrouble
  /\ trouble' = trouble + 1
  /\ \/ /\ jobKey[j] # None
        /\ jobKey' = [jobKey EXCEPT ![j] = None]
        /\ UNCHANGED stateKey
     \/ /\ stateKey[j] # None
        /\ stateKey' = [stateKey EXCEPT ![j] = None]
        /\ UNCHANGED jobKey
  /\ marks' = [marks EXCEPT ![j] = @ \cup {"expired"}]
  /\ UNCHANGED <<queue, score, ckptKeys, pc, level, cur, task, data, jobData,
                 active, running, popper, clock, calls>>

-----------------------------------------------------------------------------
RmwStep(a) == WriteState(a) \/ ReadRecord(a) \/ WriteRecord(a)

WorkerStep(w) ==
  \/ Loop(w) \/ PollEmpty(w) \/ (\E j \in Jobs : Pop(w, j)) \/ GetJob(w)
  \/ Assign(w) \/ Begin(w) \/ Translate(w) \/ Release(w) \/ RmwStep(w)

ClientStep(c) ==
  \/ \E j \in Jobs : \/ CancelJob(c, j) \/ FailJob(c, j)
                     \/ SaveCheckpoint(c, j) \/ CleanupOldJob(c, j)
  \/ StoreCheckpoint(c) \/ DeleteKeys(c) \/ RmwStep(c)

Trouble ==
  \/ \E w \in Workers : Stop(w) \/ Crash(w) \/ Restart(w)
  \/ \E c \in Clients : Abandon(c)
  \/ \E a \in Agents : RedisError(a)
  \/ \E j \in Jobs : Expire(j)

Next ==
  \/ Tick
  \/ \E j \in Jobs, p \in Priorities, d \in 0..MaxDelay : Enqueue(j, p, d)
  \/ \E w \in Workers : WorkerStep(w)
  \/ \E c \in Clients : ClientStep(c)
  \/ Trouble

Spec == Init /\ [][Next]_vars

\* A worker's loop and an operation once begun keep running; nothing obliges a
\* client to call, a worker to crash, or an operator to restart one.
Fairness ==
  /\ \A w \in Workers : WF_vars(WorkerStep(w))
  /\ \A c \in Clients : WF_vars(StoreCheckpoint(c) \/ DeleteKeys(c) \/ RmwStep(c))

FairSpec == Spec /\ Fairness

-----------------------------------------------------------------------------
(* Properties *)

\* Type invariant.
TypeOK ==
  /\ clock \in Nat /\ calls \in Nat /\ trouble \in Nat
  /\ queue \in [Priorities -> SUBSET Jobs]
  /\ score \in [Jobs -> Nat \cup {None}]
  /\ stateKey \in [Jobs -> StateRecord \cup {None}]
  /\ jobKey \in [Jobs -> JobRecord \cup {None}]
  /\ ckptKeys \subseteq Jobs
  /\ pc \in [Agents -> WorkerPCs \cup ClientPCs \cup RmwPCs]
  /\ level \in [Workers -> Priorities]
  /\ cur \in [Agents -> Jobs \cup {None}]
  /\ task \in [Agents -> Tasks]
  /\ data \in [Agents -> JobRecord \cup {None}]
  /\ jobData \in [Workers -> JobRecord \cup {None}]
  /\ active \in [Workers -> SUBSET Jobs]
  /\ running \in [Workers -> BOOLEAN]
  /\ popper \in [Jobs -> Workers \cup {None}]
  /\ marks \in [Jobs -> SUBSET Marks]

\* The queue implements the hand-out of jobs that JobHandout specifies.
Handout == INSTANCE JobHandout WITH
  waiting <- {j \in Jobs : Queued(j)},
  given   <- {j \in Jobs : popper[j] # None},
  hand    <- [w \in Workers |-> cur[w]]

ImplementsHandout == Handout!Spec

\* A job is in one worker's hands at most, and never back in a queue once a
\* worker took it (dequeue's zpopmin, with several workers polling).
OneWorkerPerJob ==
  \A j \in Jobs :
    /\ \A v, w \in Workers : cur[v] = j /\ cur[w] = j => v = w
    /\ Queued(j) => popper[j] = None /\ ~Held(j)

\* Whatever cancels, errors and expiries do, a state that says a job is being
\* worked on names the worker that took it out of the queue (set_state's
\* worker_id, which get_worker_jobs and operators rely on).
ActiveStateNamesWorker ==
  \A j \in Jobs : stateKey[j] # None /\ stateKey[j].state \in Active =>
    /\ popper[j] # None
    /\ stateKey[j].worker = popper[j]

\* A waiting job that nobody cancelled or failed and that did not expire still
\* has its record and its state, both pending: cleanup_old_jobs and
\* save_checkpoint of other processes never harm it.
WaitingJobIntact ==
  \A j \in Jobs : Queued(j) /\ marks[j] \cap {"kill", "expired"} = {} =>
    /\ stateKey[j] # None /\ stateKey[j].state = "pending"
    /\ jobKey[j] # None /\ jobKey[j].state = "pending" /\ ~jobKey[j].completed

\* A job that left the queue is in its worker's hands or settled, unless a
\* crash, a Redis error or an expiry hit that very job: the loop itself, a
\* stop, a cancel or trouble with other jobs never strands it half way.
NoJobStranded ==
  \A j \in Jobs :
    popper[j] # None /\ marks[j] \cap {"crash", "error", "expired"} = {} =>
      \/ cur[popper[j]] = j
      \/ stateKey[j] = None
      \/ stateKey[j].state \in Settled

\* When its worker is done with a job no other process touched, the record and
\* the state key tell the same story, in spite of the stale snapshot _get_job
\* writes back.
RecordAgreesWithState ==
  \A j \in Jobs :
    popper[j] # None /\ marks[j] = {} /\ ~Held(j) =>
      /\ jobKey[j].state = stateKey[j].state
      /\ jobKey[j].worker = popper[j]
      /\ jobKey[j].completed <=> stateKey[j].state \in Terminal

\* active_jobs holds at most the job in hand and is empty between cycles, on
\* every path through _process_job: capacity is never used up by leftovers.
ActiveJobsReleased ==
  \A w \in Workers :
    /\ active[w] \subseteq {cur[w]}
    /\ pc[w] \in {"loop", "poll", "get"} => active[w] = {}

\* A record is right before a worker takes the job and after it is done with it.
RecordsIntact == WaitingJobIntact /\ RecordAgreesWithState

\* Neither a job nor a place for one is left behind by a worker.
NothingLeftBehind == NoJobStranded /\ ActiveJobsReleased

\* The state of a job nobody cancels, fails or deletes only moves forward:
\* pending, processing, translating, then settled for good.
Rank(s) == CASE s = "pending" -> 0 [] s = "processing" -> 1
             [] s = "translating" -> 2 [] OTHER -> 3

StateMovesForward ==
  [][\A j \in Jobs :
       /\ stateKey[j] # None /\ stateKey[j]' # None /\ stateKey[j]' # stateKey[j]
       /\ marks[j]' \cap {"kill", "expired"} = {}
       => Rank(stateKey[j].state) < Rank(stateKey[j]'.state)]_vars

\* Every waiting job is taken from the queue eventually, whatever its priority,
\* unless all workers are down: finitely many urgent jobs cannot starve it.
EveryJobTaken ==
  \A j \in Jobs :
    Queued(j) ~> (~Queued(j) \/ \A w \in Workers : pc[w] = "down")

\* A job taken by a worker is settled eventually unless a crash, an error or an
\* expiry hit it.
EveryJobSettled ==
  \A j \in Jobs : popper[j] # None ~>
    \/ marks[j] \cap {"crash", "error", "expired"} # {}
    \/ stateKey[j] = None
    \/ stateKey[j].state \in Settled

\* job.py:40 says of the terminal states "no further transitions possible".
TerminalStatesFinal ==
  [][\A j \in Jobs :
       /\ stateKey[j] # None /\ stateKey[j].state \in Terminal
       /\ stateKey[j]' # None
       => stateKey[j]'.state = stateKey[j].state]_vars

\* manager.py:341 says of checkpoints that they "can be loaded to resume
\* translation after a crash or restart".
CrashedJobResumed ==
  \A j \in Jobs :
    ("crash" \in marks[j] /\ j \in ckptKeys) ~> (Held(j) \/ j \notin ckptKeys)
=============================================================================
