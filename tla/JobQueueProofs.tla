--------------------------- MODULE JobQueueProofs ---------------------------
(***************************************************************************)
(* Theorems about JobQueue for every number of jobs, workers and clients   *)
(* and every bound.  IInv strengthens the properties with what each        *)
(* process's place in its code says of its local variables; CourseInv,     *)
(* further down, adds what a job's keys say of its past.                   *)
(***************************************************************************)
EXTENDS JobQueue, TLAPS

\* Where a worker has a job in hand
Busy == {"get", "assign", "begin", "translate", "release"} \cup RmwPCs

WorkerTasks == Active \cup Settled

\* A worker's variables agree with the place it has reached
WorkerInv ==
  \A w \in Workers :
    /\ pc[w] \in WorkerPCs \cup RmwPCs
    /\ pc[w] \in Busy => cur[w] \in Jobs
    /\ pc[w] \notin Busy => cur[w] = None
    /\ pc[w] \in RmwPCs => task[w] \in WorkerTasks
    /\ pc[w] \in RmwPCs /\ task[w] = "processing" => jobData[w] \in JobRecord
    /\ pc[w] = "assign" => jobData[w] \in JobRecord
    /\ cur[w] \in Jobs => popper[cur[w]] = w

\* A client's variables agree with the place it has reached; a client only
\* ever sets a terminal state
ClientInv ==
  \A c \in Clients :
    /\ pc[c] \in ClientPCs \cup RmwPCs
    /\ pc[c] # "idle" => cur[c] \in Jobs
    /\ pc[c] = "write_state" => task[c] \in Terminal
    /\ pc[c] = "save" => task[c] \in {"progress", "checkpoint"}

\* What a read-modify-write has read is a record
DataInv ==
  \A a \in Agents : pc[a] = "write_record" => data[a] \in JobRecord

\* A job is in one sorted set at most, is never popped twice, and was enqueued
\* before it is popped
QueueInv ==
  \A j \in Jobs :
    /\ Queued(j) => popper[j] = None /\ score[j] # None
    /\ popper[j] # None => score[j] # None
    /\ \A p, q \in Priorities : j \in queue[p] /\ j \in queue[q] => p = q

IInv == TypeOK /\ WorkerInv /\ ClientInv /\ DataInv /\ QueueInv /\ ActiveStateNamesWorker

-----------------------------------------------------------------------------
LEMMA UpdatedType ==
  ASSUME NEW rec \in JobRecord, NEW t \in Tasks, NEW w \in Workers \cup {None}
  PROVE  Updated(rec, t, w) \in JobRecord
<1>1. CASE t \in {"error", "progress", "checkpoint"}
  BY <1>1 DEF Updated, JobRecord
<1>2. CASE t \in JobStates
  BY <1>2 DEF Updated, JobRecord
<1> QED BY <1>1, <1>2 DEF Tasks

LEMMA TickStep ==
  ASSUME IInv, Tick
  PROVE  IInv'
<1>1. TypeOK'
  BY DEF IInv, TypeOK, Tick, redisVars
<1>2. WorkerInv'
  BY DEF IInv, WorkerInv, Tick
<1>3. ClientInv'
  BY DEF IInv, ClientInv, Tick
<1>4. DataInv'
  BY DEF IInv, DataInv, Tick
<1>5. QueueInv'
  BY DEF IInv, QueueInv, Tick, redisVars, Queued
<1>6. ActiveStateNamesWorker'
  BY DEF IInv, ActiveStateNamesWorker, Tick, redisVars
<1>7. QED BY <1>1, <1>2, <1>3, <1>4, <1>5, <1>6 DEF IInv

LEMMA EnqueueStep ==
  ASSUME IInv, NEW j \in Jobs, NEW p \in Priorities, NEW d \in 0..MaxDelay, Enqueue(j, p, d)
  PROVE  IInv'
<1>1. TypeOK'
  BY DEF IInv, TypeOK, Enqueue, budgets, StateRecord, JobRecord, JobStates
<1>2. WorkerInv'
  BY DEF IInv, WorkerInv, Enqueue
<1>3. ClientInv'
  BY DEF IInv, ClientInv, Enqueue
<1>4. DataInv'
  BY DEF IInv, DataInv, Enqueue
<1>5. QueueInv'
  BY JobQueueAssumption DEF IInv, QueueInv, Enqueue, TypeOK, Queued
<1>6. ActiveStateNamesWorker'
  BY DEF IInv, ActiveStateNamesWorker, Enqueue, Active
<1>7. QED BY <1>1, <1>2, <1>3, <1>4, <1>5, <1>6 DEF IInv

LEMMA LoopStep ==
  ASSUME IInv, NEW w \in Workers, Loop(w)
  PROVE  IInv'
<1>1. TypeOK'
  BY DEF IInv, TypeOK, Loop, redisVars, budgets, WorkerPCs
<1>2. WorkerInv'
  BY DEF IInv, WorkerInv, Loop, TypeOK, Busy, WorkerPCs, RmwPCs, Agents
<1>3. ClientInv'
  BY JobQueueAssumption DEF IInv, ClientInv, Loop, TypeOK, Agents
<1>4. DataInv'
  BY DEF IInv, DataInv, Loop, TypeOK
<1>5. QueueInv'
  BY DEF IInv, QueueInv, Loop, redisVars, Queued
<1>6. ActiveStateNamesWorker'
  BY DEF IInv, ActiveStateNamesWorker, Loop, redisVars
<1>7. QED BY <1>1, <1>2, <1>3, <1>4, <1>5, <1>6 DEF IInv

LEMMA PollEmptyStep ==
  ASSUME IInv, NEW w \in Workers, PollEmpty(w)
  PROVE  IInv'
<1>1. TypeOK'
  BY JobQueueAssumption DEF IInv, TypeOK, PollEmpty, redisVars, budgets, Tidy,
     WorkerPCs, Priorities
<1>2. WorkerInv'
  BY DEF IInv, WorkerInv, PollEmpty, Tidy, TypeOK, Busy, WorkerPCs, RmwPCs,
     Agents
<1>3. ClientInv'
  BY JobQueueAssumption DEF IInv, ClientInv, PollEmpty, Tidy, TypeOK, Agents
<1>4. DataInv'
  BY DEF IInv, DataInv, PollEmpty, Tidy, TypeOK
<1>5. QueueInv'
  BY DEF IInv, QueueInv, PollEmpty, redisVars, Tidy, Queued
<1>6. ActiveStateNamesWorker'
  BY DEF IInv, ActiveStateNamesWorker, PollEmpty, redisVars, Tidy
<1>7. QED BY <1>1, <1>2, <1>3, <1>4, <1>5, <1>6 DEF IInv

LEMMA PopStep ==
  ASSUME IInv, NEW w \in Workers, NEW j \in Jobs, Pop(w, j)
  PROVE  IInv'
<1>1. TypeOK'
  BY DEF IInv, TypeOK, Pop, budgets, WorkerPCs, Agents, Priorities
<1>2. WorkerInv'
  BY JobQueueAssumption DEF IInv, WorkerInv, Pop, TypeOK, QueueInv, Queued,
     Busy, RmwPCs, WorkerPCs
<1>3. ClientInv'
  BY JobQueueAssumption DEF IInv, ClientInv, Pop
<1>4. DataInv'
  BY DEF IInv, DataInv, Pop
<1>5. QueueInv'
  BY DEF IInv, QueueInv, Pop, TypeOK, Queued
<1>6. ActiveStateNamesWorker'
  <2>1. Queued(j)
    BY DEF Pop, IInv, TypeOK, Queued
  <2>2. popper[j] = None
    BY <2>1 DEF IInv, QueueInv
  <2> QED BY <2>2 DEF IInv, ActiveStateNamesWorker, Pop
<1>7. QED BY <1>1, <1>2, <1>3, <1>4, <1>5, <1>6 DEF IInv

LEMMA GetJobStep ==
  ASSUME IInv, NEW w \in Workers, GetJob(w)
  PROVE  IInv'
<1>1. TypeOK'
  <2>1. cur[w] \in Jobs
    BY DEF GetJob, IInv, WorkerInv, Busy
  <2>2. CASE jobKey[cur[w]] = None
    BY SMTT(30), <2>2 DEF IInv, TypeOK, GetJob, redisVars, budgets, Tidy,
       Agents, WorkerPCs
  <2>3. CASE jobKey[cur[w]] # None
    <3>1. jobKey[cur[w]] \in JobRecord
      BY <2>1, <2>3 DEF IInv, TypeOK
    <3> QED BY <2>3, <3>1 DEF IInv, TypeOK, GetJob, redisVars, budgets,
       SetState, RmwPCs, Tasks, JobStates, Active
  <2> QED BY <2>2, <2>3
<1>2. WorkerInv'
  BY JobQueueAssumption DEF IInv, WorkerInv, GetJob, Tidy, SetState, TypeOK,
     Busy, WorkerTasks, Active, WorkerPCs, RmwPCs, Agents
<1>3. ClientInv'
  BY JobQueueAssumption DEF IInv, ClientInv, GetJob, Tidy, SetState, TypeOK,
     Agents
<1>4. DataInv'
  BY DEF IInv, DataInv, GetJob, Tidy, SetState, TypeOK
<1>5. QueueInv'
  BY DEF IInv, QueueInv, GetJob, redisVars, Tidy, SetState, Queued
<1>6. ActiveStateNamesWorker'
  BY DEF IInv, ActiveStateNamesWorker, GetJob, redisVars, Tidy, SetState
<1>7. QED BY <1>1, <1>2, <1>3, <1>4, <1>5, <1>6 DEF IInv

LEMMA AssignStep ==
  ASSUME IInv, NEW w \in Workers, Assign(w)
  PROVE  IInv'
<1>1. TypeOK'
  <2>1. [jobData[w] EXCEPT !.worker = w] \in JobRecord
    BY DEF IInv, WorkerInv, Assign, JobRecord
  <2> QED BY <2>1 DEF IInv, TypeOK, Assign, budgets, SetState, RmwPCs, Tasks,
     JobStates, Active
<1>2. WorkerInv'
  BY DEF IInv, WorkerInv, Assign, SetState, TypeOK, Busy, WorkerTasks, Active,
     RmwPCs, Agents
<1>3. ClientInv'
  BY JobQueueAssumption DEF IInv, ClientInv, Assign, SetState
<1>4. DataInv'
  BY DEF IInv, DataInv, Assign, SetState
<1>5. QueueInv'
  BY DEF IInv, QueueInv, Assign, SetState, Queued
<1>6. ActiveStateNamesWorker'
  BY DEF IInv, ActiveStateNamesWorker, Assign, SetState
<1>7. QED BY <1>1, <1>2, <1>3, <1>4, <1>5, <1>6 DEF IInv

LEMMA BeginStep ==
  ASSUME IInv, NEW w \in Workers, Begin(w)
  PROVE  IInv'
<1>1. TypeOK'
  BY DEF IInv, TypeOK, Begin, redisVars, budgets, WorkerInv, Busy, WorkerPCs,
     Agents
<1>2. WorkerInv'
  BY DEF IInv, WorkerInv, Begin, Busy, WorkerPCs, RmwPCs
<1>3. ClientInv'
  BY JobQueueAssumption DEF IInv, ClientInv, Begin
<1>4. DataInv'
  BY DEF IInv, DataInv, Begin
<1>5. QueueInv'
  BY DEF IInv, QueueInv, Begin, redisVars, Queued
<1>6. ActiveStateNamesWorker'
  BY DEF IInv, ActiveStateNamesWorker, Begin, redisVars
<1>7. QED BY <1>1, <1>2, <1>3, <1>4, <1>5, <1>6 DEF IInv

LEMMA TranslateStep ==
  ASSUME IInv, NEW w \in Workers, Translate(w)
  PROVE  IInv'
<1>1. TypeOK'
  BY DEF IInv, TypeOK, Translate, redisVars, budgets, SetState, Outcomes,
     JobStates, Terminal, Settled, Tasks, RmwPCs
<1>2. WorkerInv'
  BY DEF IInv, WorkerInv, Translate, SetState, Outcomes, TypeOK, Busy,
     WorkerTasks, Terminal, Settled, RmwPCs
<1>3. ClientInv'
  BY JobQueueAssumption DEF IInv, ClientInv, Translate, SetState, Outcomes
<1>4. DataInv'
  BY DEF IInv, DataInv, Translate, SetState, Outcomes
<1>5. QueueInv'
  BY DEF IInv, QueueInv, Translate, redisVars, SetState, Outcomes, Queued
<1>6. ActiveStateNamesWorker'
  BY DEF IInv, ActiveStateNamesWorker, Translate, redisVars, SetState, Outcomes
<1>7. QED BY <1>1, <1>2, <1>3, <1>4, <1>5, <1>6 DEF IInv

LEMMA ReleaseStep ==
  ASSUME IInv, NEW w \in Workers, Release(w)
  PROVE  IInv'
<1>1. TypeOK'
  BY DEF IInv, TypeOK, Release, redisVars, budgets, Tidy, WorkerPCs
<1>2. WorkerInv'
  BY JobQueueAssumption DEF IInv, WorkerInv, Release, Tidy, TypeOK, Busy,
     WorkerPCs, RmwPCs
<1>3. ClientInv'
  BY JobQueueAssumption DEF IInv, ClientInv, Release, Tidy
<1>4. DataInv'
  BY DEF IInv, DataInv, Release, Tidy
<1>5. QueueInv'
  BY DEF IInv, QueueInv, Release, redisVars, Tidy, Queued
<1>6. ActiveStateNamesWorker'
  BY DEF IInv, ActiveStateNamesWorker, Release, redisVars, Tidy
<1>7. QED BY <1>1, <1>2, <1>3, <1>4, <1>5, <1>6 DEF IInv

LEMMA WriteStateStep ==
  ASSUME IInv, NEW a \in Agents, WriteState(a)
  PROVE  IInv'
<1>1. TypeOK'
  BY DEF IInv, TypeOK, WriteState, budgets, WorkerId, WorkerInv, ClientInv,
     WorkerTasks, StateRecord, JobStates, Settled, Tasks, ClientPCs, RmwPCs,
     Agents, Priorities
<1>2. WorkerInv'
  BY DEF IInv, WorkerInv, WriteState, WorkerId, Busy, RmwPCs
<1>3. ClientInv'
  BY DEF IInv, ClientInv, WriteState, WorkerId, RmwPCs
<1>4. DataInv'
  BY DEF IInv, DataInv, WriteState, WorkerId
<1>5. QueueInv'
  BY DEF IInv, QueueInv, WriteState, WorkerId, Queued
<1>6. ActiveStateNamesWorker'
  BY JobQueueAssumption DEF IInv, ActiveStateNamesWorker, WriteState, WorkerId,
     WorkerInv, ClientInv, Active, Terminal, Agents
<1>7. QED BY <1>1, <1>2, <1>3, <1>4, <1>5, <1>6 DEF IInv

LEMMA ReadRecordStep ==
  ASSUME IInv, NEW a \in Agents, ReadRecord(a)
  PROVE  IInv'
<1>1. TypeOK'
  BY DEF IInv, TypeOK, ReadRecord, redisVars, budgets, Return, Returned,
     NextTask, WorkerInv, ClientInv, DataInv, Busy, WorkerTasks, StateRecord,
     JobStates, Settled, Tasks, Marks, WorkerPCs, ClientPCs, RmwPCs, Agents,
     Priorities
<1>2. WorkerInv'
  BY JobQueueAssumption DEF IInv, WorkerInv, ReadRecord, Return, Returned,
     NextTask, TypeOK, Busy, WorkerTasks, Active, WorkerPCs, RmwPCs, Agents
<1>3. ClientInv'
  BY JobQueueAssumption DEF IInv, ClientInv, ReadRecord, Return, Returned,
     NextTask, TypeOK, ClientPCs, RmwPCs, Agents
<1>4. DataInv'
  <2>1. cur[a] \in Jobs
    BY DEF ReadRecord, IInv, WorkerInv, ClientInv, Agents, Busy, RmwPCs
  <2> QED BY <2>1 DEF IInv, DataInv, TypeOK, ReadRecord, Return, Returned
<1>5. QueueInv'
  BY DEF IInv, QueueInv, ReadRecord, redisVars, Return, Returned, NextTask,
     Queued
<1>6. ActiveStateNamesWorker'
  BY DEF IInv, ActiveStateNamesWorker, ReadRecord, redisVars, Return, Returned,
     NextTask
<1>7. QED BY <1>1, <1>2, <1>3, <1>4, <1>5, <1>6 DEF IInv

LEMMA WriteRecordStep ==
  ASSUME IInv, NEW a \in Agents, WriteRecord(a)
  PROVE  IInv'
<1>1. TypeOK'
  <2>1. Updated(data[a], task[a], WorkerId(a)) \in JobRecord
    BY UpdatedType DEF IInv, TypeOK, DataInv, WriteRecord, WorkerId
  <2>2. /\ NextTask(a) \in Tasks
        /\ Returned(a) \in WorkerPCs \cup ClientPCs \cup RmwPCs
    BY DEF IInv, NextTask, Returned, Tasks, JobStates, WorkerPCs, ClientPCs,
       RmwPCs
  <2> QED BY <2>1, <2>2 DEF IInv, TypeOK, WriteRecord, Return, budgets
<1>2. WorkerInv'
  BY JobQueueAssumption DEF IInv, WorkerInv, WriteRecord, Return, Returned,
     NextTask, Updated, WorkerId, TypeOK, Busy, WorkerTasks, Active, WorkerPCs,
     RmwPCs
<1>3. ClientInv'
  BY JobQueueAssumption DEF IInv, ClientInv, WriteRecord, Return, Returned,
     NextTask, Updated, WorkerId, TypeOK, ClientPCs, RmwPCs
<1>4. DataInv'
  BY DEF IInv, DataInv, WriteRecord, Return, Returned, NextTask, Updated,
     WorkerId, TypeOK
<1>5. QueueInv'
  BY DEF IInv, QueueInv, WriteRecord, Return, Returned, NextTask, Updated,
     WorkerId, Queued
<1>6. ActiveStateNamesWorker'
  BY DEF IInv, ActiveStateNamesWorker, WriteRecord, Return, Returned, NextTask,
     Updated, WorkerId
<1>7. QED BY <1>1, <1>2, <1>3, <1>4, <1>5, <1>6 DEF IInv

LEMMA RedisErrorStep ==
  ASSUME IInv, NEW a \in Agents, RedisError(a)
  PROVE  IInv'
<1>1. TypeOK'
  BY DEF IInv, TypeOK, RedisError, redisVars, Return, Returned, NextTask,
     WorkerInv, ClientInv, Busy, JobStates, Settled, Tasks, Marks, WorkerPCs,
     ClientPCs, RmwPCs, Agents, Priorities
<1>2. WorkerInv'
  BY JobQueueAssumption DEF IInv, WorkerInv, RedisError, Return, Returned,
     NextTask, TypeOK, Busy, WorkerTasks, Active, WorkerPCs, RmwPCs
<1>3. ClientInv'
  BY JobQueueAssumption DEF IInv, ClientInv, RedisError, Return, Returned,
     NextTask, TypeOK, ClientPCs, RmwPCs
<1>4. DataInv'
  BY DEF IInv, DataInv, RedisError, Return, Returned, NextTask, TypeOK
<1>5. QueueInv'
  BY DEF IInv, QueueInv, RedisError, redisVars, Return, Returned, NextTask,
     Queued
<1>6. ActiveStateNamesWorker'
  BY DEF IInv, ActiveStateNamesWorker, RedisError, redisVars, Return, Returned,
     NextTask
<1>7. QED BY <1>1, <1>2, <1>3, <1>4, <1>5, <1>6 DEF IInv

LEMMA StopStep ==
  ASSUME IInv, NEW w \in Workers, Stop(w)
  PROVE  IInv'
<1>1. TypeOK'
  BY DEF IInv, TypeOK, Stop, redisVars
<1>2. WorkerInv'
  BY DEF IInv, WorkerInv, Stop
<1>3. ClientInv'
  BY DEF IInv, ClientInv, Stop
<1>4. DataInv'
  BY DEF IInv, DataInv, Stop
<1>5. QueueInv'
  BY DEF IInv, QueueInv, Stop, redisVars, Queued
<1>6. ActiveStateNamesWorker'
  BY DEF IInv, ActiveStateNamesWorker, Stop, redisVars
<1>7. QED BY <1>1, <1>2, <1>3, <1>4, <1>5, <1>6 DEF IInv

LEMMA CrashStep ==
  ASSUME IInv, NEW w \in Workers, Crash(w)
  PROVE  IInv'
<1>1. TypeOK'
  BY DEF IInv, TypeOK, Crash, redisVars, JobStates, Tasks, Marks, WorkerPCs,
     Agents, Priorities
<1>2. WorkerInv'
  BY JobQueueAssumption DEF IInv, WorkerInv, Crash, TypeOK, Busy, WorkerPCs,
     RmwPCs, Agents
<1>3. ClientInv'
  BY JobQueueAssumption DEF IInv, ClientInv, Crash
<1>4. DataInv'
  BY DEF IInv, DataInv, Crash, TypeOK
<1>5. QueueInv'
  BY DEF IInv, QueueInv, Crash, redisVars, Queued
<1>6. ActiveStateNamesWorker'
  BY DEF IInv, ActiveStateNamesWorker, Crash, redisVars
<1>7. QED BY <1>1, <1>2, <1>3, <1>4, <1>5, <1>6 DEF IInv

LEMMA RestartStep ==
  ASSUME IInv, NEW w \in Workers, Restart(w)
  PROVE  IInv'
<1>1. TypeOK'
  BY DEF IInv, TypeOK, Restart, redisVars, budgets, WorkerPCs
<1>2. WorkerInv'
  BY DEF IInv, WorkerInv, Restart, Busy, WorkerPCs, RmwPCs
<1>3. ClientInv'
  BY JobQueueAssumption DEF IInv, ClientInv, Restart
<1>4. DataInv'
  BY DEF IInv, DataInv, Restart
<1>5. QueueInv'
  BY DEF IInv, QueueInv, Restart, redisVars, Queued
<1>6. ActiveStateNamesWorker'
  BY DEF IInv, ActiveStateNamesWorker, Restart, redisVars
<1>7. QED BY <1>1, <1>2, <1>3, <1>4, <1>5, <1>6 DEF IInv

LEMMA CancelJobStep ==
  ASSUME IInv, NEW c \in Clients, NEW j \in Jobs, CancelJob(c, j)
  PROVE  IInv'
<1>1. TypeOK'
  BY DEF IInv, TypeOK, CancelJob, redisVars, Call, JobStates, Terminal,
     Settled, Tasks, Marks, RmwPCs, Agents, Priorities
<1>2. WorkerInv'
  BY JobQueueAssumption DEF IInv, WorkerInv, CancelJob, Call
<1>3. ClientInv'
  BY DEF IInv, ClientInv, CancelJob, Call, TypeOK, Terminal, RmwPCs
<1>4. DataInv'
  BY DEF IInv, DataInv, CancelJob, Call
<1>5. QueueInv'
  BY DEF IInv, QueueInv, CancelJob, redisVars, Call, Queued
<1>6. ActiveStateNamesWorker'
  BY DEF IInv, ActiveStateNamesWorker, CancelJob, redisVars, Call
<1>7. QED BY <1>1, <1>2, <1>3, <1>4, <1>5, <1>6 DEF IInv

LEMMA FailJobStep ==
  ASSUME IInv, NEW c \in Clients, NEW j \in Jobs, FailJob(c, j)
  PROVE  IInv'
<1>1. TypeOK'
  BY DEF IInv, TypeOK, FailJob, redisVars, Call, JobStates, Terminal, Settled,
     Tasks, Marks, RmwPCs, Agents, Priorities
<1>2. WorkerInv'
  BY JobQueueAssumption DEF IInv, WorkerInv, FailJob, Call
<1>3. ClientInv'
  BY DEF IInv, ClientInv, FailJob, Call, TypeOK, Terminal, RmwPCs
<1>4. DataInv'
  BY DEF IInv, DataInv, FailJob, Call
<1>5. QueueInv'
  BY DEF IInv, QueueInv, FailJob, redisVars, Call, Queued
<1>6. ActiveStateNamesWorker'
  BY DEF IInv, ActiveStateNamesWorker, FailJob, redisVars, Call
<1>7. QED BY <1>1, <1>2, <1>3, <1>4, <1>5, <1>6 DEF IInv

LEMMA SaveCheckpointStep ==
  ASSUME IInv, NEW c \in Clients, NEW j \in Jobs, SaveCheckpoint(c, j)
  PROVE  IInv'
<1>1. TypeOK'
  BY DEF IInv, TypeOK, SaveCheckpoint, redisVars, Call, Settled, Tasks, Marks,
     ClientPCs, Agents, Priorities
<1>2. WorkerInv'
  BY JobQueueAssumption DEF IInv, WorkerInv, SaveCheckpoint, Call
<1>3. ClientInv'
  BY DEF IInv, ClientInv, SaveCheckpoint, Call, TypeOK, ClientPCs
<1>4. DataInv'
  BY DEF IInv, DataInv, SaveCheckpoint, Call
<1>5. QueueInv'
  BY DEF IInv, QueueInv, SaveCheckpoint, redisVars, Call, Queued
<1>6. ActiveStateNamesWorker'
  BY DEF IInv, ActiveStateNamesWorker, SaveCheckpoint, redisVars, Call
<1>7. QED BY <1>1, <1>2, <1>3, <1>4, <1>5, <1>6 DEF IInv

LEMMA CleanupOldJobStep ==
  ASSUME IInv, NEW c \in Clients, NEW j \in Jobs, CleanupOldJob(c, j)
  PROVE  IInv'
<1>1. TypeOK'
  BY DEF IInv, TypeOK, CleanupOldJob, redisVars, Call, JobStates, Settled,
     Tasks, Marks, ClientPCs, Agents, Priorities
<1>2. WorkerInv'
  BY JobQueueAssumption DEF IInv, WorkerInv, CleanupOldJob, Call
<1>3. ClientInv'
  BY DEF IInv, ClientInv, CleanupOldJob, Call, TypeOK, ClientPCs
<1>4. DataInv'
  BY DEF IInv, DataInv, CleanupOldJob, Call
<1>5. QueueInv'
  BY DEF IInv, QueueInv, CleanupOldJob, redisVars, Call, Queued
<1>6. ActiveStateNamesWorker'
  BY DEF IInv, ActiveStateNamesWorker, CleanupOldJob, redisVars, Call
<1>7. QED BY <1>1, <1>2, <1>3, <1>4, <1>5, <1>6 DEF IInv

LEMMA StoreCheckpointStep ==
  ASSUME IInv, NEW c \in Clients, StoreCheckpoint(c)
  PROVE  IInv'
<1>1. TypeOK'
  BY DEF IInv, TypeOK, StoreCheckpoint, budgets, ClientInv, RmwPCs
<1>2. WorkerInv'
  BY JobQueueAssumption DEF IInv, WorkerInv, StoreCheckpoint
<1>3. ClientInv'
  BY DEF IInv, ClientInv, StoreCheckpoint, RmwPCs
<1>4. DataInv'
  BY DEF IInv, DataInv, StoreCheckpoint
<1>5. QueueInv'
  BY DEF IInv, QueueInv, StoreCheckpoint, Queued
<1>6. ActiveStateNamesWorker'
  BY DEF IInv, ActiveStateNamesWorker, StoreCheckpoint
<1>7. QED BY <1>1, <1>2, <1>3, <1>4, <1>5, <1>6 DEF IInv

LEMMA DeleteKeysStep ==
  ASSUME IInv, NEW c \in Clients, DeleteKeys(c)
  PROVE  IInv'
<1>1. TypeOK'
  BY DEF IInv, TypeOK, DeleteKeys, budgets, ClientPCs
<1>2. WorkerInv'
  BY JobQueueAssumption DEF IInv, WorkerInv, DeleteKeys, TypeOK, Agents
<1>3. ClientInv'
  BY DEF IInv, ClientInv, DeleteKeys, TypeOK, ClientPCs, Agents
<1>4. DataInv'
  BY DEF IInv, DataInv, DeleteKeys, TypeOK
<1>5. QueueInv'
  BY DEF IInv, QueueInv, DeleteKeys, Queued
<1>6. ActiveStateNamesWorker'
  BY JobQueueAssumption DEF IInv, ActiveStateNamesWorker, DeleteKeys, TypeOK
<1>7. QED BY <1>1, <1>2, <1>3, <1>4, <1>5, <1>6 DEF IInv

LEMMA AbandonStep ==
  ASSUME IInv, NEW c \in Clients, Abandon(c)
  PROVE  IInv'
<1>1. TypeOK'
  BY DEF IInv, TypeOK, Abandon, redisVars, JobStates, Settled, Tasks,
     ClientPCs, Agents, Priorities
<1>2. WorkerInv'
  BY JobQueueAssumption DEF IInv, WorkerInv, Abandon
<1>3. ClientInv'
  BY DEF IInv, ClientInv, Abandon, TypeOK, ClientPCs
<1>4. DataInv'
  BY DEF IInv, DataInv, Abandon, TypeOK
<1>5. QueueInv'
  BY DEF IInv, QueueInv, Abandon, redisVars, Queued
<1>6. ActiveStateNamesWorker'
  BY DEF IInv, ActiveStateNamesWorker, Abandon, redisVars
<1>7. QED BY <1>1, <1>2, <1>3, <1>4, <1>5, <1>6 DEF IInv

LEMMA ExpireStep ==
  ASSUME IInv, NEW j \in Jobs, Expire(j)
  PROVE  IInv'
<1>1. TypeOK'
  BY DEF IInv, TypeOK, Expire, Marks
<1>2. WorkerInv'
  BY DEF IInv, WorkerInv, Expire
<1>3. ClientInv'
  BY DEF IInv, ClientInv, Expire
<1>4. DataInv'
  BY DEF IInv, DataInv, Expire
<1>5. QueueInv'
  BY DEF IInv, QueueInv, Expire, Queued
<1>6. ActiveStateNamesWorker'
  BY DEF IInv, ActiveStateNamesWorker, Expire, TypeOK
<1>7. QED BY <1>1, <1>2, <1>3, <1>4, <1>5, <1>6 DEF IInv

LEMMA InitIInv == Init => IInv
<1> SUFFICES ASSUME Init PROVE IInv
  OBVIOUS
<1>1. TypeOK
  BY DEF Init, TypeOK, Priorities, Tasks, JobStates, WorkerPCs, ClientPCs
<1>2. WorkerInv /\ ClientInv /\ DataInv
  BY JobQueueAssumption DEF Init, WorkerInv, ClientInv, DataInv, Agents, Busy,
     RmwPCs, WorkerPCs, ClientPCs
<1>3. QueueInv /\ ActiveStateNamesWorker
  BY DEF Init, QueueInv, Queued, ActiveStateNamesWorker
<1> QED BY <1>1, <1>2, <1>3 DEF IInv

LEMMA RmwInv ==
  ASSUME IInv, NEW a \in Agents, RmwStep(a)
  PROVE  IInv'
BY WriteStateStep, ReadRecordStep, WriteRecordStep DEF RmwStep

LEMMA NextIInv == IInv /\ [Next]_vars => IInv'
<1> SUFFICES ASSUME IInv, [Next]_vars PROVE IInv'
  OBVIOUS
<1>1. CASE Tick
  BY <1>1, TickStep
<1>2. CASE \E j \in Jobs, p \in Priorities, d \in 0..MaxDelay : Enqueue(j, p, d)
  BY <1>2, EnqueueStep
<1>3. ASSUME NEW w \in Workers, WorkerStep(w) PROVE IInv'
  BY <1>3, LoopStep, PollEmptyStep, PopStep, GetJobStep, AssignStep, BeginStep,
     TranslateStep, ReleaseStep, RmwInv DEF WorkerStep, Agents
<1>4. ASSUME NEW c \in Clients, ClientStep(c) PROVE IInv'
  BY <1>4, CancelJobStep, FailJobStep, SaveCheckpointStep, CleanupOldJobStep,
     StoreCheckpointStep, DeleteKeysStep, RmwInv DEF ClientStep, Agents
<1>5. CASE Trouble
  BY <1>5, StopStep, CrashStep, RestartStep, AbandonStep, RedisErrorStep,
     ExpireStep DEF Trouble
<1>6. CASE UNCHANGED vars
  BY <1>6 DEF vars, IInv, TypeOK, WorkerInv, ClientInv, DataInv, QueueInv,
     Queued, ActiveStateNamesWorker
<1> QED BY <1>1, <1>2, <1>3, <1>4, <1>5, <1>6 DEF Next

\* IInv holds in every reachable state.
THEOREM InductiveInvariant == Spec => []IInv
BY InitIInv, NextIInv, PTL DEF Spec

\* The keys of Redis and the variables of every process keep their types.
THEOREM TypeCorrect == Spec => []TypeOK
<1>1. IInv => TypeOK
  BY DEF IInv
<1> QED BY <1>1, InductiveInvariant, PTL

\* With any number of workers polling, zpopmin hands a job to one worker at
\* most, and a job a worker took is in no queue again.
THEOREM OneWorker == Spec => []OneWorkerPerJob
<1>1. IInv => OneWorkerPerJob
  <2> SUFFICES ASSUME IInv, NEW j \in Jobs
               PROVE  /\ \A v, w \in Workers : cur[v] = j /\ cur[w] = j => v = w
                      /\ Queued(j) => popper[j] = None /\ ~Held(j)
    BY DEF OneWorkerPerJob
  <2>1. \A w \in Workers : cur[w] = j => popper[j] = w
    BY DEF IInv, WorkerInv
  <2>2. Queued(j) => popper[j] = None
    BY DEF IInv, QueueInv
  <2> QED BY <2>1, <2>2, JobQueueAssumption DEF Held
<1> QED BY <1>1, InductiveInvariant, PTL

\* A state that says a job is being worked on names the worker that popped it,
\* whatever other processes cancel, fail, checkpoint or delete meanwhile.
THEOREM ActiveStateWorker == Spec => []ActiveStateNamesWorker
<1>1. IInv => ActiveStateNamesWorker
  BY DEF IInv
<1> QED BY <1>1, InductiveInvariant, PTL

-----------------------------------------------------------------------------
(* The queue implements JobHandout *)

waitingJobs == {j \in Jobs : Queued(j)}
givenJobs   == {j \in Jobs : popper[j] # None}
handOf      == [w \in Workers |-> cur[w]]

\* Steps that move no job: the three mapped variables stay as they are
LEMMA MapUnchanged ==
  ASSUME UNCHANGED <<queue, popper>>, \A w \in Workers : cur'[w] = cur[w]
  PROVE  UNCHANGED <<waitingJobs, givenJobs, handOf>>
BY DEF waitingJobs, givenJobs, handOf, Queued

\* A read-modify-write never takes a job out of a worker's hands
LEMMA RmwKeepsHands ==
  ASSUME IInv, NEW a \in Agents, RmwStep(a) \/ RedisError(a)
  PROVE  /\ UNCHANGED <<queue, popper>>
         /\ \A w \in Workers : cur'[w] = cur[w]
<1>1. UNCHANGED <<queue, popper>>
  BY DEF RmwStep, WriteState, ReadRecord, WriteRecord, RedisError, redisVars
<1>2. cur' = cur \/ (Return(a) /\ pc[a] \in RmwPCs)
  BY DEF RmwStep, WriteState, ReadRecord, WriteRecord, RedisError, RmwPCs
<1>3. a \in Workers /\ pc[a] \in RmwPCs => Returned(a) # "idle"
  BY DEF IInv, WorkerInv, WorkerTasks, Returned, Active
<1> QED BY <1>1, <1>2, <1>3 DEF Return, IInv, TypeOK, Agents

LEMMA EnqueueMap ==
  ASSUME IInv, NEW j \in Jobs, NEW p \in Priorities, NEW d \in 0..MaxDelay,
         Enqueue(j, p, d)
  PROVE  Handout!Submit(j)
<1>1. ~Queued(j) /\ popper[j] = None
  BY DEF Enqueue, IInv, QueueInv
<1>2. \A k \in Jobs : Queued(k)' <=> Queued(k) \/ k = j
  BY DEF Enqueue, IInv, TypeOK, Queued
<1> QED BY <1>1, <1>2 DEF Handout!Submit, Enqueue

LEMMA PopMap ==
  ASSUME IInv, NEW w \in Workers, NEW j \in Jobs, Pop(w, j)
  PROVE  Handout!Give(w, j)
<1>1. Queued(j) /\ cur[w] = None
  BY DEF Pop, IInv, TypeOK, WorkerInv, Busy, RmwPCs, Queued
<1>2. \A k \in Jobs : Queued(k)' <=> Queued(k) /\ k # j
  BY DEF Pop, IInv, TypeOK, QueueInv, Queued
<1>3. \A k \in Jobs : popper'[k] # None <=> popper[k] # None \/ k = j
  BY JobQueueAssumption DEF Pop, IInv, TypeOK
<1>4. handOf' = [handOf EXCEPT ![w] = j]
  BY DEF Pop, IInv, TypeOK, Agents, handOf
<1> QED BY <1>1, <1>2, <1>3, <1>4 DEF Handout!Give, handOf

\* The worker's hands are emptied and nothing else moves
LEMMA LetGoMap ==
  ASSUME IInv, NEW w \in Workers, cur' = [cur EXCEPT ![w] = None],
         UNCHANGED <<queue, popper>>
  PROVE  Handout!LetGo(w) \/ UNCHANGED <<waitingJobs, givenJobs, handOf>>
<1>1. CASE cur[w] = None
  BY <1>1, MapUnchanged DEF IInv
<1>2. CASE cur[w] # None
  BY <1>2 DEF IInv, TypeOK, Agents, Handout!LetGo, Queued
<1> QED BY <1>1, <1>2

LEMMA NextMap ==
  IInv /\ [Next]_vars
    => Handout!Next \/ UNCHANGED <<waitingJobs, givenJobs, handOf>>
<1> DEFINE Goal == Handout!Next \/ UNCHANGED <<waitingJobs, givenJobs, handOf>>
<1> SUFFICES ASSUME IInv, [Next]_vars PROVE Goal
  OBVIOUS
<1>1. CASE \E j \in Jobs, p \in Priorities, d \in 0..MaxDelay : Enqueue(j, p, d)
  BY <1>1, EnqueueMap DEF Handout!Next
<1>2. CASE \E w \in Workers, j \in Jobs : Pop(w, j)
  BY <1>2, PopMap DEF Handout!Next
<1>3. CASE \E w \in Workers : GetJob(w) \/ Release(w) \/ Crash(w)
  <2> PICK w \in Workers : GetJob(w) \/ Release(w) \/ Crash(w)
    BY <1>3
  <2>1. UNCHANGED <<queue, popper>>
    BY DEF GetJob, Release, Crash, redisVars
  <2>2. cur' = cur \/ cur' = [cur EXCEPT ![w] = None]
    BY DEF GetJob, Release, Crash
  <2> QED BY <2>1, <2>2, LetGoMap, MapUnchanged DEF Handout!Next
<1>4. CASE \E a \in Agents : RmwStep(a) \/ RedisError(a)
  BY <1>4, RmwKeepsHands, MapUnchanged
<1>5. CASE \E w \in Workers : \/ Loop(w) \/ PollEmpty(w) \/ Assign(w) \/ Begin(w)
                             \/ Translate(w) \/ Stop(w) \/ Restart(w)
  <2>1. UNCHANGED <<queue, popper, cur>>
    BY <1>5 DEF Loop, PollEmpty, Assign, Begin, Translate, Stop, Restart,
       redisVars
  <2> QED BY <2>1, MapUnchanged
<1>6. CASE \E c \in Clients : \/ \E j \in Jobs : \/ CancelJob(c, j) \/ FailJob(c, j)
                                                \/ SaveCheckpoint(c, j)
                                                \/ CleanupOldJob(c, j)
                             \/ StoreCheckpoint(c) \/ DeleteKeys(c) \/ Abandon(c)
  <2> PICK c \in Clients : \/ \E j \in Jobs : \/ CancelJob(c, j) \/ FailJob(c, j)
                                             \/ SaveCheckpoint(c, j)
                                             \/ CleanupOldJob(c, j)
                          \/ StoreCheckpoint(c) \/ DeleteKeys(c) \/ Abandon(c)
    BY <1>6
  <2>1. UNCHANGED <<queue, popper>>
    BY DEF CancelJob, FailJob, SaveCheckpoint, CleanupOldJob, Call,
       StoreCheckpoint, DeleteKeys, Abandon, redisVars
  <2>2. \A a \in Agents : a # c => cur'[a] = cur[a]
    BY DEF CancelJob, FailJob, SaveCheckpoint, CleanupOldJob, Call,
       StoreCheckpoint, DeleteKeys, Abandon, IInv, TypeOK
  <2>3. \A w \in Workers : w \in Agents /\ w # c
    BY JobQueueAssumption DEF Agents
  <2> QED BY <2>1, <2>2, <2>3, MapUnchanged
<1>7. CASE Tick \/ (\E j \in Jobs : Expire(j)) \/ UNCHANGED vars
  <2>1. UNCHANGED <<queue, popper, cur>>
    BY <1>7 DEF Tick, Expire, redisVars, vars
  <2> QED BY <2>1, MapUnchanged
<1> QED
  BY <1>1, <1>2, <1>3, <1>4, <1>5, <1>6, <1>7 DEF Next, WorkerStep, ClientStep,
     Trouble, Agents

\* The queue implements the hand-out of jobs: a job goes to one worker, once,
\* however many workers poll and whatever crashes.
THEOREM HandoutRefined == Spec => ImplementsHandout
<1>1. Init => Handout!Init
  BY DEF Init, Handout!Init, Queued, Agents
<1>2. IInv /\ [Next]_vars => [Handout!Next]_(Handout!vars)
  BY NextMap DEF Handout!vars, waitingJobs, givenJobs, handOf
<1> QED BY <1>1, <1>2, InductiveInvariant, PTL DEF Spec, ImplementsHandout,
   Handout!Spec

-----------------------------------------------------------------------------
(* The course of a job: what its record, its state and the marks it bears  *)
(* say of how far the processes have got with it.                          *)

\* Nobody cancelled or failed the job and none of its keys expired
Unharmed(j) == marks[j] \cap {"kill", "expired"} = {}

\* Neither a crash, nor an error, nor an expiry hit the job
Untroubled(j) == marks[j] \cap {"crash", "error", "expired"} = {}

\* No worker has begun to work on the job: it waits or was just popped
Early(j) == popper[j] = None \/ \E w \in Workers : cur[w] = j /\ pc[w] = "get"

\* Process a is past its SET of the state, on its way to the record
PastState(a) == pc[a] \in {"read_record", "write_record"}

Deleting(c) == pc[c] \in {"del_job", "del_state", "del_ckpt"}

Pending(rec) == rec.state = "pending" /\ ~rec.completed

StateIn(j, S) == stateKey[j] = None \/ stateKey[j].state \in S

\* Nothing is known of a job before it is enqueued
FreshInv ==
  \A j \in Jobs : score[j] = None =>
    /\ stateKey[j] = None /\ jobKey[j] = None
    /\ \A a \in Agents : cur[a] # j

\* A process that disturbs a job has marked it, and a record is completed
\* because somebody killed the job or a worker took it.
MarksInv ==
  /\ \A c \in Clients : pc[c] # "idle" =>
       /\ "call" \in marks[cur[c]]
       /\ pc[c] = "write_state" \/ (PastState(c) /\ task[c] \in Terminal)
            => "kill" \in marks[cur[c]]
       /\ Deleting(c) \/ (pc[c] = "write_record" /\ data[c].completed)
            => "kill" \in marks[cur[c]] \/ popper[cur[c]] # None
       /\ PastState(c) => task[c] \in Terminal \cup {"error", "progress", "checkpoint"}
  /\ \A j \in Jobs : jobKey[j] # None /\ jobKey[j].completed
       => "kill" \in marks[j] \/ popper[j] # None

\* A waiting job is as enqueue wrote it, and so is every copy of its record
WaitingInv ==
  \A j \in Jobs : Queued(j) /\ Unharmed(j) =>
    /\ stateKey[j] # None /\ stateKey[j].state = "pending"
    /\ jobKey[j] # None /\ Pending(jobKey[j])
    /\ \A c \in Clients : pc[c] = "write_record" /\ cur[c] = j => Pending(data[c])

\* The furthest the state of the job in w's hands may be
Reached(w) ==
  CASE pc[w] = "get"                    -> 0
    [] pc[w] = "write_state"            -> Rank(task[w]) - 1
    [] PastState(w)                     -> Rank(task[w])
    [] pc[w] = "assign"                 -> 1
    [] pc[w] \in {"begin", "translate"} -> 2
    [] OTHER                            -> 3

\* The state of an unharmed job is never ahead of its worker
RankInv ==
  \A j \in Jobs : Unharmed(j) /\ stateKey[j] # None =>
    /\ popper[j] = None => stateKey[j].state = "pending"
    /\ \A w \in Workers : cur[w] = j => Rank(stateKey[j].state) <= Reached(w)

Agrees(j) ==
  /\ jobKey[j].state = stateKey[j].state
  /\ jobKey[j].worker = popper[j]
  /\ jobKey[j].completed <=> stateKey[j].state \in Terminal

\* What holds of the job w has in hand when no other process touched it
InHand(w) ==
  /\ pc[w] = "release" => Agrees(cur[w])
  /\ pc[w] # "release" => ~jobKey[cur[w]].completed
  /\ pc[w] = "write_record" => ~data[w].completed
  /\ pc[w] = "assign" \/ (pc[w] \in RmwPCs /\ task[w] = "processing")
       => ~jobData[w].completed
  /\ PastState(w) => stateKey[cur[w]].state = task[w]

\* The keys of a job no other process touched follow its worker, and agree
\* when it is done
AgreementInv ==
  \A j \in Jobs : marks[j] = {} /\ popper[j] # None =>
    /\ stateKey[j] # None /\ jobKey[j] # None
    /\ IF cur[popper[j]] = j THEN InHand(popper[j]) ELSE Agrees(j)

\* A record of the job is completed or gone, or about to be
Closing(j) ==
  \/ score[j] # None /\ jobKey[j] = None
  \/ jobKey[j] # None /\ jobKey[j].completed
  \/ \E c \in Clients :
       /\ pc[c] # "idle" /\ cur[c] = j
       /\ \/ Deleting(c)
          \/ PastState(c) /\ task[c] \in Terminal
          \/ pc[c] = "write_record" /\ data[c].completed

\* A job that closes before a worker begins has a terminal state or none, and
\* a job a worker is done with is settled
StrandedInv ==
  \A j \in Jobs : Untroubled(j) =>
    /\ Early(j) /\ Closing(j) => StateIn(j, Terminal)
    /\ popper[j] # None /\ cur[popper[j]] # j => StateIn(j, Settled)
    /\ \A w \in Workers :
         /\ cur[w] = j
         /\ pc[w] = "release" \/ (PastState(w) /\ task[w] \in Settled)
         => StateIn(j, Settled)

\* A worker's active_jobs is filled only between Begin and Release
ActiveInv ==
  \A w \in Workers :
    /\ active[w] \subseteq {cur[w]}
    /\ active[w] # {} => \/ pc[w] \in {"translate", "release"}
                         \/ pc[w] \in RmwPCs /\ task[w] \in Settled

CourseInv ==
  /\ FreshInv /\ MarksInv /\ WaitingInv /\ RankInv
  /\ AgreementInv /\ StrandedInv /\ ActiveInv

-----------------------------------------------------------------------------
\* An update of a field other than the state keeps state and completion
LEMMA UpdatedField ==
  ASSUME NEW rec \in JobRecord, NEW t \in {"error", "progress", "checkpoint"}, NEW w
  PROVE  /\ Updated(rec, t, w).state = rec.state
         /\ Updated(rec, t, w).completed = rec.completed
BY DEF Updated, JobRecord

\* An update of the state by a worker
LEMMA UpdatedState ==
  ASSUME NEW rec \in JobRecord, NEW t \in JobStates, NEW w
  PROVE  /\ Updated(rec, t, w).state = t
         /\ w # None => Updated(rec, t, w).worker = w
         /\ Updated(rec, t, w).completed <=> rec.completed \/ t \in Terminal
BY DEF Updated, JobRecord, JobStates, Active, Terminal

\* A job in a worker's hands was popped by that worker, so by no other
LEMMA HandsApart ==
  ASSUME IInv, NEW v \in Workers, NEW j \in Jobs, cur[v] = j
  PROVE  /\ popper[j] = v /\ popper[j] # None /\ ~Queued(j)
         /\ \A w \in Workers : cur[w] = j => w = v
BY JobQueueAssumption DEF IInv, WorkerInv, QueueInv

\* The operation a client is in has left its mark on the job
LEMMA ClientMark ==
  ASSUME IInv, CourseInv, NEW c \in Clients, pc[c] # "idle"
  PROVE  cur[c] \in Jobs /\ marks[cur[c]] # {}
BY DEF IInv, ClientInv, CourseInv, MarksInv

\* The keys enqueue writes
LEMMA EnqueuedKeys ==
  ASSUME IInv, NEW j \in Jobs, NEW p \in Priorities, NEW d \in 0..MaxDelay, Enqueue(j, p, d)
  PROVE  /\ stateKey'[j] # None /\ stateKey'[j].state = "pending"
         /\ jobKey'[j] # None /\ jobKey'[j].state = "pending" /\ ~jobKey'[j].completed
<1> DEFINE st == [state |-> "pending", worker |-> None]
           rec == [state |-> "pending", worker |-> None, completed |-> FALSE,
                   error |-> FALSE, checkpoint |-> FALSE]
<1>1. stateKey'[j] = st /\ jobKey'[j] = rec
  BY DEF Enqueue, IInv, TypeOK
<1>2. st \in StateRecord
  BY DEF StateRecord, JobStates
<1>3. rec \in JobRecord
  BY DEF JobRecord, JobStates
<1>4. st # None /\ rec # None
  BY <1>2, <1>3, AbsentAssumption
<1> QED BY <1>1, <1>4

LEMMA TickCourse ==
  ASSUME IInv, IInv', CourseInv, Tick
  PROVE  CourseInv'
<1>1. FreshInv'
  BY JobQueueAssumption DEF CourseInv, IInv, TypeOK, Active, Terminal, Settled,
     ClientInv, FreshInv, QueueInv, Tick, redisVars
<1>2. MarksInv'
  BY JobQueueAssumption DEF CourseInv, IInv, TypeOK, Active, Terminal, Settled,
     ClientInv, MarksInv, PastState, Deleting, Tick, redisVars
<1>3. WaitingInv'
  BY JobQueueAssumption DEF CourseInv, IInv, TypeOK, Active, Terminal, Settled,
     WorkerPCs, ClientPCs, ClientInv, WaitingInv, Pending, Unharmed, Queued,
     MarksInv, FreshInv, PastState, QueueInv, WorkerInv, Tick, redisVars
<1>4. RankInv'
  BY JobQueueAssumption DEF CourseInv, IInv, TypeOK, Active, Terminal, Settled,
     ClientInv, RankInv, Rank, Reached, PastState, Unharmed, MarksInv,
     WorkerInv, QueueInv, FreshInv, WaitingInv, Queued, Pending, Tick,
     redisVars
<1>5. AgreementInv'
  BY JobQueueAssumption DEF CourseInv, IInv, TypeOK, Active, Terminal, Settled,
     ClientInv, AgreementInv, Agrees, InHand, PastState, MarksInv, WaitingInv,
     WorkerInv, Pending, Queued, Unharmed, QueueInv, Tick, redisVars
<1>6. StrandedInv'
  BY JobQueueAssumption DEF CourseInv, IInv, TypeOK, Active, Terminal, Settled,
     ClientInv, StrandedInv, Untroubled, Early, Closing, StateIn, Deleting,
     PastState, WorkerInv, MarksInv, FreshInv, QueueInv, WaitingInv, Queued,
     Tick, redisVars
<1>7. ActiveInv'
  BY JobQueueAssumption DEF CourseInv, IInv, TypeOK, Active, Terminal, Settled,
     ClientInv, ActiveInv, WorkerInv, Tick, redisVars
<1> QED BY <1>1, <1>2, <1>3, <1>4, <1>5, <1>6, <1>7 DEF CourseInv

LEMMA EnqueueCourse ==
  ASSUME IInv, IInv', CourseInv, NEW j \in Jobs, NEW p \in Priorities, NEW d \in 0..MaxDelay, Enqueue(j, p, d)
  PROVE  CourseInv'
<1>1. FreshInv'
  BY JobQueueAssumption DEF CourseInv, IInv, TypeOK, Active, Terminal, Settled,
     ClientInv, FreshInv, QueueInv, Enqueue, budgets
<1>2. MarksInv'
  BY JobQueueAssumption DEF CourseInv, IInv, TypeOK, Active, Terminal, Settled,
     ClientInv, MarksInv, PastState, Deleting, Enqueue, budgets
<1>3. WaitingInv'
  <2>1. ASSUME NEW k \in Jobs, Queued(k)', Unharmed(k)'
        PROVE  /\ stateKey'[k] # None /\ stateKey'[k].state = "pending"
               /\ jobKey'[k] # None /\ Pending(jobKey'[k])
    <3>1. CASE k = j
      BY <3>1, EnqueuedKeys DEF Pending
    <3>2. CASE k # j
      <4>1. /\ stateKey'[k] = stateKey[k] /\ jobKey'[k] = jobKey[k] /\ marks'[k] = marks[k]
            /\ Queued(k)
        BY <2>1, <3>2 DEF Enqueue, Queued
      <4> QED BY <2>1, <4>1 DEF CourseInv, WaitingInv, Unharmed
    <3> QED BY <3>1, <3>2
  <2>2. ASSUME NEW k \in Jobs, Queued(k)', Unharmed(k)',
               NEW c \in Clients, pc'[c] = "write_record", cur'[c] = k
        PROVE  Pending(data'[c])
    BY <2>2, JobQueueAssumption DEF CourseInv, IInv, TypeOK, Active, Terminal,
       Settled, ClientInv, WorkerInv, QueueInv, Agents, PastState, Enqueue,
       budgets, WaitingInv, Queued, Unharmed, Pending, MarksInv, FreshInv
  <2> QED BY <2>1, <2>2 DEF WaitingInv
<1>4. RankInv'
  BY JobQueueAssumption DEF CourseInv, IInv, TypeOK, Active, Terminal, Settled,
     ClientInv, RankInv, Rank, Reached, PastState, Unharmed, MarksInv,
     WorkerInv, QueueInv, FreshInv, WaitingInv, Queued, Pending, Enqueue,
     budgets
<1>5. AgreementInv'
  BY JobQueueAssumption DEF CourseInv, IInv, TypeOK, Active, Terminal, Settled,
     ClientInv, AgreementInv, Agrees, InHand, PastState, MarksInv, WaitingInv,
     WorkerInv, Pending, Queued, Unharmed, QueueInv, Enqueue, budgets
<1>6. StrandedInv'
  <2>1. ASSUME NEW k \in Jobs, Untroubled(k)', Early(k)', Closing(k)'
        PROVE  StateIn(k, Terminal)'
    <3>1. k # j
      <4>1. jobKey'[j] # None /\ ~jobKey'[j].completed /\ UNCHANGED <<pc, cur>>
        BY EnqueuedKeys DEF Enqueue
      <4>2. \A c \in Clients : cur[c] # j
        BY DEF Enqueue, CourseInv, FreshInv, Agents
      <4> QED BY <2>1, <4>1, <4>2 DEF Closing
    <3>2. /\ stateKey'[k] = stateKey[k] /\ jobKey'[k] = jobKey[k] /\ score'[k] = score[k]
          /\ UNCHANGED <<pc, cur, task, data, popper, marks>>
      BY <3>1 DEF Enqueue
    <3>3. Untroubled(k) /\ Early(k) /\ Closing(k)
      BY <2>1, <3>2 DEF Untroubled, Early, Closing, Deleting, PastState
    <3> QED BY <3>2, <3>3 DEF CourseInv, StrandedInv, StateIn
  <2>2. ASSUME NEW k \in Jobs, Untroubled(k)', popper'[k] # None, cur'[popper'[k]] # k
        PROVE  StateIn(k, Settled)'
    BY <2>2, JobQueueAssumption DEF CourseInv, IInv, TypeOK, Active, Terminal,
       Settled, ClientInv, WorkerInv, QueueInv, PastState, Enqueue, budgets,
       StrandedInv, Untroubled, StateIn, Early, Closing
  <2>3. ASSUME NEW k \in Jobs, Untroubled(k)', NEW v \in Workers, cur'[v] = k,
               pc'[v] = "release" \/ (PastState(v)' /\ task'[v] \in Settled)
        PROVE  StateIn(k, Settled)'
    BY SMTT(30), <2>3, JobQueueAssumption DEF CourseInv, IInv, TypeOK, Active,
       Terminal, Settled, WorkerTasks, Busy, RmwPCs, WorkerPCs, ClientPCs,
       ClientInv, WorkerInv, QueueInv, Agents, PastState, Enqueue, budgets,
       StrandedInv, Untroubled, StateIn
  <2> QED BY <2>1, <2>2, <2>3 DEF StrandedInv
<1>7. ActiveInv'
  BY JobQueueAssumption DEF CourseInv, IInv, TypeOK, Active, Terminal, Settled,
     ClientInv, ActiveInv, WorkerInv, Enqueue, budgets
<1> QED BY <1>1, <1>2, <1>3, <1>4, <1>5, <1>6, <1>7 DEF CourseInv

LEMMA LoopCourse ==
  ASSUME IInv, IInv', CourseInv, NEW w \in Workers, Loop(w)
  PROVE  CourseInv'
<1>1. FreshInv'
  BY JobQueueAssumption DEF CourseInv, IInv, TypeOK, Active, Terminal, Settled,
     ClientInv, FreshInv, QueueInv, Loop, redisVars, budgets
<1>2. MarksInv'
  BY JobQueueAssumption DEF CourseInv, IInv, TypeOK, Active, Terminal, Settled,
     ClientInv, MarksInv, PastState, Deleting, Agents, Loop, redisVars, budgets
<1>3. WaitingInv'
  BY JobQueueAssumption DEF CourseInv, IInv, TypeOK, Active, Terminal, Settled,
     WorkerPCs, ClientPCs, ClientInv, WaitingInv, Pending, Unharmed, Queued,
     MarksInv, FreshInv, Agents, PastState, QueueInv, WorkerInv, Loop,
     redisVars, budgets
<1>4. RankInv'
  BY SMTT(30), JobQueueAssumption DEF CourseInv, IInv, TypeOK, Active,
     Terminal, Settled, WorkerTasks, Busy, RmwPCs, WorkerPCs, ClientPCs,
     ClientInv, RankInv, Rank, Reached, PastState, Unharmed, MarksInv,
     WorkerInv, Agents, QueueInv, FreshInv, WaitingInv, Queued, Pending, Loop,
     redisVars, budgets
<1>5. AgreementInv'
  BY JobQueueAssumption DEF CourseInv, IInv, TypeOK, Active, Terminal, Settled,
     RmwPCs, ClientInv, AgreementInv, Agrees, InHand, PastState, MarksInv,
     WaitingInv, WorkerInv, Agents, Pending, Queued, Unharmed, QueueInv, Loop,
     redisVars, budgets
<1>6. StrandedInv'
  BY JobQueueAssumption DEF CourseInv, IInv, TypeOK, Active, Terminal, Settled,
     WorkerTasks, Busy, RmwPCs, WorkerPCs, ClientPCs, ClientInv, StrandedInv,
     Untroubled, Early, Closing, StateIn, Deleting, PastState, WorkerInv,
     Agents, MarksInv, FreshInv, QueueInv, WaitingInv, Queued, Loop, redisVars,
     budgets
<1>7. ActiveInv'
  BY JobQueueAssumption DEF CourseInv, IInv, TypeOK, Active, Terminal, Settled,
     RmwPCs, ClientInv, ActiveInv, WorkerInv, Agents, Loop, redisVars, budgets
<1> QED BY <1>1, <1>2, <1>3, <1>4, <1>5, <1>6, <1>7 DEF CourseInv

LEMMA PollEmptyCourse ==
  ASSUME IInv, IInv', CourseInv, NEW w \in Workers, PollEmpty(w)
  PROVE  CourseInv'
<1>1. FreshInv'
  BY JobQueueAssumption DEF CourseInv, IInv, TypeOK, Active, Terminal, Settled,
     ClientInv, FreshInv, QueueInv, PollEmpty, Tidy, redisVars, budgets
<1>2. MarksInv'
  BY JobQueueAssumption DEF CourseInv, IInv, TypeOK, Active, Terminal, Settled,
     ClientInv, MarksInv, PastState, Deleting, Agents, PollEmpty, Tidy,
     redisVars, budgets
<1>3. WaitingInv'
  BY JobQueueAssumption DEF CourseInv, IInv, TypeOK, Active, Terminal, Settled,
     ClientInv, WaitingInv, Pending, Unharmed, Queued, MarksInv, FreshInv,
     Agents, PastState, QueueInv, WorkerInv, PollEmpty, Tidy, redisVars,
     budgets
<1>4. RankInv'
  <2>1. ASSUME NEW k \in Jobs, Unharmed(k)', stateKey'[k] # None, popper'[k] = None
        PROVE  stateKey'[k].state = "pending"
    BY <2>1, JobQueueAssumption DEF CourseInv, IInv, TypeOK, Active, Terminal,
       Settled, ClientInv, WorkerInv, QueueInv, PastState, PollEmpty, Tidy,
       redisVars, budgets, RankInv, Unharmed, MarksInv, FreshInv
  <2>2. ASSUME NEW k \in Jobs, Unharmed(k)', stateKey'[k] # None,
               NEW v \in Workers, cur'[v] = k
        PROVE  Rank(stateKey'[k].state) <= Reached(v)'
    <3>1. v # w
      BY <2>2, JobQueueAssumption DEF PollEmpty, IInv, WorkerInv, Busy, RmwPCs
    <3>2. pc'[v] = pc[v] /\ task'[v] = task[v] /\ UNCHANGED <<cur, stateKey, marks>>
      BY <3>1 DEF PollEmpty, IInv, TypeOK, redisVars, Agents
    <3>3. Reached(v)' = Reached(v)
      BY <3>2 DEF Reached
    <3> QED BY <2>2, <3>2, <3>3 DEF CourseInv, RankInv, Unharmed
  <2> QED BY <2>1, <2>2 DEF RankInv
<1>5. AgreementInv'
  BY JobQueueAssumption DEF CourseInv, IInv, TypeOK, Active, Terminal, Settled,
     RmwPCs, ClientInv, AgreementInv, Agrees, InHand, PastState, MarksInv,
     WaitingInv, WorkerInv, Agents, Pending, Queued, Unharmed, QueueInv,
     PollEmpty, Tidy, redisVars, budgets
<1>6. StrandedInv'
  BY JobQueueAssumption DEF CourseInv, IInv, TypeOK, Active, Terminal, Settled,
     WorkerTasks, Busy, RmwPCs, WorkerPCs, ClientPCs, ClientInv, StrandedInv,
     Untroubled, Early, Closing, StateIn, Deleting, PastState, WorkerInv,
     Agents, MarksInv, FreshInv, QueueInv, WaitingInv, Queued, PollEmpty, Tidy,
     redisVars, budgets
<1>7. ActiveInv'
  BY JobQueueAssumption DEF CourseInv, IInv, TypeOK, Active, Terminal, Settled,
     RmwPCs, ClientInv, ActiveInv, WorkerInv, Agents, PollEmpty, Tidy,
     redisVars, budgets
<1> QED BY <1>1, <1>2, <1>3, <1>4, <1>5, <1>6, <1>7 DEF CourseInv

LEMMA PopCourse ==
  ASSUME IInv, IInv', CourseInv, NEW w \in Workers, NEW j \in Jobs, Pop(w, j)
  PROVE  CourseInv'
<1>1. FreshInv'
  BY JobQueueAssumption DEF CourseInv, IInv, TypeOK, Active, Terminal, Settled,
     ClientInv, FreshInv, QueueInv, Pop, budgets
<1>2. MarksInv'
  BY JobQueueAssumption DEF CourseInv, IInv, TypeOK, Active, Terminal, Settled,
     ClientInv, MarksInv, PastState, Deleting, Pop, budgets
<1>3. WaitingInv'
  <2>1. ASSUME NEW k \in Jobs, Queued(k)', Unharmed(k)'
        PROVE  /\ stateKey'[k] # None /\ stateKey'[k].state = "pending"
               /\ jobKey'[k] # None /\ Pending(jobKey'[k])
    BY <2>1, JobQueueAssumption DEF CourseInv, IInv, TypeOK, Active, Terminal,
       Settled, ClientInv, WorkerInv, QueueInv, Agents, PastState, Pop,
       budgets, WaitingInv, Queued, Unharmed, Pending, MarksInv, FreshInv
  <2>2. ASSUME NEW k \in Jobs, Queued(k)', Unharmed(k)',
               NEW c \in Clients, pc'[c] = "write_record", cur'[c] = k
        PROVE  Pending(data'[c])
    BY <2>2, JobQueueAssumption DEF CourseInv, IInv, TypeOK, Active, Terminal,
       Settled, WorkerTasks, Busy, RmwPCs, ClientInv, WorkerInv, QueueInv,
       Agents, PastState, Pop, budgets, WaitingInv, Queued, Unharmed, Pending,
       MarksInv, FreshInv
  <2> QED BY <2>1, <2>2 DEF WaitingInv
<1>4. RankInv'
  BY JobQueueAssumption DEF CourseInv, IInv, TypeOK, Active, Terminal, Settled,
     WorkerTasks, Busy, ClientInv, RankInv, Rank, Reached, PastState, Unharmed,
     MarksInv, WorkerInv, Agents, QueueInv, FreshInv, WaitingInv, Queued,
     Pending, Pop, budgets
<1>5. AgreementInv'
  BY JobQueueAssumption DEF CourseInv, IInv, TypeOK, Active, Terminal, Settled,
     WorkerTasks, Busy, RmwPCs, WorkerPCs, ClientPCs, ClientInv, AgreementInv,
     Agrees, InHand, PastState, MarksInv, WaitingInv, WorkerInv, Agents,
     Pending, Queued, Unharmed, QueueInv, Pop, budgets
<1>6. StrandedInv'
  <2>1. ASSUME NEW k \in Jobs, Untroubled(k)', Early(k)', Closing(k)'
        PROVE  StateIn(k, Terminal)'
    <3>1. /\ UNCHANGED <<stateKey, jobKey, score, task, data, marks>>
          /\ \A a \in Agents : a # w => pc'[a] = pc[a] /\ cur'[a] = cur[a]
          /\ cur'[w] = j /\ popper[j] = None
          /\ k # j => popper'[k] = popper[k]
      BY DEF Pop, IInv, TypeOK, QueueInv, Queued
    <3>2. \A c \in Clients : c \in Agents /\ c # w
      BY JobQueueAssumption DEF Agents
    <3>3. Untroubled(k) /\ Early(k) /\ Closing(k)
      BY <2>1, <3>1, <3>2 DEF Untroubled, Early, Closing, Deleting, PastState,
         Agents
    <3> QED BY <3>1, <3>3 DEF CourseInv, StrandedInv, StateIn
  <2>2. ASSUME NEW k \in Jobs, Untroubled(k)', popper'[k] # None, cur'[popper'[k]] # k
        PROVE  StateIn(k, Settled)'
    <3>1. /\ k # j /\ popper'[k] = popper[k] /\ UNCHANGED <<stateKey, marks>>
      BY <2>2 DEF Pop, IInv, TypeOK
    <3>2. cur[popper[k]] # k
      BY <2>2, <3>1, JobQueueAssumption DEF Pop, IInv, TypeOK, WorkerInv, Busy,
         RmwPCs
    <3> QED BY <2>2, <3>1, <3>2 DEF CourseInv, StrandedInv, StateIn, Untroubled
  <2>3. ASSUME NEW k \in Jobs, Untroubled(k)', NEW v \in Workers, cur'[v] = k,
               pc'[v] = "release" \/ (PastState(v)' /\ task'[v] \in Settled)
        PROVE  StateIn(k, Settled)'
    BY <2>3, JobQueueAssumption DEF CourseInv, IInv, TypeOK, Active, Terminal,
       Settled, ClientInv, WorkerInv, QueueInv, Agents, PastState, Pop,
       budgets, StrandedInv, Untroubled, StateIn
  <2> QED BY <2>1, <2>2, <2>3 DEF StrandedInv
<1>7. ActiveInv'
  BY JobQueueAssumption DEF CourseInv, IInv, TypeOK, Active, Terminal, Settled,
     RmwPCs, ClientInv, ActiveInv, WorkerInv, Pop, budgets
<1> QED BY <1>1, <1>2, <1>3, <1>4, <1>5, <1>6, <1>7 DEF CourseInv

LEMMA GetJobCourse ==
  ASSUME IInv, IInv', CourseInv, NEW w \in Workers, GetJob(w)
  PROVE  CourseInv'
<1>1. FreshInv'
  BY JobQueueAssumption DEF CourseInv, IInv, TypeOK, Active, Terminal, Settled,
     ClientInv, FreshInv, QueueInv, GetJob, SetState, Tidy, redisVars, budgets
<1>2. MarksInv'
  BY JobQueueAssumption DEF CourseInv, IInv, TypeOK, Active, Terminal, Settled,
     ClientInv, MarksInv, PastState, Deleting, Agents, GetJob, SetState, Tidy,
     redisVars, budgets
<1>3. WaitingInv'
  BY JobQueueAssumption DEF CourseInv, IInv, TypeOK, Active, Terminal, Settled,
     WorkerTasks, Busy, RmwPCs, WorkerPCs, ClientPCs, ClientInv, WaitingInv,
     Pending, Unharmed, Queued, MarksInv, FreshInv, Agents, PastState,
     QueueInv, WorkerInv, GetJob, SetState, Tidy, redisVars, budgets
<1>4. RankInv'
  <2>1. ASSUME NEW k \in Jobs, Unharmed(k)', stateKey'[k] # None, popper'[k] = None
        PROVE  stateKey'[k].state = "pending"
    BY <2>1, JobQueueAssumption DEF CourseInv, IInv, TypeOK, Active, Terminal,
       Settled, ClientInv, WorkerInv, QueueInv, PastState, GetJob, SetState,
       Tidy, redisVars, budgets, RankInv, Unharmed, MarksInv, FreshInv
  <2>2. ASSUME NEW k \in Jobs, Unharmed(k)', stateKey'[k] # None,
               NEW v \in Workers, cur'[v] = k
        PROVE  Rank(stateKey'[k].state) <= Reached(v)'
    BY <2>2, JobQueueAssumption DEF CourseInv, IInv, TypeOK, Active, Terminal,
       Settled, ClientInv, WorkerInv, QueueInv, Agents, PastState, GetJob,
       SetState, Tidy, redisVars, budgets, RankInv, Rank, Reached, Unharmed,
       JobStates
  <2> QED BY <2>1, <2>2 DEF RankInv
<1>5. AgreementInv'
  <2>1. ASSUME NEW k \in Jobs, marks'[k] = {}, popper'[k] # None
        PROVE  stateKey'[k] # None /\ jobKey'[k] # None
    BY <2>1, JobQueueAssumption DEF CourseInv, IInv, TypeOK, Active, Terminal,
       Settled, ClientInv, WorkerInv, QueueInv, PastState, GetJob, SetState,
       Tidy, redisVars, budgets, AgreementInv, MarksInv, WaitingInv, Unharmed
  <2>2. ASSUME NEW k \in Jobs, marks'[k] = {}, popper'[k] # None,
               cur'[popper'[k]] = k
        PROVE  InHand(popper[k])'
    BY <2>2, JobQueueAssumption DEF CourseInv, IInv, TypeOK, Active, Terminal,
       Settled, WorkerTasks, Busy, WorkerPCs, ClientPCs, ClientInv, WorkerInv,
       QueueInv, Agents, PastState, GetJob, SetState, Tidy, redisVars, budgets,
       AgreementInv, MarksInv, InHand, Agrees
  <2>3. ASSUME NEW k \in Jobs, marks'[k] = {}, popper'[k] # None,
               cur'[popper'[k]] # k
        PROVE  Agrees(k)'
    BY SMTT(30), <2>3, JobQueueAssumption DEF CourseInv, IInv, TypeOK, Active,
       Terminal, Settled, WorkerTasks, Busy, RmwPCs, WorkerPCs, ClientPCs,
       ClientInv, WorkerInv, QueueInv, Agents, PastState, GetJob, SetState,
       Tidy, redisVars, budgets, AgreementInv, MarksInv, Agrees, InHand
  <2> QED BY <2>1, <2>2, <2>3 DEF AgreementInv
<1>6. StrandedInv'
  <2>1. ASSUME NEW k \in Jobs, Untroubled(k)', Early(k)', Closing(k)'
        PROVE  StateIn(k, Terminal)'
    <3>1. /\ UNCHANGED <<stateKey, jobKey, score, data, marks, popper>>
          /\ \A a \in Agents : a # w => pc'[a] = pc[a] /\ cur'[a] = cur[a] /\ task'[a] = task[a]
          /\ pc'[w] # "get"
      BY DEF GetJob, SetState, IInv, TypeOK, Agents, redisVars
    <3>2. \A c \in Clients : c \in Agents /\ c # w
      BY JobQueueAssumption DEF Agents
    <3>3. Untroubled(k) /\ Early(k) /\ Closing(k)
      BY <2>1, <3>1, <3>2 DEF Untroubled, Early, Closing, Deleting, PastState,
         Agents
    <3> QED BY <3>1, <3>3 DEF CourseInv, StrandedInv, StateIn
  <2>2. ASSUME NEW k \in Jobs, Untroubled(k)', popper'[k] # None, cur'[popper'[k]] # k
        PROVE  StateIn(k, Settled)'
    BY <2>2, JobQueueAssumption DEF CourseInv, IInv, TypeOK, Active, Terminal,
       Settled, RmwPCs, ClientInv, WorkerInv, QueueInv, Agents, PastState,
       GetJob, SetState, Tidy, redisVars, budgets, StrandedInv, Untroubled,
       StateIn, Early, Closing
  <2>3. ASSUME NEW k \in Jobs, Untroubled(k)', NEW v \in Workers, cur'[v] = k,
               pc'[v] = "release" \/ (PastState(v)' /\ task'[v] \in Settled)
        PROVE  StateIn(k, Settled)'
    BY <2>3, JobQueueAssumption DEF CourseInv, IInv, TypeOK, Active, Terminal,
       Settled, RmwPCs, WorkerPCs, ClientPCs, ClientInv, WorkerInv, QueueInv,
       Agents, PastState, GetJob, SetState, Tidy, redisVars, budgets,
       StrandedInv, Untroubled, StateIn
  <2> QED BY <2>1, <2>2, <2>3 DEF StrandedInv
<1>7. ActiveInv'
  BY JobQueueAssumption DEF CourseInv, IInv, TypeOK, Active, Terminal, Settled,
     RmwPCs, ClientInv, ActiveInv, WorkerInv, Agents, GetJob, SetState, Tidy,
     redisVars, budgets
<1> QED BY <1>1, <1>2, <1>3, <1>4, <1>5, <1>6, <1>7 DEF CourseInv

LEMMA AssignCourse ==
  ASSUME IInv, IInv', CourseInv, NEW w \in Workers, Assign(w)
  PROVE  CourseInv'
<1>1. FreshInv'
  BY JobQueueAssumption DEF CourseInv, IInv, TypeOK, Active, Terminal, Settled,
     ClientInv, FreshInv, QueueInv, Assign, SetState, budgets
<1>2. MarksInv'
  <2>1. ASSUME NEW c \in Clients, pc'[c] # "idle"
        PROVE  /\ "call" \in marks'[cur'[c]]
               /\ pc'[c] = "write_state" \/ (PastState(c)' /\ task'[c] \in Terminal)
                    => "kill" \in marks'[cur'[c]]
               /\ Deleting(c)' \/ (pc'[c] = "write_record" /\ data'[c].completed)
                    => "kill" \in marks'[cur'[c]] \/ popper'[cur'[c]] # None
               /\ PastState(c)' => task'[c] \in Terminal \cup {"error", "progress", "checkpoint"}
    <3>1. /\ pc'[c] = pc[c] /\ cur'[c] = cur[c] /\ task'[c] = task[c] /\ data'[c] = data[c]
          /\ UNCHANGED <<marks, popper>>
      BY JobQueueAssumption DEF Assign, SetState
    <3> QED BY <2>1, <3>1 DEF CourseInv, MarksInv, PastState, Deleting
  <2>2. ASSUME NEW k \in Jobs, jobKey'[k] # None, jobKey'[k].completed
        PROVE  "kill" \in marks'[k] \/ popper'[k] # None
    <3>1. CASE k = cur[w]
      BY <3>1, HandsApart DEF Assign
    <3>2. CASE k # cur[w]
      BY <2>2, <3>2 DEF Assign, CourseInv, MarksInv
    <3> QED BY <3>1, <3>2
  <2> QED BY <2>1, <2>2 DEF MarksInv
<1>3. WaitingInv'
  BY JobQueueAssumption DEF CourseInv, IInv, TypeOK, Active, Terminal, Settled,
     RmwPCs, WorkerPCs, ClientPCs, ClientInv, WaitingInv, Pending, Unharmed,
     Queued, MarksInv, FreshInv, PastState, QueueInv, WorkerInv, Assign,
     SetState, budgets
<1>4. RankInv'
  BY JobQueueAssumption DEF CourseInv, IInv, TypeOK, Active, Terminal, Settled,
     WorkerTasks, Busy, RmwPCs, WorkerPCs, ClientPCs, ClientInv, RankInv, Rank,
     Reached, PastState, Unharmed, MarksInv, WorkerInv, QueueInv, FreshInv,
     WaitingInv, Queued, Pending, Assign, SetState, budgets
<1>5. AgreementInv'
  <2>1. ASSUME NEW k \in Jobs, marks'[k] = {}, popper'[k] # None
        PROVE  stateKey'[k] # None /\ jobKey'[k] # None
    <3>1. [jobData[w] EXCEPT !.worker = w] \in JobRecord
      BY DEF IInv, WorkerInv, Assign, JobRecord
    <3>2. jobKey'[k] = jobKey[k] \/ jobKey'[k] = [jobData[w] EXCEPT !.worker = w]
      BY DEF Assign
    <3> QED BY <2>1, <3>1, <3>2, AbsentAssumption DEF Assign, CourseInv,
       AgreementInv
  <2>2. ASSUME NEW k \in Jobs, marks'[k] = {}, popper'[k] # None,
               cur'[popper'[k]] = k
        PROVE  InHand(popper[k])'
    BY <2>2, JobQueueAssumption DEF CourseInv, IInv, TypeOK, Active, Terminal,
       Settled, ClientInv, WorkerInv, QueueInv, PastState, Assign, SetState,
       budgets, AgreementInv, MarksInv, InHand, Agrees
  <2>3. ASSUME NEW k \in Jobs, marks'[k] = {}, popper'[k] # None,
               cur'[popper'[k]] # k
        PROVE  Agrees(k)'
    BY <2>3, JobQueueAssumption DEF CourseInv, IInv, TypeOK, Active, Terminal,
       Settled, ClientInv, WorkerInv, QueueInv, PastState, Assign, SetState,
       budgets, AgreementInv, MarksInv, Agrees, InHand
  <2> QED BY <2>1, <2>2, <2>3 DEF AgreementInv
<1>6. StrandedInv'
  <2>1. ASSUME NEW k \in Jobs, Untroubled(k)', Early(k)', Closing(k)'
        PROVE  StateIn(k, Terminal)'
    BY <2>1, JobQueueAssumption DEF CourseInv, IInv, TypeOK, Active, Terminal,
       Settled, ClientInv, WorkerInv, QueueInv, PastState, Assign, SetState,
       budgets, StrandedInv, Untroubled, Early, Closing, StateIn, Deleting,
       MarksInv, FreshInv
  <2>2. ASSUME NEW k \in Jobs, Untroubled(k)', popper'[k] # None, cur'[popper'[k]] # k
        PROVE  StateIn(k, Settled)'
    BY <2>2, JobQueueAssumption DEF CourseInv, IInv, TypeOK, Active, Terminal,
       Settled, ClientInv, WorkerInv, QueueInv, PastState, Assign, SetState,
       budgets, StrandedInv, Untroubled, StateIn, Early, Closing
  <2>3. ASSUME NEW k \in Jobs, Untroubled(k)', NEW v \in Workers, cur'[v] = k,
               pc'[v] = "release" \/ (PastState(v)' /\ task'[v] \in Settled)
        PROVE  StateIn(k, Settled)'
    BY <2>3, JobQueueAssumption DEF CourseInv, IInv, TypeOK, Active, Terminal,
       Settled, ClientInv, WorkerInv, QueueInv, Agents, PastState, Assign,
       SetState, budgets, StrandedInv, Untroubled, StateIn
  <2> QED BY <2>1, <2>2, <2>3 DEF StrandedInv
<1>7. ActiveInv'
  BY JobQueueAssumption DEF CourseInv, IInv, TypeOK, Active, Terminal, Settled,
     RmwPCs, ClientInv, ActiveInv, WorkerInv, Assign, SetState, budgets
<1> QED BY <1>1, <1>2, <1>3, <1>4, <1>5, <1>6, <1>7 DEF CourseInv

LEMMA BeginCourse ==
  ASSUME IInv, IInv', CourseInv, NEW w \in Workers, Begin(w)
  PROVE  CourseInv'
<1>1. FreshInv'
  BY JobQueueAssumption DEF CourseInv, IInv, TypeOK, Active, Terminal, Settled,
     ClientInv, FreshInv, QueueInv, Begin, redisVars, budgets
<1>2. MarksInv'
  BY JobQueueAssumption DEF CourseInv, IInv, TypeOK, Active, Terminal, Settled,
     ClientInv, MarksInv, PastState, Deleting, Begin, redisVars, budgets
<1>3. WaitingInv'
  BY JobQueueAssumption DEF CourseInv, IInv, TypeOK, Active, Terminal, Settled,
     ClientInv, WaitingInv, Pending, Unharmed, Queued, MarksInv, FreshInv,
     PastState, QueueInv, WorkerInv, Begin, redisVars, budgets
<1>4. RankInv'
  BY JobQueueAssumption DEF CourseInv, IInv, TypeOK, Active, Terminal, Settled,
     ClientInv, RankInv, Rank, Reached, PastState, Unharmed, MarksInv,
     WorkerInv, QueueInv, FreshInv, WaitingInv, Queued, Pending, Begin,
     redisVars, budgets
<1>5. AgreementInv'
  BY JobQueueAssumption DEF CourseInv, IInv, TypeOK, Active, Terminal, Settled,
     RmwPCs, ClientInv, AgreementInv, Agrees, InHand, PastState, MarksInv,
     WaitingInv, WorkerInv, Pending, Queued, Unharmed, QueueInv, Begin,
     redisVars, budgets
<1>6. StrandedInv'
  BY JobQueueAssumption DEF CourseInv, IInv, TypeOK, Active, Terminal, Settled,
     WorkerTasks, Busy, ClientInv, StrandedInv, Untroubled, Early, Closing,
     StateIn, Deleting, PastState, WorkerInv, MarksInv, FreshInv, QueueInv,
     WaitingInv, Queued, Begin, redisVars, budgets
<1>7. ActiveInv'
  BY JobQueueAssumption DEF CourseInv, IInv, TypeOK, Active, Terminal, Settled,
     ClientInv, ActiveInv, WorkerInv, Begin, redisVars, budgets
<1> QED BY <1>1, <1>2, <1>3, <1>4, <1>5, <1>6, <1>7 DEF CourseInv

LEMMA TranslateCourse ==
  ASSUME IInv, IInv', CourseInv, NEW w \in Workers, Translate(w)
  PROVE  CourseInv'
<1>1. FreshInv'
  BY JobQueueAssumption DEF CourseInv, IInv, TypeOK, Active, Terminal, Settled,
     ClientInv, FreshInv, QueueInv, Translate, SetState, Outcomes, redisVars,
     budgets
<1>2. MarksInv'
  BY JobQueueAssumption DEF CourseInv, IInv, TypeOK, Active, Terminal, Settled,
     ClientInv, MarksInv, PastState, Deleting, Translate, SetState, Outcomes,
     redisVars, budgets
<1>3. WaitingInv'
  BY JobQueueAssumption DEF CourseInv, IInv, TypeOK, Active, Terminal, Settled,
     ClientInv, WaitingInv, Pending, Unharmed, Queued, MarksInv, FreshInv,
     PastState, QueueInv, WorkerInv, Translate, SetState, Outcomes, redisVars,
     budgets
<1>4. RankInv'
  <2>1. ASSUME NEW k \in Jobs, Unharmed(k)', stateKey'[k] # None, popper'[k] = None
        PROVE  stateKey'[k].state = "pending"
    BY <2>1, JobQueueAssumption DEF CourseInv, IInv, TypeOK, Active, Terminal,
       Settled, ClientInv, WorkerInv, QueueInv, PastState, Translate, SetState,
       Outcomes, redisVars, budgets, RankInv, Unharmed, MarksInv, FreshInv
  <2>2. ASSUME NEW k \in Jobs, Unharmed(k)', stateKey'[k] # None,
               NEW v \in Workers, cur'[v] = k
        PROVE  Rank(stateKey'[k].state) <= Reached(v)'
    BY <2>2, JobQueueAssumption DEF CourseInv, IInv, TypeOK, Active, Terminal,
       Settled, WorkerPCs, ClientPCs, ClientInv, WorkerInv, QueueInv,
       PastState, Translate, SetState, Outcomes, redisVars, budgets, RankInv,
       Rank, Reached, Unharmed, JobStates
  <2> QED BY <2>1, <2>2 DEF RankInv
<1>5. AgreementInv'
  BY JobQueueAssumption DEF CourseInv, IInv, TypeOK, Active, Terminal, Settled,
     ClientInv, AgreementInv, Agrees, InHand, PastState, MarksInv, WaitingInv,
     WorkerInv, Pending, Queued, Unharmed, QueueInv, Translate, SetState,
     Outcomes, redisVars, budgets
<1>6. StrandedInv'
  BY JobQueueAssumption DEF CourseInv, IInv, TypeOK, Active, Terminal, Settled,
     ClientInv, StrandedInv, Untroubled, Early, Closing, StateIn, Deleting,
     PastState, WorkerInv, MarksInv, FreshInv, QueueInv, WaitingInv, Queued,
     Translate, SetState, Outcomes, redisVars, budgets
<1>7. ActiveInv'
  BY JobQueueAssumption DEF CourseInv, IInv, TypeOK, Active, Terminal, Settled,
     RmwPCs, ClientInv, ActiveInv, WorkerInv, Translate, SetState, Outcomes,
     redisVars, budgets
<1> QED BY <1>1, <1>2, <1>3, <1>4, <1>5, <1>6, <1>7 DEF CourseInv

LEMMA ReleaseCourse ==
  ASSUME IInv, IInv', CourseInv, NEW w \in Workers, Release(w)
  PROVE  CourseInv'
<1>1. FreshInv'
  BY JobQueueAssumption DEF CourseInv, IInv, TypeOK, Active, Terminal, Settled,
     ClientInv, FreshInv, QueueInv, Release, Tidy, redisVars, budgets
<1>2. MarksInv'
  BY JobQueueAssumption DEF CourseInv, IInv, TypeOK, Active, Terminal, Settled,
     ClientInv, MarksInv, PastState, Deleting, Release, Tidy, redisVars,
     budgets
<1>3. WaitingInv'
  BY JobQueueAssumption DEF CourseInv, IInv, TypeOK, Active, Terminal, Settled,
     ClientInv, WaitingInv, Pending, Unharmed, Queued, MarksInv, FreshInv,
     PastState, QueueInv, WorkerInv, Release, Tidy, redisVars, budgets
<1>4. RankInv'
  <2>1. ASSUME NEW k \in Jobs, Unharmed(k)', stateKey'[k] # None, popper'[k] = None
        PROVE  stateKey'[k].state = "pending"
    BY <2>1, JobQueueAssumption DEF CourseInv, IInv, TypeOK, Active, Terminal,
       Settled, ClientInv, WorkerInv, QueueInv, PastState, Release, Tidy,
       redisVars, budgets, RankInv, Unharmed, MarksInv, FreshInv
  <2>2. ASSUME NEW k \in Jobs, Unharmed(k)', stateKey'[k] # None,
               NEW v \in Workers, cur'[v] = k
        PROVE  Rank(stateKey'[k].state) <= Reached(v)'
    BY <2>2, JobQueueAssumption DEF CourseInv, IInv, TypeOK, Active, Terminal,
       Settled, WorkerTasks, Busy, ClientInv, WorkerInv, QueueInv, Agents,
       PastState, Release, Tidy, redisVars, budgets, RankInv, Rank, Reached,
       Unharmed, JobStates
  <2> QED BY <2>1, <2>2 DEF RankInv
<1>5. AgreementInv'
  BY JobQueueAssumption DEF CourseInv, IInv, TypeOK, Active, Terminal, Settled,
     ClientInv, AgreementInv, Agrees, InHand, PastState, MarksInv, WaitingInv,
     WorkerInv, Pending, Queued, Unharmed, QueueInv, Release, Tidy, redisVars,
     budgets
<1>6. StrandedInv'
  BY JobQueueAssumption DEF CourseInv, IInv, TypeOK, Active, Terminal, Settled,
     WorkerTasks, Busy, ClientInv, StrandedInv, Untroubled, Early, Closing,
     StateIn, Deleting, PastState, WorkerInv, MarksInv, FreshInv, QueueInv,
     WaitingInv, Queued, Release, Tidy, redisVars, budgets
<1>7. ActiveInv'
  BY JobQueueAssumption DEF CourseInv, IInv, TypeOK, Active, Terminal, Settled,
     ClientInv, ActiveInv, WorkerInv, Release, Tidy, redisVars, budgets
<1> QED BY <1>1, <1>2, <1>3, <1>4, <1>5, <1>6, <1>7 DEF CourseInv

LEMMA WriteStateCourse ==
  ASSUME IInv, IInv', CourseInv, NEW a \in Agents, WriteState(a)
  PROVE  CourseInv'
<1>1. FreshInv'
  BY JobQueueAssumption DEF CourseInv, IInv, TypeOK, Active, Terminal, Settled,
     ClientInv, FreshInv, QueueInv, WriteState, WorkerId, budgets
<1>2. MarksInv'
  BY JobQueueAssumption DEF CourseInv, IInv, TypeOK, Active, Terminal, Settled,
     ClientInv, MarksInv, PastState, Deleting, WriteState, WorkerId, budgets
<1>3. WaitingInv'
  BY JobQueueAssumption DEF CourseInv, IInv, TypeOK, Active, Terminal, Settled,
     ClientInv, WaitingInv, Pending, Unharmed, Queued, MarksInv, FreshInv,
     Agents, PastState, QueueInv, WorkerInv, WriteState, WorkerId, budgets
<1>4. RankInv'
  BY JobQueueAssumption DEF CourseInv, IInv, TypeOK, Active, Terminal, Settled,
     WorkerTasks, Busy, RmwPCs, WorkerPCs, ClientPCs, ClientInv, RankInv, Rank,
     Reached, PastState, Unharmed, MarksInv, WorkerInv, Agents, QueueInv,
     FreshInv, WaitingInv, Queued, Pending, WriteState, WorkerId, budgets
<1>5. AgreementInv'
  <2>1. ASSUME NEW k \in Jobs, marks'[k] = {}, popper'[k] # None
        PROVE  stateKey'[k] # None /\ jobKey'[k] # None
    <3>1. stateKey'[k] = stateKey[k] \/ stateKey'[k] \in StateRecord
      BY DEF WriteState, WorkerId, IInv, TypeOK, WorkerInv, ClientInv,
         WorkerTasks, StateRecord, JobStates, Settled, RmwPCs, Agents
    <3> QED BY <2>1, <3>1, AbsentAssumption DEF WriteState, CourseInv,
       AgreementInv
  <2>2. ASSUME NEW k \in Jobs, marks'[k] = {}, popper'[k] # None,
               cur'[popper'[k]] = k
        PROVE  InHand(popper[k])'
    BY <2>2, JobQueueAssumption DEF CourseInv, IInv, TypeOK, Active, Terminal,
       Settled, RmwPCs, ClientInv, WorkerInv, QueueInv, Agents, PastState,
       WriteState, WorkerId, budgets, AgreementInv, MarksInv, InHand, Agrees
  <2>3. ASSUME NEW k \in Jobs, marks'[k] = {}, popper'[k] # None,
               cur'[popper'[k]] # k
        PROVE  Agrees(k)'
    BY <2>3, JobQueueAssumption DEF CourseInv, IInv, TypeOK, Active, Terminal,
       Settled, RmwPCs, ClientInv, WorkerInv, QueueInv, Agents, PastState,
       WriteState, WorkerId, budgets, AgreementInv, MarksInv, Agrees, InHand
  <2> QED BY <2>1, <2>2, <2>3 DEF AgreementInv
<1>6. StrandedInv'
  BY JobQueueAssumption DEF CourseInv, IInv, TypeOK, Active, Terminal, Settled,
     ClientInv, StrandedInv, Untroubled, Early, Closing, StateIn, Deleting,
     PastState, WorkerInv, Agents, MarksInv, FreshInv, QueueInv, WaitingInv,
     Queued, WriteState, WorkerId, budgets
<1>7. ActiveInv'
  BY JobQueueAssumption DEF CourseInv, IInv, TypeOK, Active, Terminal, Settled,
     RmwPCs, ClientInv, ActiveInv, WorkerInv, WriteState, WorkerId, budgets
<1> QED BY <1>1, <1>2, <1>3, <1>4, <1>5, <1>6, <1>7 DEF CourseInv

LEMMA ReadRecordCourse ==
  ASSUME IInv, IInv', CourseInv, NEW a \in Agents, ReadRecord(a)
  PROVE  CourseInv'
<1>1. FreshInv'
  BY JobQueueAssumption DEF CourseInv, IInv, TypeOK, Active, Terminal, Settled,
     ClientInv, FreshInv, QueueInv, ReadRecord, Return, Returned, NextTask,
     redisVars, budgets
<1>2. MarksInv'
  BY JobQueueAssumption DEF CourseInv, IInv, TypeOK, Active, Terminal, Settled,
     ClientInv, MarksInv, PastState, Deleting, Agents, ReadRecord, Return,
     Returned, NextTask, redisVars, budgets
<1>3. WaitingInv'
  BY SMTT(30), JobQueueAssumption DEF CourseInv, IInv, TypeOK, Active,
     Terminal, Settled, WorkerTasks, Busy, RmwPCs, WorkerPCs, ClientPCs,
     ClientInv, WaitingInv, Pending, Unharmed, Queued, MarksInv, FreshInv,
     Agents, PastState, QueueInv, WorkerInv, ReadRecord, Return, Returned,
     NextTask, redisVars, budgets
<1>4. RankInv'
  <2>1. ASSUME NEW k \in Jobs, Unharmed(k)', stateKey'[k] # None, popper'[k] = None
        PROVE  stateKey'[k].state = "pending"
    BY <2>1, JobQueueAssumption DEF CourseInv, IInv, TypeOK, Active, Terminal,
       Settled, ClientInv, WorkerInv, QueueInv, PastState, ReadRecord, Return,
       Returned, NextTask, redisVars, budgets, RankInv, Unharmed, MarksInv,
       FreshInv
  <2>2. ASSUME NEW k \in Jobs, Unharmed(k)', stateKey'[k] # None,
               NEW v \in Workers, cur'[v] = k
        PROVE  Rank(stateKey'[k].state) <= Reached(v)'
    BY <2>2, JobQueueAssumption DEF CourseInv, IInv, TypeOK, Active, Terminal,
       Settled, WorkerTasks, Busy, ClientInv, WorkerInv, QueueInv, Agents,
       PastState, ReadRecord, Return, Returned, NextTask, redisVars, budgets,
       RankInv, Rank, Reached, Unharmed, JobStates
  <2> QED BY <2>1, <2>2 DEF RankInv
<1>5. AgreementInv'
  BY JobQueueAssumption DEF CourseInv, IInv, TypeOK, Active, Terminal, Settled,
     RmwPCs, ClientInv, AgreementInv, Agrees, InHand, PastState, MarksInv,
     WaitingInv, WorkerInv, Agents, Pending, Queued, Unharmed, QueueInv,
     ReadRecord, Return, Returned, NextTask, redisVars, budgets
<1>6. StrandedInv'
  <2>1. ASSUME NEW k \in Jobs, Untroubled(k)', Early(k)', Closing(k)'
        PROVE  StateIn(k, Terminal)'
    BY SMTT(30), <2>1, JobQueueAssumption DEF CourseInv, IInv, TypeOK, Active,
       Terminal, Settled, WorkerTasks, Busy, RmwPCs, WorkerPCs, ClientPCs,
       ClientInv, WorkerInv, QueueInv, Agents, PastState, ReadRecord, Return,
       Returned, NextTask, redisVars, budgets, StrandedInv, Untroubled, Early,
       Closing, StateIn, Deleting, MarksInv, FreshInv
  <2>2. ASSUME NEW k \in Jobs, Untroubled(k)', popper'[k] # None, cur'[popper'[k]] # k
        PROVE  StateIn(k, Settled)'
    BY <2>2, JobQueueAssumption DEF CourseInv, IInv, TypeOK, Active, Terminal,
       Settled, WorkerTasks, Busy, ClientInv, WorkerInv, QueueInv, Agents,
       PastState, ReadRecord, Return, Returned, NextTask, redisVars, budgets,
       StrandedInv, Untroubled, StateIn, Early, Closing
  <2>3. ASSUME NEW k \in Jobs, Untroubled(k)', NEW v \in Workers, cur'[v] = k,
               pc'[v] = "release" \/ (PastState(v)' /\ task'[v] \in Settled)
        PROVE  StateIn(k, Settled)'
    BY <2>3, JobQueueAssumption DEF CourseInv, IInv, TypeOK, Active, Terminal,
       Settled, WorkerTasks, Busy, ClientInv, WorkerInv, QueueInv, Agents,
       PastState, ReadRecord, Return, Returned, NextTask, redisVars, budgets,
       StrandedInv, Untroubled, StateIn
  <2> QED BY <2>1, <2>2, <2>3 DEF StrandedInv
<1>7. ActiveInv'
  BY JobQueueAssumption DEF CourseInv, IInv, TypeOK, Active, Terminal, Settled,
     RmwPCs, ClientInv, ActiveInv, WorkerInv, Agents, ReadRecord, Return,
     Returned, NextTask, redisVars, budgets
<1> QED BY <1>1, <1>2, <1>3, <1>4, <1>5, <1>6, <1>7 DEF CourseInv

LEMMA WriteRecordCourse ==
  ASSUME IInv, IInv', CourseInv, NEW a \in Agents, WriteRecord(a)
  PROVE  CourseInv'
<1>1. FreshInv'
  BY JobQueueAssumption DEF CourseInv, IInv, TypeOK, Active, Terminal, Settled,
     ClientInv, FreshInv, QueueInv, WriteRecord, Updated, WorkerId, Return,
     Returned, NextTask, budgets
<1>2. MarksInv'
  <2>1. ASSUME NEW c \in Clients, pc'[c] # "idle"
        PROVE  /\ "call" \in marks'[cur'[c]]
               /\ pc'[c] = "write_state" \/ (PastState(c)' /\ task'[c] \in Terminal)
                    => "kill" \in marks'[cur'[c]]
               /\ Deleting(c)' \/ (pc'[c] = "write_record" /\ data'[c].completed)
                    => "kill" \in marks'[cur'[c]] \/ popper'[cur'[c]] # None
               /\ PastState(c)' => task'[c] \in Terminal \cup {"error", "progress", "checkpoint"}
    <3>1. CASE c = a
      <4>1. /\ pc'[c] \in {"idle", "read_record"} /\ task'[c] \in {"error", "checkpoint", "pending"}
            /\ pc'[c] # "idle" => cur'[c] = cur[c] /\ task'[c] # "pending"
            /\ UNCHANGED marks /\ pc[c] # "idle"
        BY <3>1, JobQueueAssumption DEF WriteRecord, Return, Returned,
           NextTask, IInv, TypeOK
      <4> QED BY <2>1, <4>1 DEF CourseInv, MarksInv, Deleting, Terminal
    <3>2. CASE c # a
      <4>1. /\ pc'[c] = pc[c] /\ cur'[c] = cur[c] /\ task'[c] = task[c] /\ data'[c] = data[c]
            /\ UNCHANGED <<marks, popper>>
        BY <3>2 DEF WriteRecord, Return
      <4> QED BY <2>1, <4>1 DEF CourseInv, MarksInv, PastState, Deleting
    <3> QED BY <3>1, <3>2
  <2>2. ASSUME NEW k \in Jobs, jobKey'[k] # None, jobKey'[k].completed
        PROVE  "kill" \in marks'[k] \/ popper'[k] # None
    <3>1. UNCHANGED <<marks, popper>> /\ pc[a] = "write_record" /\ data[a] \in JobRecord /\ task[a] \in Tasks
      BY DEF WriteRecord, IInv, DataInv, TypeOK
    <3>2. CASE k # cur[a]
      BY <2>2, <3>1, <3>2 DEF WriteRecord, CourseInv, MarksInv
    <3>3. CASE k = cur[a] /\ a \in Workers
      BY <3>1, <3>3, HandsApart
    <3>4. CASE k = cur[a] /\ a \in Clients
      <4>1. jobKey'[k] = Updated(data[a], task[a], WorkerId(a))
        BY <3>4 DEF WriteRecord, IInv, TypeOK
      <4>2. data[a].completed \/ task[a] \in Terminal
        BY <2>2, <3>1, <4>1, UpdatedField, UpdatedState DEF Tasks
      <4> QED BY <3>1, <3>4, <4>2 DEF CourseInv, MarksInv, PastState
    <3> QED BY <3>2, <3>3, <3>4 DEF Agents
  <2> QED BY <2>1, <2>2 DEF MarksInv
<1>3. WaitingInv'
  <2>1. ASSUME NEW k \in Jobs, Queued(k)', Unharmed(k)'
        PROVE  /\ stateKey'[k] # None /\ stateKey'[k].state = "pending"
               /\ jobKey'[k] # None /\ Pending(jobKey'[k])
    <3>1. /\ UNCHANGED <<queue, stateKey, marks, popper>>
          /\ k # cur[a] => jobKey'[k] = jobKey[k]
          /\ k = cur[a] => jobKey'[k] = Updated(data[a], task[a], WorkerId(a))
          /\ jobKey'[k] \in JobRecord \cup {None}
      BY DEF WriteRecord, IInv, TypeOK
    <3>2. Queued(k) /\ Unharmed(k) /\ popper[k] = None
      BY <2>1, <3>1 DEF Queued, Unharmed, IInv, QueueInv
    <3>3. CASE k # cur[a]
      BY <3>1, <3>2, <3>3 DEF CourseInv, WaitingInv
    <3>4. CASE k = cur[a]
      <4>1. a \in Clients /\ pc[a] = "write_record"
        BY <3>2, <3>4, HandsApart DEF Agents, WriteRecord
      <4>2. task[a] \in {"error", "progress", "checkpoint"} /\ Pending(data[a]) /\ data[a] \in JobRecord
        BY <3>2, <3>4, <4>1 DEF CourseInv, MarksInv, WaitingInv, PastState,
           Unharmed, IInv, DataInv
      <4>3. Pending(jobKey'[k]) /\ jobKey'[k] # None
        BY <3>1, <3>4, <4>2, UpdatedField, UpdatedType, AbsentAssumption DEF
           Pending, WorkerId, Tasks
      <4> QED BY <3>1, <3>2, <4>3 DEF CourseInv, WaitingInv
    <3> QED BY <3>3, <3>4
  <2>2. ASSUME NEW k \in Jobs, Queued(k)', Unharmed(k)',
               NEW c \in Clients, pc'[c] = "write_record", cur'[c] = k
        PROVE  Pending(data'[c])
    <3>1. c # a
      BY <2>2 DEF WriteRecord, Return, Returned, IInv, TypeOK
    <3>2. UNCHANGED <<queue, marks>> /\ pc'[c] = pc[c] /\ cur'[c] = cur[c] /\ data'[c] = data[c]
      BY <3>1 DEF WriteRecord, Return
    <3> QED BY <2>2, <3>2 DEF CourseInv, WaitingInv, Queued, Unharmed
  <2> QED BY <2>1, <2>2 DEF WaitingInv
<1>4. RankInv'
  BY SMTT(30), JobQueueAssumption DEF CourseInv, IInv, TypeOK, Active,
     Terminal, Settled, WorkerTasks, Busy, RmwPCs, WorkerPCs, ClientPCs,
     ClientInv, RankInv, Rank, Reached, PastState, Unharmed, MarksInv,
     WorkerInv, QueueInv, FreshInv, WaitingInv, Queued, Pending, WriteRecord,
     Updated, WorkerId, Return, Returned, NextTask, budgets
<1>5. AgreementInv'
  <2>1. ASSUME NEW k \in Jobs, marks'[k] = {}, popper'[k] # None
        PROVE  stateKey'[k] # None /\ jobKey'[k] # None
    <3>1. jobKey'[k] = jobKey[k] \/ jobKey'[k] \in JobRecord
      <4>1. Updated(data[a], task[a], WorkerId(a)) \in JobRecord
        BY UpdatedType DEF IInv, TypeOK, DataInv, WriteRecord, WorkerId
      <4> QED BY <4>1 DEF WriteRecord
    <3> QED BY <2>1, <3>1, AbsentAssumption DEF WriteRecord, CourseInv,
       AgreementInv
  <2>2. ASSUME NEW k \in Jobs, marks'[k] = {}, popper'[k] # None,
               cur'[popper'[k]] = k
        PROVE  InHand(popper[k])'
    <3> PICK v \in Workers : v = popper'[k]
      BY <2>2 DEF WriteRecord, IInv, TypeOK
    <3>1. v = popper[k] /\ UNCHANGED <<popper, marks, stateKey, jobData>>
      BY <2>2 DEF WriteRecord
    <3>2. cur[v] = k
      BY <2>2, <3>1, JobQueueAssumption DEF WriteRecord, Return, IInv
    <3>3. InHand(v)
      BY <2>2, <3>1, <3>2 DEF CourseInv, AgreementInv
    <3>4. CASE a = v
      <4>1. /\ pc[v] = "write_record" /\ task[v] \in WorkerTasks /\ data[v] \in JobRecord
            /\ jobKey'[k] = Updated(data[v], task[v], v)
            /\ pc'[v] = Returned(v)
        BY <3>1, <3>2, <3>4 DEF WriteRecord, Return, IInv, TypeOK, WorkerInv,
           DataInv, RmwPCs, WorkerId
      <4>2. /\ jobKey'[k].state = task[v] /\ jobKey'[k].worker = v
            /\ jobKey'[k].completed <=> task[v] \in Terminal
        BY <3>1, <3>3, <4>1, UpdatedState, JobQueueAssumption DEF InHand,
           WorkerTasks, JobStates, Settled
      <4>3. stateKey[k].state = task[v] /\ (task[v] = "processing" => ~jobData[v].completed)
        BY <3>2, <3>3, <4>1 DEF InHand, PastState, RmwPCs
      <4>4. CASE task[v] = "processing"
        <5>1. pc'[v] = "assign" /\ ~jobKey'[k].completed
          BY <4>1, <4>2, <4>4 DEF Returned, Settled, Terminal
        <5>2. ~jobData'[v].completed
          BY <3>1, <4>3, <4>4
        <5> QED BY <2>2, <5>1, <5>2 DEF InHand, PastState
      <4>5. CASE task[v] = "translating"
        <5>1. pc'[v] = "begin" /\ ~jobKey'[k].completed
          BY <4>1, <4>2, <4>5 DEF Returned, Settled, Terminal
        <5> QED BY <2>2, <5>1 DEF InHand, RmwPCs, PastState
      <4>6. CASE task[v] \in Settled
        <5>1. pc'[v] = "release"
          BY <4>1, <4>6, JobQueueAssumption DEF Returned
        <5>2. Agrees(k)'
          BY <3>1, <4>2, <4>3 DEF Agrees
        <5> QED BY <2>2, <5>1, <5>2 DEF InHand, RmwPCs, PastState
      <4> QED BY <4>1, <4>4, <4>5, <4>6 DEF WorkerTasks, Active
    <3>5. CASE a # v
      <4>1. cur[a] # k
        BY <2>2, <3>1, <3>2, <3>5, HandsApart, ClientMark DEF Agents,
           WriteRecord
      <4>2. pc'[v] = pc[v] /\ task'[v] = task[v] /\ data'[v] = data[v] /\ jobKey'[k] = jobKey[k]
        BY <3>1, <3>5, <4>1 DEF WriteRecord, Return
      <4> QED BY <2>2, <3>1, <3>2, <3>3, <4>2 DEF InHand, Agrees, PastState
    <3> QED BY <3>4, <3>5
  <2>3. ASSUME NEW k \in Jobs, marks'[k] = {}, popper'[k] # None,
               cur'[popper'[k]] # k
        PROVE  Agrees(k)'
    BY SMTT(30), <2>3, JobQueueAssumption DEF CourseInv, IInv, TypeOK, Active,
       Terminal, Settled, WorkerTasks, Busy, RmwPCs, WorkerPCs, ClientPCs,
       ClientInv, WorkerInv, QueueInv, Agents, PastState, WriteRecord,
       Updated, WorkerId, Return, Returned, NextTask, budgets, AgreementInv,
       MarksInv, Agrees, InHand
  <2> QED BY <2>1, <2>2, <2>3 DEF AgreementInv
<1>6. StrandedInv'
  <2>1. ASSUME NEW k \in Jobs, Untroubled(k)', Early(k)', Closing(k)'
        PROVE  StateIn(k, Terminal)'
    <3>1. /\ UNCHANGED <<stateKey, score, marks, popper>>
          /\ \A b \in Agents : b # a => pc'[b] = pc[b] /\ cur'[b] = cur[b] /\ task'[b] = task[b] /\ data'[b] = data[b]
          /\ pc'[a] = Returned(a) /\ task'[a] = NextTask(a)
          /\ k # cur[a] => jobKey'[k] = jobKey[k]
          /\ k = cur[a] => jobKey'[k] = Updated(data[a], task[a], WorkerId(a))
      BY DEF WriteRecord, Return, IInv, TypeOK
    <3>2. Untroubled(k) /\ Early(k)
      BY <2>1, <3>1 DEF Untroubled, Early, Returned, Agents
    <3>3. Closing(k)
      <4>1. ASSUME NEW c \in Clients, pc'[c] # "idle", cur'[c] = k,
                   \/ Deleting(c)'
                   \/ PastState(c)' /\ task'[c] \in Terminal
                   \/ pc'[c] = "write_record" /\ data'[c].completed
            PROVE  Closing(k)
        <5>1. c # a
          BY <3>1, <4>1 DEF Returned, NextTask, Deleting, Terminal
        <5> QED BY <3>1, <4>1, <5>1 DEF Closing, Deleting, PastState, Agents
      <4>2. CASE k # cur[a]
        BY <2>1, <3>1, <4>1, <4>2 DEF Closing
      <4>3. CASE k = cur[a] /\ a \in Workers
        BY <3>2, <4>3, HandsApart DEF Early, WriteRecord
      <4>4. CASE k = cur[a] /\ a \in Clients /\ jobKey'[k] # None /\ jobKey'[k].completed
        <5>1. pc[a] = "write_record" /\ data[a] \in JobRecord /\ task[a] \in Tasks
          BY DEF WriteRecord, IInv, DataInv, TypeOK
        <5>2. data[a].completed \/ task[a] \in Terminal
          BY <3>1, <4>4, <5>1, UpdatedField, UpdatedState DEF Tasks
        <5> QED BY <4>4, <5>1, <5>2 DEF Closing, PastState
      <4>5. CASE k = cur[a] /\ a \in Clients /\ ~(jobKey'[k] # None /\ jobKey'[k].completed)
        <5>1. jobKey'[k] # None
          BY <3>1, <4>5, UpdatedType, AbsentAssumption DEF IInv, TypeOK,
             DataInv, WriteRecord, WorkerId
        <5> QED BY <2>1, <4>1, <4>5, <5>1 DEF Closing
      <4> QED BY <4>2, <4>3, <4>4, <4>5 DEF Agents
    <3> QED BY <3>1, <3>2, <3>3 DEF CourseInv, StrandedInv, StateIn
  <2>2. ASSUME NEW k \in Jobs, Untroubled(k)', popper'[k] # None, cur'[popper'[k]] # k
        PROVE  StateIn(k, Settled)'
    BY <2>2, JobQueueAssumption DEF CourseInv, IInv, TypeOK, Active, Terminal,
       Settled, RmwPCs, WorkerPCs, ClientPCs, ClientInv, WorkerInv, QueueInv,
       PastState, WriteRecord, Updated, WorkerId, Return, Returned, NextTask,
       budgets, StrandedInv, Untroubled, StateIn, Early, Closing
  <2>3. ASSUME NEW k \in Jobs, Untroubled(k)', NEW v \in Workers, cur'[v] = k,
               pc'[v] = "release" \/ (PastState(v)' /\ task'[v] \in Settled)
        PROVE  StateIn(k, Settled)'
    BY SMTT(30), <2>3, JobQueueAssumption DEF CourseInv, IInv, TypeOK, Active,
       Terminal, Settled, ClientInv, WorkerInv, QueueInv, Agents, PastState,
       WriteRecord, Updated, WorkerId, Return, Returned, NextTask, budgets,
       StrandedInv, Untroubled, StateIn
  <2> QED BY <2>1, <2>2, <2>3 DEF StrandedInv
<1>7. ActiveInv'
  BY JobQueueAssumption DEF CourseInv, IInv, TypeOK, Active, Terminal, Settled,
     ClientInv, ActiveInv, WorkerInv, WriteRecord, Updated, WorkerId, Return,
     Returned, NextTask, budgets
<1> QED BY <1>1, <1>2, <1>3, <1>4, <1>5, <1>6, <1>7 DEF CourseInv

LEMMA RedisErrorCourse ==
  ASSUME IInv, IInv', CourseInv, NEW a \in Agents, RedisError(a)
  PROVE  CourseInv'
<1>1. FreshInv'
  BY JobQueueAssumption DEF CourseInv, IInv, TypeOK, Active, Terminal, Settled,
     ClientInv, FreshInv, QueueInv, RedisError, Return, Returned, NextTask,
     redisVars
<1>2. MarksInv'
  BY JobQueueAssumption DEF CourseInv, IInv, TypeOK, Active, Terminal, Settled,
     RmwPCs, ClientInv, MarksInv, PastState, Deleting, RedisError, Return,
     Returned, NextTask, redisVars
<1>3. WaitingInv'
  BY JobQueueAssumption DEF CourseInv, IInv, TypeOK, Active, Terminal, Settled,
     ClientInv, WaitingInv, Pending, Unharmed, Queued, MarksInv, FreshInv,
     PastState, QueueInv, WorkerInv, RedisError, Return, Returned, NextTask,
     redisVars
<1>4. RankInv'
  BY JobQueueAssumption DEF CourseInv, IInv, TypeOK, Active, Terminal, Settled,
     WorkerTasks, Busy, RmwPCs, ClientInv, RankInv, Rank, Reached, PastState,
     Unharmed, MarksInv, WorkerInv, QueueInv, FreshInv, WaitingInv, Queued,
     Pending, RedisError, Return, Returned, NextTask, redisVars
<1>5. AgreementInv'
  <2>1. ASSUME NEW k \in Jobs, marks'[k] = {}, popper'[k] # None
        PROVE  stateKey'[k] # None /\ jobKey'[k] # None
    BY <2>1, JobQueueAssumption DEF CourseInv, IInv, TypeOK, Active, Terminal,
       Settled, ClientInv, WorkerInv, QueueInv, PastState, RedisError, Return,
       Returned, NextTask, redisVars, AgreementInv, MarksInv, WaitingInv,
       Unharmed
  <2>2. ASSUME NEW k \in Jobs, marks'[k] = {}, popper'[k] # None,
               cur'[popper'[k]] = k
        PROVE  InHand(popper[k])'
    <3> DEFINE v == popper[k]
    <3>1. /\ v \in Workers /\ UNCHANGED <<popper, stateKey, jobKey, jobData>>
          /\ k # cur[a] /\ marks'[k] = marks[k]
      BY <2>2 DEF RedisError, IInv, TypeOK, redisVars
    <3>2. cur[v] = k /\ a # v
      BY <2>2, <3>1, JobQueueAssumption DEF RedisError, Return, IInv
    <3>3. pc'[v] = pc[v] /\ task'[v] = task[v] /\ data'[v] = data[v]
      BY <3>1, <3>2 DEF RedisError, Return
    <3> QED BY <2>2, <3>1, <3>2, <3>3 DEF CourseInv, AgreementInv, InHand,
       Agrees, PastState
  <2>3. ASSUME NEW k \in Jobs, marks'[k] = {}, popper'[k] # None,
               cur'[popper'[k]] # k
        PROVE  Agrees(k)'
    BY <2>3, JobQueueAssumption DEF CourseInv, IInv, TypeOK, Active, Terminal,
       Settled, RmwPCs, WorkerPCs, ClientPCs, ClientInv, WorkerInv, QueueInv,
       PastState, RedisError, Return, Returned, NextTask, redisVars,
       AgreementInv, MarksInv, Agrees, InHand
  <2> QED BY <2>1, <2>2, <2>3 DEF AgreementInv
<1>6. StrandedInv'
  <2>1. ASSUME NEW k \in Jobs, Untroubled(k)', Early(k)', Closing(k)'
        PROVE  StateIn(k, Terminal)'
    BY SMTT(30), <2>1, JobQueueAssumption DEF CourseInv, IInv, TypeOK, Active,
       Terminal, Settled, WorkerTasks, Busy, RmwPCs, WorkerPCs, ClientPCs,
       ClientInv, WorkerInv, QueueInv, Agents, PastState, RedisError, Return,
       Returned, NextTask, redisVars, StrandedInv, Untroubled, Early, Closing,
       StateIn, Deleting, MarksInv, FreshInv
  <2>2. ASSUME NEW k \in Jobs, Untroubled(k)', popper'[k] # None, cur'[popper'[k]] # k
        PROVE  StateIn(k, Settled)'
    BY <2>2, JobQueueAssumption DEF CourseInv, IInv, TypeOK, Active, Terminal,
       Settled, RmwPCs, WorkerPCs, ClientPCs, ClientInv, WorkerInv, QueueInv,
       PastState, RedisError, Return, Returned, NextTask, redisVars,
       StrandedInv, Untroubled, StateIn, Early, Closing
  <2>3. ASSUME NEW k \in Jobs, Untroubled(k)', NEW v \in Workers, cur'[v] = k,
               pc'[v] = "release" \/ (PastState(v)' /\ task'[v] \in Settled)
        PROVE  StateIn(k, Settled)'
    <3>1. /\ UNCHANGED stateKey /\ k # cur[a] /\ marks'[k] = marks[k]
      BY <2>3 DEF RedisError, IInv, TypeOK, redisVars, Untroubled
    <3>2. cur[v] = k /\ a # v
      BY <2>3, <3>1, JobQueueAssumption DEF RedisError, Return, IInv
    <3>3. pc'[v] = pc[v] /\ task'[v] = task[v]
      BY <3>1, <3>2 DEF RedisError, Return
    <3> QED BY <2>3, <3>1, <3>2, <3>3 DEF CourseInv, StrandedInv, StateIn,
       Untroubled, PastState
  <2> QED BY <2>1, <2>2, <2>3 DEF StrandedInv
<1>7. ActiveInv'
  BY JobQueueAssumption DEF CourseInv, IInv, TypeOK, Active, Terminal, Settled,
     RmwPCs, ClientInv, ActiveInv, WorkerInv, RedisError, Return, Returned,
     NextTask, redisVars
<1> QED BY <1>1, <1>2, <1>3, <1>4, <1>5, <1>6, <1>7 DEF CourseInv

LEMMA StopCourse ==
  ASSUME IInv, IInv', CourseInv, NEW w \in Workers, Stop(w)
  PROVE  CourseInv'
<1>1. FreshInv'
  BY JobQueueAssumption DEF CourseInv, IInv, TypeOK, Active, Terminal, Settled,
     ClientInv, FreshInv, QueueInv, Stop, redisVars
<1>2. MarksInv'
  BY JobQueueAssumption DEF CourseInv, IInv, TypeOK, Active, Terminal, Settled,
     ClientInv, MarksInv, PastState, Deleting, Stop, redisVars
<1>3. WaitingInv'
  BY JobQueueAssumption DEF CourseInv, IInv, TypeOK, Active, Terminal, Settled,
     ClientInv, WaitingInv, Pending, Unharmed, Queued, MarksInv, FreshInv,
     PastState, QueueInv, WorkerInv, Stop, redisVars
<1>4. RankInv'
  BY JobQueueAssumption DEF CourseInv, IInv, TypeOK, Active, Terminal, Settled,
     ClientInv, RankInv, Rank, Reached, PastState, Unharmed, MarksInv,
     WorkerInv, QueueInv, FreshInv, WaitingInv, Queued, Pending, Stop,
     redisVars
<1>5. AgreementInv'
  BY JobQueueAssumption DEF CourseInv, IInv, TypeOK, Active, Terminal, Settled,
     ClientInv, AgreementInv, Agrees, InHand, PastState, MarksInv, WaitingInv,
     WorkerInv, Pending, Queued, Unharmed, QueueInv, Stop, redisVars
<1>6. StrandedInv'
  BY JobQueueAssumption DEF CourseInv, IInv, TypeOK, Active, Terminal, Settled,
     WorkerTasks, Busy, ClientInv, StrandedInv, Untroubled, Early, Closing,
     StateIn, Deleting, PastState, WorkerInv, MarksInv, FreshInv, QueueInv,
     WaitingInv, Queued, Stop, redisVars
<1>7. ActiveInv'
  BY JobQueueAssumption DEF CourseInv, IInv, TypeOK, Active, Terminal, Settled,
     ClientInv, ActiveInv, WorkerInv, Stop, redisVars
<1> QED BY <1>1, <1>2, <1>3, <1>4, <1>5, <1>6, <1>7 DEF CourseInv

LEMMA CrashCourse ==
  ASSUME IInv, IInv', CourseInv, NEW w \in Workers, Crash(w)
  PROVE  CourseInv'
<1>1. FreshInv'
  BY JobQueueAssumption DEF CourseInv, IInv, TypeOK, Active, Terminal, Settled,
     ClientInv, FreshInv, QueueInv, Crash, redisVars
<1>2. MarksInv'
  BY JobQueueAssumption DEF CourseInv, IInv, TypeOK, Active, Terminal, Settled,
     ClientInv, MarksInv, PastState, Deleting, Crash, redisVars
<1>3. WaitingInv'
  BY JobQueueAssumption DEF CourseInv, IInv, TypeOK, Active, Terminal, Settled,
     ClientInv, WaitingInv, Pending, Unharmed, Queued, MarksInv, FreshInv,
     PastState, QueueInv, WorkerInv, Crash, redisVars
<1>4. RankInv'
  <2>1. ASSUME NEW k \in Jobs, Unharmed(k)', stateKey'[k] # None, popper'[k] = None
        PROVE  stateKey'[k].state = "pending"
    BY <2>1, JobQueueAssumption DEF CourseInv, IInv, TypeOK, Active, Terminal,
       Settled, ClientInv, WorkerInv, QueueInv, PastState, Crash, redisVars,
       RankInv, Unharmed, MarksInv, FreshInv
  <2>2. ASSUME NEW k \in Jobs, Unharmed(k)', stateKey'[k] # None,
               NEW v \in Workers, cur'[v] = k
        PROVE  Rank(stateKey'[k].state) <= Reached(v)'
    BY <2>2, JobQueueAssumption DEF CourseInv, IInv, TypeOK, Active, Terminal,
       Settled, WorkerTasks, Busy, ClientInv, WorkerInv, QueueInv, Agents,
       PastState, Crash, redisVars, RankInv, Rank, Reached, Unharmed, JobStates
  <2> QED BY <2>1, <2>2 DEF RankInv
<1>5. AgreementInv'
  <2>1. ASSUME NEW k \in Jobs, marks'[k] = {}, popper'[k] # None
        PROVE  stateKey'[k] # None /\ jobKey'[k] # None
    BY <2>1, JobQueueAssumption DEF CourseInv, IInv, TypeOK, Active, Terminal,
       Settled, ClientInv, WorkerInv, QueueInv, PastState, Crash, redisVars,
       AgreementInv, MarksInv, WaitingInv, Unharmed
  <2>2. ASSUME NEW k \in Jobs, marks'[k] = {}, popper'[k] # None,
               cur'[popper'[k]] = k
        PROVE  InHand(popper[k])'
    BY <2>2, JobQueueAssumption DEF CourseInv, IInv, TypeOK, Active, Terminal,
       Settled, WorkerTasks, Busy, ClientInv, WorkerInv, QueueInv, PastState,
       Crash, redisVars, AgreementInv, MarksInv, InHand, Agrees
  <2>3. ASSUME NEW k \in Jobs, marks'[k] = {}, popper'[k] # None,
               cur'[popper'[k]] # k
        PROVE  Agrees(k)'
    <3>1. /\ cur[w] # k /\ marks'[k] = marks[k] /\ UNCHANGED <<popper, stateKey, jobKey>>
      BY <2>3 DEF Crash, redisVars
    <3>2. cur[popper[k]] # k
      BY <2>3, <3>1 DEF Crash
    <3> QED BY <2>3, <3>1, <3>2 DEF CourseInv, AgreementInv, Agrees
  <2> QED BY <2>1, <2>2, <2>3 DEF AgreementInv
<1>6. StrandedInv'
  <2>1. ASSUME NEW k \in Jobs, Untroubled(k)', Early(k)', Closing(k)'
        PROVE  StateIn(k, Terminal)'
    BY <2>1, JobQueueAssumption DEF CourseInv, IInv, TypeOK, Active, Terminal,
       Settled, ClientInv, WorkerInv, QueueInv, PastState, Crash, redisVars,
       StrandedInv, Untroubled, Early, Closing, StateIn, Deleting, MarksInv,
       FreshInv
  <2>2. ASSUME NEW k \in Jobs, Untroubled(k)', popper'[k] # None, cur'[popper'[k]] # k
        PROVE  StateIn(k, Settled)'
    <3>1. /\ cur[w] # k /\ marks'[k] = marks[k] /\ UNCHANGED <<popper, stateKey>>
      BY <2>2 DEF Crash, redisVars, Untroubled
    <3>2. cur[popper[k]] # k
      BY <2>2, <3>1 DEF Crash
    <3> QED BY <2>2, <3>1, <3>2 DEF CourseInv, StrandedInv, StateIn, Untroubled
  <2>3. ASSUME NEW k \in Jobs, Untroubled(k)', NEW v \in Workers, cur'[v] = k,
               pc'[v] = "release" \/ (PastState(v)' /\ task'[v] \in Settled)
        PROVE  StateIn(k, Settled)'
    BY <2>3, JobQueueAssumption DEF CourseInv, IInv, TypeOK, Active, Terminal,
       Settled, ClientInv, WorkerInv, QueueInv, PastState, Crash, redisVars,
       StrandedInv, Untroubled, StateIn
  <2> QED BY <2>1, <2>2, <2>3 DEF StrandedInv
<1>7. ActiveInv'
  BY JobQueueAssumption DEF CourseInv, IInv, TypeOK, Active, Terminal, Settled,
     ClientInv, ActiveInv, WorkerInv, Crash, redisVars
<1> QED BY <1>1, <1>2, <1>3, <1>4, <1>5, <1>6, <1>7 DEF CourseInv

LEMMA RestartCourse ==
  ASSUME IInv, IInv', CourseInv, NEW w \in Workers, Restart(w)
  PROVE  CourseInv'
<1>1. FreshInv'
  BY JobQueueAssumption DEF CourseInv, IInv, TypeOK, Active, Terminal, Settled,
     ClientInv, FreshInv, QueueInv, Restart, redisVars, budgets
<1>2. MarksInv'
  BY JobQueueAssumption DEF CourseInv, IInv, TypeOK, Active, Terminal, Settled,
     ClientInv, MarksInv, PastState, Deleting, Restart, redisVars, budgets
<1>3. WaitingInv'
  BY JobQueueAssumption DEF CourseInv, IInv, TypeOK, Active, Terminal, Settled,
     ClientInv, WaitingInv, Pending, Unharmed, Queued, MarksInv, FreshInv,
     PastState, QueueInv, WorkerInv, Restart, redisVars, budgets
<1>4. RankInv'
  BY JobQueueAssumption DEF CourseInv, IInv, TypeOK, Active, Terminal, Settled,
     ClientInv, RankInv, Rank, Reached, PastState, Unharmed, MarksInv,
     WorkerInv, Agents, QueueInv, FreshInv, WaitingInv, Queued, Pending,
     Restart, redisVars, budgets
<1>5. AgreementInv'
  BY JobQueueAssumption DEF CourseInv, IInv, TypeOK, Active, Terminal, Settled,
     RmwPCs, ClientInv, AgreementInv, Agrees, InHand, PastState, MarksInv,
     WaitingInv, WorkerInv, Pending, Queued, Unharmed, QueueInv, Restart,
     redisVars, budgets
<1>6. StrandedInv'
  BY JobQueueAssumption DEF CourseInv, IInv, TypeOK, Active, Terminal, Settled,
     ClientInv, StrandedInv, Untroubled, Early, Closing, StateIn, Deleting,
     PastState, WorkerInv, MarksInv, FreshInv, QueueInv, WaitingInv, Queued,
     Restart, redisVars, budgets
<1>7. ActiveInv'
  BY JobQueueAssumption DEF CourseInv, IInv, TypeOK, Active, Terminal, Settled,
     ClientInv, ActiveInv, WorkerInv, Restart, redisVars, budgets
<1> QED BY <1>1, <1>2, <1>3, <1>4, <1>5, <1>6, <1>7 DEF CourseInv

LEMMA KillCourse ==
  ASSUME IInv, IInv', CourseInv, NEW c \in Clients, NEW j \in Jobs, NEW t \in Terminal, Call(c, j, "write_state", t, {"call", "kill"})
  PROVE  CourseInv'
<1>1. FreshInv'
  BY JobQueueAssumption DEF CourseInv, IInv, TypeOK, Active, Terminal, Settled,
     ClientInv, FreshInv, QueueInv, Call, redisVars
<1>2. MarksInv'
  BY JobQueueAssumption DEF CourseInv, IInv, TypeOK, Active, Terminal, Settled,
     ClientInv, MarksInv, PastState, Deleting, Call, redisVars
<1>3. WaitingInv'
  BY JobQueueAssumption DEF CourseInv, IInv, TypeOK, Active, Terminal, Settled,
     ClientInv, WaitingInv, Pending, Unharmed, Queued, MarksInv, FreshInv,
     PastState, QueueInv, WorkerInv, Call, redisVars
<1>4. RankInv'
  BY SMTT(30), JobQueueAssumption DEF CourseInv, IInv, TypeOK, Active,
     Terminal, Settled, WorkerTasks, Busy, RmwPCs, WorkerPCs, ClientPCs,
     ClientInv, RankInv, Rank, Reached, PastState, Unharmed, MarksInv,
     WorkerInv, Agents, QueueInv, FreshInv, WaitingInv, Queued, Pending, Call,
     redisVars
<1>5. AgreementInv'
  BY JobQueueAssumption DEF CourseInv, IInv, TypeOK, Active, Terminal, Settled,
     ClientInv, AgreementInv, Agrees, InHand, PastState, MarksInv, WaitingInv,
     WorkerInv, Pending, Queued, Unharmed, QueueInv, Call, redisVars
<1>6. StrandedInv'
  BY JobQueueAssumption DEF CourseInv, IInv, TypeOK, Active, Terminal, Settled,
     ClientInv, StrandedInv, Untroubled, Early, Closing, StateIn, Deleting,
     PastState, WorkerInv, MarksInv, FreshInv, QueueInv, WaitingInv, Queued,
     Call, redisVars
<1>7. ActiveInv'
  BY JobQueueAssumption DEF CourseInv, IInv, TypeOK, Active, Terminal, Settled,
     ClientInv, ActiveInv, WorkerInv, Call, redisVars
<1> QED BY <1>1, <1>2, <1>3, <1>4, <1>5, <1>6, <1>7 DEF CourseInv

LEMMA SaveCheckpointCourse ==
  ASSUME IInv, IInv', CourseInv, NEW c \in Clients, NEW j \in Jobs, SaveCheckpoint(c, j)
  PROVE  CourseInv'
<1>1. FreshInv'
  BY JobQueueAssumption DEF CourseInv, IInv, TypeOK, Active, Terminal, Settled,
     ClientInv, FreshInv, QueueInv, SaveCheckpoint, Call, redisVars
<1>2. MarksInv'
  BY JobQueueAssumption DEF CourseInv, IInv, TypeOK, Active, Terminal, Settled,
     ClientInv, MarksInv, PastState, Deleting, SaveCheckpoint, Call, redisVars
<1>3. WaitingInv'
  BY JobQueueAssumption DEF CourseInv, IInv, TypeOK, Active, Terminal, Settled,
     ClientInv, WaitingInv, Pending, Unharmed, Queued, MarksInv, FreshInv,
     PastState, QueueInv, WorkerInv, SaveCheckpoint, Call, redisVars
<1>4. RankInv'
  BY SMTT(30), JobQueueAssumption DEF CourseInv, IInv, TypeOK, Active,
     Terminal, Settled, WorkerTasks, Busy, RmwPCs, WorkerPCs, ClientPCs,
     ClientInv, RankInv, Rank, Reached, PastState, Unharmed, MarksInv,
     WorkerInv, Agents, QueueInv, FreshInv, WaitingInv, Queued, Pending,
     SaveCheckpoint, Call, redisVars
<1>5. AgreementInv'
  BY JobQueueAssumption DEF CourseInv, IInv, TypeOK, Active, Terminal, Settled,
     ClientInv, AgreementInv, Agrees, InHand, PastState, MarksInv, WaitingInv,
     WorkerInv, Pending, Queued, Unharmed, QueueInv, SaveCheckpoint, Call,
     redisVars
<1>6. StrandedInv'
  BY JobQueueAssumption DEF CourseInv, IInv, TypeOK, Active, Terminal, Settled,
     ClientInv, StrandedInv, Untroubled, Early, Closing, StateIn, Deleting,
     PastState, WorkerInv, MarksInv, FreshInv, QueueInv, WaitingInv, Queued,
     SaveCheckpoint, Call, redisVars
<1>7. ActiveInv'
  BY JobQueueAssumption DEF CourseInv, IInv, TypeOK, Active, Terminal, Settled,
     ClientInv, ActiveInv, WorkerInv, SaveCheckpoint, Call, redisVars
<1> QED BY <1>1, <1>2, <1>3, <1>4, <1>5, <1>6, <1>7 DEF CourseInv

LEMMA CleanupOldJobCourse ==
  ASSUME IInv, IInv', CourseInv, NEW c \in Clients, NEW j \in Jobs, CleanupOldJob(c, j)
  PROVE  CourseInv'
<1>1. FreshInv'
  BY JobQueueAssumption DEF CourseInv, IInv, TypeOK, Active, Terminal, Settled,
     ClientInv, FreshInv, QueueInv, CleanupOldJob, Call, redisVars
<1>2. MarksInv'
  BY JobQueueAssumption DEF CourseInv, IInv, TypeOK, Active, Terminal, Settled,
     ClientInv, MarksInv, PastState, Deleting, CleanupOldJob, Call, redisVars
<1>3. WaitingInv'
  BY JobQueueAssumption DEF CourseInv, IInv, TypeOK, Active, Terminal, Settled,
     ClientInv, WaitingInv, Pending, Unharmed, Queued, MarksInv, FreshInv,
     PastState, QueueInv, WorkerInv, CleanupOldJob, Call, redisVars
<1>4. RankInv'
  BY SMTT(30), JobQueueAssumption DEF CourseInv, IInv, TypeOK, Active,
     Terminal, Settled, WorkerTasks, Busy, RmwPCs, WorkerPCs, ClientPCs,
     ClientInv, RankInv, Rank, Reached, PastState, Unharmed, MarksInv,
     WorkerInv, Agents, QueueInv, FreshInv, WaitingInv, Queued, Pending,
     CleanupOldJob, Call, redisVars
<1>5. AgreementInv'
  BY JobQueueAssumption DEF CourseInv, IInv, TypeOK, Active, Terminal, Settled,
     ClientInv, AgreementInv, Agrees, InHand, PastState, MarksInv, WaitingInv,
     WorkerInv, Pending, Queued, Unharmed, QueueInv, CleanupOldJob, Call,
     redisVars
<1>6. StrandedInv'
  BY JobQueueAssumption DEF CourseInv, IInv, TypeOK, Active, Terminal, Settled,
     ClientInv, StrandedInv, Untroubled, Early, Closing, StateIn, Deleting,
     PastState, WorkerInv, Agents, MarksInv, FreshInv, QueueInv, WaitingInv,
     Queued, CleanupOldJob, Call, redisVars
<1>7. ActiveInv'
  BY JobQueueAssumption DEF CourseInv, IInv, TypeOK, Active, Terminal, Settled,
     ClientInv, ActiveInv, WorkerInv, CleanupOldJob, Call, redisVars
<1> QED BY <1>1, <1>2, <1>3, <1>4, <1>5, <1>6, <1>7 DEF CourseInv

LEMMA StoreCheckpointCourse ==
  ASSUME IInv, IInv', CourseInv, NEW c \in Clients, StoreCheckpoint(c)
  PROVE  CourseInv'
<1>1. FreshInv'
  BY JobQueueAssumption DEF CourseInv, IInv, TypeOK, Active, Terminal, Settled,
     ClientInv, FreshInv, QueueInv, StoreCheckpoint, budgets
<1>2. MarksInv'
  BY JobQueueAssumption DEF CourseInv, IInv, TypeOK, Active, Terminal, Settled,
     ClientInv, MarksInv, PastState, Deleting, StoreCheckpoint, budgets
<1>3. WaitingInv'
  BY JobQueueAssumption DEF CourseInv, IInv, TypeOK, Active, Terminal, Settled,
     ClientInv, WaitingInv, Pending, Unharmed, Queued, MarksInv, FreshInv,
     PastState, QueueInv, WorkerInv, StoreCheckpoint, budgets
<1>4. RankInv'
  BY JobQueueAssumption DEF CourseInv, IInv, TypeOK, Active, Terminal, Settled,
     WorkerPCs, ClientPCs, ClientInv, RankInv, Rank, Reached, PastState,
     Unharmed, MarksInv, WorkerInv, QueueInv, FreshInv, WaitingInv, Queued,
     Pending, StoreCheckpoint, budgets
<1>5. AgreementInv'
  BY JobQueueAssumption DEF CourseInv, IInv, TypeOK, Active, Terminal, Settled,
     ClientInv, AgreementInv, Agrees, InHand, PastState, MarksInv, WaitingInv,
     WorkerInv, Pending, Queued, Unharmed, QueueInv, StoreCheckpoint, budgets
<1>6. StrandedInv'
  BY JobQueueAssumption DEF CourseInv, IInv, TypeOK, Active, Terminal, Settled,
     RmwPCs, WorkerPCs, ClientPCs, ClientInv, StrandedInv, Untroubled, Early,
     Closing, StateIn, Deleting, PastState, WorkerInv, MarksInv, FreshInv,
     QueueInv, WaitingInv, Queued, StoreCheckpoint, budgets
<1>7. ActiveInv'
  BY JobQueueAssumption DEF CourseInv, IInv, TypeOK, Active, Terminal, Settled,
     ClientInv, ActiveInv, WorkerInv, StoreCheckpoint, budgets
<1> QED BY <1>1, <1>2, <1>3, <1>4, <1>5, <1>6, <1>7 DEF CourseInv

LEMMA DeleteKeysCourse ==
  ASSUME IInv, IInv', CourseInv, NEW c \in Clients, DeleteKeys(c)
  PROVE  CourseInv'
<1>1. FreshInv'
  BY JobQueueAssumption DEF CourseInv, IInv, TypeOK, Active, Terminal, Settled,
     ClientInv, FreshInv, QueueInv, DeleteKeys, budgets
<1>2. MarksInv'
  BY SMTT(30), JobQueueAssumption DEF CourseInv, IInv, TypeOK, Active,
     Terminal, Settled, WorkerTasks, Busy, RmwPCs, WorkerPCs, ClientPCs,
     ClientInv, MarksInv, PastState, Deleting, Agents, DeleteKeys, budgets
<1>3. WaitingInv'
  <2>1. ASSUME NEW k \in Jobs, Queued(k)', Unharmed(k)'
        PROVE  /\ stateKey'[k] # None /\ stateKey'[k].state = "pending"
               /\ jobKey'[k] # None /\ Pending(jobKey'[k])
    <3>1. Queued(k) /\ Unharmed(k) /\ popper[k] = None
      BY <2>1 DEF DeleteKeys, Queued, Unharmed, IInv, QueueInv
    <3>2. k # cur[c]
      BY <3>1 DEF DeleteKeys, CourseInv, MarksInv, Deleting, Unharmed
    <3>3. stateKey'[k] = stateKey[k] /\ jobKey'[k] = jobKey[k]
      BY <3>2 DEF DeleteKeys, IInv, TypeOK
    <3> QED BY <3>1, <3>3 DEF CourseInv, WaitingInv
  <2>2. ASSUME NEW k \in Jobs, Queued(k)', Unharmed(k)',
               NEW d \in Clients, pc'[d] = "write_record", cur'[d] = k
        PROVE  Pending(data'[d])
    <3>1. Queued(k) /\ Unharmed(k)
      BY <2>2 DEF DeleteKeys, Queued, Unharmed
    <3>2. d # c /\ pc[d] = "write_record" /\ cur[d] = k /\ data'[d] = data[d]
      BY <2>2 DEF DeleteKeys, IInv, TypeOK, Agents
    <3> QED BY <3>1, <3>2 DEF CourseInv, WaitingInv
  <2> QED BY <2>1, <2>2 DEF WaitingInv
<1>4. RankInv'
  BY JobQueueAssumption DEF CourseInv, IInv, TypeOK, Active, Terminal, Settled,
     WorkerTasks, Busy, WorkerPCs, ClientPCs, ClientInv, RankInv, Rank,
     Reached, PastState, Unharmed, MarksInv, WorkerInv, Agents, QueueInv,
     FreshInv, WaitingInv, Queued, Pending, DeleteKeys, budgets
<1>5. AgreementInv'
  <2>1. ASSUME NEW k \in Jobs, marks'[k] = {}, popper'[k] # None
        PROVE  stateKey'[k] # None /\ jobKey'[k] # None
    BY <2>1, JobQueueAssumption DEF CourseInv, IInv, TypeOK, Active, Terminal,
       Settled, ClientInv, WorkerInv, QueueInv, PastState, DeleteKeys, budgets,
       AgreementInv, MarksInv, WaitingInv, Unharmed
  <2>2. ASSUME NEW k \in Jobs, marks'[k] = {}, popper'[k] # None,
               cur'[popper'[k]] = k
        PROVE  InHand(popper[k])'
    <3>1. k # cur[c] /\ marks[k] = {}
      BY <2>2, ClientMark DEF DeleteKeys
    <3>2. /\ stateKey'[k] = stateKey[k] /\ jobKey'[k] = jobKey[k]
          /\ UNCHANGED <<popper, task, data, jobData>>
          /\ \A v \in Workers : pc'[v] = pc[v] /\ cur'[v] = cur[v]
      BY <3>1, JobQueueAssumption DEF DeleteKeys, IInv, TypeOK, Agents
    <3>3. popper[k] \in Workers
      BY <2>2, <3>2 DEF IInv, TypeOK
    <3> QED BY <2>2, <3>1, <3>2, <3>3 DEF CourseInv, AgreementInv, InHand,
       Agrees, PastState
  <2>3. ASSUME NEW k \in Jobs, marks'[k] = {}, popper'[k] # None,
               cur'[popper'[k]] # k
        PROVE  Agrees(k)'
    <3>1. k # cur[c] /\ marks[k] = {}
      BY <2>3, ClientMark DEF DeleteKeys
    <3>2. /\ stateKey'[k] = stateKey[k] /\ jobKey'[k] = jobKey[k]
          /\ UNCHANGED <<popper, task, data, jobData>>
          /\ \A v \in Workers : pc'[v] = pc[v] /\ cur'[v] = cur[v]
      BY <3>1, JobQueueAssumption DEF DeleteKeys, IInv, TypeOK, Agents
    <3>3. popper[k] \in Workers
      BY <2>3, <3>2 DEF IInv, TypeOK
    <3> QED BY <2>3, <3>1, <3>2, <3>3 DEF CourseInv, AgreementInv, Agrees
  <2> QED BY <2>1, <2>2, <2>3 DEF AgreementInv
<1>6. StrandedInv'
  <2>1. ASSUME NEW k \in Jobs, Untroubled(k)', Early(k)', Closing(k)'
        PROVE  StateIn(k, Terminal)'
    <3>1. /\ UNCHANGED <<score, task, data, marks, popper>>
          /\ \A b \in Agents : b # c => pc'[b] = pc[b] /\ cur'[b] = cur[b]
          /\ cur[c] \in Jobs /\ Deleting(c) /\ pc[c] # "idle"
          /\ pc'[c] \in {"del_state", "del_ckpt", "idle"} /\ (pc'[c] # "idle" => cur'[c] = cur[c])
          /\ stateKey'[k] = stateKey[k] \/ stateKey'[k] = None
          /\ k # cur[c] => jobKey'[k] = jobKey[k]
      BY DEF DeleteKeys, IInv, TypeOK, ClientInv, Deleting, Agents
    <3>2. \A v \in Workers : v \in Agents /\ v # c
      BY JobQueueAssumption DEF Agents
    <3>3. Untroubled(k) /\ Early(k)
      BY <2>1, <3>1, <3>2 DEF Untroubled, Early
    <3>4. Closing(k)
      <4>1. CASE k = cur[c]
        BY <3>1, <4>1 DEF Closing
      <4>2. CASE k # cur[c]
        BY <2>1, <3>1, <4>2 DEF Closing, Deleting, PastState, Agents
      <4> QED BY <4>1, <4>2
    <3> QED BY <3>1, <3>3, <3>4 DEF CourseInv, StrandedInv, StateIn
  <2>2. ASSUME NEW k \in Jobs, Untroubled(k)', popper'[k] # None, cur'[popper'[k]] # k
        PROVE  StateIn(k, Settled)'
    BY <2>2, JobQueueAssumption DEF CourseInv, IInv, TypeOK, Active, Terminal,
       Settled, ClientInv, WorkerInv, QueueInv, Agents, PastState, DeleteKeys,
       budgets, StrandedInv, Untroubled, StateIn, Early, Closing
  <2>3. ASSUME NEW k \in Jobs, Untroubled(k)', NEW v \in Workers, cur'[v] = k,
               pc'[v] = "release" \/ (PastState(v)' /\ task'[v] \in Settled)
        PROVE  StateIn(k, Settled)'
    BY <2>3, JobQueueAssumption DEF CourseInv, IInv, TypeOK, Active, Terminal,
       Settled, WorkerTasks, Busy, RmwPCs, WorkerPCs, ClientPCs, ClientInv,
       WorkerInv, QueueInv, Agents, PastState, DeleteKeys, budgets,
       StrandedInv, Untroubled, StateIn
  <2> QED BY <2>1, <2>2, <2>3 DEF StrandedInv
<1>7. ActiveInv'
  BY JobQueueAssumption DEF CourseInv, IInv, TypeOK, Active, Terminal, Settled,
     ClientInv, ActiveInv, WorkerInv, Agents, DeleteKeys, budgets
<1> QED BY <1>1, <1>2, <1>3, <1>4, <1>5, <1>6, <1>7 DEF CourseInv

LEMMA AbandonCourse ==
  ASSUME IInv, IInv', CourseInv, NEW c \in Clients, Abandon(c)
  PROVE  CourseInv'
<1>1. FreshInv'
  BY JobQueueAssumption DEF CourseInv, IInv, TypeOK, Active, Terminal, Settled,
     ClientInv, FreshInv, QueueInv, Abandon, redisVars
<1>2. MarksInv'
  BY JobQueueAssumption DEF CourseInv, IInv, TypeOK, Active, Terminal, Settled,
     ClientInv, MarksInv, PastState, Deleting, Abandon, redisVars
<1>3. WaitingInv'
  BY JobQueueAssumption DEF CourseInv, IInv, TypeOK, Active, Terminal, Settled,
     ClientInv, WaitingInv, Pending, Unharmed, Queued, MarksInv, FreshInv,
     PastState, QueueInv, WorkerInv, Abandon, redisVars
<1>4. RankInv'
  BY JobQueueAssumption DEF CourseInv, IInv, TypeOK, Active, Terminal, Settled,
     WorkerTasks, Busy, RmwPCs, WorkerPCs, ClientPCs, ClientInv, RankInv, Rank,
     Reached, PastState, Unharmed, MarksInv, WorkerInv, Agents, QueueInv,
     FreshInv, WaitingInv, Queued, Pending, Abandon, redisVars
<1>5. AgreementInv'
  BY JobQueueAssumption DEF CourseInv, IInv, TypeOK, Active, Terminal, Settled,
     ClientInv, AgreementInv, Agrees, InHand, PastState, MarksInv, WaitingInv,
     WorkerInv, Pending, Queued, Unharmed, QueueInv, Abandon, redisVars
<1>6. StrandedInv'
  BY JobQueueAssumption DEF CourseInv, IInv, TypeOK, Active, Terminal, Settled,
     ClientInv, StrandedInv, Untroubled, Early, Closing, StateIn, Deleting,
     PastState, WorkerInv, MarksInv, FreshInv, QueueInv, WaitingInv, Queued,
     Abandon, redisVars
<1>7. ActiveInv'
  BY JobQueueAssumption DEF CourseInv, IInv, TypeOK, Active, Terminal, Settled,
     ClientInv, ActiveInv, WorkerInv, Abandon, redisVars
<1> QED BY <1>1, <1>2, <1>3, <1>4, <1>5, <1>6, <1>7 DEF CourseInv

LEMMA ExpireCourse ==
  ASSUME IInv, IInv', CourseInv, NEW j \in Jobs, Expire(j)
  PROVE  CourseInv'
<1>1. FreshInv'
  BY JobQueueAssumption DEF CourseInv, IInv, TypeOK, Active, Terminal, Settled,
     ClientInv, FreshInv, QueueInv, Expire, redisVars
<1>2. MarksInv'
  BY JobQueueAssumption DEF CourseInv, IInv, TypeOK, Active, Terminal, Settled,
     ClientInv, MarksInv, PastState, Deleting, Expire, redisVars
<1>3. WaitingInv'
  <2>1. ASSUME NEW k \in Jobs, Queued(k)', Unharmed(k)'
        PROVE  /\ stateKey'[k] # None /\ stateKey'[k].state = "pending"
               /\ jobKey'[k] # None /\ Pending(jobKey'[k])
    <3>1. k # j
      BY <2>1 DEF Expire, IInv, TypeOK, Unharmed
    <3>2. stateKey'[k] = stateKey[k] /\ jobKey'[k] = jobKey[k] /\ marks'[k] = marks[k] /\ UNCHANGED queue
      BY <3>1 DEF Expire, IInv, TypeOK
    <3> QED BY <2>1, <3>2 DEF CourseInv, WaitingInv, Queued, Unharmed
  <2>2. ASSUME NEW k \in Jobs, Queued(k)', Unharmed(k)',
               NEW c \in Clients, pc'[c] = "write_record", cur'[c] = k
        PROVE  Pending(data'[c])
    BY <2>2, JobQueueAssumption DEF CourseInv, IInv, TypeOK, Active, Terminal,
       Settled, ClientInv, WorkerInv, QueueInv, PastState, Expire, redisVars,
       WaitingInv, Queued, Unharmed, Pending, MarksInv, FreshInv
  <2> QED BY <2>1, <2>2 DEF WaitingInv
<1>4. RankInv'
  BY JobQueueAssumption DEF CourseInv, IInv, TypeOK, Active, Terminal, Settled,
     ClientInv, RankInv, Rank, Reached, PastState, Unharmed, MarksInv,
     WorkerInv, QueueInv, FreshInv, WaitingInv, Queued, Pending, Expire,
     redisVars
<1>5. AgreementInv'
  <2>1. ASSUME NEW k \in Jobs, marks'[k] = {}, popper'[k] # None
        PROVE  stateKey'[k] # None /\ jobKey'[k] # None
    <3>1. k # j
      BY <2>1 DEF Expire, IInv, TypeOK
    <3>2. /\ stateKey'[k] = stateKey[k] /\ jobKey'[k] = jobKey[k] /\ marks'[k] = marks[k]
          /\ UNCHANGED <<score, popper, pc, cur, task, data, jobData>>
      BY <3>1 DEF Expire, IInv, TypeOK
    <3> QED BY <2>1, <3>2 DEF CourseInv, AgreementInv
  <2>2. ASSUME NEW k \in Jobs, marks'[k] = {}, popper'[k] # None,
               cur'[popper'[k]] = k
        PROVE  InHand(popper[k])'
    <3>1. k # j
      BY <2>2 DEF Expire, IInv, TypeOK
    <3>2. /\ stateKey'[k] = stateKey[k] /\ jobKey'[k] = jobKey[k] /\ marks'[k] = marks[k]
          /\ UNCHANGED <<score, popper, pc, cur, task, data, jobData>>
      BY <3>1 DEF Expire, IInv, TypeOK
    <3> QED BY <2>2, <3>2 DEF CourseInv, AgreementInv, InHand, Agrees,
       PastState
  <2>3. ASSUME NEW k \in Jobs, marks'[k] = {}, popper'[k] # None,
               cur'[popper'[k]] # k
        PROVE  Agrees(k)'
    <3>1. k # j
      BY <2>3 DEF Expire, IInv, TypeOK
    <3>2. /\ stateKey'[k] = stateKey[k] /\ jobKey'[k] = jobKey[k] /\ marks'[k] = marks[k]
          /\ UNCHANGED <<score, popper, pc, cur, task, data, jobData>>
      BY <3>1 DEF Expire, IInv, TypeOK
    <3> QED BY <2>3, <3>2 DEF CourseInv, AgreementInv, Agrees
  <2> QED BY <2>1, <2>2, <2>3 DEF AgreementInv
<1>6. StrandedInv'
  <2>1. ASSUME NEW k \in Jobs, Untroubled(k)', Early(k)', Closing(k)'
        PROVE  StateIn(k, Terminal)'
    <3>1. k # j
      BY <2>1 DEF Expire, IInv, TypeOK, Untroubled
    <3>2. /\ stateKey'[k] = stateKey[k] /\ jobKey'[k] = jobKey[k] /\ marks'[k] = marks[k]
          /\ UNCHANGED <<score, popper, pc, cur, task, data, jobData>>
      BY <3>1 DEF Expire, IInv, TypeOK
    <3>3. Untroubled(k) /\ Early(k) /\ Closing(k)
      BY <2>1, <3>2 DEF Untroubled, Early, Closing, Deleting, PastState
    <3> QED BY <3>2, <3>3 DEF CourseInv, StrandedInv, StateIn
  <2>2. ASSUME NEW k \in Jobs, Untroubled(k)', popper'[k] # None, cur'[popper'[k]] # k
        PROVE  StateIn(k, Settled)'
    BY <2>2, JobQueueAssumption DEF CourseInv, IInv, TypeOK, Active, Terminal,
       Settled, ClientInv, WorkerInv, QueueInv, PastState, Expire, redisVars,
       StrandedInv, Untroubled, StateIn, Early, Closing
  <2>3. ASSUME NEW k \in Jobs, Untroubled(k)', NEW v \in Workers, cur'[v] = k,
               pc'[v] = "release" \/ (PastState(v)' /\ task'[v] \in Settled)
        PROVE  StateIn(k, Settled)'
    BY <2>3, JobQueueAssumption DEF CourseInv, IInv, TypeOK, Active, Terminal,
       Settled, ClientInv, WorkerInv, QueueInv, PastState, Expire, redisVars,
       StrandedInv, Untroubled, StateIn
  <2> QED BY <2>1, <2>2, <2>3 DEF StrandedInv
<1>7. ActiveInv'
  BY JobQueueAssumption DEF CourseInv, IInv, TypeOK, Active, Terminal, Settled,
     ClientInv, ActiveInv, WorkerInv, Expire, redisVars
<1> QED BY <1>1, <1>2, <1>3, <1>4, <1>5, <1>6, <1>7 DEF CourseInv

LEMMA InitCourse == Init => CourseInv
<1> SUFFICES ASSUME Init PROVE CourseInv
  OBVIOUS
<1>1. FreshInv /\ MarksInv
  BY JobQueueAssumption DEF Init, FreshInv, MarksInv, Agents
<1>2. WaitingInv /\ RankInv
  BY DEF Init, WaitingInv, Queued, RankInv
<1>3. AgreementInv /\ StrandedInv
  BY DEF Init, AgreementInv, StrandedInv, StateIn
<1>4. ActiveInv
  BY DEF Init, ActiveInv
<1> QED BY <1>1, <1>2, <1>3, <1>4 DEF CourseInv

LEMMA RmwCourse ==
  ASSUME IInv, IInv', CourseInv, NEW a \in Agents, RmwStep(a)
  PROVE  CourseInv'
BY WriteStateCourse, ReadRecordCourse, WriteRecordCourse DEF RmwStep

LEMMA NextCourse == IInv /\ IInv' /\ CourseInv /\ [Next]_vars => CourseInv'
<1> SUFFICES ASSUME IInv, IInv', CourseInv, [Next]_vars PROVE CourseInv'
  OBVIOUS
<1>1. CASE Tick
  BY <1>1, TickCourse
<1>2. CASE \E j \in Jobs, p \in Priorities, d \in 0..MaxDelay : Enqueue(j, p, d)
  BY <1>2, EnqueueCourse
<1>3. ASSUME NEW w \in Workers, WorkerStep(w) PROVE CourseInv'
  BY <1>3, LoopCourse, PollEmptyCourse, PopCourse, GetJobCourse, AssignCourse,
     BeginCourse, TranslateCourse, ReleaseCourse, RmwCourse DEF WorkerStep,
     Agents
<1>4. ASSUME NEW c \in Clients, ClientStep(c) PROVE CourseInv'
  BY <1>4, KillCourse, SaveCheckpointCourse, CleanupOldJobCourse,
     StoreCheckpointCourse, DeleteKeysCourse, RmwCourse DEF ClientStep, Agents,
     CancelJob, FailJob, Terminal
<1>5. CASE Trouble
  BY <1>5, StopCourse, CrashCourse, RestartCourse, AbandonCourse,
     RedisErrorCourse, ExpireCourse DEF Trouble
<1>6. CASE UNCHANGED vars
  <2>1. FreshInv' /\ MarksInv' /\ WaitingInv'
    BY <1>6 DEF vars, CourseInv, FreshInv, MarksInv, WaitingInv, PastState,
       Deleting, Queued, Unharmed
  <2>2. RankInv' /\ AgreementInv' /\ ActiveInv'
    BY <1>6 DEF vars, CourseInv, RankInv, Reached, PastState, Unharmed,
       AgreementInv, InHand, Agrees, ActiveInv
  <2>3. StrandedInv'
    BY <1>6 DEF vars, CourseInv, StrandedInv, Untroubled, Early, Closing,
       StateIn, Deleting, PastState
  <2> QED BY <2>1, <2>2, <2>3 DEF CourseInv
<1> QED BY <1>1, <1>2, <1>3, <1>4, <1>5, <1>6 DEF Next

\* The course of every job is as CourseInv says, in every reachable state.
THEOREM CourseHolds == Spec => []CourseInv
BY InitCourse, NextCourse, InductiveInvariant, PTL DEF Spec

\* The record of a waiting job is intact whatever other processes checkpoint or
\* clean up, and when its worker is done with a job no other process touched,
\* the record agrees with the state, in spite of the stale snapshot that
\* _get_job writes back over it.
THEOREM RecordsCorrect == Spec => []RecordsIntact
<1>1. CourseInv => WaitingJobIntact
  BY DEF CourseInv, WaitingInv, WaitingJobIntact, Unharmed, Pending
<1>2. IInv /\ CourseInv => RecordAgreesWithState
  <2> SUFFICES ASSUME IInv, CourseInv, NEW j \in Jobs, popper[j] # None,
                      marks[j] = {}, ~Held(j)
               PROVE  Agrees(j)
    BY DEF RecordAgreesWithState, Agrees
  <2>1. cur[popper[j]] # j
    BY DEF Held, IInv, TypeOK
  <2> QED BY <2>1 DEF CourseInv, AgreementInv
<1>3. IInv /\ CourseInv => RecordsIntact
  BY <1>1, <1>2 DEF RecordsIntact
<1> QED BY <1>3, InductiveInvariant, CourseHolds, PTL

\* A job that left its queue is in its worker's hands or settled unless a
\* crash, an error or an expiry hit that very job, and active_jobs keeps no
\* place for a job that is not in hand.
THEOREM NothingLeft == Spec => []NothingLeftBehind
<1>1. IInv /\ CourseInv => NoJobStranded
  BY DEF CourseInv, StrandedInv, StateIn, Untroubled, NoJobStranded
<1>2. CourseInv => ActiveJobsReleased
  BY DEF CourseInv, ActiveInv, ActiveJobsReleased, RmwPCs
<1>3. IInv /\ CourseInv => NothingLeftBehind
  BY <1>1, <1>2 DEF NothingLeftBehind
<1> QED BY <1>3, InductiveInvariant, CourseHolds, PTL

\* A worker's SET of the state is a step forward for an unharmed job
LEMMA WriteStateForward ==
  ASSUME IInv, CourseInv, NEW a \in Agents, WriteState(a), NEW j \in Jobs,
         stateKey[j] # None, stateKey'[j] # None, stateKey'[j] # stateKey[j],
         marks'[j] \cap {"kill", "expired"} = {}
  PROVE  Rank(stateKey[j].state) < Rank(stateKey'[j].state)
<1>1. cur[a] = j /\ Unharmed(j) /\ pc[a] = "write_state"
  BY DEF WriteState, Unharmed
<1>2. a \in Workers
  BY <1>1 DEF CourseInv, MarksInv, Unharmed, Agents
<1>3. stateKey'[j].state = task[a] /\ task[a] \in WorkerTasks
  BY <1>1, <1>2 DEF WriteState, IInv, WorkerInv, RmwPCs
<1>4. Rank(stateKey[j].state) <= Rank(task[a]) - 1
  BY <1>1, <1>2 DEF CourseInv, RankInv, Reached, PastState
<1>5. Rank(stateKey[j].state) \in 0..3 /\ Rank(task[a]) \in 0..3
  BY DEF Rank
<1> QED BY <1>3, <1>4, <1>5

LEMMA NextForward ==
  ASSUME IInv, CourseInv, [Next]_vars, NEW j \in Jobs,
         stateKey[j] # None, stateKey'[j] # None, stateKey'[j] # stateKey[j],
         marks'[j] \cap {"kill", "expired"} = {}
  PROVE  Rank(stateKey[j].state) < Rank(stateKey'[j].state)
<1>1. CASE \E a \in Agents : WriteState(a)
  BY <1>1, WriteStateForward
<1>2. CASE \E k \in Jobs, p \in Priorities, d \in 0..MaxDelay : Enqueue(k, p, d)
  BY <1>2 DEF Enqueue, CourseInv, FreshInv
<1>3. CASE (\E c \in Clients : DeleteKeys(c)) \/ (\E k \in Jobs : Expire(k))
  BY <1>3 DEF DeleteKeys, Expire, IInv, TypeOK
<1>4. CASE \/ Tick \/ UNCHANGED vars
           \/ \E w \in Workers : \/ Loop(w) \/ PollEmpty(w) \/ GetJob(w) \/ Assign(w)
                                 \/ Begin(w) \/ Translate(w) \/ Release(w) \/ Stop(w)
                                 \/ Crash(w) \/ Restart(w) \/ \E k \in Jobs : Pop(w, k)
           \/ \E c \in Clients : \/ StoreCheckpoint(c) \/ Abandon(c)
                                 \/ \E k \in Jobs : \/ CancelJob(c, k) \/ FailJob(c, k)
                                                    \/ SaveCheckpoint(c, k)
                                                    \/ CleanupOldJob(c, k)
           \/ \E a \in Agents : ReadRecord(a) \/ WriteRecord(a) \/ RedisError(a)
  <2>1. UNCHANGED stateKey
    BY ZenonT(40), <1>4 DEF Tick, vars, Loop, PollEmpty, GetJob, Assign,
       Begin, Translate, Release, Stop, Crash, Restart, Pop, StoreCheckpoint,
       Abandon, CancelJob, FailJob, SaveCheckpoint, CleanupOldJob, Call,
       ReadRecord, WriteRecord, RedisError, redisVars
  <2> QED BY <2>1
<1> QED
  BY <1>1, <1>2, <1>3, <1>4 DEF Next, WorkerStep, ClientStep, RmwStep, Trouble,
     Agents

\* The state of a job nobody cancels, fails or deletes only moves forward,
\* through every interleaving of commands, crash, restart and Redis error.
THEOREM MovesForward == Spec => StateMovesForward
<1> DEFINE Forward ==
      \A j \in Jobs :
        /\ stateKey[j] # None /\ stateKey[j]' # None /\ stateKey[j]' # stateKey[j]
        /\ marks[j]' \cap {"kill", "expired"} = {}
        => Rank(stateKey[j].state) < Rank(stateKey[j]'.state)
<1>1. IInv /\ CourseInv /\ [Next]_vars => [Forward]_vars
  BY NextForward
<1> QED BY <1>1, InductiveInvariant, CourseHolds, PTL DEF Spec,
   StateMovesForward

=============================================================================
