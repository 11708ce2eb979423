------------------------------- MODULE Watcher -------------------------------
(***************************************************************************)
(* The job watcher of one user: UserWatcherManager (watcher/manager.go),   *)
(* the RSS and WebSocket monitors of every instance it has started, and    *)
(* JobProcessor, which checks, records and publishes what they find.       *)
(*                                                                         *)
(* Everything is kept per user (map entry, rows, Redis keys), so users do  *)
(* not disturb each other.  An instance is three goroutines around one     *)
(* channel; StopWatcher cancels their context and returns at once, so an   *)
(* old instance is still winding down when the next one runs.              *)
(***************************************************************************)
EXTENDS Naturals, Sequences, FiniteSets, SequencesExt

CONSTANTS
  RssJobs,     \* items the RSS feed may carry (GUIDs)
  WsJobs,      \* jobs the platform may announce on its WebSocket
  Reward,      \* reward of each RSS item
  Configs,     \* values of [min, max], the reward range in watcher_config
  Credentials, \* the session token and the user key are configured
  ChanCap,     \* capacity of jobChan
  LruCap,      \* capacity of a monitor's seenIDs
  MaxStarts,   \* bound on the instances started
  MaxUpdates,  \* bound on the updates of the configuration
  MaxTrouble   \* bound on crashes, errors of Redis and the database, expiries

Jobs  == RssJobs \cup WsJobs
NoJob == "no job"

ASSUME WatcherAssumption ==
  /\ NoJob \notin Jobs
  /\ RssJobs \cap WsJobs = {}
  /\ Reward \in [RssJobs -> Nat]
  /\ Configs # {} /\ \A c \in Configs : c.min \in Nat /\ c.max \in Nat
  /\ Credentials \in BOOLEAN
  /\ {ChanCap, LruCap, MaxStarts} \subseteq Nat \ {0}
  /\ {MaxUpdates, MaxTrouble} \subseteq Nat

VARIABLES
  \* the database and Redis
  config,    \* reward range in the user's watcher_config row
  dbStatus,  \* watcher_status in the user's watcher_state row
  found,     \* total_jobs_found in that row
  seen,      \* user:<id>:seen_jobs
  \* the manager
  lock,      \* what the holder of m.mu does next, "free" without one
  current,   \* the instance in m.watchers, 0 without an entry
  running,   \* its Running field
  started,   \* instances started so far
  cancelled, \* instances whose context is done
  inFlight,  \* instances with a Redis command under way when it was cancelled
  \* the instances
  minReward, \* minReward[i]: MinReward of the RSS monitor
  jobChan,   \* jobChan[i]
  rss,       \* rss[i]: the RSS monitor's goroutine
  ws,        \* ws[i]: the WebSocket monitor's goroutine
  loop,      \* loop[i]: runWatcher and ProcessJob
  \* the world and the history
  feed,      \* items in the RSS feed
  published, \* published[j]: how often job j was announced to the user
  marks,     \* marks[j]: what disturbed the announcement of job j
  updates,   \* updates of the configuration so far
  trouble    \* crashes, errors and expiries so far

vars == <<config, dbStatus, found, seen, lock, current, running, started,
          cancelled, inFlight, minReward, jobChan, rss, ws, loop, feed,
          published, marks, updates, trouble>>

store   == <<config, dbStatus, found, seen>>
manager == <<lock, current, running, started, cancelled>>
world   == <<feed, published, marks, updates>>

Instances == 1..MaxStarts

\* A notice on the WebSocket names no reward: handleJobAvailable sets 0
RewardOf(j) == IF j \in RssJobs THEN Reward[j] ELSE 0

\* matchesRewardFilter
Matches(j, range) == range.min <= RewardOf(j) /\ RewardOf(j) <= range.max

\* GetStatus: the instance in the map, else the database
Status == IF current # 0 THEN IF running THEN "running" ELSE "stopped"
          ELSE dbStatus

Busy(i)  == loop[i].job # NoJob
Ended(i) == rss[i].pc = "end" /\ ws[i].pc = "end" /\ loop[i].pc = "end"

Init ==
  /\ config \in Configs
  /\ dbStatus = "stopped" /\ found = 0 /\ seen = {}
  /\ lock = "free" /\ current = 0 /\ running = FALSE
  /\ started = 0 /\ cancelled = {} /\ inFlight = {}
  /\ minReward = [i \in Instances |-> 0]
  /\ jobChan = [i \in Instances |-> <<>>]
  /\ rss = [i \in Instances |->
              [pc |-> "off", todo |-> {}, seenIDs |-> <<>>, job |-> NoJob]]
  /\ ws = [i \in Instances |-> [pc |-> "off", seenIDs |-> <<>>, job |-> NoJob]]
  /\ loop = [i \in Instances |-> [pc |-> "off", job |-> NoJob, fresh |-> TRUE]]
  /\ feed = {}
  /\ published = [j \in Jobs |-> 0]
  /\ marks = [j \in Jobs |-> {}]
  /\ updates = 0 /\ trouble = 0

Trouble == trouble < MaxTrouble /\ trouble' = trouble + 1

-----------------------------------------------------------------------------
(* LRUCache.Add: seenIDs is the list from the least recently used entry on *)

\* Faulty variant: the cache is never trimmed
AddUnbounded(ids, j) == Append(ids, j)

Add(ids, j) ==
  LET touched == CHOOSE k \in DOMAIN ids : ids[k] = j
      evicted == IF Len(ids) < LruCap THEN ids ELSE Tail(ids)
  IN Append(IF Contains(ids, j) THEN RemoveAt(ids, touched) ELSE evicted, j)

-----------------------------------------------------------------------------
(* UserWatcherManager: the operations that hold m.mu *)

\* Faulty variant: a running instance is replaced
StartAgain ==
  /\ lock = "free"
  /\ started < MaxStarts
  /\ LET i == started + 1 IN
       /\ started' = i
       /\ current' = i
       /\ running' = TRUE
       /\ minReward' = [minReward EXCEPT ![i] = config.min]
       /\ rss' = [rss EXCEPT ![i].pc = "fetch"]
       /\ ws' = [ws EXCEPT ![i].pc = IF Credentials THEN "connect" ELSE "end"]
       /\ loop' = [loop EXCEPT ![i].pc = "select"]
  /\ lock' = "put_running"
  /\ UNCHANGED <<store, cancelled, inFlight, jobChan, world, trouble>>

(* StartWatcher up to its go statement.  Everything before only reads; an  *)
(* error there, or a running instance, refuses the request.                *)
Start ==
  /\ lock = "free"
  /\ ~running
  /\ started < MaxStarts
  /\ LET i == started + 1 IN
       /\ started' = i
       /\ current' = i
       /\ running' = TRUE
       /\ minReward' = [minReward EXCEPT ![i] = config.min]
       /\ rss' = [rss EXCEPT ![i].pc = "fetch"]
       /\ ws' = [ws EXCEPT ![i].pc = IF Credentials THEN "connect" ELSE "end"]
       /\ loop' = [loop EXCEPT ![i].pc = "select"]
  /\ lock' = "put_running"
  /\ UNCHANGED <<store, cancelled, inFlight, jobChan, world, trouble>>

\* Commands of the job pipeline that run on the instance's context
RedisPCs == {"check", "record", "publish"}

\* StopWatcher up to Running = false; a stopped instance may be stopped again
Stop ==
  /\ lock = "free"
  /\ current # 0
  /\ cancelled' = cancelled \cup {current}
  /\ inFlight' = IF current \notin cancelled /\ loop[current].pc \in RedisPCs
                   THEN inFlight \cup {current} ELSE inFlight
  /\ running' = FALSE
  /\ lock' = "put_stopped"
  /\ UNCHANGED <<store, current, started, minReward, jobChan, rss, ws, loop,
                 world, trouble>>

\* UpdateStatus.  StartWatcher only logs an error, StopWatcher returns it.
PutStatus ==
  /\ lock \in {"put_running", "put_stopped"}
  /\ \/ /\ dbStatus' = IF lock = "put_running" THEN "running" ELSE "stopped"
        /\ lock' = "publish"
        /\ UNCHANGED trouble
     \/ /\ Trouble
        /\ lock' = IF lock = "put_running" THEN "publish" ELSE "free"
        /\ UNCHANGED dbStatus
  /\ UNCHANGED <<config, found, seen, current, running, started, cancelled,
                 inFlight, minReward, jobChan, rss, ws, loop, world>>

\* PublishEvent on a context of its own; the mutex is released either way
PublishEvent ==
  /\ lock = "publish"
  /\ lock' = "free"
  /\ UNCHANGED <<store, current, running, started, cancelled, inFlight,
                 minReward, jobChan, rss, ws, loop, world, trouble>>

\* updateConfigLogic of the handler: the row only, no instance hears of it
UpdateConfig ==
  /\ updates < MaxUpdates
  /\ updates' = updates + 1
  /\ config' \in Configs \ {config}
  /\ loop' = [i \in Instances |-> [loop[i] EXCEPT !.fresh = ~Busy(i)]]
  /\ UNCHANGED <<dbStatus, found, seen, manager, inFlight, minReward, jobChan,
                 rss, ws, feed, published, marks, trouble>>

(* The server dies, or is shut down: main never calls StopAll, nothing     *)
(* starts the instances again.                                             *)
Crash ==
  /\ Trouble
  /\ started > 0
  /\ lock' = "free"
  /\ current' = 0
  /\ running' = FALSE
  /\ cancelled' = 1..started
  /\ inFlight' = {}
  /\ jobChan' = [i \in Instances |-> <<>>]
  /\ rss' = [i \in Instances |-> IF i <= started
               THEN [pc |-> "end", todo |-> {}, seenIDs |-> <<>>, job |-> NoJob]
               ELSE rss[i]]
  /\ ws' = [i \in Instances |-> IF i <= started
               THEN [pc |-> "end", seenIDs |-> <<>>, job |-> NoJob] ELSE ws[i]]
  /\ loop' = [i \in Instances |-> IF i <= started
               THEN [pc |-> "end", job |-> NoJob, fresh |-> TRUE] ELSE loop[i]]
  /\ marks' = [j \in Jobs |->
       IF \E i \in Instances : loop[i].job = j /\ loop[i].pc \in {"count", "publish"}
         THEN marks[j] \cup {"unpublished"} ELSE marks[j]]
  /\ UNCHANGED <<store, started, minReward, feed, published, updates>>

-----------------------------------------------------------------------------
(* RSSMonitor: Start and Fetch *)

Monitors == <<store, manager, inFlight, minReward, world, trouble>>

Post(j) ==
  /\ j \notin feed
  /\ feed' = feed \cup {j}
  /\ UNCHANGED <<store, manager, inFlight, minReward, jobChan, rss, ws, loop,
                 published, marks, updates, trouble>>

\* The feed as the server has it, or an HTTP error
Fetch(i) ==
  /\ rss[i].pc = "fetch"
  /\ \/ rss' = [rss EXCEPT ![i].pc = "items", ![i].todo = feed]
     \/ trouble < MaxTrouble /\ rss' = [rss EXCEPT ![i].pc = "wait"]
  /\ UNCHANGED <<Monitors, jobChan, ws, loop>>

\* One item: seenIDs.Add comes first, the reward range as of the start second
FetchItem(i, j) ==
  /\ rss[i].pc = "items"
  /\ j \in rss[i].todo
  /\ LET send == ~Contains(rss[i].seenIDs, j) /\ Reward[j] >= minReward[i]
     IN rss' = [rss EXCEPT ![i].todo = @ \ {j},
                           ![i].seenIDs = Add(@, j),
                           ![i].pc = IF send THEN "send" ELSE "items",
                           ![i].job = IF send THEN j ELSE NoJob]
  /\ UNCHANGED <<Monitors, jobChan, ws, loop>>

\* Faulty variant: an item is dropped when the channel is full
SendItemOrDrop(i) ==
  /\ rss[i].pc = "send"
  /\ jobChan' = IF Len(jobChan[i]) < ChanCap
                  THEN [jobChan EXCEPT ![i] = Append(@, rss[i].job)] ELSE jobChan
  /\ rss' = [rss EXCEPT ![i].pc = "items", ![i].job = NoJob]
  /\ UNCHANGED <<Monitors, ws, loop>>

\* Faulty variant: the send does not look at the context
SendItemBlocking(i) ==
  /\ rss[i].pc = "send"
  /\ Len(jobChan[i]) < ChanCap
  /\ jobChan' = [jobChan EXCEPT ![i] = Append(@, rss[i].job)]
  /\ rss' = [rss EXCEPT ![i].pc = "items", ![i].job = NoJob]
  /\ UNCHANGED <<Monitors, ws, loop>>

\* select: send to the channel, or give up when the context is done
SendItem(i) ==
  /\ rss[i].pc = "send"
  /\ \/ /\ Len(jobChan[i]) < ChanCap
        /\ jobChan' = [jobChan EXCEPT ![i] = Append(@, rss[i].job)]
        /\ rss' = [rss EXCEPT ![i].pc = "items", ![i].job = NoJob]
     \/ /\ i \in cancelled
        /\ rss' = [rss EXCEPT ![i].pc = "wait", ![i].todo = {}, ![i].job = NoJob]
        /\ UNCHANGED jobChan
  /\ UNCHANGED <<Monitors, ws, loop>>

(* extractJobID of an item with neither GUID nor link nor date dereferences *)
(* a nil date; runWatcher recovers, and the monitor is over.               *)
FetchPanics(i) ==
  /\ rss[i].pc = "items"
  /\ rss[i].todo # {}
  /\ trouble < MaxTrouble
  /\ rss' = [rss EXCEPT ![i].pc = "end", ![i].todo = {}]
  /\ UNCHANGED <<Monitors, jobChan, ws, loop>>

\* The end of Fetch, the tick that starts the next one, and the end
PollRss(i) ==
  /\ \/ /\ rss[i].pc = "items" /\ rss[i].todo = {}
        /\ rss' = [rss EXCEPT ![i].pc = "wait"]
     \/ /\ rss[i].pc = "wait"
        /\ rss' = [rss EXCEPT ![i].pc = "fetch"]
     \/ /\ rss[i].pc = "wait" /\ i \in cancelled
        /\ rss' = [rss EXCEPT ![i].pc = "end"]
  /\ UNCHANGED <<Monitors, jobChan, ws, loop>>

-----------------------------------------------------------------------------
(* WebSocketMonitor: Start, connectAndMonitor, handleJobAvailable *)

\* Dial and authenticate; the connection is lost and dialled again after 1s
Connect(i) ==
  /\ \/ ws[i].pc = "connect" /\ ws' = [ws EXCEPT ![i].pc = "live"]
     \/ ws[i].pc = "live"    /\ ws' = [ws EXCEPT ![i].pc = "connect"]
  /\ UNCHANGED <<Monitors, jobChan, rss, loop>>

(* No message within HeartbeatInterval + 5s: the read times out and the    *)
(* loop reads on, but a connection of the WebSocket library keeps its read *)
(* error and panics when it is read 1000 times; runWatcher recovers.       *)
Silence(i) ==
  /\ ws[i].pc = "live"
  /\ ws' = [ws EXCEPT ![i].pc = "end"]
  /\ UNCHANGED <<Monitors, jobChan, rss, loop>>

Receive(i, j) ==
  /\ ws[i].pc = "live"
  /\ LET new == ~Contains(ws[i].seenIDs, j)
     IN ws' = [ws EXCEPT ![i].seenIDs = Add(@, j),
                         ![i].pc = IF new THEN "send" ELSE "live",
                         ![i].job = IF new THEN j ELSE NoJob]
  /\ UNCHANGED <<Monitors, jobChan, rss, loop>>

\* select: send to the channel, or drop the job when 5s have passed
SendNotice(i) ==
  /\ ws[i].pc = "send"
  /\ ws' = [ws EXCEPT ![i].pc = "live", ![i].job = NoJob]
  /\ IF Len(jobChan[i]) < ChanCap
       THEN jobChan' = [jobChan EXCEPT ![i] = Append(@, ws[i].job)]
       ELSE UNCHANGED jobChan
  /\ UNCHANGED <<Monitors, rss, loop>>

EndWs(i) ==
  /\ ws[i].pc \in {"connect", "live"}
  /\ i \in cancelled
  /\ ws' = [ws EXCEPT ![i].pc = "end"]
  /\ UNCHANGED <<Monitors, jobChan, rss, loop>>

-----------------------------------------------------------------------------
(* runWatcher's loop and ProcessJob *)

Sources == <<config, dbStatus, manager, minReward, rss, ws, feed, updates>>

Goto(i, pc) == loop' = [loop EXCEPT ![i].pc = pc]
Return(i)   == loop' = [loop EXCEPT ![i] = [@ EXCEPT !.pc = "select", !.job = NoJob]]

(* A Redis command of an instance reaches Redis unless its context is done *)
(* before it is issued; it fails then, or when Redis does.                 *)
Reaches(i) ==
  /\ i \notin cancelled \/ i \in inFlight
  /\ inFlight' = inFlight \ {i}
  /\ UNCHANGED trouble

Fails(i) ==
  /\ \/ i \in cancelled /\ UNCHANGED trouble
     \/ i \notin cancelled /\ Trouble
  /\ inFlight' = inFlight \ {i}

\* Redis carries the command out and its reply is lost
ReplyLost(i) ==
  /\ i \notin cancelled \/ i \in inFlight
  /\ inFlight' = inFlight \ {i}
  /\ Trouble

\* select: the next job, or the end (either one when both are possible)
Select(i) ==
  /\ loop[i].pc = "select"
  /\ \/ /\ jobChan[i] # <<>>
        /\ loop' = [loop EXCEPT ![i] =
                      [pc |-> "check", job |-> Head(jobChan[i]), fresh |-> TRUE]]
        /\ jobChan' = [jobChan EXCEPT ![i] = Tail(@)]
     \/ /\ i \in cancelled
        /\ Goto(i, "end")
        /\ UNCHANGED jobChan
  /\ UNCHANGED <<Sources, found, seen, inFlight, published, marks, trouble>>

\* isJobSeen: SISMEMBER; on an error the job is processed all the same
Check(i) ==
  /\ loop[i].pc = "check"
  /\ \/ /\ Reaches(i)
        /\ IF loop[i].job \in seen THEN Return(i) ELSE Goto(i, "load")
        /\ UNCHANGED marks
     \/ /\ Fails(i)
        /\ Goto(i, "load")
        /\ marks' = [marks EXCEPT ![loop[i].job] = @ \cup {"unchecked"}]
  /\ UNCHANGED <<Sources, found, seen, jobChan, published>>

\* Faulty variant: the filter uses the range the instance was started with
LoadOnce(i) ==
  /\ loop[i].pc = "load"
  /\ IF RewardOf(loop[i].job) >= minReward[i] THEN Goto(i, "record") ELSE Return(i)
  /\ UNCHANGED <<Sources, found, seen, inFlight, jobChan, published, marks, trouble>>

\* loadConfig and matchesRewardFilter; the database has no context to end
Load(i) ==
  /\ loop[i].pc = "load"
  /\ \/ /\ IF Matches(loop[i].job, config) THEN Goto(i, "record") ELSE Return(i)
        /\ UNCHANGED trouble
     \/ Trouble /\ Return(i)
  /\ UNCHANGED <<Sources, found, seen, inFlight, jobChan, published, marks>>

(* recordJob: SADD, and EXPIRE, whose error nobody looks at.  An SADD whose *)
(* reply is lost has recorded the job, and ProcessJob returns all the same. *)
Record(i) ==
  /\ loop[i].pc = "record"
  /\ \/ /\ Reaches(i)
        /\ seen' = seen \cup {loop[i].job}
        /\ Goto(i, "count")
        /\ UNCHANGED marks
     \/ /\ ReplyLost(i)
        /\ seen' = seen \cup {loop[i].job}
        /\ Return(i)
        /\ marks' = [marks EXCEPT ![loop[i].job] = @ \cup {"unpublished"}]
     \/ /\ Fails(i)
        /\ Return(i)
        /\ UNCHANGED <<seen, marks>>
  /\ UNCHANGED <<Sources, found, jobChan, published>>

\* Faulty variant: a failing statistic ends the processing
CountOrReturn(i) ==
  /\ loop[i].pc = "count"
  /\ \/ found' = found + 1 /\ Goto(i, "publish") /\ UNCHANGED trouble
     \/ Trouble /\ Return(i) /\ UNCHANGED found
  /\ UNCHANGED <<Sources, seen, inFlight, jobChan, published, marks>>

\* Faulty variant: StateManager.IncrementJobCount is called as well
CountTwice(i) ==
  /\ loop[i].pc = "count"
  /\ found' = found + 2
  /\ Goto(i, "publish")
  /\ UNCHANGED <<Sources, seen, inFlight, jobChan, published, marks, trouble>>

\* incrementJobCount; an error is only logged
Count(i) ==
  /\ loop[i].pc = "count"
  /\ Goto(i, "publish")
  /\ \/ found' = found + 1 /\ UNCHANGED trouble
     \/ Trouble /\ UNCHANGED found
  /\ UNCHANGED <<Sources, seen, inFlight, jobChan, published, marks>>

\* Faulty variant: PUBLISH runs on a context of its own
PublishDetached(i) ==
  /\ loop[i].pc = "publish"
  /\ published' = [published EXCEPT ![loop[i].job] = @ + 1]
  /\ inFlight' = inFlight \ {i}
  /\ Return(i)
  /\ UNCHANGED <<Sources, found, seen, jobChan, marks, trouble>>

(* publishJob: PUBLISH; an error leaves the job recorded and unannounced.  *)
(* When a reply is lost the client of the library sends the command again. *)
Publish(i) ==
  /\ loop[i].pc = "publish"
  /\ \/ /\ Reaches(i)
        /\ published' = [published EXCEPT ![loop[i].job] = @ + 1]
        /\ UNCHANGED marks
     \/ /\ ReplyLost(i)
        /\ published' = [published EXCEPT ![loop[i].job] = @ + 2]
        /\ marks' = [marks EXCEPT ![loop[i].job] = @ \cup {"repeated"}]
     \/ /\ Fails(i)
        /\ marks' = [marks EXCEPT ![loop[i].job] = @ \cup {"unpublished"}]
        /\ UNCHANGED published
  /\ Return(i)
  /\ UNCHANGED <<Sources, found, seen, jobChan>>

\* The set's 24 hours have passed without a new member
Expire ==
  /\ Trouble
  /\ seen # {}
  /\ seen' = {}
  /\ marks' = [j \in Jobs |-> IF j \in seen THEN marks[j] \cup {"expired"} ELSE marks[j]]
  /\ UNCHANGED <<config, dbStatus, found, manager, inFlight, minReward, jobChan,
                 rss, ws, loop, feed, published, updates>>

-----------------------------------------------------------------------------
ManagerStep == Start \/ Stop \/ PutStatus \/ PublishEvent

RssStep(i) == \/ \E j \in RssJobs : FetchItem(i, j)
              \/ Fetch(i) \/ FetchPanics(i) \/ SendItem(i) \/ PollRss(i)

WsStep(i) == \/ \E j \in WsJobs : Receive(i, j)
             \/ Connect(i) \/ Silence(i) \/ SendNotice(i) \/ EndWs(i)

LoopStep(i) == Select(i) \/ Check(i) \/ Load(i) \/ Record(i) \/ Count(i) \/ Publish(i)

Next ==
  \/ ManagerStep \/ UpdateConfig \/ Crash \/ Expire
  \/ \E j \in RssJobs : Post(j)
  \/ \E i \in Instances : RssStep(i) \/ WsStep(i) \/ LoopStep(i)

Spec == Init /\ [][Next]_vars

(* The scheduler runs every goroutine that can run, and select picks among *)
(* its ready cases at random, so a case that is ready again and again is   *)
(* taken.  Nobody has to start or stop anything.                           *)
EndRss(i) == i \in cancelled /\ PollRss(i) /\ rss'[i].pc = "end"
EndLoop(i) == i \in cancelled /\ Select(i) /\ loop'[i].pc = "end"

Fairness ==
  /\ WF_vars(PutStatus \/ PublishEvent)
  /\ \A i \in Instances :
       /\ WF_vars(RssStep(i)) /\ SF_vars(EndRss(i)) /\ SF_vars(SendItem(i))
       /\ WF_vars(SendNotice(i)) /\ SF_vars(EndWs(i))
       /\ WF_vars(LoopStep(i)) /\ SF_vars(EndLoop(i))

FairSpec == Spec /\ Fairness

-----------------------------------------------------------------------------
(* Properties *)

RssStates ==
  {r \in [pc : {"off", "fetch", "items", "send", "wait", "end"}, todo : SUBSET RssJobs,
          seenIDs : Seq(RssJobs), job : RssJobs \cup {NoJob}] :
     Len(r.seenIDs) <= LruCap /\ (r.pc = "send" <=> r.job # NoJob)}

WsStates ==
  {w \in [pc : {"off", "connect", "live", "send", "end"}, seenIDs : Seq(WsJobs),
          job : WsJobs \cup {NoJob}] :
     Len(w.seenIDs) <= LruCap /\ (w.pc = "send" <=> w.job # NoJob)}

LoopStates ==
  {l \in [pc : {"off", "select", "load", "count", "end"} \cup RedisPCs,
          job : Jobs \cup {NoJob}, fresh : BOOLEAN] :
     l.pc \in {"off", "select", "end"} <=> l.job = NoJob}

Channels == {c \in Seq(Jobs) : Len(c) <= ChanCap}

\* Type invariant.
TypeOK ==
  /\ config \in Configs
  /\ dbStatus \in {"running", "stopped"}
  /\ found \in Nat
  /\ seen \subseteq Jobs
  /\ lock \in {"free", "put_running", "put_stopped", "publish"}
  /\ current \in 0..started /\ started \in 0..MaxStarts /\ running \in BOOLEAN
  /\ inFlight \subseteq cancelled /\ cancelled \subseteq 1..started
  /\ minReward \in [Instances -> Nat]
  /\ jobChan \in [Instances -> Channels]
  /\ rss \in [Instances -> RssStates]
  /\ ws \in [Instances -> WsStates]
  /\ loop \in [Instances -> LoopStates]
  /\ feed \subseteq RssJobs
  /\ published \in [Jobs -> Nat]
  /\ marks \in [Jobs -> SUBSET {"unchecked", "expired", "unpublished", "repeated"}]
  /\ updates \in 0..MaxUpdates /\ trouble \in 0..MaxTrouble

\* No instance escapes StopWatcher: the one whose context is not done is the
\* one in the map, and it is marked running (StartWatcher replaces the map
\* entry, so an instance started over a running one could not be stopped).
NoOrphanWatcher ==
  \A i \in 1..started \ cancelled : i = current /\ running

\* The user hears of a job once, across polls, cache evictions, stops,
\* restarts and an old instance that is still at work on the job, unless the
\* look-up failed, the set expired or a PUBLISH without a reply was sent again
\* (JobProcessor.ProcessJob).
PublishedOnce ==
  \A j \in Jobs : marks[j] \cap {"unchecked", "expired", "repeated"} = {} => published[j] <= 1

\* A recorded job, which no later poll brings up again, has been announced or
\* is about to be; if not, the reply to its SADD was lost, the PUBLISH itself
\* failed or the process died.
RecordedIsAnnounced ==
  \A j \in seen :
    \/ published[j] > 0
    \/ "unpublished" \in marks[j]
    \/ \E i \in Instances : loop[i].job = j /\ loop[i].pc \in {"count", "publish"}

\* The announcements, job by job, and the instances about to make one
Announcements == UNION {{j} \X (1..published[j]) : j \in Jobs}
UnderWay      == {i \in Instances : loop[i].pc = "publish"}

\* total_jobs_found counts every announcement, whether made or about to be, and
\* beyond those at most one job per stopped instance: the one it had recorded
\* and was stopped from announcing.
TotalExact ==
  trouble = 0 =>
    found - (Cardinality(Announcements) + Cardinality(UnderWay)) \in 0..Cardinality(cancelled)

\* A job taken up after the last change of the configuration is announced only
\* within the new range, by whichever instance.
ConfigRespected ==
  [][\A i \in Instances :
       loop[i].pc = "publish" /\ loop[i].fresh /\ published' # published
         /\ loop'[i].pc = "select"
       => Matches(loop[i].job, config)]_vars

\* While the watcher runs, an item of the feed that is in range is announced.
MatchAnnounced ==
  \A j \in RssJobs :
    (j \in feed /\ running /\ Matches(j, config))
      ~> (published[j] > 0 \/ ~running \/ trouble > 0 \/ updates > 0)

\* The goroutines of a stopped instance end, though one may be blocked on the
\* full channel nobody reads any more.
StoppedEnds == \A i \in Instances : (i \in cancelled) ~> Ended(i)

\* watcher-system.md:63 says that a running watcher is actively monitoring.
RunningIsMonitored ==
  lock = "free" /\ Status = "running" =>
    \E i \in 1..started \ cancelled : ~Ended(i)
=============================================================================
