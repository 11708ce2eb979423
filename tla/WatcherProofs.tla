---------------------------- MODULE WatcherProofs ----------------------------
(***************************************************************************)
(* Theorems about Watcher for every feed, any number of instances and      *)
(* every bound.  The job pipeline touches a small part of the state; the   *)
(* invariants speak of that part (core), which monitors and status updates *)
(* leave alone.                                                            *)
(***************************************************************************)
EXTENDS Watcher, TLAPS, SequenceTheorems, FiniteSetTheorems

Unstarted == \A i \in Instances : i > started =>
  rss[i].pc = "off" /\ ws[i].pc = "off" /\ loop[i].pc = "off"

\* At most one instance is not cancelled, the current one while it runs; only
\* a cancelled instance with a command under way is in inFlight
LifeInv ==
  /\ Unstarted
  /\ running => current # 0
  /\ NoOrphanWatcher
  /\ \A i \in inFlight : loop[i].pc \in RedisPCs

\* An instance that may yet announce job j: past the look-up and not
\* cancelled, or cancelled with its PUBLISH under way
MayAnnounce(i, j) ==
  /\ loop[i].job = j
  /\ \/ i \notin cancelled /\ loop[i].pc \in {"load", "record", "count", "publish"}
     \/ i \in inFlight /\ loop[i].pc = "publish"

\* No look-up of j failed, the set did not expire with j in it, and no PUBLISH of
\* it was sent twice
Clean(j) == marks[j] \cap {"unchecked", "expired", "repeated"} = {}

\* What is recorded stays recorded while the set lives; whoever may announce a
\* job is the only one, and the job has not been announced
OnceInv ==
  /\ \A j \in Jobs : published[j] > 0 => j \in seen \/ "expired" \in marks[j]
  /\ \A i \in Instances : loop[i].pc \in {"count", "publish"} =>
       loop[i].job \in seen \/ "expired" \in marks[loop[i].job]
  /\ \A j \in Jobs, i \in Instances : Clean(j) /\ MayAnnounce(i, j) =>
       /\ published[j] = 0
       /\ \A k \in Instances : MayAnnounce(k, j) => k = i

\* A job past the filter without a change of the range is in the range
FreshInv ==
  \A i \in Instances :
    loop[i].fresh /\ loop[i].pc \in {"record", "count", "publish"} => Matches(loop[i].job, config)

IInv == TypeOK /\ LifeInv /\ OnceInv /\ PublishedOnce /\ RecordedIsAnnounced /\ FreshInv

-----------------------------------------------------------------------------
(* Type correctness *)

LEMMA AddType ==
  ASSUME NEW S, NEW ids \in Seq(S), NEW j \in S, Len(ids) <= LruCap
  PROVE  Add(ids, j) \in Seq(S) /\ Len(Add(ids, j)) <= LruCap
<1> LruCap \in Nat \ {0}
  BY WatcherAssumption
<1>1. CASE Contains(ids, j)
  <2> DEFINE k == CHOOSE x \in DOMAIN ids : ids[x] = j
  <2>1. k \in 1..Len(ids)
    BY <1>1 DEF Contains
  <2> HIDE DEF k
  <2>2. SubSeq(ids, 1, k - 1) \in Seq(S) /\ Len(SubSeq(ids, 1, k - 1)) = k - 1
    BY <2>1, SubSeqProperties
  <2>3. SubSeq(ids, k + 1, Len(ids)) \in Seq(S) /\ Len(SubSeq(ids, k + 1, Len(ids))) = Len(ids) - k
    BY <2>1, SubSeqProperties
  <2>4. RemoveAt(ids, k) \in Seq(S) /\ Len(RemoveAt(ids, k)) = Len(ids) - 1
    <3>1. RemoveAt(ids, k) \in Seq(S)
      BY <2>2, <2>3, ConcatProperties DEF RemoveAt
    <3>2. Len(RemoveAt(ids, k)) = (k - 1) + (Len(ids) - k)
      BY <2>2, <2>3, ConcatProperties DEF RemoveAt
    <3> QED
      BY <2>1, <3>1, <3>2
  <2>5. Add(ids, j) = Append(RemoveAt(ids, k), j)
    BY <1>1 DEF Add, k
  <2> QED
    BY <2>1, <2>4, <2>5
<1>2. CASE ~Contains(ids, j)
  BY <1>2 DEF Add
<1> QED
  BY <1>1, <1>2

LEMMA InitType == Init => TypeOK /\ Unstarted
<1> SUFFICES ASSUME Init PROVE TypeOK /\ Unstarted
  OBVIOUS
<1> USE WatcherAssumption DEF Init
<1>1. rss \in [Instances -> RssStates] /\ ws \in [Instances -> WsStates]
  BY DEF RssStates, WsStates
<1>2. loop \in [Instances -> LoopStates] /\ jobChan \in [Instances -> Channels]
  BY DEF LoopStates, Channels
<1>3. published \in [Jobs -> Nat] /\ marks \in [Jobs -> SUBSET {"unchecked", "expired", "unpublished", "repeated"}]
  OBVIOUS
<1>4. Unstarted
  BY DEF Unstarted
<1>5. minReward \in [Instances -> Nat]
  OBVIOUS
<1>6. current \in 0..started /\ started \in 0..MaxStarts /\ cancelled \subseteq 1..started
  OBVIOUS
<1>7. updates \in 0..MaxUpdates /\ trouble \in 0..MaxTrouble
  OBVIOUS
<1> HIDE WatcherAssumption DEF Init
<1> QED
  BY <1>1, <1>2, <1>3, <1>4, <1>5, <1>6, <1>7 DEF Init, TypeOK

LEMMA ManagerType ==
  ASSUME TypeOK, Unstarted, ManagerStep \/ UpdateConfig \/ Crash \/ Expire
  PROVE  TypeOK'
<1> USE WatcherAssumption DEF TypeOK, store, manager, world
<1>1. CASE Start
  <2> DEFINE i == started + 1
  <2>1. i \in Instances /\ config.min \in Nat
    BY <1>1 DEF Start, Instances
  <2>2. rss[i].pc = "off" /\ ws[i].pc = "off" /\ loop[i].pc = "off"
    BY <2>1 DEF Unstarted
  <2> HIDE DEF i
  <2>3. rss' \in [Instances -> RssStates]
    <3>1. [rss[i] EXCEPT !.pc = "fetch"] \in RssStates
      BY ZenonT(40), <2>1, <2>2 DEF RssStates
    <3> QED
      BY <1>1, <3>1 DEF Start, i
  <2>4. ws' \in [Instances -> WsStates]
    <3>1. \A pc \in {"connect", "end"} : [ws[i] EXCEPT !.pc = pc] \in WsStates
      BY <2>1, <2>2 DEF WsStates
    <3> QED
      BY <1>1, <3>1 DEF Start, i
  <2>5. loop' \in [Instances -> LoopStates]
    <3>1. [loop[i] EXCEPT !.pc = "select"] \in LoopStates
      BY <2>1, <2>2 DEF LoopStates
    <3> QED
      BY <1>1, <3>1 DEF Start, i
  <2> QED
    BY SMTT(30), <1>1, <2>1, <2>3, <2>4, <2>5 DEF Start, i, Instances
<1>2. CASE Stop
  <2>1. current \in 1..started /\ cancelled' = cancelled \cup {current}
    BY <1>2 DEF Stop
  <2>2. inFlight' \subseteq cancelled' /\ cancelled' \subseteq 1..started
    BY <1>2, <2>1 DEF Stop
  <2> QED
    BY <1>2, <2>2 DEF Stop
<1>3. CASE PutStatus
  BY <1>3 DEF PutStatus, Trouble
<1>4. CASE PublishEvent
  BY <1>4 DEF PublishEvent
<1>5. CASE UpdateConfig
  <2>1. loop' \in [Instances -> LoopStates]
    BY ZenonT(40), <1>5 DEF UpdateConfig, LoopStates, Busy
  <2>2. updates' \in 0..MaxUpdates /\ config' \in Configs
    BY <1>5 DEF UpdateConfig
  <2> QED
    BY <1>5, <2>1, <2>2 DEF UpdateConfig
<1>6. CASE Crash
  <2>1. rss' \in [Instances -> RssStates]
    BY <1>6 DEF Crash, RssStates
  <2>2. ws' \in [Instances -> WsStates]
    BY <1>6 DEF Crash, WsStates
  <2>3. loop' \in [Instances -> LoopStates]
    BY <1>6 DEF Crash, LoopStates
  <2>4. jobChan' \in [Instances -> Channels]
    BY <1>6 DEF Crash, Channels
  <2>5. marks' \in [Jobs -> SUBSET {"unchecked", "expired", "unpublished", "repeated"}]
    BY <1>6 DEF Crash
  <2>6. trouble' \in 0..MaxTrouble /\ current' \in 0..started'
    BY <1>6 DEF Crash, Trouble
  <2> QED
    BY <1>6, <2>1, <2>2, <2>3, <2>4, <2>5, <2>6 DEF Crash
<1>7. CASE Expire
  BY <1>7 DEF Expire, Trouble
<1> QED
  BY <1>1, <1>2, <1>3, <1>4, <1>5, <1>6, <1>7 DEF ManagerStep

\* A monitor changes its own goroutine and its channel, nothing else
LEMMA RssEffect ==
  ASSUME TypeOK, NEW i \in Instances, RssStep(i)
  PROVE  /\ rss' \in [Instances -> RssStates] /\ jobChan' \in [Instances -> Channels]
         /\ UNCHANGED <<Monitors, ws, loop>>
<1>1. ASSUME NEW j \in RssJobs, FetchItem(i, j)
      PROVE  /\ rss' \in [Instances -> RssStates] /\ jobChan' \in [Instances -> Channels]
             /\ UNCHANGED <<Monitors, ws, loop>>
  <2>1. rss[i] \in RssStates /\ jobChan \in [Instances -> Channels]
    BY DEF TypeOK
  <2>2. Add(rss[i].seenIDs, j) \in Seq(RssJobs) /\ Len(Add(rss[i].seenIDs, j)) <= LruCap
    BY WatcherAssumption, <2>1, AddType DEF RssStates
  <2>3. rss'[i] \in RssStates
    BY WatcherAssumption, <1>1, <2>1, <2>2 DEF FetchItem, RssStates, TypeOK, Jobs
  <2> QED
    BY <1>1, <2>3 DEF FetchItem, TypeOK
<1>a. ASSUME NEW pc \in {"fetch", "items", "wait", "end"}, rss[i].pc # "send"
      PROVE  [rss EXCEPT ![i].pc = pc] \in [Instances -> RssStates]
  BY ZenonT(40), <1>a DEF TypeOK, RssStates
<1>b. jobChan \in [Instances -> Channels] /\ feed \in SUBSET RssJobs
  BY DEF TypeOK
<1>2. CASE Fetch(i)
  <2>0. rss[i] \in RssStates
    BY DEF TypeOK
  <2>1. [rss[i] EXCEPT !.pc = "items", !.todo = feed] \in RssStates
    <3>1. CASE rss[i].pc = "fetch"
      BY <3>1, <1>b, <2>0 DEF RssStates
    <3> QED
      BY <1>2, <3>1 DEF Fetch
  <2>2. [rss EXCEPT ![i].pc = "items", ![i].todo = feed]
          = [rss EXCEPT ![i] = [rss[i] EXCEPT !.pc = "items", !.todo = feed]]
    BY DEF TypeOK
  <2> QED
    BY <1>2, <1>a, <1>b, <2>1, <2>2 DEF Fetch, TypeOK
<1>3. CASE SendItem(i)
  BY SMTT(30), WatcherAssumption, <1>3 DEF SendItem, RssStates, Channels,
     TypeOK, Jobs
<1>4. CASE PollRss(i)
  BY <1>4, <1>a, <1>b DEF PollRss
<1>5. CASE FetchPanics(i)
  <2>1. [rss[i] EXCEPT !.pc = "end", !.todo = {}] \in RssStates
    <3>1. rss[i] \in RssStates /\ rss[i].pc = "items"
      BY <1>5 DEF FetchPanics, TypeOK
    <3> QED
      BY <3>1 DEF RssStates
  <2>2. [rss EXCEPT ![i].pc = "end", ![i].todo = {}]
          = [rss EXCEPT ![i] = [rss[i] EXCEPT !.pc = "end", !.todo = {}]]
    BY DEF TypeOK
  <2> QED
    BY <1>5, <1>b, <2>1, <2>2 DEF FetchPanics, TypeOK
<1> QED
  BY <1>1, <1>2, <1>3, <1>4, <1>5 DEF RssStep

LEMMA RssType ==
  ASSUME TypeOK, NEW i \in Instances, RssStep(i)
  PROVE  TypeOK'
BY RssEffect DEF TypeOK, Monitors, store, manager, world

LEMMA WsEffect ==
  ASSUME TypeOK, NEW i \in Instances, WsStep(i)
  PROVE  /\ ws' \in [Instances -> WsStates] /\ jobChan' \in [Instances -> Channels]
         /\ UNCHANGED <<Monitors, rss, loop>>
<1>1. ASSUME NEW j \in WsJobs, Receive(i, j)
      PROVE  /\ ws' \in [Instances -> WsStates] /\ jobChan' \in [Instances -> Channels]
             /\ UNCHANGED <<Monitors, rss, loop>>
  <2>1. ws[i] \in WsStates /\ jobChan \in [Instances -> Channels]
    BY DEF TypeOK
  <2>2. Add(ws[i].seenIDs, j) \in Seq(WsJobs) /\ Len(Add(ws[i].seenIDs, j)) <= LruCap
    BY WatcherAssumption, <2>1, AddType DEF WsStates
  <2>3. ws'[i] \in WsStates
    BY WatcherAssumption, <1>1, <2>1, <2>2 DEF Receive, WsStates, TypeOK, Jobs
  <2> QED
    BY <1>1, <2>3 DEF Receive, TypeOK
<1>a. ASSUME NEW pc \in {"connect", "live", "end"}, ws[i].pc # "send"
      PROVE  [ws EXCEPT ![i].pc = pc] \in [Instances -> WsStates]
  BY ZenonT(40), <1>a DEF TypeOK, WsStates
<1>b. jobChan \in [Instances -> Channels]
  BY DEF TypeOK
<1>2. CASE Connect(i)
  BY <1>2, <1>a, <1>b DEF Connect
<1>3. CASE Silence(i)
  BY <1>3, <1>a, <1>b DEF Silence
<1>4. CASE SendNotice(i)
  BY WatcherAssumption, <1>4 DEF SendNotice, WsStates, Channels, TypeOK, Jobs
<1>5. CASE EndWs(i)
  BY <1>5, <1>a, <1>b DEF EndWs
<1> QED
  BY <1>1, <1>2, <1>3, <1>4, <1>5 DEF WsStep

LEMMA WsType ==
  ASSUME TypeOK, NEW i \in Instances, WsStep(i)
  PROVE  TypeOK'
BY WsEffect DEF TypeOK, Monitors, store, manager, world

\* How ProcessJob moves on, and how it returns
LEMMA MoveOn ==
  ASSUME TypeOK, NEW i \in Instances, loop[i].pc \in {"check", "load", "record", "count", "publish"}
  PROVE  /\ loop[i].job \in Jobs
         /\ \A pc \in {"load", "record", "count", "publish"} :
              Goto(i, pc) => loop' \in [Instances -> LoopStates]
         /\ Return(i) => loop' \in [Instances -> LoopStates]
<1>1. loop[i] \in LoopStates /\ loop[i].job \in Jobs
  BY DEF TypeOK, LoopStates
<1>2. \A pc \in {"load", "record", "count", "publish"} : [loop[i] EXCEPT !.pc = pc] \in LoopStates
  BY <1>1 DEF LoopStates, RedisPCs
<1>3. [loop[i] EXCEPT !.pc = "select", !.job = NoJob] \in LoopStates
  BY <1>1 DEF LoopStates
<1> QED
  BY <1>1, <1>2, <1>3 DEF Goto, Return, TypeOK

LEMMA CommandEffect ==
  ASSUME TypeOK, NEW i \in Instances, Reaches(i) \/ Fails(i) \/ ReplyLost(i)
  PROVE  trouble' \in 0..MaxTrouble /\ inFlight' = inFlight \ {i}
BY WatcherAssumption DEF TypeOK, Reaches, Fails, ReplyLost, Trouble

\* The pipeline of an instance changes its loop, takes from its channel, and
\* touches seen, found, published and marks
LEMMA LoopEffect ==
  ASSUME TypeOK, NEW i \in Instances, LoopStep(i)
  PROVE  /\ loop' \in [Instances -> LoopStates] /\ jobChan' \in [Instances -> Channels]
         /\ seen' \subseteq Jobs /\ found' \in Nat /\ trouble' \in 0..MaxTrouble
         /\ inFlight' \subseteq inFlight
         /\ published' \in [Jobs -> Nat]
         /\ marks' \in [Jobs -> SUBSET {"unchecked", "expired", "unpublished", "repeated"}]
         /\ UNCHANGED Sources
<1>0. /\ loop \in [Instances -> LoopStates] /\ jobChan \in [Instances -> Channels]
      /\ seen \subseteq Jobs /\ found \in Nat /\ trouble \in 0..MaxTrouble
      /\ published \in [Jobs -> Nat]
      /\ marks \in [Jobs -> SUBSET {"unchecked", "expired", "unpublished", "repeated"}]
  BY DEF TypeOK
<1>1. CASE Select(i)
  <2>1. CASE jobChan[i] # <<>>
    <3>1. Head(jobChan[i]) \in Jobs /\ Tail(jobChan[i]) \in Channels
      <4>1. jobChan[i] \in Seq(Jobs) /\ Len(jobChan[i]) <= ChanCap
        BY <1>0 DEF Channels
      <4>2. /\ Head(jobChan[i]) \in Jobs /\ Tail(jobChan[i]) \in Seq(Jobs)
            /\ Len(Tail(jobChan[i])) = Len(jobChan[i]) - 1
        BY <2>1, <4>1, HeadTailProperties
      <4> QED
        BY WatcherAssumption, <4>1, <4>2 DEF Channels
    <3>2. [pc |-> "check", job |-> Head(jobChan[i]), fresh |-> TRUE] \in LoopStates
      BY WatcherAssumption, <3>1 DEF LoopStates, RedisPCs
    <3>3. [loop[i] EXCEPT !.pc = "end"] \in LoopStates
      BY <1>0, <1>1 DEF Select, LoopStates
    <3> QED
      BY <1>0, <1>1, <3>1, <3>2, <3>3 DEF Select, Goto
  <2>2. CASE jobChan[i] = <<>>
    <3>1. [loop[i] EXCEPT !.pc = "end"] \in LoopStates
      BY <1>0, <1>1 DEF Select, LoopStates
    <3> QED
      BY <1>0, <1>1, <2>2, <3>1 DEF Select, Goto
  <2> QED
    BY <2>1, <2>2
<1>2. CASE Check(i)
  BY <1>0, <1>2, MoveOn, CommandEffect DEF Check
<1>3. CASE Load(i)
  BY WatcherAssumption, <1>0, <1>3, MoveOn DEF Load, Trouble
<1>4. CASE Record(i)
  BY <1>0, <1>4, MoveOn, CommandEffect DEF Record
<1>5. CASE Count(i)
  BY WatcherAssumption, <1>0, <1>5, MoveOn DEF Count, Trouble
<1>6. CASE Publish(i)
  BY <1>0, <1>6, MoveOn, CommandEffect DEF Publish
<1> QED
  BY <1>1, <1>2, <1>3, <1>4, <1>5, <1>6 DEF LoopStep

LEMMA LoopType ==
  ASSUME TypeOK, NEW i \in Instances, LoopStep(i)
  PROVE  TypeOK'
BY LoopEffect DEF TypeOK, Sources, manager

LEMMA TypeStep == TypeOK /\ LifeInv /\ [Next]_vars => TypeOK'
<1> SUFFICES ASSUME TypeOK, LifeInv, [Next]_vars PROVE TypeOK'
  OBVIOUS
<1>1. CASE ManagerStep \/ UpdateConfig \/ Crash \/ Expire
  BY <1>1, ManagerType DEF LifeInv
<1>2. ASSUME NEW j \in RssJobs, Post(j) PROVE TypeOK'
  BY <1>2 DEF Post, TypeOK, store, manager
<1>3. ASSUME NEW i \in Instances, RssStep(i) \/ WsStep(i) \/ LoopStep(i) PROVE TypeOK'
  BY <1>3, RssType, WsType, LoopType
<1>4. CASE UNCHANGED vars
  BY <1>4 DEF vars, TypeOK
<1> QED
  BY <1>1, <1>2, <1>3, <1>4 DEF Next

-----------------------------------------------------------------------------
(* The monitors and the status leave the pipeline's invariants alone *)

core == <<config, seen, current, running, started, cancelled, inFlight, loop, published, marks>>

LEMMA QuietStep ==
  ASSUME IInv, TypeOK', Unstarted', UNCHANGED core
  PROVE  IInv'
<1>1. LifeInv'
  BY DEF IInv, LifeInv, core, NoOrphanWatcher
<1>2. OnceInv'
  BY DEF IInv, OnceInv, core, MayAnnounce, Clean
<1>3. PublishedOnce' /\ RecordedIsAnnounced' /\ FreshInv'
  BY DEF IInv, PublishedOnce, RecordedIsAnnounced, FreshInv, Matches, core
<1> QED
  BY <1>1, <1>2, <1>3 DEF IInv

LEMMA MonitorStep ==
  ASSUME IInv, NEW i \in Instances, RssStep(i) \/ WsStep(i)
  PROVE  IInv'
<1>1. TypeOK'
  BY RssType, WsType DEF IInv
<1>2. UNCHANGED core
  BY RssEffect, WsEffect DEF IInv, core, Monitors, store, manager, world
<1>3. CASE RssStep(i)
  <2>1. rss[i].pc # "off"
    BY <1>3 DEF RssStep, FetchItem, Fetch, FetchPanics, SendItem, PollRss
  <2>2. \A k \in Instances \ {i} : rss'[k] = rss[k]
    BY <1>3 DEF RssStep, FetchItem, Fetch, FetchPanics, SendItem, PollRss, IInv, TypeOK
  <2> QED
    BY <1>1, <1>2, <1>3, <2>1, <2>2, RssEffect, QuietStep DEF IInv, LifeInv, Unstarted, core
<1>4. CASE WsStep(i)
  <2>1. ws[i].pc # "off"
    BY <1>4 DEF WsStep, Receive, Connect, Silence, SendNotice, EndWs
  <2>2. \A k \in Instances \ {i} : ws'[k] = ws[k]
    BY <1>4 DEF WsStep, Receive, Connect, Silence, SendNotice, EndWs, IInv, TypeOK
  <2> QED
    BY <1>1, <1>2, <1>4, <2>1, <2>2, WsEffect, QuietStep DEF IInv, LifeInv, Unstarted, core
<1> QED
  BY <1>3, <1>4

LEMMA StatusStep ==
  ASSUME IInv, PutStatus \/ PublishEvent
  PROVE  IInv'
<1>1. TypeOK'
  BY ManagerType DEF IInv, LifeInv, ManagerStep
<1>2. UNCHANGED core /\ UNCHANGED <<rss, ws>>
  BY DEF PutStatus, PublishEvent, core, store, world
<1> QED
  BY <1>1, <1>2, QuietStep DEF IInv, LifeInv, Unstarted, core

LEMMA PostStep ==
  ASSUME IInv, NEW j \in RssJobs, Post(j)
  PROVE  IInv'
<1>1. TypeOK'
  BY DEF IInv, Post, TypeOK, store, manager
<1>2. UNCHANGED core /\ UNCHANGED <<rss, ws>>
  BY DEF Post, core, store, manager
<1> QED
  BY <1>1, <1>2, QuietStep DEF IInv, LifeInv, Unstarted, core

-----------------------------------------------------------------------------
(* The manager *)

\* The instance that starts is the only one that is not cancelled
LEMMA StartStep ==
  ASSUME IInv, Start
  PROVE  IInv'
<1> DEFINE i == started + 1
<1>1. TypeOK'
  BY ManagerType DEF IInv, LifeInv, ManagerStep
<1>0. MaxStarts \in Nat /\ started \in Nat /\ cancelled \subseteq 1..started
  BY WatcherAssumption DEF IInv, TypeOK
<1>2. i \in Instances /\ i \notin cancelled /\ loop[i].pc = "off"
  BY <1>0 DEF IInv, LifeInv, Unstarted, Start, Instances
<1> HIDE DEF i
<1>3. /\ loop' = [loop EXCEPT ![i].pc = "select"]
      /\ started' = i /\ current' = i /\ running' = TRUE
      /\ UNCHANGED <<config, seen, cancelled, inFlight, published, marks>>
  BY DEF Start, store, world, i
<1>4. /\ loop'[i].pc = "select"
      /\ \A k \in Instances \ {i} : loop'[k] = loop[k] /\ rss'[k] = rss[k] /\ ws'[k] = ws[k]
  BY <1>2, <1>3 DEF IInv, TypeOK, Start, i
<1>5. LifeInv'
  <2>1. Unstarted'
    BY <1>0, <1>2, <1>3, <1>4 DEF IInv, LifeInv, Unstarted, Instances, i
  <2>2. NoOrphanWatcher' /\ current' # 0
    BY <1>2, <1>3 DEF IInv, LifeInv, NoOrphanWatcher, Start, TypeOK, Instances, i
  <2>3. \A k \in inFlight' : loop'[k].pc \in RedisPCs
    BY <1>2, <1>3, <1>4 DEF IInv, LifeInv, TypeOK, Instances, RedisPCs
  <2> QED
    BY <2>1, <2>2, <2>3 DEF LifeInv
<1>6. \A k \in Instances, j \in Jobs : MayAnnounce(k, j)' => MayAnnounce(k, j)
  BY <1>3, <1>4 DEF MayAnnounce
<1>7. OnceInv' /\ PublishedOnce'
  BY <1>3, <1>4, <1>6 DEF IInv, OnceInv, PublishedOnce, Clean
<1>8. RecordedIsAnnounced' /\ FreshInv'
  BY <1>2, <1>3, <1>4 DEF IInv, RecordedIsAnnounced, FreshInv, Matches
<1> QED
  BY <1>1, <1>5, <1>7, <1>8 DEF IInv

LEMMA StopStep ==
  ASSUME IInv, Stop
  PROVE  IInv'
<1>1. TypeOK'
  BY ManagerType DEF IInv, LifeInv, ManagerStep
<1>2. /\ UNCHANGED <<config, seen, started, current, rss, ws, loop, published, marks>>
      /\ running' = FALSE /\ cancelled' = cancelled \cup {current}
      /\ inFlight' \subseteq inFlight \cup {current}
      /\ \A k \in inFlight' \ inFlight : k = current /\ k \notin cancelled /\ loop[k].pc \in RedisPCs
  BY DEF Stop, store, world
<1>3. LifeInv'
  <2>1. Unstarted' /\ \A k \in inFlight' : loop'[k].pc \in RedisPCs
    BY <1>2 DEF IInv, LifeInv, Unstarted
  <2>2. NoOrphanWatcher'
    BY <1>2 DEF IInv, LifeInv, NoOrphanWatcher
  <2> QED
    BY <1>2, <2>1, <2>2 DEF LifeInv
<1>4. \A k \in Instances, j \in Jobs : MayAnnounce(k, j)' => MayAnnounce(k, j)
  BY <1>2 DEF MayAnnounce
<1>5. OnceInv' /\ PublishedOnce'
  BY <1>2, <1>4 DEF IInv, OnceInv, PublishedOnce, Clean
<1>6. RecordedIsAnnounced' /\ FreshInv'
  BY <1>2 DEF IInv, RecordedIsAnnounced, FreshInv, Matches
<1> QED
  BY <1>1, <1>3, <1>5, <1>6 DEF IInv

\* Whatever is on its way past the filter loses its claim to be fresh
LEMMA UpdateConfigStep ==
  ASSUME IInv, UpdateConfig
  PROVE  IInv'
<1>1. TypeOK'
  BY ManagerType DEF IInv, LifeInv
<1>2. /\ UNCHANGED <<seen, started, current, running, cancelled, inFlight, rss, ws, published, marks>>
      /\ \A k \in Instances : /\ loop'[k].pc = loop[k].pc /\ loop'[k].job = loop[k].job
                              /\ loop'[k].fresh = ~Busy(k)
  BY DEF UpdateConfig, manager, IInv, TypeOK, LoopStates
<1>3. LifeInv'
  <2>1. inFlight \subseteq Instances
    BY WatcherAssumption DEF IInv, TypeOK, Instances
  <2> QED
    BY <1>2, <2>1 DEF IInv, LifeInv, Unstarted, NoOrphanWatcher
<1>4. OnceInv' /\ PublishedOnce' /\ RecordedIsAnnounced'
  <2>1. \A k \in Instances, j \in Jobs : MayAnnounce(k, j)' <=> MayAnnounce(k, j)
    BY <1>2 DEF MayAnnounce
  <2> QED
    BY <1>2, <2>1 DEF IInv, OnceInv, PublishedOnce, Clean, RecordedIsAnnounced
<1>5. FreshInv'
  BY <1>2 DEF IInv, FreshInv, Busy, TypeOK, LoopStates
<1> QED
  BY <1>1, <1>3, <1>4, <1>5 DEF IInv

\* Every instance is at its end or has not been started
LEMMA CrashStep ==
  ASSUME IInv, Crash
  PROVE  IInv'
<1>1. TypeOK'
  BY ManagerType DEF IInv, LifeInv
<1>2. /\ UNCHANGED <<config, seen, started, published>>
      /\ running' = FALSE /\ cancelled' = 1..started /\ inFlight' = {}
  BY DEF Crash, store
<1>3. \A k \in Instances :
        /\ loop'[k].pc \in {"end", "off"}
        /\ k > started => rss'[k] = rss[k] /\ ws'[k] = ws[k] /\ loop'[k] = loop[k]
  BY DEF Crash, IInv, LifeInv, Unstarted, TypeOK, Instances
<1>4. LifeInv'
  BY <1>2, <1>3 DEF IInv, LifeInv, Unstarted, NoOrphanWatcher
<1>5. \A j \in Jobs :
        /\ marks[j] \subseteq marks'[j]
        /\ marks'[j] \subseteq marks[j] \cup {"unpublished"}
        /\ (\E i \in Instances : loop[i].job = j /\ loop[i].pc \in {"count", "publish"})
             => "unpublished" \in marks'[j]
  BY DEF Crash, IInv, TypeOK
<1>6. OnceInv' /\ PublishedOnce'
  <2>1. \A k \in Instances, j \in Jobs : ~MayAnnounce(k, j)'
    BY <1>3 DEF MayAnnounce
  <2>2. \A j \in Jobs : Clean(j)' => Clean(j)
    BY <1>5 DEF Clean
  <2> QED
    BY <1>2, <1>3, <1>5, <2>1, <2>2 DEF IInv, OnceInv, PublishedOnce, Clean
<1>7. RecordedIsAnnounced'
  BY <1>2, <1>5 DEF IInv, RecordedIsAnnounced, TypeOK
<1>8. FreshInv'
  BY <1>3 DEF FreshInv
<1> QED
  BY <1>1, <1>4, <1>6, <1>7, <1>8 DEF IInv

LEMMA ExpireStep ==
  ASSUME IInv, Expire
  PROVE  IInv'
<1>1. TypeOK'
  BY ManagerType DEF IInv, LifeInv
<1>2. /\ UNCHANGED <<config, current, running, started, cancelled, inFlight, rss, ws, loop, published>>
      /\ seen' = {}
      /\ \A j \in Jobs : /\ marks[j] \subseteq marks'[j]
                         /\ j \in seen => "expired" \in marks'[j]
  BY DEF Expire, manager, IInv, TypeOK
<1>3. LifeInv'
  BY <1>2 DEF IInv, LifeInv, Unstarted, NoOrphanWatcher
<1>4. \A j \in Jobs : (Clean(j)' => Clean(j)) /\ \A k \in Instances : MayAnnounce(k, j)' => MayAnnounce(k, j)
  BY <1>2 DEF Clean, MayAnnounce
<1>5. \A k \in Instances : loop[k].pc \in {"count", "publish"} => loop[k].job \in Jobs
  BY DEF IInv, TypeOK, LoopStates
<1>6. OnceInv' /\ PublishedOnce'
  <2>1. \A j \in Jobs : published'[j] > 0 => "expired" \in marks'[j]
    BY <1>2 DEF IInv, OnceInv
  <2>2. \A k \in Instances : loop'[k].pc \in {"count", "publish"} => "expired" \in marks'[loop'[k].job]
    BY <1>2, <1>5 DEF IInv, OnceInv
  <2> QED
    BY <1>2, <1>4, <2>1, <2>2 DEF IInv, OnceInv, PublishedOnce, Clean
<1>7. RecordedIsAnnounced' /\ FreshInv'
  BY <1>2 DEF IInv, RecordedIsAnnounced, FreshInv, Matches
<1> QED
  BY <1>1, <1>3, <1>6, <1>7 DEF IInv

-----------------------------------------------------------------------------
(* The pipeline of an instance *)

\* A step of ProcessJob, as the other instances see it
LEMMA LoopOthers ==
  ASSUME IInv, NEW i \in Instances, LoopStep(i)
  PROVE  /\ TypeOK' /\ LifeInv'
         /\ loop[i].pc \notin {"off", "end"}
         /\ \A k \in Instances \ {i} : loop'[k] = loop[k]
         /\ UNCHANGED <<config, cancelled>>
         /\ inFlight' = inFlight \/ inFlight' = inFlight \ {i}
<1>1. TypeOK' /\ UNCHANGED Sources
  BY LoopType, LoopEffect DEF IInv
<1>2. UNCHANGED <<config, current, running, started, cancelled, rss, ws>>
  BY <1>1 DEF Sources, manager
<1>3. loop[i].pc \in {"select", "check", "load", "record", "count", "publish"}
  BY DEF LoopStep, Select, Check, Load, Record, Count, Publish
<1>4. \A k \in Instances \ {i} : loop'[k] = loop[k]
  BY DEF LoopStep, Select, Check, Load, Record, Count, Publish, Goto, Return, IInv, TypeOK
<1>5. inFlight' = IF loop[i].pc \in RedisPCs THEN inFlight \ {i} ELSE inFlight
  BY DEF LoopStep, Select, Check, Load, Record, Count, Publish, Reaches, Fails, ReplyLost, RedisPCs
<1>6. inFlight \subseteq Instances /\ \A k \in inFlight : loop[k].pc \in RedisPCs
  BY WatcherAssumption DEF IInv, LifeInv, TypeOK, Instances
<1>7. LifeInv'
  <2>1. Unstarted'
    BY <1>2, <1>3, <1>4 DEF IInv, LifeInv, Unstarted
  <2>2. \A k \in inFlight' : loop'[k].pc \in RedisPCs
    BY <1>4, <1>5, <1>6
  <2> QED
    BY <1>2, <2>1, <2>2 DEF IInv, LifeInv, NoOrphanWatcher
<1> QED
  BY <1>1, <1>2, <1>3, <1>4, <1>5, <1>7

\* Where instance i goes
LEMMA Went ==
  ASSUME IInv, NEW i \in Instances
  PROVE  /\ \A pc : Goto(i, pc) => /\ loop'[i].pc = pc
                                   /\ loop'[i].job = loop[i].job
                                   /\ loop'[i].fresh = loop[i].fresh
         /\ Return(i) => loop'[i].pc = "select" /\ loop'[i].job = NoJob
<1>1. loop \in [Instances -> LoopStates]
  BY DEF IInv, TypeOK
<1>2. loop[i] \in [pc : {"off", "select", "load", "count", "end"} \cup RedisPCs,
                  job : Jobs \cup {NoJob}, fresh : BOOLEAN]
  BY <1>1 DEF LoopStates
<1>3. ASSUME NEW pc, Goto(i, pc)
      PROVE  loop'[i].pc = pc /\ loop'[i].job = loop[i].job /\ loop'[i].fresh = loop[i].fresh
  BY <1>1, <1>2, <1>3 DEF Goto
<1>4. ASSUME Return(i) PROVE loop'[i].pc = "select" /\ loop'[i].job = NoJob
  BY <1>1, <1>2, <1>4 DEF Return
<1> QED
  BY <1>3, <1>4

\* A step that announces and records nothing, and lets nobody announce who might
\* not before
LEMMA NothingAnnounced ==
  ASSUME IInv, NEW i \in Instances, LoopStep(i), UNCHANGED <<seen, published, marks>>,
         \A j \in Jobs : MayAnnounce(i, j)' => MayAnnounce(i, j),
         loop[i].pc \in {"count", "publish"} <=> loop'[i].pc \in {"count", "publish"},
         loop[i].pc \in {"count", "publish"} => loop'[i].job = loop[i].job,
         FreshInv'
  PROVE  IInv'
<1>1. \A k \in Instances, j \in Jobs : MayAnnounce(k, j)' => MayAnnounce(k, j)
  BY LoopOthers DEF MayAnnounce
<1>2. OnceInv' /\ PublishedOnce'
  BY <1>1, LoopOthers DEF IInv, OnceInv, PublishedOnce, Clean
<1>3. RecordedIsAnnounced'
  BY LoopOthers DEF IInv, RecordedIsAnnounced
<1> QED
  BY <1>2, <1>3, LoopOthers DEF IInv

LEMMA FreshStep ==
  ASSUME IInv, NEW i \in Instances, LoopStep(i),
         loop'[i].fresh /\ loop'[i].pc \in {"record", "count", "publish"}
           => Matches(loop'[i].job, config)
  PROVE  FreshInv'
BY LoopOthers DEF IInv, FreshInv, Matches

LEMMA SelectStep ==
  ASSUME IInv, NEW i \in Instances, Select(i)
  PROVE  IInv'
<1>1. LoopStep(i)
  BY DEF LoopStep
<1>2. /\ UNCHANGED <<seen, published, marks>>
      /\ loop[i].pc = "select" /\ loop'[i].pc \in {"check", "end"}
  BY DEF Select, Goto, IInv, TypeOK, LoopStates
<1>3. FreshInv'
  BY <1>1, <1>2, FreshStep
<1>4. \A j \in Jobs : ~MayAnnounce(i, j)'
  BY <1>2 DEF MayAnnounce
<1> QED
  BY <1>1, <1>2, <1>3, <1>4, NothingAnnounced

\* The look-up: on a hit nothing happens; after a miss nobody else may announce
\* the job, since a cancelled instance with its PUBLISH under way has recorded it
LEMMA CheckStep ==
  ASSUME IInv, NEW i \in Instances, Check(i)
  PROVE  IInv'
<1>1. LoopStep(i)
  BY DEF LoopStep
<1>2. /\ UNCHANGED <<seen, published>>
      /\ loop[i].pc = "check" /\ loop'[i].pc \in {"load", "select"}
      /\ loop'[i].pc = "load" => loop'[i].job = loop[i].job
  BY Went DEF Check
<1>3. FreshInv'
  BY <1>1, <1>2, FreshStep
<1>4. loop[i].job \in Jobs
  BY <1>2 DEF IInv, TypeOK, LoopStates
<1>5. CASE UNCHANGED marks /\ loop'[i].pc = "select"
  <2>1. \A j \in Jobs : ~MayAnnounce(i, j)'
    BY <1>5 DEF MayAnnounce
  <2> QED
    BY <1>1, <1>2, <1>3, <1>5, <2>1, NothingAnnounced
<1>6. CASE loop'[i].pc = "load"
  <2>0. PICK j \in Jobs : j = loop[i].job
    BY <1>4
  <2>1. \/ UNCHANGED marks /\ j \notin seen
        \/ marks' = [marks EXCEPT ![j] = @ \cup {"unchecked"}]
    BY <1>2, <1>6, <2>0, Went DEF Check
  <2>2. \A m \in Jobs : /\ Clean(m)' => Clean(m)
                        /\ "expired" \in marks[m] => "expired" \in marks'[m]
                        /\ "unpublished" \in marks[m] => "unpublished" \in marks'[m]
    BY <2>1, <1>4 DEF Clean, IInv, TypeOK
  <2>3. Clean(j)' => j \notin seen /\ Clean(j)
    BY <2>1, <2>2, <1>4 DEF Clean, IInv, TypeOK
  <2>4. Clean(j)' => published[j] = 0
    BY <1>4, <2>3 DEF IInv, OnceInv, Clean, TypeOK
  <2>5. ASSUME Clean(j)', NEW k \in Instances \ {i}, i \notin cancelled PROVE ~MayAnnounce(k, j)
    <3>0. Instances \subseteq Nat \ {0} /\ started \in Nat
      BY WatcherAssumption DEF IInv, TypeOK, Instances
    <3>1. k \notin cancelled => loop[k].pc = "off"
      BY <1>2, <2>5, <3>0 DEF IInv, LifeInv, Unstarted, NoOrphanWatcher
    <3> QED
      BY <2>3, <2>5, <3>1 DEF IInv, OnceInv, MayAnnounce, Clean
  <2>6. \A m \in Jobs, k \in Instances \ {i} : MayAnnounce(k, m)' => MayAnnounce(k, m)
    BY <1>1, LoopOthers DEF MayAnnounce
  <2>7. \A m \in Jobs : MayAnnounce(i, m)' => m = j /\ i \notin cancelled
    BY <1>1, <1>2, <1>6, <2>0, LoopOthers DEF MayAnnounce
  <2>8. ASSUME NEW m \in Jobs, NEW k \in Instances, Clean(m)', MayAnnounce(k, m)'
        PROVE  published[m] = 0 /\ \A n \in Instances : MayAnnounce(n, m)' => n = k
    BY <2>2, <2>4, <2>5, <2>6, <2>7, <2>8 DEF IInv, OnceInv
  <2>9. OnceInv'
    <3>1. \A k \in Instances : loop[k].pc \in {"count", "publish"} => loop[k].job \in Jobs
      BY DEF IInv, TypeOK, LoopStates
    <3> QED
      BY <1>1, <1>2, <1>6, <2>2, <2>8, <3>1, LoopOthers DEF IInv, OnceInv
  <2>10. PublishedOnce'
    BY <1>2, <2>2 DEF IInv, PublishedOnce, Clean
  <2>11. RecordedIsAnnounced'
    <3>1. seen \subseteq Jobs
      BY DEF IInv, TypeOK
    <3> QED
      BY <1>1, <1>2, <2>2, <3>1, LoopOthers DEF IInv, RecordedIsAnnounced
  <2> QED
    BY <1>1, <1>3, <2>9, <2>10, <2>11, LoopOthers DEF IInv
<1>7. loop'[i].pc = "select" => UNCHANGED marks
  BY Went DEF Check
<1> QED
  BY <1>2, <1>5, <1>6, <1>7

LEMMA LoadStep ==
  ASSUME IInv, NEW i \in Instances, Load(i)
  PROVE  IInv'
<1>1. LoopStep(i)
  BY DEF LoopStep
<1>2. /\ UNCHANGED <<seen, published, marks, inFlight>>
      /\ loop[i].pc = "load" /\ loop'[i].pc \in {"record", "select"}
      /\ loop'[i].pc = "record" => loop'[i].job = loop[i].job /\ Matches(loop[i].job, config)
  BY Went DEF Load
<1>3. FreshInv'
  BY <1>1, <1>2, FreshStep
<1>4. \A j \in Jobs : MayAnnounce(i, j)' => MayAnnounce(i, j)
  BY <1>1, <1>2, LoopOthers DEF MayAnnounce
<1> QED
  BY <1>1, <1>2, <1>3, <1>4, NothingAnnounced

LEMMA CountStep ==
  ASSUME IInv, NEW i \in Instances, Count(i)
  PROVE  IInv'
<1>1. LoopStep(i)
  BY DEF LoopStep
<1>2. /\ UNCHANGED <<seen, published, marks, inFlight>>
      /\ loop[i].pc = "count" /\ loop'[i].pc = "publish"
      /\ loop'[i].job = loop[i].job /\ loop'[i].fresh = loop[i].fresh
  BY Went DEF Count
<1>3. FreshInv'
  BY <1>1, <1>2, FreshStep DEF IInv, FreshInv
<1>4. \A j \in Jobs : MayAnnounce(i, j)' => MayAnnounce(i, j)
  <2>1. i \notin inFlight
    BY <1>2 DEF IInv, LifeInv, RedisPCs
  <2> QED
    BY <1>1, <1>2, <2>1, LoopOthers DEF MayAnnounce
<1> QED
  BY <1>1, <1>2, <1>3, <1>4, NothingAnnounced

\* SADD: the job is recorded, and its announcement is next
LEMMA RecordStep ==
  ASSUME IInv, NEW i \in Instances, Record(i)
  PROVE  IInv'
<1>1. LoopStep(i)
  BY DEF LoopStep
<1>0. loop[i].job \in Jobs
  BY DEF Record, IInv, TypeOK, LoopStates
<1>2. /\ UNCHANGED published /\ loop[i].pc = "record"
      /\ \/ /\ loop'[i].pc = "count" /\ seen' = seen \cup {loop[i].job} /\ UNCHANGED marks
            /\ loop'[i].job = loop[i].job /\ loop'[i].fresh = loop[i].fresh
         \/ /\ loop'[i].pc = "select" /\ seen' = seen \cup {loop[i].job}
            /\ marks' = [marks EXCEPT ![loop[i].job] = @ \cup {"unpublished"}]
         \/ loop'[i].pc = "select" /\ UNCHANGED <<seen, marks>>
  BY Went DEF Record
<1>7. \A m \in Jobs : /\ Clean(m)' <=> Clean(m)
                      /\ marks[m] \subseteq marks'[m]
                      /\ m = loop[i].job /\ loop'[i].pc = "select" /\ seen' # seen
                           => "unpublished" \in marks'[m]
  BY <1>0, <1>2 DEF Clean, IInv, TypeOK
<1>3. FreshInv'
  BY <1>1, <1>2, FreshStep DEF IInv, FreshInv
<1>4. \A j \in Jobs, k \in Instances : MayAnnounce(k, j)' => MayAnnounce(k, j)
  BY <1>1, <1>2, LoopOthers DEF MayAnnounce
<1>5. OnceInv' /\ PublishedOnce'
  <2>1. \A k \in Instances : loop[k].pc \in {"count", "publish"} => loop[k].job \in Jobs
    BY DEF IInv, TypeOK, LoopStates
  <2>2. seen \subseteq seen'
    BY <1>2
  <2>3. OnceInv'
    BY <1>1, <1>2, <1>4, <1>7, <2>1, <2>2, LoopOthers DEF IInv, OnceInv
  <2>4. PublishedOnce'
    BY <1>2, <1>7 DEF IInv, PublishedOnce, Clean
  <2> QED
    BY <2>3, <2>4
<1>6. RecordedIsAnnounced'
  <2>1. seen \subseteq Jobs
    BY DEF IInv, TypeOK
  <2>2. \A m \in seen' : m \in seen \/ (m = loop[i].job /\ seen' # seen)
    BY <1>2
  <2>3. \A m \in seen : m \in Jobs /\ (\/ published'[m] > 0 \/ "unpublished" \in marks'[m]
                 \/ \E k \in Instances : loop'[k].job = m /\ loop'[k].pc \in {"count", "publish"})
    BY <1>1, <1>2, <1>7, <2>1, LoopOthers DEF IInv, RecordedIsAnnounced
  <2> QED
    BY <1>0, <1>2, <1>7, <2>2, <2>3 DEF RecordedIsAnnounced
<1> QED
  BY <1>1, <1>3, <1>5, <1>6, LoopOthers DEF IInv

\* PUBLISH: whoever gets here might announce the job, so nobody else may
LEMMA PublishStep ==
  ASSUME IInv, NEW i \in Instances, Publish(i)
  PROVE  IInv'
<1>0. PICK j : j = loop[i].job
  OBVIOUS
<1>1. LoopStep(i)
  BY DEF LoopStep
<1>2. /\ UNCHANGED seen /\ loop[i].pc = "publish"
      /\ loop'[i].pc = "select" /\ loop'[i].job = NoJob
      /\ \/ Reaches(i) /\ published' = [published EXCEPT ![j] = @ + 1] /\ UNCHANGED marks
         \/ /\ published' = [published EXCEPT ![j] = @ + 2]
            /\ marks' = [marks EXCEPT ![j] = @ \cup {"repeated"}]
         \/ marks' = [marks EXCEPT ![j] = @ \cup {"unpublished"}] /\ UNCHANGED published
  BY <1>0, Went DEF Publish
<1>3. j \in Jobs /\ (j \in seen \/ "expired" \in marks[j])
  BY <1>0, <1>2 DEF IInv, OnceInv, TypeOK, LoopStates
<1>4. FreshInv'
  BY <1>1, <1>2, FreshStep
<1>5. \A m \in Jobs, k \in Instances : MayAnnounce(k, m)' => k # i /\ MayAnnounce(k, m)
  BY <1>1, <1>2, LoopOthers DEF MayAnnounce
<1>6. CASE Reaches(i) /\ published' = [published EXCEPT ![j] = @ + 1] /\ UNCHANGED marks
  <2>1. MayAnnounce(i, j)
    BY <1>0, <1>2, <1>6 DEF Reaches, MayAnnounce
  <2>2. \A m \in Jobs : m # j => published'[m] = published[m]
    BY <1>6 DEF IInv, TypeOK
  <2>3. Clean(j) => /\ published'[j] = 1
                    /\ \A k \in Instances : ~MayAnnounce(k, j)'
    BY <1>3, <1>5, <1>6, <2>1 DEF IInv, OnceInv, TypeOK
  <2>4. published'[j] > 0
    BY <1>3, <1>6 DEF IInv, TypeOK
  <2>5. OnceInv' /\ PublishedOnce'
    BY <1>0, <1>1, <1>2, <1>3, <1>5, <1>6, <2>2, <2>3, LoopOthers DEF IInv, OnceInv, PublishedOnce, Clean
  <2>6. RecordedIsAnnounced'
    BY <1>0, <1>1, <1>2, <1>6, <2>2, <2>4, LoopOthers DEF IInv, RecordedIsAnnounced
  <2> QED
    BY <1>1, <1>4, <2>5, <2>6, LoopOthers DEF IInv
<1>7. CASE marks' = [marks EXCEPT ![j] = @ \cup {"unpublished"}] /\ UNCHANGED published
  <2>1. \A m \in Jobs : /\ Clean(m)' <=> Clean(m)
                        /\ marks[m] \subseteq marks'[m]
                        /\ m = j => "unpublished" \in marks'[m]
    BY <1>7 DEF Clean, IInv, TypeOK
  <2>2. OnceInv' /\ PublishedOnce'
    BY <1>1, <1>2, <1>5, <1>7, <2>1, LoopOthers DEF IInv, OnceInv, PublishedOnce, Clean, TypeOK, LoopStates
  <2>3. RecordedIsAnnounced'
    BY <1>0, <1>1, <1>2, <1>7, <2>1, LoopOthers DEF IInv, RecordedIsAnnounced, TypeOK
  <2> QED
    BY <1>1, <1>4, <2>2, <2>3, LoopOthers DEF IInv
<1>8. CASE /\ published' = [published EXCEPT ![j] = @ + 2]
           /\ marks' = [marks EXCEPT ![j] = @ \cup {"repeated"}]
  <2>1. \A m \in Jobs : /\ Clean(m)' => m # j /\ Clean(m)
                        /\ marks[m] \subseteq marks'[m]
                        /\ m # j => published'[m] = published[m]
    BY <1>3, <1>8 DEF Clean, IInv, TypeOK
  <2>2. published'[j] > 0
    BY <1>3, <1>8 DEF IInv, TypeOK
  <2>3. \A k \in Instances : loop[k].pc \in {"count", "publish"} => loop[k].job \in Jobs
    BY DEF IInv, TypeOK, LoopStates
  <2>4. OnceInv'
    BY <1>1, <1>2, <1>3, <1>5, <2>1, <2>3, LoopOthers DEF IInv, OnceInv
  <2>5. PublishedOnce'
    BY <2>1 DEF IInv, PublishedOnce, Clean
  <2>6. RecordedIsAnnounced'
    <3>1. seen \subseteq Jobs
      BY DEF IInv, TypeOK
    <3> QED
      BY <1>0, <1>1, <1>2, <2>1, <2>2, <3>1, LoopOthers DEF IInv, RecordedIsAnnounced
  <2> QED
    BY <1>1, <1>4, <2>4, <2>5, <2>6, LoopOthers DEF IInv
<1> QED
  BY <1>2, <1>6, <1>7, <1>8

-----------------------------------------------------------------------------
(* The theorems *)

LEMMA Inductive == IInv /\ [Next]_vars => IInv'
<1> SUFFICES ASSUME IInv, [Next]_vars PROVE IInv'
  OBVIOUS
<1>1. CASE ManagerStep \/ UpdateConfig \/ Crash \/ Expire
  BY <1>1, StartStep, StopStep, StatusStep, UpdateConfigStep, CrashStep, ExpireStep DEF ManagerStep
<1>2. ASSUME NEW j \in RssJobs, Post(j) PROVE IInv'
  BY <1>2, PostStep
<1>3. ASSUME NEW i \in Instances, RssStep(i) \/ WsStep(i) \/ LoopStep(i) PROVE IInv'
  BY <1>3, MonitorStep, SelectStep, CheckStep, LoadStep, RecordStep, CountStep, PublishStep DEF LoopStep
<1>4. CASE UNCHANGED vars
  <2>1. TypeOK'
    BY <1>4 DEF vars, IInv, TypeOK
  <2> QED
    BY <1>4, <2>1, QuietStep DEF vars, core, IInv, LifeInv, Unstarted
<1> QED
  BY <1>1, <1>2, <1>3, <1>4 DEF Next

LEMMA Initially == Init => IInv
<1> SUFFICES ASSUME Init PROVE IInv
  OBVIOUS
<1>1. TypeOK /\ Unstarted
  BY InitType
<1>2. LifeInv
  BY <1>1 DEF Init, LifeInv, NoOrphanWatcher
<1>3. OnceInv /\ PublishedOnce /\ RecordedIsAnnounced /\ FreshInv
  BY DEF Init, OnceInv, PublishedOnce, RecordedIsAnnounced, FreshInv, MayAnnounce
<1> QED
  BY <1>1, <1>2, <1>3 DEF IInv

LEMMA Invariance == Spec => []IInv
BY Initially, Inductive, PTL DEF Spec

\* The variables keep their types: no channel or cache outgrows its capacity,
\* whatever the monitors find (manager.go, lru_cache.go).
THEOREM TypeCorrect == Spec => []TypeOK
BY Invariance, PTL DEF IInv

\* Whatever the order of starts, stops and crashes, an instance that is not
\* cancelled is the one StopWatcher would cancel (StartWatcher, StopWatcher).
THEOREM NeverOrphaned == Spec => []NoOrphanWatcher
<1>1. IInv => NoOrphanWatcher
  BY DEF IInv, LifeInv
<1> QED
  BY <1>1, Invariance, PTL

\* However many instances, jobs and cancelled commands overlap, a job is
\* announced once unless a look-up failed, the set expired or a PUBLISH without a
\* reply was sent again (ProcessJob).
THEOREM AnnouncedOnce == Spec => []PublishedOnce
<1>1. IInv => PublishedOnce
  BY DEF IInv
<1> QED
  BY <1>1, Invariance, PTL

\* A recorded job is announced or about to be, unless the reply to its SADD was
\* lost or its PUBLISH failed or was cut off (recordJob, publishJob).
THEOREM NotForgotten == Spec => []RecordedIsAnnounced
<1>1. IInv => RecordedIsAnnounced
  BY DEF IInv
<1> QED
  BY <1>1, Invariance, PTL

\* A job taken up after the last change of the range is announced only within
\* the range (loadConfig, matchesRewardFilter).
THEOREM RangeRespected == Spec => ConfigRespected
<1>1. IInv => \A i \in Instances :
                loop[i].pc = "publish" /\ loop[i].fresh => Matches(loop[i].job, config)
  BY DEF IInv, FreshInv
<1>2. IInv /\ [Next]_vars =>
        [\A i \in Instances :
           loop[i].pc = "publish" /\ loop[i].fresh /\ published' # published
             /\ loop'[i].pc = "select"
           => Matches(loop[i].job, config)]_vars
  BY <1>1
<1> QED
  BY <1>2, Invariance, PTL DEF Spec, ConfigRespected

-----------------------------------------------------------------------------
(* The total of jobs found *)

\* The stopped instances that may yet count a job they will not announce, and
\* those that no longer can
Due   == {i \in cancelled :
            loop[i].pc \in {"count", "publish"} \/ (loop[i].pc = "record" /\ i \in inFlight)}
Spent == cancelled \ Due

\* The jobs counted and never announced: at most one for each instance that can no
\* longer announce the one it counted
Missed == found - (Cardinality(Announcements) + Cardinality(UnderWay))

TotalInv ==
  trouble = 0 => IsFiniteSet(Announcements) /\ Missed \in 0..Cardinality(Spent)

LEMMA InstanceSets ==
  ASSUME NEW T, T \subseteq Instances
  PROVE  IsFiniteSet(T) /\ Cardinality(T) \in Nat
<1>1. IsFiniteSet(Instances)
  BY WatcherAssumption, FS_Interval DEF Instances
<1> QED
  BY <1>1, FS_Subset, FS_CardinalityType

LEMMA Sizes ==
  ASSUME TypeOK
  PROVE  /\ cancelled \subseteq Instances /\ found \in Nat /\ UnderWay \subseteq Instances
         /\ IsFiniteSet(Spent) /\ Cardinality(Spent) \in Nat
         /\ IsFiniteSet(UnderWay) /\ Cardinality(UnderWay) \in Nat
         /\ TypeOK' => IsFiniteSet(Spent')
<1>1. cancelled \subseteq Instances /\ found \in Nat
  BY WatcherAssumption DEF TypeOK, Instances
<1>2. Spent \subseteq Instances /\ UnderWay \subseteq Instances
  BY <1>1 DEF Spent, UnderWay
<1>3. TypeOK' => IsFiniteSet(Spent')
  <2>1. TypeOK' => cancelled' \subseteq Instances
    BY WatcherAssumption DEF TypeOK, Instances
  <2>2. Spent' \subseteq cancelled'
    BY DEF Spent
  <2> QED
    BY <2>1, <2>2, InstanceSets
<1> QED
  BY <1>1, <1>2, <1>3, InstanceSets

\* Nothing is counted or announced, and whoever can no longer miss one stays so
LEMMA TotalKept ==
  ASSUME TypeOK, TypeOK', TotalInv,
         trouble' = 0 => /\ trouble = 0 /\ UNCHANGED <<found, published>>
                         /\ UnderWay' = UnderWay /\ Spent \subseteq Spent'
  PROVE  TotalInv'
<1> SUFFICES ASSUME trouble' = 0
             PROVE  IsFiniteSet(Announcements') /\ Missed' \in 0..Cardinality(Spent')
  BY DEF TotalInv
<1>1. Announcements' = Announcements /\ Missed' = Missed
  BY DEF Announcements, Missed
<1>2. Cardinality(Spent) <= Cardinality(Spent') /\ Cardinality(Spent') \in Nat
  <2>1. IsFiniteSet(Spent')
    BY Sizes
  <2> QED
    BY <2>1, FS_Subset, FS_CardinalityType
<1>3. IsFiniteSet(Announcements) /\ Missed \in 0..Cardinality(Spent) /\ Cardinality(Spent) \in Nat
  BY Sizes DEF TotalInv
<1> QED
  BY <1>1, <1>2, <1>3

LEMMA StopTotal ==
  ASSUME IInv, IInv', TotalInv, Stop
  PROVE  TotalInv'
<1>1. UNCHANGED <<found, published, loop, trouble>>
  BY DEF Stop, store, world
<1>2. UnderWay' = UnderWay
  BY <1>1 DEF UnderWay
<1>3. cancelled' = cancelled \cup {current} /\ inFlight \subseteq inFlight'
  BY DEF Stop
<1>4. \A i \in cancelled : i \in inFlight' => i \in inFlight
  BY DEF Stop
<1>5. Spent \subseteq Spent'
  BY <1>1, <1>3, <1>4 DEF Spent, Due
<1> QED
  BY <1>1, <1>2, <1>5, TotalKept DEF IInv

LEMMA StartTotal ==
  ASSUME IInv, IInv', TotalInv, Start
  PROVE  TotalInv'
<1>1. UNCHANGED <<found, published, trouble, cancelled, inFlight>>
  BY DEF Start, store, world
<1>2. started + 1 \in Instances /\ loop[started + 1].pc = "off" /\ started + 1 \notin cancelled
  BY WatcherAssumption DEF Start, IInv, LifeInv, Unstarted, TypeOK, Instances
<1>3. \A i \in Instances : i # started + 1 => loop'[i] = loop[i]
  BY DEF Start, IInv, TypeOK
<1>4. loop'[started + 1].pc = "select"
  <2>1. loop[started + 1] \in LoopStates
    BY <1>2 DEF IInv, TypeOK
  <2>2. [loop[started + 1] EXCEPT !.pc = "select"].pc = "select"
    BY <2>1 DEF LoopStates
  <2> QED
    BY <1>2, <2>2 DEF Start, IInv, TypeOK
<1>5. UnderWay' = UnderWay
  BY <1>2, <1>3, <1>4 DEF UnderWay
<1>6. Spent \subseteq Spent'
  <2>1. \A i \in cancelled : i \in Instances /\ loop'[i] = loop[i]
    BY <1>2, <1>3, Sizes DEF IInv
  <2> QED
    BY <1>1, <2>1 DEF Spent, Due
<1> QED
  BY <1>1, <1>5, <1>6, TotalKept DEF IInv

LEMMA UpdateConfigTotal ==
  ASSUME IInv, IInv', TotalInv, UpdateConfig
  PROVE  TotalInv'
<1>1. UNCHANGED <<found, published, trouble, cancelled, inFlight>>
  BY DEF UpdateConfig, manager
<1>2. \A i \in Instances : loop'[i].pc = loop[i].pc
  BY DEF UpdateConfig, IInv, TypeOK, LoopStates
<1>3. UnderWay' = UnderWay
  BY <1>2 DEF UnderWay
<1>4. Spent \subseteq Spent'
  BY <1>1, <1>2, Sizes DEF Spent, Due, IInv
<1> QED
  BY <1>1, <1>3, <1>4, TotalKept DEF IInv

\* A step of the pipeline that neither counts nor ends an announcement
LEMMA LoopTotal ==
  ASSUME IInv, IInv', TotalInv, NEW i \in Instances, LoopStep(i),
         UNCHANGED <<found, published>>, trouble' = 0 => trouble = 0,
         loop[i].pc # "publish", loop'[i].pc # "publish",
         i \in Spent => i \in Spent'
  PROVE  TotalInv'
<1>1. UnderWay' = UnderWay
  BY LoopOthers DEF UnderWay
<1>2. Spent \subseteq Spent'
  <2>1. \A k \in Spent : k # i => k \in Spent'
    BY LoopOthers, Sizes DEF Spent, Due, IInv
  <2> QED
    BY <2>1
<1> QED
  BY <1>1, <1>2, TotalKept DEF IInv

LEMMA CalmTotal ==
  ASSUME IInv, IInv', TotalInv, NEW i \in Instances, Select(i) \/ Check(i) \/ Load(i) \/ Record(i)
  PROVE  TotalInv'
<1>1. UNCHANGED <<found, published>> /\ LoopStep(i)
  BY DEF Select, Check, Load, Record, LoopStep
<1>2. trouble' = 0 => trouble = 0
  BY DEF Select, Check, Load, Record, Reaches, Fails, ReplyLost, Trouble, IInv, TypeOK
<1>3. loop[i].pc # "publish"
  BY DEF Select, Check, Load, Record
<1>4. CASE Select(i)
  <2>1. loop'[i].pc \in {"check", "end"}
    BY <1>4, Went DEF Select, IInv, TypeOK
  <2> QED
    BY <1>1, <1>2, <1>3, <2>1, LoopOthers, LoopTotal DEF Spent, Due
<1>5. CASE Check(i)
  <2>1. loop'[i].pc \in {"load", "select"}
    BY <1>5, Went DEF Check
  <2> QED
    BY <1>1, <1>2, <1>3, <2>1, LoopOthers, LoopTotal DEF Spent, Due
<1>6. CASE Load(i)
  <2>1. loop'[i].pc \in {"record", "select"} /\ inFlight' = inFlight /\ loop[i].pc = "load"
    BY <1>6, Went DEF Load
  <2>2. i \notin inFlight'
    BY <2>1 DEF IInv, LifeInv, RedisPCs
  <2> QED
    BY <1>1, <1>2, <1>3, <2>1, <2>2, LoopOthers, LoopTotal DEF Spent, Due
<1>7. CASE Record(i)
  <2>1. loop'[i].pc \in {"count", "select"} /\ loop[i].pc = "record"
    BY <1>7, Went DEF Record
  <2>2. loop'[i].pc = "count" => i \notin cancelled \/ i \in inFlight
    BY <1>7, <2>1, Went DEF Record, Reaches
  <2> QED
    BY <1>1, <1>2, <1>3, <2>1, <2>2, LoopOthers, LoopTotal DEF Spent, Due
<1> QED
  BY <1>4, <1>5, <1>6, <1>7

LEMMA CountTotal ==
  ASSUME IInv, IInv', TotalInv, NEW i \in Instances, Count(i)
  PROVE  TotalInv'
<1> SUFFICES ASSUME trouble' = 0
             PROVE  IsFiniteSet(Announcements') /\ Missed' \in 0..Cardinality(Spent')
  BY DEF TotalInv
<1>0. LoopStep(i)
  BY DEF LoopStep
<1>1. trouble = 0 /\ found' = found + 1 /\ UNCHANGED <<published, inFlight>>
  BY DEF Count, Trouble, IInv, TypeOK
<1>2. loop[i].pc = "count" /\ loop'[i].pc = "publish"
  BY Went DEF Count
<1>3. UnderWay' = UnderWay \cup {i} /\ i \notin UnderWay
  BY <1>0, <1>2, LoopOthers DEF UnderWay
<1>4. Spent' = Spent
  BY <1>0, <1>1, <1>2, LoopOthers, Sizes DEF Spent, Due, IInv
<1>5. Announcements' = Announcements
  BY <1>1 DEF Announcements
<1>6. Cardinality(UnderWay') = Cardinality(UnderWay) + 1 /\ Cardinality(UnderWay) \in Nat
  BY <1>3, Sizes, FS_AddElement DEF IInv
<1>7. Missed \in 0..Cardinality(Spent) /\ IsFiniteSet(Announcements) /\ Cardinality(Announcements) \in Nat
  BY <1>1, FS_CardinalityType DEF TotalInv
<1>8. Missed' = Missed
  BY <1>1, <1>5, <1>6, <1>7, Sizes DEF Missed, IInv
<1> QED
  BY <1>4, <1>5, <1>7, <1>8

LEMMA PublishTotal ==
  ASSUME IInv, IInv', TotalInv, NEW i \in Instances, Publish(i)
  PROVE  TotalInv'
<1> SUFFICES ASSUME trouble' = 0
             PROVE  IsFiniteSet(Announcements') /\ Missed' \in 0..Cardinality(Spent')
  BY DEF TotalInv
<1>0. LoopStep(i) /\ loop[i].pc = "publish" /\ loop'[i].pc = "select" /\ found' = found
  BY Went DEF LoopStep, Publish
<1>1. trouble = 0
  BY DEF Publish, Reaches, Fails, ReplyLost, Trouble, IInv, TypeOK
<1>2. IsFiniteSet(Announcements) /\ Cardinality(Announcements) \in Nat
      /\ Missed \in 0..Cardinality(Spent)
  BY <1>1, FS_CardinalityType DEF TotalInv
<1>3. UnderWay' = UnderWay \ {i} /\ i \in UnderWay
  BY <1>0, LoopOthers DEF UnderWay
<1>4. Cardinality(UnderWay') = Cardinality(UnderWay) - 1 /\ Cardinality(UnderWay) \in Nat
  BY <1>3, Sizes, FS_RemoveElement DEF IInv
<1>5. Spent \subseteq Spent' /\ (i \in cancelled => i \in Spent' /\ i \notin Spent)
  <2>1. Spent \subseteq Spent'
    <3>1. \A k \in Spent : k # i => k \in Spent'
      BY <1>0, LoopOthers, Sizes DEF Spent, Due, IInv
    <3>2. i \notin Spent
      BY <1>0 DEF Spent, Due
    <3> QED
      BY <3>1, <3>2
  <2>2. i \in cancelled => i \in Spent' /\ i \notin Spent
    BY <1>0, LoopOthers DEF Spent, Due
  <2> QED
    BY <2>1, <2>2
<1>6. IsFiniteSet(Spent) /\ IsFiniteSet(Spent') /\ Cardinality(Spent) \in Nat
  <2>1. IsFiniteSet(Spent')
    BY Sizes DEF IInv
  <2> QED
    BY <2>1, Sizes DEF IInv
<1>7. CASE Reaches(i) /\ published' = [published EXCEPT ![loop[i].job] = @ + 1]
  <2>1. PICK j \in Jobs, n \in Nat : j = loop[i].job /\ n = published[j]
    BY <1>0 DEF IInv, TypeOK, LoopStates
  <2>2. published \in [Jobs -> Nat] /\ published' = [published EXCEPT ![j] = n + 1]
    BY <1>7, <2>1 DEF IInv, TypeOK
  <2>3. \A k, m : <<k, m>> \in Announcements <=> k \in Jobs /\ m \in 1..published[k]
    BY DEF Announcements
  <2>4. \A k, m : <<k, m>> \in Announcements' <=> k \in Jobs /\ m \in 1..published'[k]
    BY DEF Announcements
  <2>5. Announcements' = Announcements \cup {<<j, n + 1>>}
    <3>0. \A k \in Jobs : published'[k] = IF k = j THEN n + 1 ELSE published[k]
      BY <2>2
    <3>1. \A m : m \in 1..published'[j] <=> m \in 1..n \/ m = n + 1
      <4>1. published'[j] = n + 1
        BY <3>0
      <4>2. \A m : m \in 1..(n + 1) <=> m \in 1..n \/ m = n + 1
        OBVIOUS
      <4> QED
        BY <4>1, <4>2
    <3>2. ASSUME NEW k, NEW m
          PROVE  <<k, m>> \in Announcements' <=> <<k, m>> \in Announcements \/ <<k, m>> = <<j, n + 1>>
      <4>1. CASE k = j
        BY <2>1, <2>3, <2>4, <3>1, <4>1
      <4>2. CASE k # j
        BY <2>3, <2>4, <3>0, <4>2
      <4> QED
        BY <4>1, <4>2
    <3>3. \A a \in Announcements' : \E k, m : a = <<k, m>>
      BY DEF Announcements
    <3>4. \A a \in Announcements : \E k, m : a = <<k, m>>
      BY DEF Announcements
    <3>5. ASSUME NEW a PROVE a \in Announcements' <=> a \in Announcements \/ a = <<j, n + 1>>
      BY <3>2, <3>3, <3>4
    <3> QED
      BY <3>5
  <2>6. <<j, n + 1>> \notin Announcements
    BY <2>1, <2>3
  <2>7. IsFiniteSet(Announcements') /\ Cardinality(Announcements') = Cardinality(Announcements) + 1
    BY <1>2, <2>5, <2>6, FS_AddElement
  <2>8. Missed' = Missed
    BY <1>0, <1>2, <1>4, <2>7, Sizes DEF Missed, IInv
  <2>9. Cardinality(Spent) <= Cardinality(Spent') /\ Cardinality(Spent') \in Nat
    BY <1>5, <1>6, FS_Subset, FS_CardinalityType
  <2> QED
    BY <1>2, <1>6, <2>7, <2>8, <2>9
<1>8. CASE Fails(i) /\ published' = published
  <2>1. i \in cancelled
    BY <1>1, <1>8 DEF Fails, Trouble
  <2>2. Announcements' = Announcements
    BY <1>8 DEF Announcements
  <2>3. Missed' = Missed + 1
    BY <1>0, <1>2, <1>4, <2>2, Sizes DEF Missed, IInv
  <2>4. Cardinality(Spent) + 1 <= Cardinality(Spent') /\ Cardinality(Spent') \in Nat
    <3>1. Spent \cup {i} \subseteq Spent' /\ i \notin Spent
      BY <1>5, <2>1
    <3>2. Cardinality(Spent \cup {i}) = Cardinality(Spent) + 1
      BY <1>6, <3>1, FS_AddElement
    <3> QED
      BY <1>6, <3>1, <3>2, FS_Subset, FS_CardinalityType
  <2> QED
    BY <1>2, <1>6, <2>2, <2>3, <2>4
<1>9. ~ReplyLost(i)
  BY <1>1 DEF ReplyLost, Trouble, IInv, TypeOK
<1> QED
  BY <1>7, <1>8, <1>9 DEF Publish

LEMMA NextTotal == IInv /\ IInv' /\ TotalInv /\ [Next]_vars => TotalInv'
<1> SUFFICES ASSUME IInv, IInv', TotalInv, [Next]_vars PROVE TotalInv'
  OBVIOUS
<1>1. CASE Start \/ Stop \/ UpdateConfig
  BY <1>1, StartTotal, StopTotal, UpdateConfigTotal
<1>2. CASE Crash \/ Expire
  <2>1. trouble' # 0
    BY <1>2 DEF Crash, Expire, Trouble, IInv, TypeOK
  <2> QED
    BY <2>1 DEF TotalInv
<1>3. CASE PutStatus \/ PublishEvent \/ (\E j \in RssJobs : Post(j))
  <2>1. UNCHANGED <<found, published, loop, cancelled, inFlight>>
    BY <1>3 DEF PutStatus, PublishEvent, Post, store, manager, world
  <2>2. trouble' = 0 => trouble = 0
    BY <1>3 DEF PutStatus, PublishEvent, Post, Trouble, IInv, TypeOK
  <2> QED
    BY <2>1, <2>2, TotalKept DEF UnderWay, Spent, Due, IInv
<1>4. ASSUME NEW i \in Instances, RssStep(i) \/ WsStep(i) PROVE TotalInv'
  <2>1. UNCHANGED <<found, published, loop, cancelled, inFlight, trouble>>
    BY <1>4, RssEffect, WsEffect DEF IInv, Monitors, store, manager, world
  <2> QED
    BY <2>1, TotalKept DEF UnderWay, Spent, Due, IInv
<1>5. ASSUME NEW i \in Instances, LoopStep(i) PROVE TotalInv'
  BY <1>5, CalmTotal, CountTotal, PublishTotal DEF LoopStep
<1>6. CASE UNCHANGED vars
  BY <1>6, TotalKept DEF vars, UnderWay, Spent, Due, IInv
<1> QED
  BY <1>1, <1>2, <1>3, <1>4, <1>5, <1>6 DEF Next, ManagerStep

LEMMA InitTotal == Init => TotalInv
<1> SUFFICES ASSUME Init PROVE TotalInv
  OBVIOUS
<1>1. Announcements = {} /\ UnderWay = {} /\ cancelled = {} /\ found = 0
  BY DEF Init, Announcements, UnderWay
<1>2. Spent = {}
  BY <1>1 DEF Spent
<1> QED
  BY <1>1, <1>2, FS_EmptySet DEF TotalInv, Missed

\* However instances are stopped and started, the total counts every announcement,
\* and beyond those a job per stopped instance at most (incrementJobCount, publishJob).
THEOREM TotalRight == Spec => []TotalExact
<1>1. IInv /\ TotalInv => TotalExact
  <2> SUFFICES ASSUME IInv, TotalInv, trouble = 0
               PROVE  Missed \in 0..Cardinality(cancelled)
    BY DEF TotalExact, Missed
  <2>1. IsFiniteSet(cancelled) /\ Spent \subseteq cancelled
    BY Sizes, InstanceSets DEF IInv, Spent
  <2>2. Cardinality(Spent) <= Cardinality(cancelled) /\ Cardinality(cancelled) \in Nat
    BY <2>1, FS_Subset, FS_CardinalityType
  <2> QED
    BY <2>2, Sizes DEF TotalInv, IInv
<1>2. IInv /\ TotalInv /\ IInv' /\ [Next]_vars => TotalInv'
  BY NextTotal
<1> QED
  BY <1>1, <1>2, InitTotal, Invariance, PTL DEF Spec
=============================================================================
