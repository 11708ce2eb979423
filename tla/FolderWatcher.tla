---------------------------- MODULE FolderWatcher ----------------------------
(***************************************************************************)
(* The folder watcher of the translation worker (watcher/folder_watcher.py)*)
(* on the incoming directory: the observer thread that registers files,    *)
(* the scan thread that waits until a file is stable and calls back, the   *)
(* callback, which moves the file away, and a client that starts, stops    *)
(* and scans by hand.                                                      *)
(*                                                                         *)
(* The lock of FolderWatcherHandler is a plain threading.Lock.  What runs  *)
(* under it is one step; a thread that asks for it while it holds it stays *)
(* blocked, and everyone else behind it.                                   *)
(***************************************************************************)
EXTENDS Integers, Sequences, FiniteSets

CONSTANTS
  Files,     \* paths of the incoming directory with a supported extension
  Checks,    \* stabilization_checks
  MaxStarts, \* bound on the calls of start
  MaxWrites, \* bound on the writes of other programs
  MaxScans   \* bound on the calls of scan

ASSUME FolderAssumption ==
  /\ Files # {} /\ IsFiniteSet(Files)
  /\ {Checks, MaxStarts} \subseteq Nat \ {0}
  /\ {MaxWrites, MaxScans} \subseteq Nat

VARIABLES
  disk,    \* disk[f]: the file, with its size and whether it changed just now
  events,  \* creations and moves the observer has not handled
  entry,   \* entry[f]: what _files knows of f
  lock,    \* the handler's lock between two steps
  running, \* _running
  started, \* calls of start so far
  thread,  \* thread[t]: a scan thread, or the client (0) in scan
  owed,    \* files registered and not handed out since
  lost,    \* files whose registration something else wiped out
  credit,  \* credit[f]: registrations of f less the times it was handed out
  scans    \* calls of scan so far

folderVars == <<disk, events, entry, lock, running, started, thread, owed, lost, credit, scans>>

Threads   == 0 .. MaxStarts
Client    == 0
Untracked == [status |-> "untracked", size |-> 0, count |-> 0]
Gone      == [there |-> FALSE, size |-> 0, fresh |-> FALSE]
IdleThread      == [at |-> "idle", batch |-> <<>>]

Tracked(f)     == entry[f].status # "untracked"
StabilizingOrReady(f) == Tracked(f)
Stabilizing(f) == entry[f].status = "stabilizing"

FolderInit ==
  /\ disk = [f \in Files |-> Gone]
  /\ events = {}
  /\ entry = [f \in Files |-> Untracked]
  /\ lock = "free"
  /\ running = FALSE /\ started = 0
  /\ thread = [t \in Threads |-> IdleThread]
  /\ owed = {} /\ lost = {}
  /\ credit = [f \in Files |-> 0]
  /\ scans = 0

(***************************************************************************)
(* Other programs                                                          *)
(***************************************************************************)
Announce(f) == events' = IF running THEN events \cup {f} ELSE events

\* a program creates the file or appends to it
Write(f) ==
  /\ disk[f].size < MaxWrites
  /\ disk' = [disk EXCEPT ![f] = [there |-> TRUE, size |-> @.size + 1, fresh |-> TRUE]]
  /\ IF disk[f].there THEN UNCHANGED events ELSE Announce(f)
  /\ UNCHANGED <<entry, lock, running, started, thread, owed, lost, credit, scans>>

\* stabilization_interval passes without a change
Settle(f) ==
  /\ disk[f].there /\ disk[f].fresh
  /\ disk' = [disk EXCEPT ![f].fresh = FALSE]
  /\ UNCHANGED <<events, entry, lock, running, started, thread, owed, lost, credit, scans>>

\* a program takes the file away, or renames it: the old name stays registered
Vanish(f) ==
  /\ disk[f].there
  /\ disk' = [disk EXCEPT ![f].there = FALSE]
  /\ UNCHANGED <<events, entry, lock, running, started, thread, owed, lost, credit, scans>>

(***************************************************************************)
(* FolderWatcherHandler                                                    *)
(***************************************************************************)
\* _register_file: a path that is known starts again
Register(f) ==
  /\ lock = "free"
  /\ entry' = [entry EXCEPT ![f] = [status |-> "stabilizing", size |-> 0, count |-> 0]]
  /\ credit' = [credit EXCEPT ![f] = @ + 1]
  /\ owed' = owed \cup {f}

\* on_created and on_moved
OnCreated(f) ==
  /\ f \in events
  /\ events' = events \ {f}
  /\ Register(f)
  /\ UNCHANGED <<disk, lock, running, started, thread, lost, scans>>

CheckedBlind(e, d) == IF d.size # e.size THEN [e EXCEPT !.count = 0] ELSE
  [e EXCEPT !.count = @ + 1, !.status = IF e.count + 1 >= Checks THEN "ready" ELSE @]
\* _check_stability of a file that is there; a fresh one takes its size only
Checked(e, d) ==
  CASE d.fresh                                    -> [e EXCEPT !.size = d.size]
    [] ~d.fresh /\ d.size # e.size                -> [e EXCEPT !.size = d.size, !.count = 0]
    [] ~d.fresh /\ d.size = e.size /\ e.count + 1 >= Checks ->
         [e EXCEPT !.status = "ready", !.count = @ + 1]
    [] OTHER                                      -> [e EXCEPT !.count = @ + 1]

\* get_ready_files; for a file that is gone the handler asks for its own lock, and
\* the files checked before it are marked without being returned
GetReadyFiles(t) ==
  LET due  == {f \in Files : Stabilizing(f)}
      gone == {f \in due : ~disk[f].there}
  IN  /\ lock = "free"
      /\ \E done \in IF gone = {} THEN {due} ELSE SUBSET (due \ gone) :
           LET ready == {f \in done : Checked(entry[f], disk[f]).status = "ready"} IN
             /\ entry' = [f \in Files |-> IF f \in done THEN Checked(entry[f], disk[f])
                                                        ELSE entry[f]]
             /\ IF gone = {}
                  THEN /\ \E batch \in [1 .. Cardinality(ready) -> ready] :
                            /\ \A f \in ready : \E i \in DOMAIN batch : batch[i] = f
                            /\ thread' = [thread EXCEPT ![t] = [at |-> "deliver", batch |-> batch]]
                       /\ lock' = "free"
                  ELSE /\ thread' = [thread EXCEPT ![t].at = "stuck"]
                       /\ lock' = "stuck"

(***************************************************************************)
(* FolderWatcher                                                           *)
(***************************************************************************)
\* start: a new handler, a new observer and one more scan thread; an earlier thread
\* that is still at a callback goes on with the new handler
StartWatcher ==
  /\ ~running /\ started < MaxStarts
  /\ running' = TRUE
  /\ started' = started + 1
  /\ entry' = [f \in Files |-> Untracked]
  /\ lock' = "free"
  /\ events' = {}
  /\ thread' = [thread EXCEPT ![started + 1].at = "loop"]
  /\ lost' = lost \cup owed
  /\ owed' = {}
  /\ UNCHANGED <<disk, credit, scans>>

\* stop joins its threads for five seconds each and returns whether they ended or not
StopWatcher ==
  /\ running
  /\ running' = FALSE
  /\ events' = {}
  /\ UNCHANGED <<disk, entry, lock, started, thread, owed, lost, credit, scans>>

\* _scan_loop
ScanLoop(t) ==
  /\ t # Client /\ thread[t].at = "loop"
  /\ IF running
       THEN GetReadyFiles(t)
       ELSE /\ thread' = [thread EXCEPT ![t] = IdleThread]
            /\ UNCHANGED <<entry, lock>>
  /\ UNCHANGED <<disk, events, running, started, owed, lost, credit, scans>>

\* _process_ready_file: mark the file again, then call back
Deliver(t) ==
  /\ t # Client /\ thread[t].at = "deliver"
  /\ IF thread[t].batch = <<>>
       THEN /\ thread' = [thread EXCEPT ![t] = [IdleThread EXCEPT !.at = "loop"]]
            /\ UNCHANGED <<entry, owed, credit>>
       ELSE LET f == Head(thread[t].batch) IN
            /\ lock = "free"
            /\ entry' = IF Tracked(f) THEN [entry EXCEPT ![f].status = "ready"] ELSE entry
            /\ thread' = [thread EXCEPT ![t].at = "callback"]
            /\ credit' = [credit EXCEPT ![f] = @ - 1]
            /\ owed' = owed \ {f}
  /\ UNCHANGED <<disk, events, lock, running, started, lost, scans>>

GoesOn(t, at) == thread' = [thread EXCEPT ![t] = [at |-> at, batch |-> Tail(@.batch)]]

\* the callback ends without moving the file, or raises, also because it is gone
Return(t) ==
  /\ thread[t].at = "callback"
  /\ GoesOn(t, "deliver")
  /\ UNCHANGED <<disk, events, entry, lock, running, started, owed, lost, credit, scans>>

\* move_to_translated or move_to_failed from the callback: first the file ...
MoveFile(t) ==
  /\ thread[t].at = "callback" /\ disk[Head(thread[t].batch)].there
  /\ disk' = [disk EXCEPT ![Head(thread[t].batch)].there = FALSE]
  /\ thread' = [thread EXCEPT ![t].at = "untrack"]
  /\ UNCHANGED <<events, entry, lock, running, started, owed, lost, credit, scans>>

UntrackByStatus(t) ==
  /\ thread[t].at = "untrack" /\ lock = "free"
  /\ entry' = [entry EXCEPT ![Head(thread[t].batch)].status = "completed"]
  /\ GoesOn(t, "deliver")
  /\ UNCHANGED <<disk, events, lock, running, started, owed, lost, credit, scans>>
\* ... then the entry, whatever it has become
Untrack(t) ==
  /\ thread[t].at = "untrack" /\ lock = "free"
  /\ LET f == Head(thread[t].batch) IN
       /\ entry' = [entry EXCEPT ![f] = Untracked]
       /\ lost' = IF f \in owed THEN lost \cup {f} ELSE lost
       /\ owed' = owed \ {f}
  /\ GoesOn(t, "deliver")
  /\ UNCHANGED <<disk, events, lock, running, started, credit, scans>>

\* scan of the client: it looks without the lock for a file that is not tracked, ...
Look(f) ==
  /\ thread[Client].at = "idle" /\ scans < MaxScans
  /\ disk[f].there /\ ~Tracked(f)
  /\ thread' = [thread EXCEPT ![Client] = [at |-> "register", batch |-> <<f>>]]
  /\ scans' = scans + 1
  /\ UNCHANGED <<disk, events, entry, lock, running, started, owed, lost, credit>>

\* ... registers it ...
ScanRegister ==
  /\ thread[Client].at = "register"
  /\ Register(Head(thread[Client].batch))
  /\ thread' = [thread EXCEPT ![Client].at = "collect"]
  /\ UNCHANGED <<disk, events, lock, running, started, lost, scans>>

\* ... and takes the files that are ready
ScanCollect ==
  /\ thread[Client].at = "collect"
  /\ GetReadyFiles(Client)
  /\ UNCHANGED <<disk, events, running, started, owed, lost, credit, scans>>

ScanReturn ==
  /\ thread[Client].at = "deliver"
  /\ LET ready == {thread[Client].batch[i] : i \in DOMAIN thread[Client].batch} IN
       /\ credit' = [f \in Files |-> IF f \in ready THEN credit[f] - 1 ELSE credit[f]]
       /\ owed' = owed \ ready
  /\ thread' = [thread EXCEPT ![Client] = IdleThread]
  /\ UNCHANGED <<disk, events, entry, lock, running, started, lost, scans>>

ThreadStep(t) == ScanLoop(t) \/ Deliver(t) \/ Return(t) \/ MoveFile(t) \/ Untrack(t)
ClientStep    == ScanRegister \/ ScanCollect \/ ScanReturn

FolderNext ==
  \/ \E f \in Files : Write(f) \/ Settle(f) \/ Vanish(f) \/ OnCreated(f) \/ Look(f)
  \/ StartWatcher \/ StopWatcher \/ ClientStep
  \/ \E t \in Threads : ThreadStep(t)

FolderSpec == FolderInit /\ [][FolderNext]_folderVars

\* threads get to run and get the lock, time passes, and a callback ends
FolderFairness ==
  /\ \A t \in Threads : WF_folderVars(ThreadStep(t))
  /\ \A f \in Files : WF_folderVars(Settle(f)) /\ WF_folderVars(OnCreated(f))
  /\ WF_folderVars(ClientStep)
FolderFairSpec == FolderSpec /\ FolderFairness

(***************************************************************************)
(* Properties                                                              *)
(***************************************************************************)
\* An entry is one of a file the handler knows, with a size that was written,
\* and the lock is free or held for good.
FolderTypeOK ==
  /\ disk \in [Files -> [there : BOOLEAN, size : 0 .. MaxWrites, fresh : BOOLEAN]]
  /\ events \subseteq Files
  /\ entry \in [Files -> [status : {"untracked", "stabilizing", "ready"},
                          size : 0 .. MaxWrites, count : Nat]]
  /\ lock \in {"free", "stuck"}
  /\ running \in BOOLEAN /\ started \in 0 .. MaxStarts
  /\ owed \subseteq Files /\ lost \subseteq Files

\* A file is handed to the callback, or returned by scan, at most once for each time
\* it was registered: also when a thread of an earlier start still runs, and when
\* the client scans beside the scan thread.
HandedOncePerArrival == \A f \in Files : credit[f] >= 0

\* A registered file is handed out in the end, unless the watcher stops, a restart
\* or a removal wipes the registration out, or the handler blocks itself.
QuietFileHanded ==
  \A f \in Files : f \in owed ~> f \notin owed \/ lock = "stuck" \/ ~running
=============================================================================
