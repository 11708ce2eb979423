--------------------------- MODULE WorkerServicesProofs ---------------------------
(***************************************************************************)
(* The services of the worker, each for any values of its constants, and   *)
(* all of them beside one another: the folder that is watched, for any     *)
(* number of files, starts and stability checks; the translation cache,    *)
(* for any number of clients, requests and sizes, any TTL and either       *)
(* backend; the pool of providers and the batches it serves, for any       *)
(* number of providers, prompts, texts and chunk sizes and any failures;   *)
(* and the plugin registry, for any files, classes, names and extensions.  *)
(*                                                                         *)
(* HandedOncePerArrival is not inductive: a scan thread carries a batch it *)
(* has not delivered yet while the watcher is stopped, started again and   *)
(* scanned by the client.  The invariant counts who still holds a file: a  *)
(* registration pays for the entry while it is stabilizing, and for the    *)
(* one thread that took it afterwards.                                     *)
(*                                                                         *)
(* HitIsForRequest is not inductive either: a hit is what a file holds,    *)
(* and a file holds what a writer carried there several steps before.  The *)
(* invariant follows an entry along that way.                              *)
(*                                                                         *)
(* LookupsRight speaks of what a look-up finds; the invariant says which   *)
(* info an instance belongs to: two infos never share one, so that a       *)
(* shutdown of one plugin leaves the others alive.                         *)
(***************************************************************************)
EXTENDS MCWorkerServices, SequencePartsProofs, FunctionTheorems

-----------------------------------------------------------------------------
(* The folder watcher *)

Ats == {"idle", "loop", "deliver", "callback", "untrack", "stuck", "register", "collect"}
ThreadState == [at : Ats, batch : Seq(Files)]

\* the files of its batch that a thread has still to hand out
Held(x) ==
  IF x.at = "deliver" THEN {x.batch[i] : i \in 1 .. Len(x.batch)}
  ELSE IF x.at \in {"callback", "untrack"} THEN {x.batch[i] : i \in 2 .. Len(x.batch)}
  ELSE {}
Holds(x, f)   == IF f \in Held(x) THEN 1 ELSE 0
Holders(th, f) == {t \in Threads : f \in Held(th[t])}
Due(e, f)     == IF e[f].status = "stabilizing" THEN 1 ELSE 0

\* a batch names a file once, and whoever is at a file has one
BatchOK(x) ==
  /\ \A i, j \in 1 .. Len(x.batch) : x.batch[i] = x.batch[j] => i = j
  /\ x.at \in {"callback", "untrack", "register"} => x.batch # <<>>

ThreadsOK == thread \in [Threads -> ThreadState] /\ \A t \in Threads : BatchOK(thread[t])
Enough ==
  /\ credit \in [Files -> Int]
  /\ \A f \in Files : credit[f] >= Cardinality(Holders(thread, f)) + Due(entry, f)

FolderInv == FolderTypeOK /\ ThreadsOK /\ Enough

(***************************************************************************)
(* Counting                                                                *)
(***************************************************************************)
LEMMA HoldersFinite ==
  ASSUME NEW th, NEW f
  PROVE  IsFiniteSet(Holders(th, f)) /\ Cardinality(Holders(th, f)) \in Nat
<1>1. IsFiniteSet(Threads)
  BY FS_Interval, FolderAssumption DEF Threads
<1>2. Holders(th, f) \in SUBSET Threads
  BY DEF Holders
<1> QED
  BY <1>1, <1>2, FS_Subset, FS_CardinalityType

\* A step of one thread changes the count of holders by what that thread took or gave.
LEMMA HoldersChange ==
  ASSUME thread \in [Threads -> ThreadState], NEW t \in Threads, NEW x, NEW f,
         NEW th, th = [thread EXCEPT ![t] = x]
  PROVE  Cardinality(Holders(th, f))
           = Cardinality(Holders(thread, f)) - Holds(thread[t], f) + Holds(x, f)
<1> DEFINE S == Holders(thread, f)
<1>1. IsFiniteSet(S) /\ Cardinality(S) \in Nat
  BY HoldersFinite
<1>2. CASE f \in Held(x)
  <2>1. Holders(th, f) = S \cup {t}
    BY <1>2 DEF Holders
  <2>2. t \in S <=> f \in Held(thread[t])
    BY DEF Holders
  <2>3. Cardinality(S \cup {t}) = IF t \in S THEN Cardinality(S) ELSE Cardinality(S) + 1
    BY <1>1, FS_AddElement
  <2>4. Holds(x, f) = 1 /\ Holds(thread[t], f) = IF t \in S THEN 1 ELSE 0
    BY <1>2, <2>2 DEF Holds
  <2>5. Cardinality(Holders(th, f)) = Cardinality(S \cup {t})
    BY <2>1
  <2> HIDE DEF S
  <2>6. Cardinality(Holders(th, f)) = Cardinality(S) - Holds(thread[t], f) + Holds(x, f)
    BY <1>1, <2>3, <2>4, <2>5
  <2> QED
    BY <2>6 DEF S
<1>3. CASE f \notin Held(x)
  <2>1. Holders(th, f) = S \ {t}
    BY <1>3 DEF Holders
  <2>2. t \in S <=> f \in Held(thread[t])
    BY DEF Holders
  <2>3. Cardinality(S \ {t}) = IF t \in S THEN Cardinality(S) - 1 ELSE Cardinality(S)
    BY <1>1, FS_RemoveElement
  <2>4. Holds(x, f) = 0 /\ Holds(thread[t], f) = IF t \in S THEN 1 ELSE 0
    BY <1>3, <2>2 DEF Holds
  <2>5. Cardinality(Holders(th, f)) = Cardinality(S \ {t})
    BY <2>1
  <2> HIDE DEF S
  <2>6. Cardinality(Holders(th, f)) = Cardinality(S) - Holds(thread[t], f) + Holds(x, f)
    BY <1>1, <2>3, <2>4, <2>5
  <2> QED
    BY <2>6 DEF S
<1> QED
  BY <1>2, <1>3

\* A step may lower the credit of a file by what its thread and the entry give up.
LEMMA EnoughStep ==
  ASSUME FolderInv, NEW t \in Threads, NEW x,
         thread' = [thread EXCEPT ![t] = x], credit' \in [Files -> Int],
         \A f \in Files : credit'[f] - Due(entry', f) - Holds(x, f)
                            >= credit[f] - Due(entry, f) - Holds(thread[t], f)
  PROVE  Enough'
<1> SUFFICES ASSUME NEW f \in Files
             PROVE  credit'[f] >= Cardinality(Holders(thread', f)) + Due(entry', f)
  BY DEF Enough
<1>1. credit[f] >= Cardinality(Holders(thread, f)) + Due(entry, f)
        /\ credit[f] \in Int /\ credit'[f] \in Int
  BY DEF FolderInv, Enough
<1>2. Cardinality(Holders(thread', f))
        = Cardinality(Holders(thread, f)) - Holds(thread[t], f) + Holds(x, f)
  BY HoldersChange DEF FolderInv, ThreadsOK
<1>3. Cardinality(Holders(thread, f)) \in Nat
  BY HoldersFinite
<1>4. /\ Due(entry, f) \in Int /\ Due(entry', f) \in Int
      /\ Holds(thread[t], f) \in Int /\ Holds(x, f) \in Int
  BY DEF Due, Holds
<1> QED
  BY <1>1, <1>2, <1>3, <1>4

LEMMA EnoughKept ==
  ASSUME FolderInv, thread' = thread, credit' \in [Files -> Int],
         \A f \in Files : credit'[f] - Due(entry', f) >= credit[f] - Due(entry, f)
  PROVE  Enough' /\ ThreadsOK'
<1>1. ThreadsOK'
  BY DEF FolderInv, ThreadsOK
<1> SUFFICES ASSUME NEW f \in Files
             PROVE  credit'[f] >= Cardinality(Holders(thread', f)) + Due(entry', f)
  BY <1>1 DEF Enough
<1>2. credit[f] >= Cardinality(Holders(thread, f)) + Due(entry, f)
        /\ credit[f] \in Int /\ credit'[f] \in Int
  BY DEF FolderInv, Enough
<1>3. Cardinality(Holders(thread, f)) \in Nat
  BY HoldersFinite
<1>4. Due(entry, f) \in Int /\ Due(entry', f) \in Int
  BY DEF Due
<1> QED
  BY <1>2, <1>3, <1>4

LEMMA ThreadsStep ==
  ASSUME FolderInv, NEW t \in Threads, NEW x \in ThreadState, BatchOK(x),
         thread' = [thread EXCEPT ![t] = x]
  PROVE  ThreadsOK'
  BY DEF FolderInv, ThreadsOK

\* The thread moves to x, the credits and what is due stay: x holds no more than before.
LEMMA LighterStep ==
  ASSUME FolderInv, NEW t \in Threads, NEW x \in ThreadState, BatchOK(x),
         thread' = [thread EXCEPT ![t] = x], credit' = credit,
         Held(x) \subseteq Held(thread[t]),
         \A f \in Files : Due(entry', f) <= Due(entry, f)
  PROVE  Enough' /\ ThreadsOK'
<1>1. credit' \in [Files -> Int]
  BY DEF FolderInv, Enough
<1>2. ASSUME NEW f \in Files
      PROVE  credit'[f] - Due(entry', f) - Holds(x, f)
               >= credit[f] - Due(entry, f) - Holds(thread[t], f)
  <2>1. Holds(x, f) <= Holds(thread[t], f) /\ Holds(x, f) \in Int
          /\ Holds(thread[t], f) \in Int
    BY DEF Holds
  <2>2. Due(entry', f) <= Due(entry, f) /\ Due(entry', f) \in Int /\ Due(entry, f) \in Int
    BY DEF Due
  <2>3. credit'[f] = credit[f] /\ credit[f] \in Int
    BY DEF FolderInv, Enough
  <2> QED
    BY <2>1, <2>2, <2>3
<1> QED
  BY <1>1, <1>2, EnoughStep, ThreadsStep

\* The head of a batch is not in its tail.
LEMMA HeadOnce ==
  ASSUME NEW x \in ThreadState, BatchOK(x), x.batch # <<>>
  PROVE  /\ Head(x.batch) \in Files /\ Head(x.batch) = x.batch[1]
         /\ Head(x.batch) \notin {x.batch[i] : i \in 2 .. Len(x.batch)}
         /\ {x.batch[i] : i \in 1 .. Len(x.batch)}
              = {Head(x.batch)} \cup {x.batch[i] : i \in 2 .. Len(x.batch)}
  BY DEF ThreadState, BatchOK

\* The tail of a batch is a batch of the rest.
LEMMA TailOnce ==
  ASSUME NEW x \in ThreadState, BatchOK(x), x.batch # <<>>, NEW s, s = Tail(x.batch)
  PROVE  /\ s \in Seq(Files)
         /\ \A i, j \in 1 .. Len(s) : s[i] = s[j] => i = j
         /\ {s[i] : i \in 1 .. Len(s)} = {x.batch[i] : i \in 2 .. Len(x.batch)}
<1>1. /\ x.batch \in Seq(Files) /\ Len(x.batch) \in Nat /\ Len(x.batch) > 0
      /\ s \in Seq(Files) /\ Len(s) = Len(x.batch) - 1
      /\ \A i \in 1 .. Len(s) : s[i] = x.batch[i + 1]
  BY DEF ThreadState
<1>2. \A i, j \in 1 .. Len(s) : s[i] = s[j] => i = j
  BY <1>1 DEF BatchOK
<1>3. ASSUME NEW i \in 2 .. Len(x.batch) PROVE x.batch[i] \in {s[j] : j \in 1 .. Len(s)}
  <2>1. i - 1 \in 1 .. Len(s) /\ s[i - 1] = x.batch[i]
    BY <1>1
  <2> QED
    BY <2>1
<1>4. ASSUME NEW j \in 1 .. Len(s) PROVE s[j] \in {x.batch[i] : i \in 2 .. Len(x.batch)}
  <2>1. j + 1 \in 2 .. Len(x.batch) /\ s[j] = x.batch[j + 1]
    BY <1>1
  <2> QED
    BY <2>1
<1> QED
  BY <1>1, <1>2, <1>3, <1>4

(***************************************************************************)
(* The scan                                                                *)
(***************************************************************************)
FileEntry == [status : {"untracked", "stabilizing", "ready"}, size : 0 .. MaxWrites, count : Nat]

LEMMA CheckedTyped ==
  ASSUME NEW e \in FileEntry, e.status = "stabilizing",
         NEW d \in [there : BOOLEAN, size : 0 .. MaxWrites, fresh : BOOLEAN]
  PROVE  Checked(e, d) \in FileEntry /\ Checked(e, d).status \in {"stabilizing", "ready"}
<1> DEFINE Size == [e EXCEPT !.size = d.size]
           Over == [e EXCEPT !.size = d.size, !.count = 0]
           Once == [e EXCEPT !.count = @ + 1]
           Done == [e EXCEPT !.status = "ready", !.count = @ + 1]
<1>1. /\ e.count \in Nat /\ e.count + 1 \in Nat /\ d.size \in 0 .. MaxWrites
      /\ d.fresh \in BOOLEAN
  BY DEF FileEntry
<1>2. Size \in FileEntry /\ Size.status = "stabilizing"
  BY <1>1 DEF FileEntry
<1>3. Over \in FileEntry /\ Over.status = "stabilizing"
  BY <1>1 DEF FileEntry
<1>4. Once \in FileEntry /\ Once.status = "stabilizing"
  BY <1>1 DEF FileEntry
<1>5. Done \in FileEntry /\ Done.status = "ready"
  BY <1>1 DEF FileEntry
<1> HIDE DEF Size, Over, Once, Done
<1>6. Checked(e, d) \in {Size, Over, Once, Done}
  BY <1>1 DEF Checked, Size, Over, Once, Done
<1> QED
  BY <1>2, <1>3, <1>4, <1>5, <1>6

\* A batch with as many places as files, in which each file has a place, names each once.
LEMMA BatchOnce ==
  ASSUME NEW ready, IsFiniteSet(ready), NEW taken \in [1 .. Cardinality(ready) -> ready],
         \A f \in ready : \E i \in DOMAIN taken : taken[i] = f
  PROVE  \A i, j \in 1 .. Cardinality(ready) : taken[i] = taken[j] => i = j
<1> DEFINE n == Cardinality(ready)
<1>1. n \in Nat
  BY FS_CardinalityType
<1>2. IsFiniteSet(1 .. n) /\ Cardinality(1 .. n) = n
  BY <1>1, FS_Interval
<1>3. taken \in Surjection(1 .. n, ready)
  BY DEF Surjection
<1>4. taken \in Injection(1 .. n, ready)
  BY <1>2, <1>3, FS_SurjSameCardinalityImpliesInj
<1> QED
  BY <1>4 DEF Injection, IsInjective

\* get_ready_files: a file that becomes ready is in the batch, at most once, or in none.
LEMMA GetReadyFilesStep ==
  ASSUME FolderInv, NEW t \in Threads, thread[t].at \in {"loop", "collect"},
         GetReadyFiles(t), credit' = credit
  PROVE  /\ entry' \in [Files -> FileEntry] /\ lock' \in {"free", "stuck"}
         /\ ThreadsOK' /\ Enough'
<1> DEFINE due  == {f \in Files : Stabilizing(f)}
           gone == {f \in due : ~disk[f].there}
           Ready(done) == {f \in done : Checked(entry[f], disk[f]).status = "ready"}
<1>1. PICK done \in SUBSET due :
        /\ entry' = [f \in Files |-> IF f \in done THEN Checked(entry[f], disk[f]) ELSE entry[f]]
        /\ \/ /\ gone = {} /\ lock' = "free"
              /\ \E taken \in [1 .. Cardinality(Ready(done)) -> Ready(done)] :
                   /\ \A f \in Ready(done) : \E i \in DOMAIN taken : taken[i] = f
                   /\ thread' = [thread EXCEPT ![t] = [at |-> "deliver", batch |-> taken]]
           \/ thread' = [thread EXCEPT ![t].at = "stuck"] /\ lock' = "stuck"
  BY DEF GetReadyFiles
<1>2. /\ entry \in [Files -> FileEntry]
      /\ disk \in [Files -> [there : BOOLEAN, size : 0 .. MaxWrites, fresh : BOOLEAN]]
      /\ thread[t] \in ThreadState /\ BatchOK(thread[t])
      /\ credit \in [Files -> Int]
  BY DEF FolderInv, FolderTypeOK, ThreadsOK, Enough, FileEntry
<1>3. \A f \in done : f \in Files /\ entry[f].status = "stabilizing" /\ entry[f] \in FileEntry
  BY <1>2 DEF Stabilizing
<1>4. \A f \in done : /\ Checked(entry[f], disk[f]) \in FileEntry
                      /\ Checked(entry[f], disk[f]).status \in {"stabilizing", "ready"}
  BY <1>2, <1>3, CheckedTyped
<1>5. entry' \in [Files -> FileEntry]
  BY <1>1, <1>2, <1>4
<1>6. \A f \in Files : Due(entry', f) <= Due(entry, f)
  BY <1>1, <1>3 DEF Due
<1>7. CASE thread' = [thread EXCEPT ![t].at = "stuck"]
  <2> DEFINE x == [thread[t] EXCEPT !.at = "stuck"]
  <2>1. x \in ThreadState /\ BatchOK(x) /\ Held(x) = {}
    BY <1>2 DEF ThreadState, Ats, BatchOK, Held
  <2>2. thread' = [thread EXCEPT ![t] = x]
    BY <1>7
  <2> HIDE DEF x
  <2>3. ThreadsOK' /\ Enough'
    BY <1>6, <2>1, <2>2, LighterStep
  <2> QED
    BY <1>1, <1>5, <2>3
<1>8. ASSUME NEW taken \in [1 .. Cardinality(Ready(done)) -> Ready(done)],
             \A f \in Ready(done) : \E i \in DOMAIN taken : taken[i] = f,
             thread' = [thread EXCEPT ![t] = [at |-> "deliver", batch |-> taken]]
      PROVE  ThreadsOK' /\ Enough'
  <2> DEFINE ready == Ready(done)
             n == Cardinality(ready)
             x == [at |-> "deliver", batch |-> taken]
  <2>1. ready \in SUBSET Files
    BY <1>3
  <2>2. IsFiniteSet(ready) /\ n \in Nat
    BY <2>1, FolderAssumption, FS_Subset, FS_CardinalityType
  <2>3. \A i, j \in 1 .. n : taken[i] = taken[j] => i = j
    BY <1>8, <2>2, BatchOnce
  <2>4. taken \in Seq(Files) /\ Len(taken) = n /\ \A i \in 1 .. n : taken[i] \in ready
    <3> HIDE DEF ready
    <3>1. taken \in [1 .. n -> ready]
      BY <1>8 DEF ready
    <3>2. taken \in [1 .. n -> Files]
      BY <2>1, <3>1
    <3>3. taken \in Seq(Files) /\ Len(taken) = n
      <4> HIDE DEF n
      <4> QED
        BY <2>2, <3>2
    <3> QED
      BY <3>1, <3>3
  <2>5. x \in ThreadState /\ BatchOK(x) /\ Held(x) \subseteq ready
    BY <2>3, <2>4 DEF ThreadState, Ats, BatchOK, Held
  <2>6. ASSUME NEW f \in Files
        PROVE  credit'[f] - Due(entry', f) - Holds(x, f)
                 >= credit[f] - Due(entry, f) - Holds(thread[t], f)
    <3>1. Holds(thread[t], f) = 0 /\ credit[f] \in Int /\ credit'[f] = credit[f]
      BY <1>2 DEF Holds, Held
    <3>2. CASE f \in ready
      <4>1. Due(entry, f) = 1 /\ Due(entry', f) = 0
        BY <1>1, <1>3, <3>2 DEF Due
      <4>2. Holds(x, f) \in {0, 1}
        BY DEF Holds
      <4> HIDE DEF x
      <4> QED
        BY <3>1, <4>1, <4>2
    <3>3. CASE f \notin ready
      <4>1. Holds(x, f) = 0
        BY <2>5, <3>3 DEF Holds
      <4>2. Due(entry', f) <= Due(entry, f) /\ Due(entry, f) \in Int /\ Due(entry', f) \in Int
        BY <1>6 DEF Due
      <4> HIDE DEF x
      <4> QED
        BY <3>1, <4>1, <4>2
    <3> QED
      BY <3>2, <3>3
  <2>7. credit' \in [Files -> Int] /\ thread' = [thread EXCEPT ![t] = x]
    BY <1>2, <1>8
  <2> HIDE DEF x
  <2> QED
    BY <2>5, <2>6, <2>7, EnoughStep, ThreadsStep
<1> QED
  BY <1>1, <1>5, <1>7, <1>8

(***************************************************************************)
(* Each action                                                             *)
(***************************************************************************)
LEMMA FolderInitInv == FolderInit => FolderInv
<1> SUFFICES ASSUME FolderInit PROVE FolderInv
  OBVIOUS
<1>1. FolderTypeOK
  <2>1. 0 \in 0 .. MaxWrites /\ 0 \in 0 .. MaxStarts
    BY FolderAssumption
  <2>2. Gone \in [there : BOOLEAN, size : 0 .. MaxWrites, fresh : BOOLEAN]
    BY <2>1 DEF Gone
  <2>3. Untracked \in FileEntry
    BY <2>1 DEF Untracked, FileEntry
  <2> QED
    BY <2>1, <2>2, <2>3 DEF FolderInit, FolderTypeOK, FileEntry
<1>2. ThreadsOK
  BY DEF FolderInit, ThreadsOK, ThreadState, Ats, IdleThread, BatchOK
<1>3. ASSUME NEW f \in Files PROVE credit[f] = 0 /\ Holders(thread, f) = {} /\ Due(entry, f) = 0
  BY DEF FolderInit, Holders, Held, IdleThread, Due, Untracked
<1>4. Cardinality({}) = 0
  BY FS_EmptySet
<1> QED
  BY <1>1, <1>2, <1>3, <1>4 DEF FolderInv, Enough, FolderInit

\* What other programs, the observer before it registers and stop do.
LEMMA QuietInv ==
  ASSUME FolderInv,
         \/ \E f \in Files : Write(f) \/ Settle(f) \/ Vanish(f)
         \/ StopWatcher \/ UNCHANGED folderVars
  PROVE  FolderInv'
<1>1. entry' = entry /\ credit' = credit /\ thread' = thread
  BY DEF Write, Settle, Vanish, StopWatcher, folderVars
<1>2. Enough' /\ ThreadsOK'
  <2>1. credit' \in [Files -> Int]
    BY <1>1 DEF FolderInv, Enough
  <2>2. \A f \in Files : credit[f] \in Int /\ Due(entry, f) \in Int
    BY DEF FolderInv, Enough, Due
  <2>3. \A f \in Files : credit'[f] - Due(entry', f) >= credit[f] - Due(entry, f)
    BY <1>1, <2>2
  <2> QED
    BY <1>1, <2>1, <2>3, EnoughKept
<1>3. FolderTypeOK'
  <2>1. ASSUME NEW f \in Files, Write(f) PROVE FolderTypeOK'
    BY <2>1, FolderAssumption DEF Write, Announce, FolderInv, FolderTypeOK
  <2>2. ASSUME NEW f \in Files, Settle(f) \/ Vanish(f) PROVE FolderTypeOK'
    BY ZenonT(40), <2>2 DEF Settle, Vanish, FolderInv, FolderTypeOK
  <2>3. CASE StopWatcher \/ UNCHANGED folderVars
    BY <2>3 DEF StopWatcher, folderVars, FolderInv, FolderTypeOK
  <2> QED
    BY <2>1, <2>2, <2>3
<1> QED
  BY <1>2, <1>3 DEF FolderInv

\* A registration adds to the credit what the entry will need.
LEMMA RegisterStep ==
  ASSUME FolderInv, NEW f \in Files, Register(f)
  PROVE  /\ entry' \in [Files -> FileEntry] /\ owed' \subseteq Files
         /\ credit' \in [Files -> Int]
         /\ \A g \in Files : credit'[g] - Due(entry', g) >= credit[g] - Due(entry, g)
<1>1. entry \in [Files -> FileEntry] /\ owed \subseteq Files /\ credit \in [Files -> Int]
  BY DEF FolderInv, FolderTypeOK, Enough, FileEntry
<1>2. /\ entry' = [entry EXCEPT ![f] = [status |-> "stabilizing", size |-> 0, count |-> 0]]
      /\ credit' = [credit EXCEPT ![f] = credit[f] + 1] /\ owed' = owed \cup {f}
  BY DEF Register
<1>3. [status |-> "stabilizing", size |-> 0, count |-> 0] \in FileEntry
  BY FolderAssumption DEF FileEntry
<1>4. ASSUME NEW g \in Files
      PROVE  credit'[g] - Due(entry', g) >= credit[g] - Due(entry, g)
  <2>1. credit[g] \in Int /\ Due(entry, g) \in {0, 1} /\ Due(entry', g) \in {0, 1}
    BY <1>1 DEF Due
  <2>2. CASE g = f
    BY <1>1, <1>2, <2>1, <2>2
  <2>3. CASE g # f
    <3>1. credit'[g] = credit[g] /\ Due(entry', g) = Due(entry, g)
      BY <1>1, <1>2, <2>3 DEF Due
    <3> QED
      BY <2>1, <3>1
  <2> QED
    BY <2>2, <2>3
<1>5. entry' \in [Files -> FileEntry]
  BY <1>1, <1>2, <1>3
<1>6. credit' \in [Files -> Int]
  BY <1>1, <1>2
<1> QED
  BY <1>1, <1>2, <1>4, <1>5, <1>6

LEMMA OnCreatedInv == ASSUME FolderInv, NEW f \in Files, OnCreated(f) PROVE FolderInv'
<1>1. Register(f) /\ thread' = thread
  BY DEF OnCreated
<1>2. FolderTypeOK'
  BY <1>1, RegisterStep DEF OnCreated, FolderInv, FolderTypeOK, FileEntry
<1> QED
  BY <1>1, <1>2, RegisterStep, EnoughKept DEF FolderInv

\* A new handler knows no file; the new thread has nothing in its hands.
LEMMA StartWatcherInv == ASSUME FolderInv, StartWatcher PROVE FolderInv'
<1> DEFINE t == started + 1
           x == [thread[t] EXCEPT !.at = "loop"]
<1>1. /\ thread' = [thread EXCEPT ![t] = x] /\ credit' = credit
      /\ entry' = [f \in Files |-> Untracked]
  BY DEF StartWatcher
<1>2. t \in Threads /\ started' \in 0 .. MaxStarts
  BY FolderAssumption DEF StartWatcher, FolderInv, FolderTypeOK, Threads
<1>3. x \in ThreadState /\ BatchOK(x) /\ Held(x) = {}
  BY <1>2 DEF FolderInv, ThreadsOK, ThreadState, Ats, BatchOK, Held
<1>4. \A f \in Files : Due(entry', f) <= Due(entry, f)
  BY <1>1 DEF Due, Untracked
<1>5. FolderTypeOK'
  BY <1>2, FolderAssumption DEF StartWatcher, FolderInv, FolderTypeOK, Untracked
<1> HIDE DEF t, x
<1> QED
  BY <1>1, <1>2, <1>3, <1>4, <1>5, LighterStep DEF FolderInv

LEMMA ScanLoopInv == ASSUME FolderInv, NEW t \in Threads, ScanLoop(t) PROVE FolderInv'
<1>1. thread[t].at = "loop" /\ credit' = credit
  BY DEF ScanLoop
<1>2. CASE running
  <2>1. GetReadyFiles(t)
    BY <1>2 DEF ScanLoop
  <2>2. /\ entry' \in [Files -> FileEntry] /\ lock' \in {"free", "stuck"}
        /\ ThreadsOK' /\ Enough'
    BY <1>1, <2>1, GetReadyFilesStep
  <2>3. FolderTypeOK'
    BY <2>2 DEF ScanLoop, FolderInv, FolderTypeOK, FileEntry
  <2> QED
    BY <2>2, <2>3 DEF FolderInv
<1>3. CASE ~running
  <2>1. thread' = [thread EXCEPT ![t] = IdleThread] /\ entry' = entry
    BY <1>3 DEF ScanLoop
  <2>2. IdleThread \in ThreadState /\ BatchOK(IdleThread) /\ Held(IdleThread) = {}
    BY DEF IdleThread, ThreadState, Ats, BatchOK, Held
  <2>3. FolderTypeOK'
    BY <1>3 DEF ScanLoop, FolderInv, FolderTypeOK
  <2>4. \A f \in Files : Due(entry', f) <= Due(entry, f)
    BY <2>1 DEF Due
  <2> QED
    BY <1>1, <2>1, <2>2, <2>3, <2>4, LighterStep DEF FolderInv
<1> QED
  BY <1>2, <1>3

\* The callback is paid with the credit of the thread that holds the file.
LEMMA DeliverInv == ASSUME FolderInv, NEW t \in Threads, Deliver(t) PROVE FolderInv'
<1>1. thread[t] \in ThreadState /\ BatchOK(thread[t]) /\ thread[t].at = "deliver"
  BY DEF FolderInv, ThreadsOK, Deliver
<1>2. CASE thread[t].batch = <<>>
  <2> DEFINE x == [IdleThread EXCEPT !.at = "loop"]
  <2>1. thread' = [thread EXCEPT ![t] = x] /\ entry' = entry /\ credit' = credit
    BY <1>2 DEF Deliver
  <2>2. x \in ThreadState /\ BatchOK(x) /\ Held(x) = {}
    <3>1. x.at = "loop" /\ x.batch = <<>> /\ x = [at |-> "loop", batch |-> <<>>]
      BY DEF IdleThread
    <3> HIDE DEF x
    <3> QED
      BY <3>1 DEF ThreadState, Ats, BatchOK, Held
  <2>3. FolderTypeOK'
    BY <1>2 DEF Deliver, FolderInv, FolderTypeOK
  <2>4. \A f \in Files : Due(entry', f) <= Due(entry, f)
    BY <2>1 DEF Due
  <2> HIDE DEF x
  <2> QED
    BY <2>1, <2>2, <2>3, <2>4, LighterStep DEF FolderInv
<1>3. CASE thread[t].batch # <<>>
  <2> DEFINE f == Head(thread[t].batch)
             x == [thread[t] EXCEPT !.at = "callback"]
  <2>1. /\ entry' = IF Tracked(f) THEN [entry EXCEPT ![f].status = "ready"] ELSE entry
        /\ thread' = [thread EXCEPT ![t] = x]
        /\ credit' = [credit EXCEPT ![f] = credit[f] - 1] /\ owed' = owed \ {f}
    BY <1>3 DEF Deliver
  <2>2. f \in Files /\ f \in Held(thread[t]) /\ f \notin Held(x)
          /\ Held(x) = Held(thread[t]) \ {f}
    BY <1>1, <1>3, HeadOnce DEF ThreadState, Held
  <2>3. x \in ThreadState /\ BatchOK(x)
    BY <1>1, <1>3 DEF ThreadState, Ats, BatchOK
  <2>4. credit \in [Files -> Int] /\ entry \in [Files -> FileEntry]
    BY DEF FolderInv, FolderTypeOK, Enough, FileEntry
  <2> HIDE DEF f, x
  <2>5. entry' \in [Files -> FileEntry] /\ credit' \in [Files -> Int]
    BY <2>1, <2>2, <2>4 DEF FileEntry
  <2>6. ASSUME NEW g \in Files
        PROVE  credit'[g] - Due(entry', g) - Holds(x, g)
                 >= credit[g] - Due(entry, g) - Holds(thread[t], g)
    <3>1. Due(entry', g) <= Due(entry, g) /\ Due(entry', g) \in Int /\ Due(entry, g) \in Int
      BY <2>1, <2>2, <2>4 DEF Due, FileEntry
    <3>2. CASE g = f
      <4>1. Holds(x, g) = 0 /\ Holds(thread[t], g) = 1
        BY <2>2, <3>2 DEF Holds
      <4> QED
        BY <2>1, <2>4, <3>1, <3>2, <4>1
    <3>3. CASE g # f
      <4>1. Holds(x, g) = Holds(thread[t], g) /\ Holds(x, g) \in Int
        BY <2>2, <3>3 DEF Holds
      <4> QED
        BY <2>1, <2>4, <3>1, <3>3, <4>1
    <3> QED
      BY <3>2, <3>3
  <2>7. FolderTypeOK'
    BY <1>3, <2>1, <2>5 DEF Deliver, FolderInv, FolderTypeOK, FileEntry
  <2> QED
    BY <2>1, <2>3, <2>5, <2>6, <2>7, EnoughStep, ThreadsStep DEF FolderInv
<1> QED
  BY <1>2, <1>3

\* A thread that leaves the file it is at, keeps what it has still to hand out.
LEMMA GoesOnStep ==
  ASSUME FolderInv, NEW t \in Threads, thread[t].at \in {"callback", "untrack"},
         GoesOn(t, "deliver"), credit' = credit,
         \A f \in Files : Due(entry', f) <= Due(entry, f)
  PROVE  Enough' /\ ThreadsOK'
<1> DEFINE x == [at |-> "deliver", batch |-> Tail(thread[t].batch)]
<1>1. thread[t] \in ThreadState /\ BatchOK(thread[t]) /\ thread[t].batch # <<>>
  BY DEF FolderInv, ThreadsOK, BatchOK
<1>2. thread' = [thread EXCEPT ![t] = x]
  BY DEF GoesOn
<1>3. x.at = "deliver" /\ x.batch = Tail(thread[t].batch)
  OBVIOUS
<1>4. x \in ThreadState /\ BatchOK(x)
  BY <1>1, TailOnce DEF ThreadState, Ats, BatchOK
<1> HIDE DEF x
<1>5. Held(x) = Held(thread[t])
  BY <1>1, <1>3, TailOnce DEF Held
<1> QED
  BY <1>2, <1>4, <1>5, LighterStep

LEMMA ReturnInv == ASSUME FolderInv, NEW t \in Threads, Return(t) PROVE FolderInv'
<1>1. /\ thread[t].at = "callback" /\ GoesOn(t, "deliver")
      /\ credit' = credit /\ entry' = entry
  BY DEF Return
<1>2. \A f \in Files : Due(entry', f) <= Due(entry, f)
  BY <1>1 DEF Due
<1>3. FolderTypeOK'
  BY DEF Return, FolderInv, FolderTypeOK
<1> QED
  BY <1>1, <1>2, <1>3, GoesOnStep DEF FolderInv

LEMMA MoveFileInv == ASSUME FolderInv, NEW t \in Threads, MoveFile(t) PROVE FolderInv'
<1> DEFINE x == [thread[t] EXCEPT !.at = "untrack"]
<1>1. thread[t] \in ThreadState /\ BatchOK(thread[t]) /\ thread[t].at = "callback"
  BY DEF FolderInv, ThreadsOK, MoveFile
<1>2. thread' = [thread EXCEPT ![t] = x] /\ credit' = credit /\ entry' = entry
  BY DEF MoveFile
<1>3. x \in ThreadState /\ BatchOK(x) /\ Held(x) = Held(thread[t])
  BY <1>1 DEF ThreadState, Ats, BatchOK, Held
<1>4. \A f \in Files : Due(entry', f) <= Due(entry, f)
  BY <1>2 DEF Due
<1>5. FolderTypeOK'
  BY DEF MoveFile, FolderInv, FolderTypeOK
<1> HIDE DEF x
<1> QED
  BY <1>2, <1>3, <1>4, <1>5, LighterStep DEF FolderInv

\* An entry that is wiped out is due no more, and nobody's credit is touched.
LEMMA UntrackInv == ASSUME FolderInv, NEW t \in Threads, Untrack(t) PROVE FolderInv'
<1> DEFINE h == Head(thread[t].batch)
<1>1. /\ thread[t].at = "untrack" /\ GoesOn(t, "deliver") /\ credit' = credit
      /\ entry' = [entry EXCEPT ![h] = Untracked]
      /\ lost' = (IF h \in owed THEN lost \cup {h} ELSE lost) /\ owed' = owed \ {h}
  BY DEF Untrack
<1>2. h \in Files
  BY <1>1, HeadOnce DEF FolderInv, ThreadsOK, BatchOK
<1>3. entry \in [Files -> FileEntry] /\ Untracked \in FileEntry
  BY FolderAssumption DEF FolderInv, FolderTypeOK, FileEntry, Untracked
<1>4. \A f \in Files : Due(entry', f) <= Due(entry, f)
  BY <1>1, <1>2, <1>3 DEF Due, Untracked
<1>5. FolderTypeOK'
  BY <1>1, <1>2, <1>3 DEF Untrack, FolderInv, FolderTypeOK, FileEntry
<1> QED
  BY <1>1, <1>4, <1>5, GoesOnStep DEF FolderInv

LEMMA LookInv == ASSUME FolderInv, NEW f \in Files, Look(f) PROVE FolderInv'
<1> DEFINE x == [at |-> "register", batch |-> <<f>>]
<1>1. thread' = [thread EXCEPT ![Client] = x] /\ credit' = credit /\ entry' = entry
  BY DEF Look
<1>2. Client \in Threads
  BY FolderAssumption DEF Client, Threads
<1>3. x \in ThreadState /\ BatchOK(x) /\ Held(x) = {}
  BY DEF ThreadState, Ats, BatchOK, Held
<1>4. \A g \in Files : Due(entry', g) <= Due(entry, g)
  BY <1>1 DEF Due
<1>5. FolderTypeOK'
  BY DEF Look, FolderInv, FolderTypeOK
<1> HIDE DEF x
<1> QED
  BY <1>1, <1>2, <1>3, <1>4, <1>5, LighterStep DEF FolderInv

LEMMA ScanRegisterInv == ASSUME FolderInv, ScanRegister PROVE FolderInv'
<1> DEFINE x == [thread[Client] EXCEPT !.at = "collect"]
           f == Head(thread[Client].batch)
<1>1. thread' = [thread EXCEPT ![Client] = x] /\ thread[Client].at = "register" /\ Register(f)
  BY DEF ScanRegister
<1>2. Client \in Threads
  BY FolderAssumption DEF Client, Threads
<1>3. thread[Client] \in ThreadState /\ BatchOK(thread[Client])
  BY <1>2 DEF FolderInv, ThreadsOK
<1>4. f \in Files
  BY <1>1, <1>3, HeadOnce DEF BatchOK
<1>5. x \in ThreadState /\ BatchOK(x) /\ Held(x) = {} /\ Held(thread[Client]) = {}
  BY <1>1, <1>3 DEF ThreadState, Ats, BatchOK, Held
<1> HIDE DEF x, f
<1>6. /\ entry' \in [Files -> FileEntry] /\ owed' \subseteq Files /\ credit' \in [Files -> Int]
      /\ \A g \in Files : credit'[g] - Due(entry', g) >= credit[g] - Due(entry, g)
  BY <1>1, <1>4, RegisterStep
<1>7. \A g \in Files : credit'[g] - Due(entry', g) - Holds(x, g)
                         >= credit[g] - Due(entry, g) - Holds(thread[Client], g)
  <2>1. \A g \in Files : Holds(x, g) = 0 /\ Holds(thread[Client], g) = 0
    BY <1>5 DEF Holds
  <2>2. \A g \in Files : /\ credit'[g] \in Int /\ credit[g] \in Int
                         /\ Due(entry', g) \in Int /\ Due(entry, g) \in Int
    BY <1>6 DEF FolderInv, Enough, Due
  <2> QED
    BY <1>6, <2>1, <2>2
<1>8. FolderTypeOK'
  BY <1>6 DEF ScanRegister, FolderInv, FolderTypeOK, FileEntry
<1> QED
  BY <1>1, <1>2, <1>5, <1>6, <1>7, <1>8, EnoughStep, ThreadsStep DEF FolderInv

LEMMA ScanCollectInv == ASSUME FolderInv, ScanCollect PROVE FolderInv'
<1>1. Client \in Threads
  BY FolderAssumption DEF Client, Threads
<1>2. thread[Client].at = "collect" /\ GetReadyFiles(Client) /\ credit' = credit
  BY DEF ScanCollect
<1>3. /\ entry' \in [Files -> FileEntry] /\ lock' \in {"free", "stuck"}
      /\ ThreadsOK' /\ Enough'
  BY <1>1, <1>2, GetReadyFilesStep
<1>4. FolderTypeOK'
  BY <1>3 DEF ScanCollect, FolderInv, FolderTypeOK, FileEntry
<1> QED
  BY <1>3, <1>4 DEF FolderInv

\* scan returns its whole batch at once.
LEMMA ScanReturnInv == ASSUME FolderInv, ScanReturn PROVE FolderInv'
<1> DEFINE ready == {thread[Client].batch[i] : i \in DOMAIN thread[Client].batch}
<1>1. /\ thread' = [thread EXCEPT ![Client] = IdleThread]
      /\ thread[Client].at = "deliver" /\ entry' = entry
      /\ credit' = [f \in Files |-> IF f \in ready THEN credit[f] - 1 ELSE credit[f]]
      /\ owed' = owed \ ready
  BY DEF ScanReturn
<1>2. Client \in Threads
  BY FolderAssumption DEF Client, Threads
<1>3. thread[Client] \in ThreadState
  BY <1>2 DEF FolderInv, ThreadsOK
<1>4. Held(thread[Client]) = ready
  BY <1>1, <1>3 DEF ThreadState, Held
<1>5. IdleThread \in ThreadState /\ BatchOK(IdleThread) /\ Held(IdleThread) = {}
  BY DEF IdleThread, ThreadState, Ats, BatchOK, Held
<1> HIDE DEF ready
<1>6. credit \in [Files -> Int] /\ credit' \in [Files -> Int]
  BY <1>1 DEF FolderInv, Enough
<1>7. ASSUME NEW f \in Files
      PROVE  credit'[f] - Due(entry', f) - Holds(IdleThread, f)
               >= credit[f] - Due(entry, f) - Holds(thread[Client], f)
  <2>1. Holds(IdleThread, f) = 0 /\ Holds(thread[Client], f) = IF f \in ready THEN 1 ELSE 0
    BY <1>4, <1>5 DEF Holds
  <2>2. Due(entry', f) = Due(entry, f) /\ Due(entry, f) \in Int
    BY <1>1 DEF Due
  <2> QED
    BY <1>1, <1>6, <2>1, <2>2
<1>8. FolderTypeOK'
  BY <1>1 DEF ScanReturn, FolderInv, FolderTypeOK
<1> QED
  BY <1>1, <1>2, <1>5, <1>6, <1>7, <1>8, EnoughStep, ThreadsStep DEF FolderInv

LEMMA FolderStepInv == ASSUME FolderInv, [FolderNext]_folderVars PROVE FolderInv'
  BY QuietInv, OnCreatedInv, StartWatcherInv, ScanLoopInv, DeliverInv, ReturnInv,
     MoveFileInv, UntrackInv, LookInv, ScanRegisterInv, ScanCollectInv, ScanReturnInv
  DEF FolderNext, ThreadStep, ClientStep

LEMMA FolderInvariance == FolderSpec => []FolderInv
  BY FolderInitInv, FolderStepInv, PTL DEF FolderSpec

(***************************************************************************)
(* The theorems                                                            *)
(***************************************************************************)
\* What the handler knows of a file has its type, and only files that exist in the
\* watched folder are owed or lost.
THEOREM FolderTypeCorrect == FolderSpec => []FolderTypeOK
  BY FolderInvariance, PTL DEF FolderInv

\* A file is handed to the callback, or returned by scan, at most once for each time it
\* was registered, whatever threads of earlier starts still deliver.
THEOREM OncePerArrival == FolderSpec => []HandedOncePerArrival
<1>1. FolderInv => HandedOncePerArrival
  <2> SUFFICES ASSUME FolderInv, NEW f \in Files PROVE credit[f] >= 0
    BY DEF HandedOncePerArrival
  <2>1. credit[f] >= Cardinality(Holders(thread, f)) + Due(entry, f) /\ credit[f] \in Int
    BY DEF FolderInv, Enough
  <2>2. Cardinality(Holders(thread, f)) \in Nat /\ Due(entry, f) \in Nat
    BY HoldersFinite DEF Due
  <2> QED
    BY <2>1, <2>2
<1> QED
  BY <1>1, FolderInvariance, PTL

-----------------------------------------------------------------------------
(* The translation cache *)

CacheSteps == {"idle", "get", "unlink", "translate", "set", "write", "answer", "clear", "sweep"}

Values == [state : {"absent", "empty", "torn", "whole"}, for : Keys \cup {0},
           size : Nat, at : Nat]
Cells  == [content : Values, file : Nat]
Callers == [at : CacheSteps, request : Requests \cup {0}, value : Values, file : Nat,
            todo : SUBSET Keys, hit : BOOLEAN]

CacheTyped ==
  /\ cacheSetup \in Setups
  /\ cell \in [Keys -> Cells]
  /\ caller \in [CacheClients -> Callers]
  /\ clock \in 0 .. MaxClock
  /\ stats \in [hits : Nat, misses : Nat, stores : Nat, invalidations : Nat]
  /\ asked \in [answers : Nat, calls : 0 .. MaxCalls]

\* an entry that can be read is one of its key, and is not of the future
Stored(v, k) == v.state = "whole" => v.for = k /\ v.size \in Sizes /\ v.at <= clock

\* a client that works on a request carries nothing but entries of its key
Carries(d) ==
  /\ d.at \notin {"idle", "clear"} => d.request \in Requests
  /\ d.at \in {"idle", "clear"} => ~d.hit
  /\ d.at \in {"set", "write"} =>
       d.value.state = "whole" /\ d.value.size \in Sizes
  /\ d.at \in {"set", "write"} \/ d.hit =>
       d.value.for = GenerateKey(d.request) /\ d.value.at <= clock

CacheInv ==
  /\ CacheTyped
  /\ \A k \in Keys : Stored(cell[k].content, k)
  /\ \A c \in CacheClients : Carries(caller[c])
  /\ StatsExact

\* The key of a request is a key.
LEMMA KeyIsKey == ASSUME NEW r \in Requests PROVE GenerateKey(r) \in Keys
  BY DEF Keys

LEMMA AbsentTyped == Absent \in Values /\ Absent.state = "absent"
  BY DEF Absent, Blank, Values

LEMMA FreeTyped == Free \in Callers /\ Carries(Free)
  BY AbsentTyped DEF Free, Callers, CacheSteps, Carries

\* The step of a client c leaves the other clients alone.
LEMMA CallerStep ==
  ASSUME CacheInv, NEW c \in CacheClients, NEW d \in Callers, Carries(d),
         caller' = [caller EXCEPT ![c] = d], clock' = clock
  PROVE  /\ caller' \in [CacheClients -> Callers]
         /\ (\A x \in CacheClients : Carries(caller[x]))'
  BY DEF CacheInv, CacheTyped, Carries

\* A step on the file or the key k leaves the others alone.
LEMMA CellStep ==
  ASSUME CacheInv, NEW k \in Keys, NEW e \in Cells, Stored(e.content, k),
         cell' = [cell EXCEPT ![k] = e], clock' = clock
  PROVE  /\ cell' \in [Keys -> Cells]
         /\ (\A x \in Keys : Stored(cell[x].content, x))'
  BY DEF CacheInv, CacheTyped, Stored

LEMMA CellKept ==
  ASSUME CacheInv, cell' = cell, clock' = clock
  PROVE  /\ cell' \in [Keys -> Cells]
         /\ (\A x \in Keys : Stored(cell[x].content, x))'
  BY DEF CacheInv, CacheTyped, Stored

LEMMA CallersKept ==
  ASSUME CacheInv, caller' = caller, clock' = clock
  PROVE  /\ caller' \in [CacheClients -> Callers]
         /\ (\A x \in CacheClients : Carries(caller[x]))'
  BY DEF CacheInv, CacheTyped, Carries

LEMMA UnlinkedStep ==
  ASSUME CacheInv, NEW k \in Keys, cell' = Unlinked(k), clock' = clock
  PROVE  /\ cell' \in [Keys -> Cells]
         /\ (\A x \in Keys : Stored(cell[x].content, x))'
<1> DEFINE e == [content |-> Absent, file |-> cell[k].file + 1]
<1>1. e \in Cells /\ Stored(e.content, k)
  BY AbsentTyped DEF Cells, Stored, CacheInv, CacheTyped
<1>2. cell' = [cell EXCEPT ![k] = e]
  BY DEF Unlinked
<1> QED
  BY <1>1, <1>2, CellStep

\* The counters and the clock, for the steps that leave them alone.
LEMMA CountersKept ==
  ASSUME CacheInv, cacheSetup' = cacheSetup, clock' = clock, stats' = stats,
         asked' = asked \/ Call
  PROVE  /\ cacheSetup' \in Setups /\ clock' \in 0 .. MaxClock
         /\ stats' \in [hits : Nat, misses : Nat, stores : Nat, invalidations : Nat]
         /\ asked' \in [answers : Nat, calls : 0 .. MaxCalls]
         /\ StatsExact'
  BY CacheAssumption DEF CacheInv, CacheTyped, StatsExact, Call

\* The parts of the invariant, put together.
LEMMA Together ==
  ASSUME cacheSetup' \in Setups, clock' \in 0 .. MaxClock,
         stats' \in [hits : Nat, misses : Nat, stores : Nat, invalidations : Nat],
         asked' \in [answers : Nat, calls : 0 .. MaxCalls],
         StatsExact',
         cell' \in [Keys -> Cells],
         (\A x \in Keys : Stored(cell[x].content, x))',
         caller' \in [CacheClients -> Callers],
         (\A x \in CacheClients : Carries(caller[x]))'
  PROVE  CacheInv'
  BY DEF CacheInv, CacheTyped

\* What a client has: its record, its request and the key of it.
LEMMA CallerFacts ==
  ASSUME CacheInv, NEW c \in CacheClients
  PROVE  /\ caller[c] \in Callers /\ Carries(caller[c])
         /\ caller[c].at \notin {"idle", "clear"} =>
              caller[c].request \in Requests /\ KeyOf(c) \in Keys
  BY KeyIsKey DEF CacheInv, CacheTyped, Carries, KeyOf

LEMMA EndsStep ==
  ASSUME CacheInv, NEW c \in CacheClients, CallerEnds(c), clock' = clock
  PROVE  /\ caller' \in [CacheClients -> Callers]
         /\ (\A x \in CacheClients : Carries(caller[x]))'
  BY FreeTyped, CallerStep DEF CallerEnds

LEMMA GoesStep ==
  ASSUME CacheInv, NEW c \in CacheClients, NEW to \in {"unlink", "translate", "answer"},
         caller[c].at \notin {"idle", "clear"}, CallerGoes(c, to), clock' = clock
  PROVE  /\ caller' \in [CacheClients -> Callers]
         /\ (\A x \in CacheClients : Carries(caller[x]))'
<1> DEFINE d == [caller[c] EXCEPT !.at = to]
<1>1. d \in Callers /\ Carries(d)
  BY CallerFacts DEF Callers, CacheSteps, Carries
<1>2. caller' = [caller EXCEPT ![c] = d]
  BY DEF CallerGoes
<1> QED
  BY <1>1, <1>2, CallerStep

\* The counters of an answer: a hit or a miss is counted with it.
LEMMA CountersAnswer ==
  ASSUME CacheInv, cacheSetup' = cacheSetup, clock' = clock, Hit \/ Miss
  PROVE  /\ cacheSetup' \in Setups /\ clock' \in 0 .. MaxClock
         /\ stats' \in [hits : Nat, misses : Nat, stores : Nat, invalidations : Nat]
         /\ asked' \in [answers : Nat, calls : 0 .. MaxCalls]
         /\ StatsExact'
  BY CacheAssumption DEF CacheInv, CacheTyped, StatsExact, Hit, Miss

LEMMA CountersStore ==
  ASSUME CacheInv, cacheSetup' = cacheSetup, clock' = clock,
         \/ stats' = [stats EXCEPT !.stores = @ + 1] /\ asked' = asked
         \/ stats' = [stats EXCEPT !.invalidations = @ + 1] /\ Call
  PROVE  /\ cacheSetup' \in Setups /\ clock' \in 0 .. MaxClock
         /\ stats' \in [hits : Nat, misses : Nat, stores : Nat, invalidations : Nat]
         /\ asked' \in [answers : Nat, calls : 0 .. MaxCalls]
         /\ StatsExact'
  BY CacheAssumption DEF CacheInv, CacheTyped, StatsExact, Call

(***************************************************************************)
(* Each action                                                             *)
(***************************************************************************)
LEMMA InitInv == CacheInit => CacheInv
<1> SUFFICES ASSUME CacheInit PROVE CacheInv
  OBVIOUS
<1>1. cell \in [Keys -> Cells] /\ \A k \in Keys : Stored(cell[k].content, k)
  BY AbsentTyped DEF CacheInit, Cells, Stored
<1>2. caller \in [CacheClients -> Callers] /\ \A c \in CacheClients : Carries(caller[c])
  BY FreeTyped DEF CacheInit
<1> QED
  BY <1>1, <1>2, CacheAssumption DEF CacheInit, CacheInv, CacheTyped, NoStats, StatsExact

LEMMA GetOrTranslateInv ==
  ASSUME CacheInv, NEW c \in CacheClients, NEW r \in Requests, GetOrTranslate(c, r)
  PROVE  CacheInv'
<1> DEFINE d == [Free EXCEPT !.at = IF cacheSetup.enabled THEN "get" ELSE "translate",
                             !.request = r]
<1>1. d \in Callers /\ Carries(d)
  BY AbsentTyped DEF Free, Callers, CacheSteps, Carries
<1>2. caller' = [caller EXCEPT ![c] = d]
  BY DEF GetOrTranslate
<1> HIDE DEF d
<1>3. clock' = clock /\ cell' = cell /\ stats' = stats /\ cacheSetup' = cacheSetup /\ Call
  BY DEF GetOrTranslate
<1> QED
  BY <1>1, <1>2, <1>3, CallerStep, CellKept, CountersKept, Together

LEMMA WarmInv ==
  ASSUME CacheInv, NEW c \in CacheClients, NEW r \in Requests, NEW size \in Sizes,
         Warm(c, r, size)
  PROVE  CacheInv'
<1> DEFINE d == [Free EXCEPT !.at = "set", !.request = r,
                             !.value = Entry(GenerateKey(r), size)]
<1>1. Entry(GenerateKey(r), size) \in Values
  BY KeyIsKey, CacheAssumption DEF Entry, Values, CacheInv, CacheTyped
<1>2. d \in Callers
  BY <1>1, AbsentTyped DEF Free, Callers, CacheSteps
<1>3. Carries(d)
  BY CacheAssumption DEF Free, Carries, Entry, CacheInv, CacheTyped
<1>4. caller' = [caller EXCEPT ![c] = d]
  BY DEF Warm
<1> HIDE DEF d
<1>5. clock' = clock /\ cell' = cell /\ stats' = stats /\ cacheSetup' = cacheSetup /\ Call
  BY DEF Warm
<1> QED
  BY <1>2, <1>3, <1>4, <1>5, CallerStep, CellKept, CountersKept, Together

LEMMA CleanupExpiredInv ==
  ASSUME CacheInv, NEW c \in CacheClients, NEW r \in Requests, CleanupExpired(c, r)
  PROVE  CacheInv'
<1> DEFINE d == [caller[c] EXCEPT !.at = "sweep", !.request = r]
<1>1. caller[c].at = "idle"
  BY DEF CleanupExpired
<1>2. d \in Callers /\ Carries(d)
  BY <1>1, CallerFacts DEF Callers, CacheSteps, Carries
<1>3. caller' = [caller EXCEPT ![c] = d]
  BY DEF CleanupExpired
<1> HIDE DEF d
<1>4. clock' = clock /\ cell' = cell /\ stats' = stats /\ cacheSetup' = cacheSetup /\ Call
  BY DEF CleanupExpired
<1> QED
  BY <1>2, <1>3, <1>4, CallerStep, CellKept, CountersKept, Together

LEMMA GetInv == ASSUME CacheInv, NEW c \in CacheClients, Get(c) PROVE CacheInv'
<1> DEFINE v == Content(KeyOf(c))
           d == [caller[c] EXCEPT !.at = "answer", !.value = v, !.hit = TRUE]
<1>1. caller[c].at = "get" /\ clock' = clock /\ cell' = cell /\ cacheSetup' = cacheSetup
  BY DEF Get
<1>2. v \in Values /\ Stored(v, KeyOf(c))
  BY <1>1, CallerFacts DEF CacheInv, CacheTyped, Content, Cells
<1>3. CASE Usable(v) /\ Hit /\ caller' = [caller EXCEPT ![c] = d]
  <2>1. d \in Callers /\ Carries(d)
    BY <1>1, <1>2, <1>3, CallerFacts
    DEF Callers, CacheSteps, Carries, Usable, Stored, KeyOf
  <2> HIDE DEF d
  <2> QED
    BY <1>1, <1>3, <2>1, CallerStep, CellKept, CountersAnswer, Together
<1>4. CASE Miss /\ CallerGoes(c, "translate")
  BY <1>1, <1>4, GoesStep, CellKept, CountersAnswer, Together
<1>5. CASE CallerGoes(c, "unlink") /\ UNCHANGED <<stats, asked>>
  BY <1>1, <1>5, GoesStep, CellKept, CountersKept, Together
<1> QED
  BY <1>3, <1>4, <1>5 DEF Get

LEMMA UnlinkExpiredInv ==
  ASSUME CacheInv, NEW c \in CacheClients, UnlinkExpired(c) PROVE CacheInv'
<1>1. /\ caller[c].at = "unlink" /\ clock' = clock /\ cacheSetup' = cacheSetup
      /\ cell' = Unlinked(KeyOf(c)) /\ Miss /\ CallerGoes(c, "translate")
  BY DEF UnlinkExpired
<1>2. KeyOf(c) \in Keys
  BY <1>1, CallerFacts
<1> QED
  BY <1>1, <1>2, GoesStep, UnlinkedStep, CountersAnswer, Together

LEMMA EndInv ==
  ASSUME CacheInv, NEW c \in CacheClients, GetRaises(c) \/ AnswerCaller(c) PROVE CacheInv'
<1>1. /\ CallerEnds(c) /\ clock' = clock /\ cell' = cell /\ cacheSetup' = cacheSetup
      /\ stats' = stats /\ asked' = asked
  BY DEF GetRaises, AnswerCaller
<1> QED
  BY <1>1, EndsStep, CellKept, CountersKept, Together

LEMMA TranslateTextInv ==
  ASSUME CacheInv, NEW c \in CacheClients, NEW size \in Sizes, TranslateText(c, size)
  PROVE  CacheInv'
<1> DEFINE e == Entry(KeyOf(c), size)
           d == [caller[c] EXCEPT !.value = e,
                                  !.at = IF cacheSetup.enabled THEN "set" ELSE "answer"]
<1>1. /\ caller[c].at = "translate" /\ clock' = clock /\ cell' = cell
      /\ cacheSetup' = cacheSetup /\ stats' = stats /\ asked' = asked
      /\ caller' = [caller EXCEPT ![c] = d]
  BY DEF TranslateText
<1>2. e \in Values
  BY <1>1, CallerFacts, CacheAssumption DEF Entry, Values, CacheInv, CacheTyped
<1>3. e.state = "whole" /\ e.size = size /\ e.for = GenerateKey(caller[c].request)
        /\ e.at <= clock
  BY CacheAssumption DEF Entry, KeyOf, CacheInv, CacheTyped
<1> HIDE DEF e
<1>4. d \in Callers /\ Carries(d)
  BY <1>1, <1>2, <1>3, CallerFacts DEF Callers, CacheSteps, Carries
<1> HIDE DEF d
<1> QED
  BY <1>1, <1>4, CallerStep, CellKept, CountersKept, Together

LEMMA SetRedisInv == ASSUME CacheInv, NEW c \in CacheClients, SetRedis(c) PROVE CacheInv'
<1> DEFINE k == KeyOf(c)
           e == [cell[k] EXCEPT !.content = [caller[c].value EXCEPT !.at = clock]]
<1>1. /\ caller[c].at = "set" /\ clock' = clock /\ cacheSetup' = cacheSetup
      /\ asked' = asked /\ CallerGoes(c, "answer")
  BY DEF SetRedis
<1>2. k \in Keys /\ caller[c] \in Callers /\ Carries(caller[c])
  BY <1>1, CallerFacts
<1>3. e \in Cells /\ Stored(e.content, k)
  BY <1>1, <1>2, CacheAssumption
  DEF CacheInv, CacheTyped, Cells, Callers, Values, Stored, Carries, KeyOf
<1>4. CASE cell' = [cell EXCEPT ![k] = e] /\ stats' = [stats EXCEPT !.stores = @ + 1]
  <2> HIDE DEF k, e
  <2> QED
    BY <1>1, <1>2, <1>3, <1>4, GoesStep, CellStep, CountersStore, Together
<1>5. CASE UNCHANGED <<cell, stats>>
  BY <1>1, <1>5, GoesStep, CellKept, CountersKept, Together
<1> QED
  BY <1>4, <1>5 DEF SetRedis

LEMMA OpenFileInv == ASSUME CacheInv, NEW c \in CacheClients, OpenFile(c) PROVE CacheInv'
<1> DEFINE k == KeyOf(c)
           e == [cell[k] EXCEPT !.content = Blank("empty")]
           d == [caller[c] EXCEPT !.at = "write", !.file = cell[k].file,
                                  !.value = [@ EXCEPT !.at = clock]]
<1>1. /\ caller[c].at = "set" /\ clock' = clock /\ cacheSetup' = cacheSetup
      /\ stats' = stats /\ asked' = asked
      /\ cell' = [cell EXCEPT ![k] = e] /\ caller' = [caller EXCEPT ![c] = d]
  BY DEF OpenFile
<1>2. k \in Keys /\ caller[c] \in Callers /\ Carries(caller[c])
  BY <1>1, CallerFacts
<1>3. e \in Cells /\ Stored(e.content, k)
  BY <1>2 DEF CacheInv, CacheTyped, Cells, Values, Blank, Stored
<1> DEFINE w == [caller[c].value EXCEPT !.at = clock]
<1>4. clock \in Nat /\ cell[k].file \in Nat
  BY <1>2, CacheAssumption DEF CacheInv, CacheTyped, Cells
<1>5. caller[c].value \in Values /\ caller[c].value.state = "whole"
        /\ caller[c].value.size \in Sizes
        /\ caller[c].value.for = GenerateKey(caller[c].request)
        /\ caller[c].request \in Requests
  BY <1>1, <1>2 DEF Callers, Carries
<1>6. w \in Values /\ w.state = "whole" /\ w.size \in Sizes /\ w.at = clock
        /\ w.for = GenerateKey(caller[c].request)
  BY <1>4, <1>5 DEF Values
<1>7. d = [caller[c] EXCEPT !.at = "write", !.file = cell[k].file, !.value = w]
  OBVIOUS
<1> HIDE DEF w
<1>8. d.at = "write" /\ d.request = caller[c].request /\ d.value = w
  BY <1>2, <1>7 DEF Callers
<1>9. d \in Callers /\ Carries(d)
  <2>1. d \in Callers
    BY <1>2, <1>4, <1>6, <1>7 DEF Callers, CacheSteps
  <2> HIDE DEF d
  <2>2. Carries(d)
    BY <1>4, <1>5, <1>6, <1>8 DEF Carries
  <2> QED
    BY <2>1, <2>2
<1> HIDE DEF k, e, d
<1> QED
  BY <1>1, <1>2, <1>3, <1>9, CallerStep, CellStep, CountersKept, Together

\* A write over what is in the file leaves the new text, or nothing that can be read.
LEMMA OverwrittenStored ==
  ASSUME NEW old \in Values, NEW new \in Values, NEW k, Stored(new, k)
  PROVE  Overwritten(old, new) \in Values /\ Stored(Overwritten(old, new), k)
  BY DEF Overwritten, Blank, Values, Stored

LEMMA WriteFileInv == ASSUME CacheInv, NEW c \in CacheClients, WriteFile(c) PROVE CacheInv'
<1> DEFINE k == KeyOf(c)
           w == Overwritten(cell[k].content, caller[c].value)
           e == [cell[k] EXCEPT !.content = w]
<1>1. /\ caller[c].at = "write" /\ clock' = clock /\ cacheSetup' = cacheSetup
      /\ asked' = asked /\ stats' = [stats EXCEPT !.stores = @ + 1]
      /\ CallerGoes(c, "answer")
      /\ cell' = [cell EXCEPT ![k] = e] \/ cell' = cell
  BY DEF WriteFile
<1>2. k \in Keys /\ caller[c] \in Callers /\ Carries(caller[c])
  BY <1>1, CallerFacts
<1>3. caller[c].value \in Values /\ Stored(caller[c].value, k)
  BY <1>1, <1>2 DEF Callers, Carries, Stored, KeyOf
<1>4. cell[k] \in Cells /\ cell[k].content \in Values
  BY <1>2 DEF CacheInv, CacheTyped, Cells
<1>5. w \in Values /\ Stored(w, k)
  BY <1>3, <1>4, OverwrittenStored
<1> HIDE DEF w
<1>6. e \in Cells /\ Stored(e.content, k)
  BY <1>4, <1>5 DEF Cells
<1> HIDE DEF k, e
<1> QED
  BY <1>1, <1>2, <1>6, GoesStep, CellStep, CellKept, CountersStore, Together

LEMMA WriteFailsInv ==
  ASSUME CacheInv, NEW c \in CacheClients, WriteFails(c) PROVE CacheInv'
<1>1. /\ caller[c].at = "write" /\ clock' = clock /\ cell' = cell
      /\ cacheSetup' = cacheSetup /\ stats' = stats /\ asked' = asked
      /\ CallerGoes(c, "answer")
  BY DEF WriteFails
<1> QED
  BY <1>1, GoesStep, CellKept, CountersKept, Together

LEMMA InvalidateInv ==
  ASSUME CacheInv, NEW c \in CacheClients, NEW k \in Keys, Invalidate(c, k) PROVE CacheInv'
<1>1. /\ clock' = clock /\ cacheSetup' = cacheSetup /\ caller' = caller
      /\ cell' = Unlinked(k) /\ Call
      /\ stats' = [stats EXCEPT !.invalidations = @ + 1]
  BY DEF Invalidate
<1> QED
  BY <1>1, CallersKept, UnlinkedStep, CountersStore, Together

LEMMA ClearInv == ASSUME CacheInv, NEW c \in CacheClients, Clear(c) PROVE CacheInv'
<1>1. /\ clock' = clock /\ cacheSetup' = cacheSetup /\ stats' = stats /\ Call
      /\ caller[c].at = "idle"
  BY DEF Clear
<1>2. CASE File
  <2> DEFINE d == [caller[c] EXCEPT !.at = "clear",
                                    !.todo = {k \in Keys : Content(k) # Absent}]
  <2>1. d \in Callers /\ Carries(d)
    BY <1>1, CallerFacts DEF Callers, CacheSteps, Carries
  <2>2. caller' = [caller EXCEPT ![c] = d] /\ cell' = cell
    BY <1>2 DEF Clear
  <2> HIDE DEF d
  <2> QED
    BY <1>1, <2>1, <2>2, CallerStep, CellKept, CountersKept, Together
<1>3. CASE ~File
  <2>1. cell' = [k \in Keys |-> [cell[k] EXCEPT !.content = Absent]] /\ caller' = caller
    BY <1>3 DEF Clear
  <2>2. cell' \in [Keys -> Cells] /\ (\A k \in Keys : Stored(cell[k].content, k))'
    BY <2>1, AbsentTyped DEF CacheInv, CacheTyped, Cells, Stored
  <2> QED
    BY <1>1, <2>1, <2>2, CallersKept, CountersKept, Together
<1> QED
  BY <1>2, <1>3

LEMMA ClearFileInv == ASSUME CacheInv, NEW c \in CacheClients, ClearFile(c) PROVE CacheInv'
<1>1. /\ clock' = clock /\ cacheSetup' = cacheSetup /\ stats' = stats /\ asked' = asked
      /\ caller[c].at = "clear"
  BY DEF ClearFile
<1>2. CASE CallerEnds(c) /\ cell' = cell
  BY <1>1, <1>2, EndsStep, CellKept, CountersKept, Together
<1>3. ASSUME NEW k \in caller[c].todo, cell' = Unlinked(k),
             caller' = [caller EXCEPT ![c].todo = @ \ {k}]
      PROVE  CacheInv'
  <2> DEFINE d == [caller[c] EXCEPT !.todo = @ \ {k}]
  <2>1. d \in Callers /\ Carries(d) /\ k \in Keys
    BY CallerFacts DEF Callers, Carries
  <2>2. caller' = [caller EXCEPT ![c] = d]
    BY <1>3
  <2> HIDE DEF d
  <2> QED
    BY <1>1, <1>3, <2>1, <2>2, CallerStep, UnlinkedStep, CountersKept, Together
<1> QED
  BY <1>2, <1>3 DEF ClearFile

LEMMA SweepInv == ASSUME CacheInv, NEW c \in CacheClients, Sweep(c) PROVE CacheInv'
<1>1. /\ caller[c].at = "sweep" /\ clock' = clock /\ cacheSetup' = cacheSetup
      /\ stats' = stats /\ asked' = asked
      /\ cell' = Unlinked(KeyOf(c)) /\ CallerEnds(c)
  BY DEF Sweep
<1>2. KeyOf(c) \in Keys
  BY <1>1, CallerFacts
<1> QED
  BY <1>1, <1>2, EndsStep, UnlinkedStep, CountersKept, Together

LEMMA ResetStatsInv == ASSUME CacheInv, ResetStats PROVE CacheInv'
<1>1. /\ clock' = clock /\ cacheSetup' = cacheSetup /\ caller' = caller /\ cell' = cell
      /\ stats' = NoStats /\ asked' = [asked EXCEPT !.answers = 0]
  BY DEF ResetStats
<1>2. /\ cacheSetup' \in Setups /\ clock' \in 0 .. MaxClock
      /\ stats' \in [hits : Nat, misses : Nat, stores : Nat, invalidations : Nat]
      /\ asked' \in [answers : Nat, calls : 0 .. MaxCalls] /\ StatsExact'
  BY <1>1 DEF CacheInv, CacheTyped, NoStats, StatsExact
<1> QED
  BY <1>1, <1>2, CallersKept, CellKept, Together

\* An entry that was not of the future is not of the future a tick later.
LEMMA CacheTickInv == ASSUME CacheInv, CacheTick PROVE CacheInv'
<1>1. /\ clock' = clock + 1 /\ clock' \in 0 .. MaxClock /\ cacheSetup' = cacheSetup
      /\ caller' = caller /\ cell' = cell /\ stats' = stats /\ asked' = asked
  BY CacheAssumption DEF CacheTick, CacheInv, CacheTyped
<1>2. (\A k \in Keys : Stored(cell[k].content, k))'
  BY <1>1 DEF CacheInv, CacheTyped, Cells, Values, Stored
<1>3. (\A c \in CacheClients : Carries(caller[c]))'
  BY <1>1 DEF CacheInv, CacheTyped, Callers, Values, Carries
<1>4. StatsExact' /\ cacheSetup' \in Setups /\ cell' \in [Keys -> Cells]
        /\ caller' \in [CacheClients -> Callers]
        /\ stats' \in [hits : Nat, misses : Nat, stores : Nat, invalidations : Nat]
        /\ asked' \in [answers : Nat, calls : 0 .. MaxCalls]
  BY <1>1 DEF CacheInv, CacheTyped, StatsExact
<1> QED
  BY <1>1, <1>2, <1>3, <1>4, Together

LEMMA StutterInv == ASSUME CacheInv, UNCHANGED cacheVars PROVE CacheInv'
<1>1. /\ clock' = clock /\ cacheSetup' = cacheSetup /\ caller' = caller /\ cell' = cell
      /\ stats' = stats /\ asked' = asked
  BY DEF cacheVars
<1> QED
  BY <1>1, CallersKept, CellKept, CountersKept, Together

LEMMA StepInv == ASSUME CacheInv, [CacheNext]_cacheVars PROVE CacheInv'
  BY GetOrTranslateInv, WarmInv, CleanupExpiredInv, GetInv, UnlinkExpiredInv, EndInv,
     TranslateTextInv, SetRedisInv, OpenFileInv, WriteFileInv, WriteFailsInv,
     InvalidateInv, ClearInv, ClearFileInv, SweepInv, ResetStatsInv, CacheTickInv,
     StutterInv
  DEF CacheNext

LEMMA Invariance == CacheSpec => []CacheInv
  BY InitInv, StepInv, PTL DEF CacheSpec

(***************************************************************************)
(* The theorems                                                            *)
(***************************************************************************)
\* Entries are whole, empty or torn, an entry that can be read has the length of one
\* text and is not of the future, whatever writers, sweeps and removals overlap.
THEOREM CacheTypeCorrect == CacheSpec => []CacheTypeOK
<1>1. CacheInv => CacheTypeOK
  BY DEF CacheInv, CacheTyped, CacheTypeOK, Cells, Values, Callers, CacheSteps, Stored
<1> QED
  BY <1>1, Invariance, PTL

\* A hit answers the text that was asked for, of the same model and glossary.
LEMMA InvHit == ASSUME CacheInv PROVE HitIsForRequest
<1> SUFFICES ASSUME NEW c \in CacheClients, caller[c].hit
             PROVE  /\ caller[c].value.for.text = caller[c].request.text
                    /\ caller[c].value.for.model = caller[c].request.model
                    /\ caller[c].value.for.glossary = caller[c].request.glossary
  BY DEF HitIsForRequest
<1>1. caller[c].value.for = GenerateKey(caller[c].request)
  BY CallerFacts DEF Carries
<1> QED
  BY <1>1 DEF GenerateKey

\* A step that gives no client a record of its own keeps what they found.
LEMMA NoNewHit ==
  ASSUME CacheInv, NEW c \in CacheClients, NEW d,
         ~d.hit \/ d.hit = caller[c].hit, caller' = [caller EXCEPT ![c] = d]
  PROVE  HitIsFresh
  BY DEF HitIsFresh, CacheInv, CacheTyped

\* Only get finds something, and what it finds is not past the TTL.
LEMMA GetFresh == ASSUME CacheInv, NEW c \in CacheClients, Get(c) PROVE HitIsFresh
<1> DEFINE v == Content(KeyOf(c))
           d == [caller[c] EXCEPT !.at = "answer", !.value = v, !.hit = TRUE]
<1>1. caller[c] \in Callers /\ caller[c].at = "get" /\ KeyOf(c) \in Keys
  BY CallerFacts DEF Get
<1>2. v.at \in Nat /\ clock \in Nat
  BY <1>1, CacheAssumption DEF CacheInv, CacheTyped, Content, Cells, Values
<1>3. CASE Usable(v) /\ caller' = [caller EXCEPT ![c] = d]
  <2>1. clock - v.at <= Ttl
    BY <1>2, <1>3, CacheAssumption DEF Usable, Expired
  <2> HIDE DEF v
  <2>2. d.value = v
    BY <1>1 DEF Callers
  <2> HIDE DEF d
  <2> QED
    BY <1>3, <2>1, <2>2 DEF HitIsFresh, CacheInv, CacheTyped
<1>4. CASE CallerGoes(c, "translate") \/ CallerGoes(c, "unlink")
  BY <1>1, <1>4, NoNewHit DEF CallerGoes, Callers
<1> QED
  BY <1>3, <1>4 DEF Get

LEMMA GoesFresh ==
  ASSUME CacheInv, NEW c \in CacheClients, NEW to, CallerEnds(c) \/ CallerGoes(c, to)
  PROVE  HitIsFresh
<1>1. CASE CallerEnds(c)
  BY <1>1, NoNewHit DEF CallerEnds, Free
<1>2. CASE CallerGoes(c, to)
  BY <1>2, CallerFacts, NoNewHit DEF CallerGoes, Callers
<1> QED
  BY <1>1, <1>2

LEMMA KeptFresh == ASSUME CacheInv, caller' = caller PROVE HitIsFresh
  BY DEF HitIsFresh

LEMMA StepFresh == ASSUME CacheInv, [CacheNext]_cacheVars PROVE HitIsFresh
<1>1. ASSUME NEW c \in CacheClients, NEW r \in Requests,
             \/ GetOrTranslate(c, r) \/ CleanupExpired(c, r)
             \/ \E size \in Sizes : Warm(c, r, size)
      PROVE  HitIsFresh
  <2>1. CASE GetOrTranslate(c, r)
    BY <2>1, NoNewHit DEF GetOrTranslate, Free
  <2>2. CASE CleanupExpired(c, r)
    BY ZenonT(40), <2>2, CallerFacts, NoNewHit DEF CleanupExpired, Callers
  <2>3. CASE \E size \in Sizes : Warm(c, r, size)
    BY <2>3, NoNewHit DEF Warm, Free
  <2> QED
    BY <1>1, <2>1, <2>2, <2>3
<1>2. ASSUME NEW c \in CacheClients, NEW size \in Sizes, TranslateText(c, size)
      PROVE  HitIsFresh
  <2> DEFINE d == [caller[c] EXCEPT
                     !.value = Entry(KeyOf(c), size),
                     !.at = IF cacheSetup.enabled THEN "set" ELSE "answer"]
  <2>1. caller' = [caller EXCEPT ![c] = d]
    BY <1>2 DEF TranslateText
  <2>2. d.hit = caller[c].hit
    BY CallerFacts DEF Callers
  <2> HIDE DEF d
  <2> QED
    BY <2>1, <2>2, NoNewHit
<1>3. ASSUME NEW c \in CacheClients,
             \/ UnlinkExpired(c) \/ GetRaises(c) \/ AnswerCaller(c) \/ SetRedis(c)
             \/ WriteFile(c) \/ WriteFails(c) \/ Sweep(c)
      PROVE  HitIsFresh
  BY <1>3, GoesFresh
  DEF UnlinkExpired, GetRaises, AnswerCaller, SetRedis, WriteFile, WriteFails, Sweep
<1>4. ASSUME NEW c \in CacheClients, OpenFile(c) \/ Clear(c) \/ ClearFile(c)
      PROVE  HitIsFresh
  <2>1. CASE OpenFile(c)
    <3> DEFINE d == [caller[c] EXCEPT !.at = "write", !.file = cell[KeyOf(c)].file,
                                      !.value = [@ EXCEPT !.at = clock]]
    <3>1. caller' = [caller EXCEPT ![c] = d]
      BY <2>1 DEF OpenFile
    <3>2. d.hit = caller[c].hit
      BY CallerFacts DEF Callers
    <3> HIDE DEF d
    <3> QED
      BY <3>1, <3>2, NoNewHit
  <2>2. CASE Clear(c)
    BY <2>2, CallerFacts, NoNewHit, KeptFresh DEF Clear, Callers
  <2>3. CASE ClearFile(c)
    BY <2>3, CallerFacts, NoNewHit, GoesFresh DEF ClearFile, Callers
  <2> QED
    BY <1>4, <2>1, <2>2, <2>3
<1>5. ASSUME \/ \E c \in CacheClients, k \in Keys : Invalidate(c, k)
             \/ ResetStats \/ CacheTick \/ UNCHANGED cacheVars
      PROVE  HitIsFresh
  BY <1>5, KeptFresh DEF Invalidate, ResetStats, CacheTick, cacheVars
<1> QED
  BY <1>1, <1>3, <1>4, <1>5, <1>2, GetFresh DEF CacheNext

\* Each answer of retrieve is for the text that was asked for, no older than the TTL,
\* and counted once: for any number of clients on either backend.
THEOREM CacheAnswersRight == CacheSpec => AnswersRight
<1>1. ASSUME CacheInv, CacheInv', [CacheNext]_cacheVars
      PROVE  HitIsForRequest' /\ HitIsFresh /\ StatsExact'
  <2>1. HitIsForRequest'
    BY <1>1, InvHit, PTL
  <2> QED
    BY <1>1, <2>1, StepFresh DEF CacheInv
<1> QED
  BY <1>1, Invariance, PTL DEF CacheSpec, AnswersRight

-----------------------------------------------------------------------------
(* The pool of providers *)

Stats  == [ok : Nat, failed : Nat, row : Nat, cooling : BOOLEAN]
Steps  == {"new", "queued", "select", "use", "acquire", "call", "sleep", "done", "failed"}
Task   == [at : Steps, id : PoolIds \cup {0}, sem : Nat, stats : Nat, attempt : Nat, tries : Nat]
Answer == [by : Nat, reply : PoolReplies \cup {"none"}]

-----------------------------------------------------------------------------
(* The invariant, in parts *)

Done == {i \in Chunks : task[i].at = "done"}

MembersTyped ==
  /\ member \in [PoolIds -> [sem : Nat, stats : Nat]]
  /\ \A p \in PoolIds :
       \/ member[p] = NotMember
       \/ member[p] \in [sem : 1 .. Len(pstats), stats : 1 .. Len(pstats)]

Typed ==
  /\ pstats \in Seq(Stats)
  /\ task \in [Chunks -> Task]
  /\ results \in [Chunks -> Answer]
  /\ progress \in Nat
  /\ batch \in [state : {"idle", "running", "returned", "raised"}, slots : Nat]

\* a task with a semaphore has the statistics it will write to
TasksInv == \A i \in Chunks : task[i].at \in {"acquire", "call"} => task[i].stats \in 1 .. Len(pstats)

\* an answer stands at its prompt from the moment its task is done
AnswersInv ==
  \A i \in Chunks : IF task[i].at = "done" THEN results[i] \in [by : {i}, reply : PoolReplies]
                                          ELSE results[i] = NoAnswer

BatchInv ==
  /\ \A i \in Chunks : batch.state = "idle" <=> task[i].at = "new"
  /\ batch.state = "returned" =>
       /\ \A i \in Chunks : task[i].at = "done"
       /\ output = Assembled(Responses)

LimitsInv ==
  /\ \A k \in Nat : Cardinality(Users(k)) <= PerProvider
  /\ Cardinality(Active) <= batch.slots

CountInv ==
  /\ IsFiniteSet(Successes)
  /\ Cardinality(Successes) = Cardinality(Done)
  /\ progress = Cardinality(Done)

PoolInv == Typed /\ MembersTyped /\ TasksInv /\ AnswersInv /\ BatchInv /\ LimitsInv /\ CountInv

-----------------------------------------------------------------------------
(* Chunks and sets of them *)

LEMMA ChunksFinite ==
  /\ (TextCount + ChunkSize - 1) \div ChunkSize \in Nat
  /\ IsFiniteSet(Chunks) /\ Chunks \subseteq Nat
<1>1. (TextCount + ChunkSize - 1) \div ChunkSize \in Nat
  BY PoolAssumption
<1> QED
  BY <1>1, FS_Interval DEF Chunks

LEMMA ChunkSets ==
  ASSUME NEW S, S \subseteq Chunks
  PROVE  IsFiniteSet(S) /\ Cardinality(S) \in Nat
  BY ChunksFinite, FS_Subset, FS_CardinalityType

\* The successes, pair by pair.
LEMMA SuccessPairs ==
  ASSUME pstats \in Seq(Stats)
  PROVE  \A k, n : <<k, n>> \in Successes <=> k \in 1 .. Len(pstats) /\ n \in 1 .. pstats[k].ok
  BY DEF Successes

\* New statistics have no successes, the others keep theirs.
Grown == /\ pstats' \in Seq(Stats) /\ Len(pstats) <= Len(pstats')
         /\ \A k \in 1 .. Len(pstats') :
              pstats'[k].ok = IF k <= Len(pstats) THEN pstats[k].ok ELSE 0

LEMMA GrownKeepsSuccesses ==
  ASSUME pstats \in Seq(Stats), Grown
  PROVE  Successes' = Successes
<1>1. Successes = UNION {{k} \X (1 .. pstats[k].ok) : k \in 1 .. Len(pstats)}
  BY DEF Successes
<1>2. Successes' = UNION {{k} \X (1 .. pstats'[k].ok) : k \in 1 .. Len(pstats')}
  BY DEF Successes, Grown
<1>3. ASSUME NEW x \in Successes PROVE x \in Successes'
  <2>1. PICK k \in 1 .. Len(pstats) : x \in {k} \X (1 .. pstats[k].ok)
    BY <1>1
  <2>2. k \in 1 .. Len(pstats') /\ pstats'[k].ok = pstats[k].ok
    BY DEF Grown
  <2> QED
    BY <1>2, <2>1, <2>2
<1>4. ASSUME NEW x \in Successes' PROVE x \in Successes
  <2>1. PICK k \in 1 .. Len(pstats') : x \in {k} \X (1 .. pstats'[k].ok)
    BY <1>2
  <2>2. k \in 1 .. Len(pstats) /\ pstats'[k].ok = pstats[k].ok
    <3>1. 1 .. pstats'[k].ok # {}
      BY <2>1
    <3>2. pstats'[k].ok # 0
      BY <3>1
    <3> QED
      BY <3>2 DEF Grown
  <2> QED
    BY <1>1, <2>1, <2>2
<1> QED
  BY <1>3, <1>4

-----------------------------------------------------------------------------
(* Steps of the operators and of the tasks *)

LEMMA OperatorKeeps ==
  ASSUME PoolInv, UNCHANGED <<task, results, progress, batch, output>>, Grown, MembersTyped'
  PROVE  PoolInv'
<1>1. Typed'
  BY DEF PoolInv, Typed, Grown
<1>2. TasksInv'
  BY DEF PoolInv, TasksInv, Grown, Typed
<1>3. AnswersInv'
  BY DEF PoolInv, AnswersInv
<1>4. BatchInv'
  BY DEF PoolInv, BatchInv, Responses
<1>5. LimitsInv'
  BY DEF PoolInv, LimitsInv, Users, Active
<1>6. CountInv'
  BY GrownKeepsSuccesses DEF PoolInv, Typed, CountInv, Done
<1> QED
  BY <1>1, <1>2, <1>3, <1>4, <1>5, <1>6 DEF PoolInv

AtWork == {"select", "use", "acquire", "call", "sleep"}

LEMMA TaskKeeps ==
  ASSUME PoolInv, NEW i \in Chunks, task[i].at \in AtWork \cup {"queued"},
         NEW t \in Task, task' = [task EXCEPT ![i] = t], t.at \in AtWork \cup {"failed"},
         t.at \in {"acquire", "call"} => t.stats \in 1 .. Len(pstats),
         t.at = "call" => \/ task[i].at = "call" /\ t.sem = task[i].sem
                          \/ HasRoom(t.sem),
         task[i].at = "queued" => Cardinality(Active) < batch.slots,
         Grown, UNCHANGED <<member, results, progress, output>>,
         batch' = batch \/ (batch' = [batch EXCEPT !.state = "raised"] /\ batch.state = "running")
  PROVE  PoolInv'
<1>0. /\ Typed /\ MembersTyped /\ TasksInv /\ AnswersInv /\ BatchInv /\ LimitsInv /\ CountInv
      /\ task \in [Chunks -> Task] /\ i \in Nat /\ PerProvider \in Nat
      /\ pstats \in Seq(Stats) /\ batch.slots \in Nat
  BY ChunksFinite, PoolAssumption DEF PoolInv, Typed
<1>1. /\ task'[i] = t /\ \A j \in Chunks : j # i => task'[j] = task[j]
      /\ task' \in [Chunks -> Task]
  BY <1>0
<1>2. batch.state \notin {"idle", "returned"} /\ batch' \in [state : {"running", "raised"}, slots : {batch.slots}]
  BY <1>0 DEF Typed, BatchInv, AtWork
<1>3. Typed'
  BY <1>0, <1>1, <1>2 DEF Typed, Grown
<1>4. MembersTyped'
  BY <1>0 DEF MembersTyped, Grown
<1>5. TasksInv'
  BY <1>0, <1>1 DEF TasksInv, Grown
<1>6. AnswersInv'
  BY <1>0, <1>1 DEF AnswersInv, AtWork
<1>7. BatchInv'
  BY <1>0, <1>1, <1>2 DEF BatchInv, AtWork
<1>8. ASSUME NEW k \in Nat PROVE Cardinality(Users(k)') <= PerProvider
  <2>1. Users(k) \subseteq Chunks /\ Users(k)' \subseteq Chunks
    BY DEF Users
  <2>2. CASE i \in Users(k)' /\ i \notin Users(k)
    <3>1. Users(k)' = Users(k) \cup {i}
      BY <1>1, <2>2 DEF Users
    <3>2. Cardinality(Users(k)) < PerProvider
      BY <1>1, <2>2 DEF Users, HasRoom
    <3>3. Cardinality(Users(k)') = Cardinality(Users(k)) + 1
      BY <2>1, <2>2, <3>1, ChunkSets, FS_AddElement
    <3> QED
      BY <1>0, <2>1, <3>2, <3>3, ChunkSets
  <2>3. CASE ~(i \in Users(k)' /\ i \notin Users(k))
    <3>1. Users(k)' \subseteq Users(k)
      BY <1>1, <2>3 DEF Users
    <3>2. Cardinality(Users(k)') <= Cardinality(Users(k))
      BY <2>1, <3>1, ChunkSets, FS_Subset
    <3> QED
      BY <1>0, <2>1, <3>2, ChunkSets DEF LimitsInv
  <2> QED
    BY <2>2, <2>3
<1>9. Cardinality(Active') <= batch'.slots
  <2>1. Active \subseteq Chunks /\ Active' \subseteq Chunks
    BY DEF Active
  <2>2. batch'.slots = batch.slots
    BY <1>2
  <2>3. CASE task[i].at = "queued"
    <3>1. Active' \subseteq Active \cup {i} /\ i \notin Active
      BY <1>1, <2>3 DEF Active
    <3>2. IsFiniteSet(Active \cup {i}) /\ Cardinality(Active \cup {i}) = Cardinality(Active) + 1
      BY <2>1, <3>1, ChunkSets, FS_AddElement
    <3>3. Cardinality(Active') <= Cardinality(Active) + 1
      BY <3>1, <3>2, FS_Subset
    <3> QED
      BY <1>0, <2>1, <2>2, <2>3, <3>3, ChunkSets
  <2>4. CASE task[i].at # "queued"
    <3>1. Active' \subseteq Active
      BY <1>1, <2>4 DEF Active, AtWork
    <3>2. Cardinality(Active') <= Cardinality(Active)
      BY <2>1, <3>1, ChunkSets, FS_Subset
    <3> QED
      BY <1>0, <2>1, <2>2, <3>2, ChunkSets DEF LimitsInv
  <2> QED
    BY <2>3, <2>4
<1>10. LimitsInv'
  BY <1>8, <1>9 DEF LimitsInv
<1>11. CountInv'
  <2>1. Done' = Done
    BY <1>1 DEF Done, AtWork
  <2> QED
    BY <1>0, <2>1, GrownKeepsSuccesses DEF CountInv
<1> QED
  BY <1>3, <1>4, <1>5, <1>6, <1>7, <1>10, <1>11 DEF PoolInv

LEMMA PoolStarts ==
  ASSUME PoolInit
  PROVE  PoolInv
<1>1. \A p \in PoolIds : member[p] = NotMember
  BY DEF PoolInit
<1>2. pstats = <<>> /\ Successes = {}
  BY DEF PoolInit, Successes
<1>3. Queued \in Task /\ NoAnswer \in Answer
  BY DEF Queued, Task, NoAnswer, Answer, Steps
<1>4. \A i \in Chunks : task[i] = Queued /\ results[i] = NoAnswer
  BY DEF PoolInit
<1>5. Done = {} /\ Active = {} /\ \A k : Users(k) = {}
  BY <1>4 DEF Done, Active, Users, Queued
<1>6. Typed
  BY <1>3 DEF PoolInit, Typed
<1>7. MembersTyped
  BY <1>1 DEF MembersTyped, PoolInit, NotMember
<1>8. TasksInv /\ AnswersInv
  BY <1>4 DEF TasksInv, AnswersInv, Queued
<1>9. BatchInv
  BY <1>4 DEF BatchInv, PoolInit, Queued
<1>10. LimitsInv
  <2>1. Cardinality(Active) = 0 /\ \A k : Cardinality(Users(k)) = 0
    BY <1>5, FS_EmptySet
  <2>2. PerProvider \in Nat /\ batch.slots = 0
    BY PoolAssumption DEF PoolInit
  <2> QED
    BY <2>1, <2>2 DEF LimitsInv
<1>11. CountInv
  BY <1>2, <1>5, FS_EmptySet DEF CountInv, PoolInit
<1> QED
  BY <1>6, <1>7, <1>8, <1>9, <1>10, <1>11 DEF PoolInv

LEMMA MembersKept ==
  ASSUME PoolInv, NEW p \in PoolIds,
         AddProvider(p) \/ RemoveProvider(p) \/ ForgetOrder(p)
  PROVE  PoolInv'
<1>0. MembersTyped /\ pstats \in Seq(Stats) /\ Len(pstats) \in Nat
  BY DEF PoolInv, Typed
<1>1. NewStats \in Stats /\ NewStats.ok = 0
  BY DEF NewStats, Stats
<1>2. CASE AddProvider(p)
  <2>1. /\ pstats' = Append(pstats, NewStats) /\ Len(pstats') = Len(pstats) + 1
        /\ member' = [member EXCEPT ![p] = [sem |-> Len(pstats'), stats |-> Len(pstats')]]
    BY <1>0, <1>2 DEF AddProvider
  <2>2. Grown
    BY <1>0, <1>1, <2>1 DEF Grown
  <2>3. MembersTyped'
    <3>1. ASSUME NEW q \in PoolIds
          PROVE  \/ member'[q] = NotMember
                 \/ member'[q] \in [sem : 1 .. Len(pstats'), stats : 1 .. Len(pstats')]
      <4>1. member'[q] = member[q] \/ member'[q] = [sem |-> Len(pstats'), stats |-> Len(pstats')]
        BY <1>0, <2>1
      <4>2. \A k \in 1 .. Len(pstats) : k \in 1 .. Len(pstats')
        BY <1>0, <2>1
      <4>3. Len(pstats') \in 1 .. Len(pstats')
        BY <1>0, <2>1
      <4> QED
        BY <1>0, <4>1, <4>2, <4>3 DEF MembersTyped
    <3>2. [sem |-> Len(pstats'), stats |-> Len(pstats')] \in [sem : Nat, stats : Nat]
      BY <1>0, <2>1
    <3> QED
      BY <1>0, <2>1, <3>1, <3>2 DEF MembersTyped
  <2> QED
    BY <1>2, <2>2, <2>3, OperatorKeeps DEF AddProvider
<1>3. CASE RemoveProvider(p) \/ ForgetOrder(p)
  <2>1. UNCHANGED pstats /\ (member' = member \/ member' = [member EXCEPT ![p] = NotMember])
    BY <1>3 DEF RemoveProvider, ForgetOrder
  <2>2. Grown
    BY <1>0, <2>1 DEF Grown
  <2>3. MembersTyped'
    <3>1. NotMember \in [sem : Nat, stats : Nat]
      BY DEF NotMember
    <3>2. member' \in [PoolIds -> [sem : Nat, stats : Nat]]
      BY <1>0, <2>1, <3>1 DEF MembersTyped
    <3>3. \A q \in PoolIds : member'[q] = member[q] \/ member'[q] = NotMember
      BY <1>0, <2>1 DEF MembersTyped
    <3> QED
      BY <1>0, <2>1, <3>2, <3>3 DEF MembersTyped
  <2> QED
    BY <1>3, <2>2, <2>3, OperatorKeeps DEF RemoveProvider, ForgetOrder
<1> QED
  BY <1>2, <1>3

LEMMA ResetPoolStatsKept ==
  ASSUME PoolInv, ResetPoolStats
  PROVE  PoolInv'
<1> DEFINE n == Cardinality(Members)
           new == [i \in 1 .. n |-> NewStats]
<1>0. MembersTyped /\ pstats \in Seq(Stats) /\ Len(pstats) \in Nat
  BY DEF PoolInv, Typed
<1>1. n \in Nat
  <2>1. IsFiniteSet(Members)
    BY PoolAssumption, FS_Subset DEF Members
  <2> QED
    BY <2>1, FS_CardinalityType
<1>2. NewStats \in Stats /\ NewStats.ok = 0
  BY DEF NewStats, Stats
<1>3. pstats' = pstats \o new
  BY DEF ResetPoolStats
<1>4. PICK number \in [Members -> Len(pstats) + 1 .. Len(pstats) + n] :
        member' = [p \in PoolIds |-> IF p \in Members
                     THEN [member[p] EXCEPT !.stats = number[p]] ELSE NotMember]
  BY DEF ResetPoolStats
<1> HIDE DEF n
<1>5. new \in Seq(Stats) /\ Len(new) = n /\ \A i \in 1 .. n : new[i].ok = 0
  BY <1>1, <1>2
<1> HIDE DEF new
<1>6. Len(pstats') = Len(pstats) + n /\ pstats' \in Seq(Stats)
  <2>1. PICK s \in Seq(Stats) : s = pstats
    BY <1>0
  <2>2. PICK t \in Seq(Stats) : t = new
    BY <1>5
  <2>3. s \o t \in Seq(Stats) /\ Len(s \o t) = Len(s) + Len(t)
    BY <2>1
  <2> QED
    BY <1>3, <1>5, <2>1, <2>2, <2>3
<1>7. Grown
  BY <1>0, <1>1, <1>3, <1>5, <1>6 DEF Grown
<1>8. MembersTyped'
  <2>1. ASSUME NEW p \in PoolIds
        PROVE  \/ member'[p] = NotMember
               \/ member'[p] \in [sem : 1 .. Len(pstats'), stats : 1 .. Len(pstats')]
    <3>1. CASE p \in Members
      <4>1. member[p] \in [sem : 1 .. Len(pstats), stats : 1 .. Len(pstats)]
        BY <1>0, <3>1 DEF Members, MembersTyped
      <4>2. member'[p] = [member[p] EXCEPT !.stats = number[p]]
        BY <1>4, <3>1
      <4>3. number[p] \in 1 .. Len(pstats')
        BY <1>0, <1>1, <1>4, <1>6, <3>1
      <4>4. \A k \in 1 .. Len(pstats) : k \in 1 .. Len(pstats')
        BY <1>0, <1>1, <1>6
      <4> QED
        BY <4>1, <4>2, <4>3, <4>4
    <3>2. CASE p \notin Members
      BY <1>4, <3>2
    <3> QED
      BY <3>1, <3>2
  <2>2. member' \in [PoolIds -> [sem : Nat, stats : Nat]]
    <3>1. \A p \in PoolIds : member'[p] \in [sem : Nat, stats : Nat]
      BY <1>6, <2>1 DEF NotMember
    <3> QED
      BY <1>4, <3>1
  <2> QED
    BY <2>1, <2>2 DEF MembersTyped
<1> QED
  BY <1>7, <1>8, OperatorKeeps DEF ResetPoolStats

LEMMA CooldownsKept ==
  ASSUME PoolInv, ResetCooldowns \/ \E k \in DOMAIN pstats : CooldownEnds(k)
  PROVE  PoolInv'
<1>0. MembersTyped /\ pstats \in Seq(Stats)
  BY DEF PoolInv, Typed
<1>1. Grown
  <2>1. CASE ResetCooldowns
    <3>1. pstats' = [k \in 1 .. Len(pstats) |-> IF \E p \in Members : member[p].stats = k
                  THEN [pstats[k] EXCEPT !.cooling = FALSE, !.row = 0] ELSE pstats[k]]
      <4>1. DOMAIN pstats = 1 .. Len(pstats)
        BY <1>0
      <4> QED
        BY <2>1, <4>1 DEF ResetCooldowns
    <3>2. ASSUME NEW k \in 1 .. Len(pstats) PROVE pstats'[k] \in Stats /\ pstats'[k].ok = pstats[k].ok
      <4>1. PICK s \in Stats : s = pstats[k]
        BY <1>0
      <4>2. pstats'[k] = [s EXCEPT !.cooling = FALSE, !.row = 0] \/ pstats'[k] = s
        BY <3>1, <4>1
      <4>3. /\ [s EXCEPT !.cooling = FALSE, !.row = 0] \in Stats
            /\ [s EXCEPT !.cooling = FALSE, !.row = 0].ok = s.ok
        BY DEF Stats
      <4> QED
        BY <4>1, <4>2, <4>3
    <3>3. pstats' \in [1 .. Len(pstats) -> Stats]
      BY <3>1, <3>2
    <3> QED
      BY <1>0, <3>2, <3>3 DEF Grown
  <2>2. ASSUME NEW k \in DOMAIN pstats, CooldownEnds(k) PROVE Grown
    <3>1. pstats' = [pstats EXCEPT ![k] = [pstats[k] EXCEPT !.cooling = FALSE]]
      BY <2>2 DEF CooldownEnds
    <3>2. /\ [pstats[k] EXCEPT !.cooling = FALSE] \in Stats
          /\ [pstats[k] EXCEPT !.cooling = FALSE].ok = pstats[k].ok
      <4>1. PICK s \in Stats : s = pstats[k]
        BY <1>0
      <4>2. [s EXCEPT !.cooling = FALSE] \in Stats /\ [s EXCEPT !.cooling = FALSE].ok = s.ok
        BY DEF Stats
      <4> QED
        BY <4>1, <4>2
    <3> QED
      BY <1>0, <3>1, <3>2 DEF Grown
  <2> QED
    BY <2>1, <2>2
<1>2. MembersTyped'
  <2>1. member' = member
    BY DEF ResetCooldowns, CooldownEnds
  <2> QED
    BY <1>0, <1>1, <2>1 DEF MembersTyped, Grown
<1> QED
  BY <1>1, <1>2, OperatorKeeps DEF ResetCooldowns, CooldownEnds

LEMMA GenerateBatchKept ==
  ASSUME PoolInv, NEW m \in 0 .. 1, GenerateBatch(m)
  PROVE  PoolInv'
<1>0. /\ Typed /\ MembersTyped /\ TasksInv /\ AnswersInv /\ BatchInv /\ LimitsInv /\ CountInv
  BY DEF PoolInv
<1>1. \A i \in Chunks : task[i].at = "new" /\ results[i] = NoAnswer
  BY <1>0 DEF BatchInv, AnswersInv, GenerateBatch
<1>2. Slots(m) \in Nat
  <2>1. IsFiniteSet(Members)
    BY PoolAssumption, FS_Subset DEF Members
  <2>2. PICK c \in Nat : c = Cardinality(Members)
    BY <2>1, FS_CardinalityType
  <2> QED
    BY <2>2, PoolAssumption DEF Slots
<1>3. /\ batch' = [state |-> "running", slots |-> Slots(m)]
      /\ task' = [i \in Chunks |-> [Queued EXCEPT !.at = "queued"]]
      /\ UNCHANGED <<member, order, removing, pstats, results, progress, output, cools>>
  BY DEF GenerateBatch
<1>4. [Queued EXCEPT !.at = "queued"] \in Task /\ [Queued EXCEPT !.at = "queued"].at = "queued"
  BY DEF Queued, Task, Steps
<1>5. \A i \in Chunks : task'[i].at = "queued"
  BY <1>3, <1>4
<1>6. Done = {} /\ Done' = {} /\ Active' = {} /\ \A k : Users(k)' = {}
  BY <1>1, <1>5 DEF Done, Active, Users
<1>7. Typed'
  BY <1>0, <1>2, <1>3, <1>4 DEF Typed
<1>8. MembersTyped'
  BY <1>0, <1>3 DEF MembersTyped
<1>9. TasksInv' /\ AnswersInv'
  BY <1>1, <1>3, <1>5 DEF TasksInv, AnswersInv
<1>10. BatchInv'
  BY <1>3, <1>5 DEF BatchInv
<1>11. LimitsInv'
  BY <1>2, <1>3, <1>6, FS_EmptySet, PoolAssumption DEF LimitsInv
<1>12. CountInv'
  BY <1>0, <1>3, <1>6 DEF CountInv, Successes
<1> QED
  BY <1>7, <1>8, <1>9, <1>10, <1>11, <1>12 DEF PoolInv

LEMMA SamePstatsGrown ==
  ASSUME PoolInv, pstats' = pstats
  PROVE  Grown
  BY DEF PoolInv, Typed, Grown

\* What TaskFails does to the batch.
LEMMA FailedBatch ==
  ASSUME PoolInv, NEW i \in Chunks, TaskFails(i)
  PROVE  batch' = batch \/ (batch' = [batch EXCEPT !.state = "raised"] /\ batch.state = "running")
<1>1. batch \in [state : {"idle", "running", "returned", "raised"}, slots : Nat]
  BY DEF PoolInv, Typed
<1>2. batch' = [batch EXCEPT !.state = IF batch.state = "running" THEN "raised" ELSE batch.state]
  BY DEF TaskFails
<1> QED
  BY <1>1, <1>2

\* A task on its way to the next attempt.
LEMMA AnotherAttempt ==
  ASSUME NEW t \in Task
  PROVE  /\ [t EXCEPT !.at = "select", !.attempt = t.attempt + 1] \in Task
         /\ [t EXCEPT !.at = "select", !.attempt = t.attempt + 1].at = "select"
<1>1. PICK n \in Nat : n = t.attempt + 1
  BY DEF Task
<1>2. /\ [t EXCEPT !.at = "select", !.attempt = n] \in Task
      /\ [t EXCEPT !.at = "select", !.attempt = n].at = "select"
  BY DEF Task, Steps
<1> QED
  BY <1>1, <1>2

LEMMA TaskStepKept ==
  ASSUME PoolInv, NEW i \in Chunks,
         \/ Enter(i) \/ SelectProvider(i) \/ UseProvider(i) \/ Acquire(i) \/ Wake(i)
         \/ \E ending \in {"limit", "timeout", "error"} : RequestAgain(i, ending)
  PROVE  PoolInv'
<1>0. /\ Typed /\ MembersTyped /\ task \in [Chunks -> Task] /\ TasksInv
      /\ pstats \in Seq(Stats) /\ MaxRetries \in Nat
  BY PoolAssumption DEF PoolInv, Typed
<1>1. PICK t0 \in Task : t0 = task[i]
  BY <1>0
<1>2. CASE Enter(i)
  <2>1. task' = [task EXCEPT ![i] = [t0 EXCEPT !.at = "select"]]
    BY <1>0, <1>1, <1>2 DEF Enter, Goes
  <2>2. [t0 EXCEPT !.at = "select"] \in Task /\ [t0 EXCEPT !.at = "select"].at = "select"
    BY DEF Task, Steps
  <2>3. Grown /\ t0.at = "queued"
    BY <1>1, <1>2, SamePstatsGrown DEF Enter
  <2> QED
    BY <1>1, <1>2, <2>1, <2>2, <2>3, TaskKeeps DEF Enter, AtWork
<1>3. ASSUME NEW at \in {"failed", "call", "sleep"}, Goes(i, at)
      PROVE  /\ task' = [task EXCEPT ![i] = [t0 EXCEPT !.at = at]]
             /\ [t0 EXCEPT !.at = at] \in Task
             /\ [t0 EXCEPT !.at = at].at = at /\ [t0 EXCEPT !.at = at].sem = t0.sem
             /\ [t0 EXCEPT !.at = at].stats = t0.stats
  BY <1>0, <1>1, <1>3 DEF Goes, Task, Steps
<1>4. CASE SelectProvider(i)
  <2>1. /\ t0.at = "select" /\ Grown
        /\ UNCHANGED <<member, removing, pstats, results, progress, output, cools>>
    BY <1>1, <1>4, SamePstatsGrown DEF SelectProvider
  <2>2. CASE TaskFails(i)
    <3>1. Goes(i, "failed")
      BY <2>2 DEF TaskFails
    <3> QED
      BY <1>1, <1>3, <2>1, <2>2, <3>1, FailedBatch, TaskKeeps DEF AtWork
  <2>3. CASE ~TaskFails(i)
    <3>1. PICK k \in DOMAIN order : task' = [task EXCEPT ![i].at = "use", ![i].id = order[k]]
      BY <1>4, <2>3 DEF SelectProvider
    <3>2. Range(order) \subseteq Members /\ batch' = batch
      BY <1>4, <2>3 DEF SelectProvider
    <3>3. order[k] \in PoolIds
      BY <3>2 DEF Range, Members
    <3> DEFINE t == [t0 EXCEPT !.at = "use", !.id = order[k]]
    <3>4. t \in Task /\ t.at = "use"
      BY <3>3 DEF Task, Steps
    <3>5. task' = [task EXCEPT ![i] = t]
      BY <1>0, <1>1, <3>1
    <3> HIDE DEF t
    <3> QED
      BY <1>1, <2>1, <3>2, <3>4, <3>5, TaskKeeps DEF AtWork
  <2> QED
    BY <2>2, <2>3
<1>5. CASE UseProvider(i)
  <2> DEFINE p == task[i].id
  <2>1. /\ t0.at = "use" /\ Grown
        /\ UNCHANGED <<member, order, removing, pstats, results, progress, output, cools>>
    BY <1>1, <1>5, SamePstatsGrown DEF UseProvider
  <2>2. CASE p \in Members
    <3>1. /\ task' = [task EXCEPT ![i].at = "acquire", ![i].sem = member[p].sem,
                                  ![i].stats = member[p].stats, ![i].tries = 1]
          /\ batch' = batch
      BY <1>5, <2>2 DEF UseProvider
    <3>2. PICK m \in [sem : 1 .. Len(pstats), stats : 1 .. Len(pstats)] : m = member[p]
      BY <1>0, <2>2 DEF Members, MembersTyped
    <3> DEFINE t == [t0 EXCEPT !.at = "acquire", !.sem = m.sem, !.stats = m.stats, !.tries = 1]
    <3>3. t \in Task /\ t.at = "acquire" /\ t.stats = m.stats
      <4>1. PICK a \in Nat, b \in Nat : a = m.sem /\ b = m.stats
        BY <1>0
      <4>2. t = [t0 EXCEPT !.at = "acquire", !.sem = a, !.stats = b, !.tries = 1]
        BY <4>1
      <4> HIDE DEF t
      <4> QED
        BY <4>1, <4>2 DEF Task, Steps
    <3>4. task' = [task EXCEPT ![i] = t]
      BY <1>0, <1>1, <3>1, <3>2
    <3>5. m.stats \in 1 .. Len(pstats)
      OBVIOUS
    <3> HIDE DEF t
    <3> QED
      BY <1>1, <2>1, <3>1, <3>3, <3>4, <3>5, TaskKeeps DEF AtWork
  <2>3. CASE p \notin Members /\ task[i].attempt = MaxRetries
    <3>1. TaskFails(i)
      BY <1>5, <2>3 DEF UseProvider, AfterError
    <3>2. Goes(i, "failed")
      BY <3>1 DEF TaskFails
    <3> QED
      BY <1>1, <1>3, <2>1, <3>1, <3>2, FailedBatch, TaskKeeps DEF AtWork
  <2>4. CASE p \notin Members /\ task[i].attempt # MaxRetries
    <3>1. /\ task' = [task EXCEPT ![i].at = "select", ![i].attempt = t0.attempt + 1]
          /\ batch' = batch
      BY <1>0, <1>1, <1>5, <2>4 DEF UseProvider, AfterError
    <3> DEFINE t == [t0 EXCEPT !.at = "select", !.attempt = t0.attempt + 1]
    <3>2. t \in Task /\ t.at = "select"
      BY AnotherAttempt
    <3>3. task' = [task EXCEPT ![i] = t]
      BY <1>0, <1>1, <3>1
    <3> HIDE DEF t
    <3> QED
      BY <1>1, <2>1, <3>1, <3>2, <3>3, TaskKeeps DEF AtWork
  <2> QED
    BY <2>2, <2>3, <2>4
<1>6. CASE Acquire(i)
  <2>1. /\ t0.at = "acquire" /\ Grown /\ HasRoom(t0.sem) /\ Goes(i, "call")
        /\ UNCHANGED <<member, order, removing, pstats, results, progress, batch, output, cools>>
    BY <1>1, <1>6, SamePstatsGrown DEF Acquire
  <2>2. t0.stats \in 1 .. Len(pstats)
    BY <1>0, <1>1, <2>1 DEF TasksInv
  <2> QED
    BY <1>1, <1>3, <2>1, <2>2, TaskKeeps DEF AtWork
<1>7. CASE Wake(i)
  <2>1. /\ t0.at = "sleep" /\ Grown
        /\ UNCHANGED <<member, order, removing, pstats, results, progress, output, cools>>
    BY <1>1, <1>7, SamePstatsGrown DEF Wake
  <2>2. CASE task[i].attempt = MaxRetries
    <3>1. TaskFails(i)
      BY <1>7, <2>2 DEF Wake
    <3>2. Goes(i, "failed")
      BY <3>1 DEF TaskFails
    <3> QED
      BY <1>1, <1>3, <2>1, <3>1, <3>2, FailedBatch, TaskKeeps DEF AtWork
  <2>3. CASE task[i].attempt # MaxRetries
    <3>1. /\ task' = [task EXCEPT ![i].at = "select", ![i].attempt = t0.attempt + 1]
          /\ batch' = batch
      BY <1>0, <1>1, <1>7, <2>3 DEF Wake
    <3> DEFINE t == [t0 EXCEPT !.at = "select", !.attempt = t0.attempt + 1]
    <3>2. t \in Task /\ t.at = "select"
      BY AnotherAttempt
    <3>3. task' = [task EXCEPT ![i] = t]
      BY <1>0, <1>1, <3>1
    <3> HIDE DEF t
    <3> QED
      BY <1>1, <2>1, <3>1, <3>2, <3>3, TaskKeeps DEF AtWork
  <2> QED
    BY <2>2, <2>3
<1>8. ASSUME NEW ending \in {"limit", "timeout", "error"}, RequestAgain(i, ending) PROVE PoolInv'
  <2>1. /\ t0.at = "call" /\ Grown
        /\ task' = [task EXCEPT ![i].tries = t0.tries + 1]
        /\ UNCHANGED <<member, order, removing, pstats, results, progress, batch, output, cools>>
    BY <1>0, <1>1, <1>8, SamePstatsGrown DEF RequestAgain
  <2>2. t0.stats \in 1 .. Len(pstats)
    BY <1>0, <1>1, <2>1 DEF TasksInv
  <2> DEFINE t == [t0 EXCEPT !.tries = t0.tries + 1]
  <2>3. t \in Task /\ t.at = "call" /\ t.sem = t0.sem /\ t.stats = t0.stats
    BY <2>1 DEF Task
  <2>4. task' = [task EXCEPT ![i] = t]
    BY <1>0, <1>1, <2>1
  <2> HIDE DEF t
  <2> QED
    BY <1>1, <2>1, <2>2, <2>3, <2>4, TaskKeeps DEF AtWork
<1> QED
  BY <1>2, <1>4, <1>5, <1>6, <1>7, <1>8

LEMMA CallFailsKept ==
  ASSUME PoolInv, NEW i \in Chunks, NEW ending, CallFails(i, ending)
  PROVE  PoolInv'
<1>0. /\ Typed /\ task \in [Chunks -> Task] /\ TasksInv /\ pstats \in Seq(Stats)
      /\ MaxRetries \in Nat /\ CoolAfter \in Nat
  BY PoolAssumption DEF PoolInv, Typed
<1>1. PICK t0 \in Task : t0 = task[i]
  BY <1>0
<1>2. /\ t0.at = "call" /\ AfterError(i, Reveals(KindOf[t0.id], ending))
      /\ UNCHANGED <<member, order, removing, results, progress, output, cools>>
  BY <1>1 DEF CallFails
<1>3. PICK k \in 1 .. Len(pstats) : k = t0.stats
  BY <1>0, <1>1, <1>2 DEF TasksInv
<1>4. PICK s \in Stats : s = pstats[k]
  BY <1>0
<1>5. pstats' = [pstats EXCEPT ![k] = Failed(s)]
  BY <1>0, <1>1, <1>3, <1>4 DEF CallFails
<1>6. Failed(s) \in Stats /\ Failed(s).ok = s.ok
  <2>1. s.failed + 1 \in Nat /\ s.row + 1 \in Nat /\ (s.cooling \/ s.row + 1 >= CoolAfter) \in BOOLEAN
    BY DEF Stats
  <2> QED
    BY <2>1 DEF Failed, Stats
<1>7. Grown
  BY <1>0, <1>3, <1>4, <1>5, <1>6 DEF Grown
<1>8. CASE Goes(i, "sleep") /\ batch' = batch
  <2> DEFINE t == [t0 EXCEPT !.at = "sleep"]
  <2>1. t \in Task /\ t.at = "sleep" /\ task' = [task EXCEPT ![i] = t]
    BY <1>0, <1>1, <1>8 DEF Goes, Task, Steps
  <2> HIDE DEF t
  <2> QED
    BY <1>1, <1>2, <1>7, <1>8, <2>1, TaskKeeps DEF AtWork
<1>9. CASE TaskFails(i)
  <2> DEFINE t == [t0 EXCEPT !.at = "failed"]
  <2>1. t \in Task /\ t.at = "failed" /\ task' = [task EXCEPT ![i] = t]
    BY <1>0, <1>1, <1>9 DEF TaskFails, Goes, Task, Steps
  <2> HIDE DEF t
  <2> QED
    BY <1>1, <1>2, <1>7, <1>9, <2>1, FailedBatch, TaskKeeps DEF AtWork
<1>10. CASE /\ task' = [task EXCEPT ![i].at = "select", ![i].attempt = t0.attempt + 1]
            /\ batch' = batch
  <2> DEFINE t == [t0 EXCEPT !.at = "select", !.attempt = t0.attempt + 1]
  <2>1. t \in Task /\ t.at = "select"
    BY AnotherAttempt
  <2>2. task' = [task EXCEPT ![i] = t]
    BY <1>0, <1>1, <1>10
  <2> HIDE DEF t
  <2> QED
    BY <1>1, <1>2, <1>7, <1>10, <2>1, <2>2, TaskKeeps DEF AtWork
<1> QED
  BY <1>0, <1>1, <1>2, <1>8, <1>9, <1>10 DEF AfterError

\* An answer is one more success, one more done and one more told.
LEMMA CallAnswersKept ==
  ASSUME PoolInv, NEW i \in Chunks, NEW ending \in PoolReplies, CallAnswers(i, ending)
  PROVE  PoolInv'
<1>0. /\ Typed /\ MembersTyped /\ TasksInv /\ AnswersInv /\ BatchInv /\ LimitsInv /\ CountInv
      /\ task \in [Chunks -> Task] /\ pstats \in Seq(Stats) /\ progress \in Nat
      /\ PerProvider \in Nat /\ batch.slots \in Nat /\ i \in Nat /\ results \in [Chunks -> Answer]
  BY ChunksFinite, PoolAssumption DEF PoolInv, Typed
<1>1. PICK t0 \in Task : t0 = task[i]
  BY <1>0
<1>2. /\ t0.at = "call" /\ progress' = progress + 1
      /\ results' = [results EXCEPT ![i] = [by |-> i, reply |-> ending]]
      /\ task' = [task EXCEPT ![i] = [t0 EXCEPT !.at = "done"]]
      /\ UNCHANGED <<member, order, removing, batch, output, cools>>
  BY <1>0, <1>1 DEF CallAnswers, Goes
<1>3. PICK k \in 1 .. Len(pstats) : k = t0.stats
  BY <1>0, <1>1, <1>2 DEF TasksInv
<1>4. PICK s \in Stats : s = pstats[k]
  BY <1>0
<1>5. pstats' = [pstats EXCEPT ![k] = Succeeded(s)]
  BY <1>0, <1>1, <1>3, <1>4 DEF CallAnswers
<1>6. Succeeded(s) \in Stats /\ Succeeded(s).ok = s.ok + 1 /\ s.ok \in Nat
  <2>1. PICK n \in Nat : n = s.ok + 1
    BY DEF Stats
  <2>2. [s EXCEPT !.ok = n, !.row = 0] \in Stats /\ [s EXCEPT !.ok = n, !.row = 0].ok = n
    BY DEF Stats
  <2> QED
    BY <2>1, <2>2 DEF Succeeded, Stats
<1>7. /\ pstats' \in Seq(Stats) /\ Len(pstats') = Len(pstats) /\ pstats'[k].ok = s.ok + 1
      /\ \A j \in 1 .. Len(pstats) : j # k => pstats'[j] = pstats[j]
  BY <1>0, <1>5, <1>6
<1>8. /\ task' \in [Chunks -> Task] /\ task'[i].at = "done"
      /\ \A j \in Chunks : j # i => task'[j] = task[j]
  <2>1. [t0 EXCEPT !.at = "done"] \in Task /\ [t0 EXCEPT !.at = "done"].at = "done"
    BY DEF Task, Steps
  <2> QED
    BY <1>0, <1>2, <2>1
<1>9. Typed'
  <2>1. [by |-> i, reply |-> ending] \in Answer
    BY <1>0 DEF Answer
  <2>2. results' \in [Chunks -> Answer]
    BY <1>0, <1>2, <2>1
  <2> QED
    BY <1>0, <1>2, <1>7, <1>8, <2>2 DEF Typed
<1>10. MembersTyped'
  BY <1>0, <1>2, <1>7 DEF MembersTyped
<1>11. TasksInv'
  BY <1>0, <1>7, <1>8 DEF TasksInv
<1>12. AnswersInv'
  <2>1. results'[i] \in [by : {i}, reply : PoolReplies] /\ \A j \in Chunks : j # i => results'[j] = results[j]
    BY <1>0, <1>2
  <2> QED
    BY <1>0, <1>8, <2>1 DEF AnswersInv
<1>13. BatchInv'
  <2>1. batch.state \notin {"idle", "returned"}
    BY <1>0, <1>1, <1>2 DEF BatchInv
  <2>2. \A j \in Chunks : task'[j].at # "new"
    BY <1>0, <1>8, <2>1 DEF BatchInv
  <2> QED
    BY <1>2, <2>1, <2>2 DEF BatchInv
<1>14. LimitsInv'
  <2>1. ASSUME NEW n \in Nat PROVE Cardinality(Users(n)') <= PerProvider
    <3>1. Users(n) \subseteq Chunks /\ Users(n)' \subseteq Users(n)
      BY <1>8 DEF Users
    <3>2. Cardinality(Users(n)') <= Cardinality(Users(n)) /\ Cardinality(Users(n)') \in Nat
      BY <3>1, ChunkSets, FS_Subset
    <3> QED
      BY <1>0, <3>1, <3>2, ChunkSets DEF LimitsInv
  <2>2. Active \subseteq Chunks /\ Active' \subseteq Active
    BY <1>8 DEF Active
  <2>3. Cardinality(Active') <= Cardinality(Active) /\ Cardinality(Active') \in Nat
    BY <2>2, ChunkSets, FS_Subset
  <2>4. Cardinality(Active') <= batch'.slots
    BY <1>0, <1>2, <2>2, <2>3, ChunkSets DEF LimitsInv
  <2> QED
    BY <2>1, <2>4 DEF LimitsInv
<1>15. CountInv'
  <2>1. Done' = Done \cup {i} /\ i \notin Done /\ Done \subseteq Chunks
    BY <1>1, <1>2, <1>8 DEF Done
  <2>2. Cardinality(Done') = Cardinality(Done) + 1
    BY <2>1, ChunkSets, FS_AddElement
  <2>3. Successes = UNION {{j} \X (1 .. pstats[j].ok) : j \in 1 .. Len(pstats)}
    BY <1>0 DEF Successes
  <2>4. Successes' = UNION {{j} \X (1 .. pstats'[j].ok) : j \in 1 .. Len(pstats)}
    BY <1>7 DEF Successes
  <2>5. 1 .. s.ok + 1 = (1 .. s.ok) \cup {s.ok + 1}
    BY <1>6
  <2>6. <<k, s.ok + 1>> \notin Successes
    <3>1. s.ok + 1 \notin 1 .. s.ok
      BY <1>6
    <3> QED
      BY <1>4, <2>3, <3>1
  <2>7. Successes' = Successes \cup {<<k, s.ok + 1>>}
    <3>1. ASSUME NEW x \in Successes' PROVE x \in Successes \cup {<<k, s.ok + 1>>}
      <4>1. PICK j \in 1 .. Len(pstats) : x \in {j} \X (1 .. pstats'[j].ok)
        BY <2>4
      <4>2. CASE j = k
        BY <1>4, <1>7, <2>3, <2>5, <4>1, <4>2
      <4>3. CASE j # k
        BY <1>7, <2>3, <4>1, <4>3
      <4> QED
        BY <4>2, <4>3
    <3>2. ASSUME NEW x \in Successes PROVE x \in Successes'
      <4>1. PICK j \in 1 .. Len(pstats) : x \in {j} \X (1 .. pstats[j].ok)
        BY <2>3
      <4>2. CASE j = k
        BY <1>4, <1>7, <2>4, <2>5, <4>1, <4>2
      <4>3. CASE j # k
        BY <1>7, <2>4, <4>1, <4>3
      <4> QED
        BY <4>2, <4>3
    <3>3. <<k, s.ok + 1>> \in Successes'
      BY <1>7, <2>4, <2>5
    <3> QED
      BY <3>1, <3>2, <3>3
  <2>8. IsFiniteSet(Successes') /\ Cardinality(Successes') = Cardinality(Successes) + 1
    BY <1>0, <2>6, <2>7, FS_AddElement DEF CountInv
  <2> QED
    BY <1>0, <1>2, <2>2, <2>8 DEF CountInv
<1> QED
  BY <1>9, <1>10, <1>11, <1>12, <1>13, <1>14, <1>15 DEF PoolInv

LEMMA GatherEndsKept ==
  ASSUME PoolInv, GatherEnds
  PROVE  PoolInv'
<1>0. /\ Typed /\ MembersTyped /\ TasksInv /\ AnswersInv /\ BatchInv /\ LimitsInv /\ CountInv
  BY DEF PoolInv
<1>1. /\ batch.state = "running" /\ \A i \in Chunks : task[i].at = "done"
      /\ batch' = [batch EXCEPT !.state = "returned"] /\ output' = Assembled(Responses)
      /\ UNCHANGED <<member, order, removing, pstats, task, results, progress, cools>>
  BY DEF GatherEnds
<1>2. batch' \in [state : {"returned"}, slots : {batch.slots}]
  BY <1>0, <1>1 DEF Typed
<1>3. Typed' /\ MembersTyped' /\ TasksInv' /\ AnswersInv'
  BY <1>0, <1>1, <1>2 DEF Typed, MembersTyped, TasksInv, AnswersInv
<1>4. BatchInv'
  <2>1. Assembled(Responses)' = Assembled(Responses)
    BY <1>1 DEF Responses
  <2> QED
    BY <1>1, <1>2, <2>1 DEF BatchInv
<1>5. LimitsInv'
  BY <1>0, <1>1, <1>2 DEF LimitsInv, Users, Active
<1>6. CountInv'
  BY <1>0, <1>1 DEF CountInv, Successes, Done
<1> QED
  BY <1>3, <1>4, <1>5, <1>6 DEF PoolInv

LEMMA PoolStutterKept ==
  ASSUME PoolInv, UNCHANGED poolVars
  PROVE  PoolInv'
<1>1. Assembled(Responses)' = Assembled(Responses)
  BY DEF poolVars, Responses
<1> QED
  BY <1>1 DEF PoolInv, Typed, MembersTyped, TasksInv, AnswersInv, BatchInv, LimitsInv, CountInv,
     poolVars, Users, Active, Successes, Done

\* Whatever the pool hands out and whichever tasks fail (llm/pool.py, llm/batching.py),
\* every batch under way accounts for its texts and every answer comes from its own chunk.
THEOREM PoolHolds == PoolSpec => []PoolInv
<1>1. PoolInit => PoolInv
  BY PoolStarts
<1>2. PoolInv /\ [PoolNext]_poolVars => PoolInv'
  BY MembersKept, ResetPoolStatsKept, CooldownsKept, GenerateBatchKept, TaskStepKept, CallFailsKept,
     CallAnswersKept, GatherEndsKept, PoolStutterKept DEF PoolNext, TaskStep
<1> QED
  BY <1>1, <1>2, PTL DEF PoolSpec

-----------------------------------------------------------------------------
(* The texts of a batch *)

\* How the texts fall into chunks.
LEMMA ChunkBounds ==
  ASSUME NEW n \in Nat, n = (TextCount + ChunkSize - 1) \div ChunkSize
  PROVE  /\ n >= 1
         /\ (n - 1) * ChunkSize < TextCount
         /\ TextCount <= n * ChunkSize
         /\ \A c \in 1 .. n - 1 : c * ChunkSize <= (n - 1) * ChunkSize
<1>1. TextCount \in Nat \ {0} /\ ChunkSize \in Nat \ {0}
  BY PoolAssumption
<1>2. PICK a \in Nat, s \in Nat \ {0} : a = TextCount + ChunkSize - 1 /\ s = ChunkSize
  BY <1>1
<1>3. n = a \div s
  BY <1>2
<1>4. n * s <= a /\ a < (n + 1) * s
  BY <1>2, <1>3
<1>5. (n + 1) * s = n * s + s /\ n * s \in Nat
  BY <1>2
<1>6. n >= 1
  BY <1>1, <1>2, <1>4, <1>5
<1>7. (n - 1) * s = n * s - s
  BY <1>2
<1>8. \A c \in 1 .. n - 1 : c * s <= (n - 1) * s
  BY <1>2
<1> QED
  BY <1>1, <1>2, <1>4, <1>5, <1>6, <1>7, <1>8

\* Answers that are all there are paired with their own chunks.
LEMMA AllRespond ==
  ASSUME NEW n \in Nat \ {0}, Chunks = 1 .. n, results \in [Chunks -> Answer],
         \A i \in Chunks : results[i].reply # "nothing"
  PROVE  Responses \in Seq(Answer) /\ Len(Responses) = n /\ \A i \in 1 .. n : Responses[i] = results[i]
<1> DEFINE seqs == [i \in 1 .. n |-> IF results[i].reply = "nothing" THEN <<>> ELSE <<results[i]>>]
           off  == [c \in 0 .. n |-> c]
<1>1. \A i \in 1 .. n : seqs[i] = <<results[i]>> /\ results[i] \in Answer
  OBVIOUS
<1>2. seqs \in [1 .. n -> Seq(Answer)]
  BY <1>1
<1>3. Responses = FlattenSeq(seqs)
  BY DEF Responses
<1> HIDE DEF seqs
<1>4. seqs \in Seq(Seq(Answer)) /\ Len(seqs) = n
  BY <1>2
<1>5. ASSUME NEW i \in 1 .. n PROVE Len(seqs[i]) = 1 /\ seqs[i][1] = results[i]
  <2>1. PICK r \in Answer : r = results[i] /\ seqs[i] = <<r>>
    BY <1>1
  <2> QED
    BY <2>1
<1>6. off \in [0 .. n -> Nat] /\ off[0] = 0 /\ off[n] = n
  OBVIOUS
<1>7. ASSUME NEW c \in 1 .. n PROVE off[c] = off[c - 1] + Len(seqs[c]) /\ off[c - 1] = c - 1
  <2>1. Len(seqs[c]) = 1
    BY <1>5
  <2>2. off[c] = c /\ off[c - 1] = c - 1
    OBVIOUS
  <2> QED
    BY <2>1, <2>2
<1> HIDE DEF off
<1>8. /\ FlattenSeq(seqs) \in Seq(Answer) /\ Len(FlattenSeq(seqs)) = n
      /\ \A p \in 1 .. n : \E k \in 1 .. n : \E j \in 1 .. Len(seqs[k]) :
           p = off[k - 1] + j /\ FlattenSeq(seqs)[p] = seqs[k][j]
  <2>1. \A c \in 1 .. n : off[c] = off[c - 1] + Len(seqs[c])
    BY <1>7
  <2>2. FlattenSeq(seqs) \in Seq(Answer) /\ InPlace(FlattenSeq(seqs), seqs, off, n)
    BY <1>4, <1>6, <2>1, FlattenedPlaces
  <2> QED
    BY <1>6, <2>2 DEF InPlace
<1>9. ASSUME NEW p \in 1 .. n PROVE FlattenSeq(seqs)[p] = results[p]
  <2>0. PICK k \in 1 .. n :
          \E j \in 1 .. Len(seqs[k]) : p = off[k - 1] + j /\ FlattenSeq(seqs)[p] = seqs[k][j]
    BY <1>8
  <2>1. PICK j \in 1 .. Len(seqs[k]) : p = off[k - 1] + j /\ FlattenSeq(seqs)[p] = seqs[k][j]
    BY <2>0
  <2>2. j = 1
    <3>1. Len(seqs[k]) = 1
      BY <1>5
    <3> QED
      BY <3>1
  <2>3. p = k
    BY <1>7, <2>1, <2>2
  <2> QED
    BY <1>5, <2>1, <2>2, <2>3
<1> QED
  BY <1>3, <1>8, <1>9

\* One text of chunk c, translated or not.
Piece == [text : Nat, by : Nat]

LEMMA ChunkResultIs ==
  ASSUME NEW n \in Nat, n = (TextCount + ChunkSize - 1) \div ChunkSize,
         NEW c \in 1 .. n, NEW r \in Answer, r.by = c
  PROVE  /\ Len(ChunkTexts(c)) = IF c < n THEN ChunkSize ELSE TextCount - (n - 1) * ChunkSize
         /\ ChunkTexts(c) \in Seq(Nat)
         /\ \A j \in 1 .. Len(ChunkTexts(c)) : ChunkTexts(c)[j] = (c - 1) * ChunkSize + j
         /\ ChunkResult(r, ChunkTexts(c)) \in Seq(Piece)
         /\ Len(ChunkResult(r, ChunkTexts(c))) = Len(ChunkTexts(c))
         /\ \A j \in 1 .. Len(ChunkTexts(c)) :
              /\ ChunkResult(r, ChunkTexts(c))[j].text = ChunkTexts(c)[j]
              /\ ChunkResult(r, ChunkTexts(c))[j].by \in {0, c}
<1> DEFINE texts == ChunkTexts(c)
           out   == ChunkResult(r, texts)
<1>1. TextCount \in Nat \ {0} /\ ChunkSize \in Nat \ {0} /\ c \in Nat \ {0}
  BY PoolAssumption
<1>2. PICK o \in Nat : o = (c - 1) * ChunkSize
  BY <1>1
<1>3. PICK m \in Nat : m = Min({ChunkSize, TextCount - o})
                       /\ m = IF c < n THEN ChunkSize ELSE TextCount - (n - 1) * ChunkSize
  <2>1. /\ (n - 1) * ChunkSize < TextCount /\ TextCount <= n * ChunkSize
        /\ \A d \in 1 .. n - 1 : d * ChunkSize <= (n - 1) * ChunkSize
    BY ChunkBounds
  <2>2. c * ChunkSize = o + ChunkSize /\ c * ChunkSize \in Nat
    BY <1>1, <1>2
  <2>3. (n - 1) * ChunkSize \in Int
    BY <1>1
  <2>4. CASE c < n
    <3>1. c * ChunkSize < TextCount
      BY <1>1, <2>1, <2>2, <2>3, <2>4
    <3>2. ChunkSize <= TextCount - o
      BY <1>1, <1>2, <2>2, <3>1
    <3>3. Min({ChunkSize, TextCount - o}) = ChunkSize
      BY <1>1, <1>2, <3>2 DEF Min
    <3> QED
      BY <1>1, <2>4, <3>3
  <2>5. CASE ~(c < n)
    <3>1. c = n
      BY <2>5
    <3>2. TextCount - o <= ChunkSize /\ TextCount - o \in Nat
      BY <1>1, <1>2, <2>1, <2>2, <3>1
    <3>3. Min({ChunkSize, TextCount - o}) = TextCount - o
      BY <1>1, <3>2 DEF Min
    <3> QED
      BY <1>2, <2>5, <3>1, <3>2, <3>3
  <2> QED
    BY <2>4, <2>5
<1>4. texts = [j \in 1 .. m |-> o + j]
  BY <1>2, <1>3 DEF ChunkTexts
<1>5. texts \in Seq(Nat) /\ Len(texts) = m /\ DOMAIN texts = 1 .. m /\ \A j \in 1 .. m : texts[j] = o + j
  BY <1>4
<1> HIDE DEF texts
<1>6. \/ out = [j \in 1 .. m |-> [text |-> texts[j], by |-> c]]
      \/ out = [j \in 1 .. m |-> [text |-> texts[j], by |-> 0]]
  BY <1>5 DEF ChunkResult, ParseJsonArray
<1>7. PICK b \in {0, c} : out = [j \in 1 .. m |-> [text |-> texts[j], by |-> b]]
  BY <1>6
<1> HIDE DEF out
<1>8. \A j \in 1 .. m : out[j] = [text |-> texts[j], by |-> b] /\ out[j] \in Piece
  BY <1>5, <1>7 DEF Piece
<1>9. out \in Seq(Piece) /\ Len(out) = m
  BY <1>7, <1>8
<1>10. ASSUME NEW j \in 1 .. m PROVE out[j].text = texts[j] /\ out[j].by = b
  <2>1. out[j] = [text |-> texts[j], by |-> b]
    BY <1>8
  <2> QED
    BY ONLY <2>1
<1>11. \A j \in 1 .. Len(texts) : texts[j] = (c - 1) * ChunkSize + j
  BY <1>2, <1>5
<1>12. \A j \in 1 .. Len(texts) : out[j].text = texts[j] /\ out[j].by \in {0, c}
  BY <1>5, <1>10
<1>13. Len(texts) = IF c < n THEN ChunkSize ELSE TextCount - (n - 1) * ChunkSize
  BY <1>3, <1>5
<1>14. Len(out) = Len(texts)
  BY <1>5, <1>9
<1> USE DEF texts, out
<1> QED
  BY ONLY <1>5, <1>9, <1>11, <1>12, <1>13, <1>14

\* There is one text for each text, in their order, each from its own chunk.
LEMMA AssembledInPlace ==
  ASSUME results \in [Chunks -> Answer],
         \A i \in Chunks : results[i].reply # "nothing" /\ results[i].by = i
  PROVE  /\ Len(Assembled(Responses)) = TextCount
         /\ \A p \in 1 .. TextCount :
              /\ Assembled(Responses)[p].text = p
              /\ Assembled(Responses)[p].by # 0 => p \in Range(ChunkTexts(Assembled(Responses)[p].by))
<1>1. PICK n \in Nat : n = (TextCount + ChunkSize - 1) \div ChunkSize
  BY ChunksFinite
<1>2. n \in Nat \ {0} /\ Chunks = 1 .. n /\ TextCount \in Nat /\ ChunkSize \in Nat
  BY <1>1, ChunkBounds, PoolAssumption DEF Chunks
<1>3. Responses \in Seq(Answer) /\ Len(Responses) = n /\ \A i \in 1 .. n : Responses[i] = results[i]
  BY <1>2, AllRespond
<1> DEFINE seqs == [c \in 1 .. n |-> ChunkResult(Responses[c], ChunkTexts(c))]
           off  == [c \in 0 .. n |-> IF c < n THEN c * ChunkSize ELSE TextCount]
           out  == FlattenSeq(seqs)
<1>4. Assembled(Responses) = out
  <2>1. DOMAIN Responses = 1 .. n
    BY <1>3
  <2> QED
    BY <2>1 DEF Assembled
<1>5. ASSUME NEW c \in 1 .. n
      PROVE  /\ Len(ChunkTexts(c)) = IF c < n THEN ChunkSize ELSE TextCount - (n - 1) * ChunkSize
             /\ ChunkTexts(c) \in Seq(Nat)
             /\ \A j \in 1 .. Len(ChunkTexts(c)) : ChunkTexts(c)[j] = (c - 1) * ChunkSize + j
             /\ seqs[c] \in Seq(Piece) /\ Len(seqs[c]) = Len(ChunkTexts(c))
             /\ \A j \in 1 .. Len(ChunkTexts(c)) :
                  seqs[c][j].text = ChunkTexts(c)[j] /\ seqs[c][j].by \in {0, c}
  <2>1. Responses[c] \in Answer /\ Responses[c].by = c
    BY <1>2, <1>3
  <2>2. seqs[c] = ChunkResult(Responses[c], ChunkTexts(c))
    OBVIOUS
  <2> HIDE DEF seqs
  <2> QED
    BY SMTT(30), <1>1, <2>1, <2>2, ChunkResultIs
<1>6. seqs \in Seq(Seq(Piece)) /\ Len(seqs) = n
  BY <1>2, <1>5
<1> HIDE DEF seqs
<1>7. off \in [0 .. n -> Nat] /\ off[0] = 0 /\ off[n] = TextCount
  <2>1. \A c \in 0 .. n : c * ChunkSize \in Nat
    BY <1>2
  <2>2. 0 * ChunkSize = 0
    BY <1>2
  <2> QED
    BY <1>2, <2>1, <2>2
<1>8. ASSUME NEW c \in 1 .. n
      PROVE  off[c] = off[c - 1] + Len(seqs[c]) /\ off[c - 1] = (c - 1) * ChunkSize
  <2>1. off[c - 1] = (c - 1) * ChunkSize
    BY <1>2
  <2>2. c * ChunkSize = (c - 1) * ChunkSize + ChunkSize
    BY <1>2
  <2>3. off[c] = IF c < n THEN c * ChunkSize ELSE TextCount
    BY <1>2
  <2>4. Len(seqs[c]) = IF c < n THEN ChunkSize ELSE TextCount - (n - 1) * ChunkSize
    BY <1>5
  <2>5. (n - 1) * ChunkSize \in Int /\ (c - 1) * ChunkSize \in Int
    BY <1>2
  <2> HIDE DEF off
  <2>6. CASE c < n
    BY <1>2, <2>1, <2>2, <2>3, <2>4, <2>5, <2>6
  <2>7. CASE ~(c < n)
    <3>1. c = n
      BY <2>7
    <3> QED
      BY <1>2, <2>1, <2>3, <2>4, <2>5, <3>1
  <2> QED
    BY <2>1, <2>6, <2>7
<1> HIDE DEF off
<1>9. /\ Len(out) = TextCount
      /\ \A p \in 1 .. TextCount : \E k \in 1 .. n : \E j \in 1 .. Len(seqs[k]) :
           p = off[k - 1] + j /\ out[p] = seqs[k][j]
  <2>1. \A c \in 1 .. n : off[c] = off[c - 1] + Len(seqs[c])
    BY <1>8
  <2>2. InPlace(FlattenSeq(seqs), seqs, off, n)
    BY <1>2, <1>6, <1>7, <2>1, FlattenedPlaces
  <2> QED
    BY <1>7, <2>2 DEF InPlace
<1> HIDE DEF out
<1>10. ASSUME NEW p \in 1 .. TextCount
       PROVE  out[p].text = p /\ (out[p].by # 0 => p \in Range(ChunkTexts(out[p].by)))
  <2>0. PICK k \in 1 .. n : \E j \in 1 .. Len(seqs[k]) : p = off[k - 1] + j /\ out[p] = seqs[k][j]
    BY <1>9
  <2>1. PICK j \in 1 .. Len(seqs[k]) : p = off[k - 1] + j /\ out[p] = seqs[k][j]
    BY <2>0
  <2>2. j \in 1 .. Len(ChunkTexts(k)) /\ ChunkTexts(k)[j] = p
    BY <1>5, <1>8, <2>1
  <2>3. out[p].text = p /\ out[p].by \in {0, k}
    BY <1>5, <2>1, <2>2
  <2>4. p \in Range(ChunkTexts(k))
    BY <1>5, <2>2 DEF Range
  <2> QED
    BY <2>3, <2>4
<1> QED
  BY <1>4, <1>9, <1>10

-----------------------------------------------------------------------------

\* Semaphores and the batch's own limit hold, every answer is counted once, and the
\* texts of generate_batch and translate_texts_chunked stay with their chunks, for any
\* chunk size: whatever tasks, retries and operators interleave.
THEOREM BatchesSound == PoolSpec => []BatchSound
<1>1. PoolInv => ConcurrencyBounded
  BY DEF PoolInv, Typed, LimitsInv, ConcurrencyBounded
<1>2. PoolInv => AnswersCounted
  BY DEF PoolInv, CountInv, AnswersCounted, Done
<1>3. PoolInv => TextsInPlace
  <2> SUFFICES ASSUME PoolInv, batch.state = "returned", \A i \in Chunks : results[i].reply # "nothing"
               PROVE  /\ progress = Cardinality(Chunks)
                      /\ Len(output) = TextCount
                      /\ \A j \in 1 .. TextCount :
                           output[j].text = j /\ (output[j].by # 0 => j \in Range(ChunkTexts(output[j].by)))
    BY DEF TextsInPlace
  <2>1. /\ \A i \in Chunks : task[i].at = "done"
        /\ output = Assembled(Responses) /\ results \in [Chunks -> Answer]
    BY DEF PoolInv, BatchInv, Typed
  <2>2. \A i \in Chunks : results[i].by = i
    BY <2>1 DEF PoolInv, AnswersInv
  <2>3. Done = Chunks
    BY <2>1 DEF Done
  <2>4. progress = Cardinality(Chunks)
    BY <2>3 DEF PoolInv, CountInv
  <2> QED
    BY <2>1, <2>2, <2>4, AssembledInPlace
<1> QED
  BY <1>1, <1>2, <1>3, PoolHolds, PTL DEF BatchSound

-----------------------------------------------------------------------------
(* Turns and attempts *)

\* only an id that was taken out of the dictionaries has a turn and no provider
TurnsInv ==
  /\ order \in Seq(PoolIds) /\ removing \subseteq PoolIds
  /\ Range(order) = Members \cup removing
  /\ \A p \in removing : p \notin Members /\ removing = {p}

AttemptsInv ==
  \A i \in Chunks : task[i].attempt \in 1 .. MaxRetries /\ task[i].tries \in 1 .. ProviderTries

LEMMA AddedTurn ==
  ASSUME PoolInv, TurnsInv, NEW p \in PoolIds, AddProvider(p)
  PROVE  TurnsInv'
<1>1. /\ removing = {} /\ removing' = {} /\ order' = Append(order, p)
      /\ member' = [member EXCEPT ![p] = [sem |-> Len(pstats'), stats |-> Len(pstats')]]
      /\ pstats' = Append(pstats, NewStats)
  BY DEF AddProvider
<1>2. pstats \in Seq(Stats) /\ member \in [PoolIds -> [sem : Nat, stats : Nat]] /\ order \in Seq(PoolIds)
  BY DEF PoolInv, Typed, MembersTyped, TurnsInv
<1>3. Len(pstats') = Len(pstats) + 1 /\ Len(pstats) \in Nat
  BY <1>1, <1>2
<1>4. Members' = Members \cup {p}
  <2>1. member'[p] = [sem |-> Len(pstats) + 1, stats |-> Len(pstats) + 1]
        /\ \A q \in PoolIds : q # p => member'[q] = member[q]
    BY <1>1, <1>2, <1>3
  <2>2. member'[p] # NotMember
    BY <1>3, <2>1 DEF NotMember
  <2> QED
    BY <2>1, <2>2 DEF Members
<1>5. order' \in Seq(PoolIds) /\ Range(order') = Range(order) \cup {p}
  <2>1. /\ order' \in Seq(PoolIds) /\ DOMAIN order' = 1 .. Len(order) + 1 /\ DOMAIN order = 1 .. Len(order)
        /\ Len(order) \in Nat /\ order'[Len(order) + 1] = p
        /\ \A k \in 1 .. Len(order) : order'[k] = order[k]
    BY <1>1, <1>2
  <2>2. 1 .. Len(order) + 1 = (1 .. Len(order)) \cup {Len(order) + 1}
    BY <2>1
  <2> QED
    BY <2>1, <2>2 DEF Range
<1> QED
  BY <1>1, <1>4, <1>5 DEF TurnsInv

LEMMA RemovedTurn ==
  ASSUME PoolInv, TurnsInv, NEW p \in PoolIds, RemoveProvider(p)
  PROVE  TurnsInv'
<1>1. /\ removing = {} /\ p \in Members /\ removing' = {p} /\ order' = order
      /\ member' = [member EXCEPT ![p] = NotMember]
  BY DEF RemoveProvider
<1>2. member \in [PoolIds -> [sem : Nat, stats : Nat]]
  BY DEF PoolInv, MembersTyped
<1>3. Members' = Members \ {p}
  BY <1>1, <1>2 DEF Members
<1> QED
  BY <1>1, <1>3 DEF TurnsInv

LEMMA ForgottenTurn ==
  ASSUME TurnsInv, NEW p \in PoolIds, ForgetOrder(p)
  PROVE  TurnsInv'
<1> DEFINE pieces == [k \in DOMAIN order |-> IF order[k] = p THEN <<>> ELSE <<order[k]>>]
<1>1. /\ removing = {p} /\ p \notin Members /\ removing' = {} /\ Members' = Members
      /\ order' = FlattenSeq(pieces)
  BY DEF ForgetOrder, TurnsInv, Members
<1>2. PICK m \in Nat : m = Len(order) /\ DOMAIN order = 1 .. m /\ \A k \in 1 .. m : order[k] \in PoolIds
  BY DEF TurnsInv
<1>3. DOMAIN pieces = 1 .. m
  BY <1>2
<1>4. ASSUME NEW k \in 1 .. m
      PROVE  /\ pieces[k] \in Seq(PoolIds)
             /\ Range(pieces[k]) = {order[k]} \ {p}
  <2>1. PICK q \in PoolIds : q = order[k]
    BY <1>2
  <2>2. CASE q = p
    <3>1. pieces[k] = <<>>
      BY <1>2, <2>1, <2>2
    <3>2. <<>> \in Seq(PoolIds) /\ DOMAIN <<>> = {}
      OBVIOUS
    <3> QED
      BY <2>1, <2>2, <3>1, <3>2 DEF Range
  <2>3. CASE q # p
    <3>1. pieces[k] = <<q>>
      BY <1>2, <2>1, <2>3
    <3>2. <<q>> \in Seq(PoolIds) /\ DOMAIN <<q>> = {1} /\ <<q>>[1] = q
      OBVIOUS
    <3> QED
      BY <2>1, <2>3, <3>1, <3>2 DEF Range
  <2> QED
    BY <2>2, <2>3
<1>5. pieces \in Seq(Seq(PoolIds))
  BY <1>2, <1>3, <1>4
<1> HIDE DEF pieces
<1>6. order' \in Seq(PoolIds) /\ Range(order') = UNION {Range(pieces[k]) : k \in 1 .. m}
  BY <1>1, <1>3, <1>5, FlattenedElements
<1>7. Range(order) = {order[k] : k \in 1 .. m}
  BY <1>2 DEF Range
<1>8. UNION {Range(pieces[k]) : k \in 1 .. m} = Range(order) \ {p}
  <2>1. ASSUME NEW x \in Range(order) \ {p} PROVE \E k \in 1 .. m : x \in Range(pieces[k])
    <3>1. PICK k \in 1 .. m : x = order[k]
      BY <1>7
    <3> QED
      BY <1>4, <3>1
  <2>2. ASSUME NEW k \in 1 .. m, NEW x \in Range(pieces[k]) PROVE x \in Range(order) \ {p}
    BY <1>4, <1>7
  <2> QED
    BY <2>1, <2>2
<1> QED
  BY <1>1, <1>6, <1>8 DEF TurnsInv

LEMMA SelectedTurn ==
  ASSUME TurnsInv, NEW i \in Chunks, SelectProvider(i)
  PROVE  TurnsInv'
<1>1. Members' = Members /\ removing' = removing
  BY DEF SelectProvider, Members
<1>2. CASE order' = order
  BY <1>1, <1>2 DEF TurnsInv
<1>3. CASE order' # order
  <2>1. order' = Append(Tail(order), Head(order)) /\ \E q \in Range(order) : TRUE
    BY <1>3 DEF SelectProvider
  <2>2. PICK n \in Nat : n = Len(order) /\ n # 0 /\ DOMAIN order = 1 .. n
    BY <2>1 DEF TurnsInv, Range
  <2>3. /\ order' \in Seq(PoolIds) /\ DOMAIN order' = 1 .. n
        /\ \A k \in 1 .. n : order'[k] = IF k = n THEN order[1] ELSE order[k + 1]
    BY <2>1, <2>2 DEF TurnsInv
  <2>4. ASSUME NEW x \in Range(order) PROVE x \in Range(order')
    <3>1. PICK k \in 1 .. n : x = order[k]
      BY <2>2 DEF Range
    <3>2. CASE k = 1
      <4>1. n \in 1 .. n /\ order'[n] = x
        BY <2>2, <2>3, <3>1, <3>2
      <4> QED
        BY <2>3, <4>1 DEF Range
    <3>3. CASE k # 1
      <4>1. k - 1 \in 1 .. n /\ k - 1 # n /\ (k - 1) + 1 = k
        BY <2>2, <3>3
      <4>2. order'[k - 1] = x
        BY <2>3, <3>1, <4>1
      <4> QED
        BY <2>3, <4>1, <4>2 DEF Range
    <3> QED
      BY <3>2, <3>3
  <2>5. ASSUME NEW x \in Range(order') PROVE x \in Range(order)
    <3>1. PICK k \in 1 .. n : x = order'[k]
      BY <2>3 DEF Range
    <3>2. PICK j \in 1 .. n : x = order[j]
      <4>1. CASE k = n
        BY <2>2, <2>3, <3>1, <4>1
      <4>2. CASE k # n
        <5>1. k + 1 \in 1 .. n
          BY <2>2, <4>2
        <5> QED
          BY <2>3, <3>1, <4>2, <5>1
      <4> QED
        BY <4>1, <4>2
    <3> QED
      BY <2>2, <3>2 DEF Range
  <2>6. Range(order') = Range(order)
    BY <2>4, <2>5
  <2> QED
    BY <1>1, <2>3, <2>6 DEF TurnsInv
<1> QED
  BY <1>2, <1>3

LEMMA TurnsKept ==
  ASSUME PoolInv, TurnsInv, [PoolNext]_poolVars
  PROVE  TurnsInv'
<1>1. ASSUME NEW p \in PoolIds, AddProvider(p) \/ RemoveProvider(p) \/ ForgetOrder(p) PROVE TurnsInv'
  BY <1>1, AddedTurn, RemovedTurn, ForgottenTurn
<1>2. ASSUME NEW i \in Chunks, SelectProvider(i) PROVE TurnsInv'
  BY <1>2, SelectedTurn
<1>3. ASSUME ResetPoolStats PROVE TurnsInv'
  <2>1. PICK number \in [Members -> Len(pstats) + 1 .. Len(pstats) + Cardinality(Members)] :
          member' = [p \in PoolIds |-> IF p \in Members
                       THEN [member[p] EXCEPT !.stats = number[p]] ELSE NotMember]
    BY <1>3 DEF ResetPoolStats
  <2>2. pstats \in Seq(Stats) /\ member \in [PoolIds -> [sem : Nat, stats : Nat]] /\ Len(pstats) \in Nat
    BY DEF PoolInv, Typed, MembersTyped
  <2>3. ASSUME NEW p \in PoolIds PROVE member'[p] # NotMember <=> p \in Members
    <3>1. CASE p \in Members
      <4>1. PICK m \in [sem : Nat, stats : Nat] : m = member[p]
        BY <2>2
      <4>2. member'[p] = [m EXCEPT !.stats = number[p]] /\ number[p] >= Len(pstats) + 1 /\ number[p] \in Int
        BY <2>1, <2>2, <3>1, <4>1
      <4>3. member'[p].stats = number[p]
        BY <4>2
      <4>4. number[p] # 0
        BY <2>2, <4>2
      <4> QED
        BY <3>1, <4>3, <4>4 DEF NotMember
    <3>2. CASE p \notin Members
      BY <2>1, <3>2
    <3> QED
      BY <3>1, <3>2
  <2>4. Members' = Members
    BY <2>3 DEF Members
  <2> QED
    BY <1>3, <2>4 DEF ResetPoolStats, TurnsInv
<1>4. ASSUME UNCHANGED <<member, order, removing>> PROVE TurnsInv'
  BY <1>4 DEF TurnsInv, Members
<1>5. ASSUME NEW i \in Chunks, TaskStep(i), ~SelectProvider(i) PROVE UNCHANGED <<member, order, removing>>
  BY <1>5 DEF TaskStep, Enter, UseProvider, Acquire, Wake, RequestAgain, CallFails, CallAnswers
<1> QED
  BY <1>1, <1>2, <1>3, <1>4, <1>5 DEF PoolNext, poolVars, ResetCooldowns, CooldownEnds, GenerateBatch, GatherEnds

\* What a step may do to the attempts of a task: nothing, or one more while there may be.
AttemptsGo(i) ==
  /\ \/ task'[i].attempt = task[i].attempt
     \/ task[i].attempt # MaxRetries /\ task'[i].attempt = task[i].attempt + 1
  /\ \/ task'[i].tries \in {1, task[i].tries}
     \/ task[i].tries < ProviderTries /\ task'[i].tries = task[i].tries + 1

LEMMA AttemptsOfStep ==
  ASSUME PoolInv, NEW i \in Chunks, TaskStep(i)
  PROVE  AttemptsGo(i) /\ \A j \in Chunks : j # i => task'[j] = task[j]
<1>0. task \in [Chunks -> Task]
  BY DEF PoolInv, Typed
<1>1. PICK t \in Task : t = task[i]
  BY <1>0
<1>2. ASSUME NEW at, Goes(i, at) PROVE AttemptsGo(i) /\ \A j \in Chunks : j # i => task'[j] = task[j]
  <2>1. task' = [task EXCEPT ![i] = [t EXCEPT !.at = at]]
    BY <1>0, <1>1, <1>2 DEF Goes
  <2>2. [t EXCEPT !.at = at].attempt = t.attempt /\ [t EXCEPT !.at = at].tries = t.tries
    BY DEF Task
  <2> QED
    BY <1>0, <1>1, <2>1, <2>2 DEF AttemptsGo
<1>3. ASSUME task[i].attempt # MaxRetries,
             task' = [task EXCEPT ![i].at = "select", ![i].attempt = t.attempt + 1]
      PROVE  AttemptsGo(i) /\ \A j \in Chunks : j # i => task'[j] = task[j]
  <2> DEFINE u == [t EXCEPT !.at = "select", !.attempt = t.attempt + 1]
  <2>1. task' = [task EXCEPT ![i] = u]
    BY <1>0, <1>1, <1>3
  <2>2. u.attempt = t.attempt + 1 /\ u.tries = t.tries
    BY DEF Task
  <2> HIDE DEF u
  <2> QED
    BY <1>0, <1>1, <1>3, <2>1, <2>2 DEF AttemptsGo
<1>4. CASE Enter(i) \/ Acquire(i) \/ \E ending \in PoolReplies : CallAnswers(i, ending)
  BY <1>2, <1>4 DEF Enter, Acquire, CallAnswers
<1>5. CASE SelectProvider(i)
  <2>1. CASE TaskFails(i)
    BY <1>2, <2>1 DEF TaskFails
  <2>2. CASE ~TaskFails(i)
    <3>1. PICK k \in DOMAIN order : task' = [task EXCEPT ![i].at = "use", ![i].id = order[k]]
      BY <1>5, <2>2 DEF SelectProvider
    <3> DEFINE u == [t EXCEPT !.at = "use", !.id = order[k]]
    <3>2. task' = [task EXCEPT ![i] = u]
      BY <1>0, <1>1, <3>1
    <3>3. u.attempt = t.attempt /\ u.tries = t.tries
      BY DEF Task
    <3> HIDE DEF u
    <3> QED
      BY <1>0, <1>1, <3>2, <3>3 DEF AttemptsGo
  <2> QED
    BY <2>1, <2>2
<1>6. ASSUME NEW limit, AfterError(i, limit)
      PROVE  AttemptsGo(i) /\ \A j \in Chunks : j # i => task'[j] = task[j]
  <2>1. CASE Goes(i, "sleep") \/ TaskFails(i)
    BY <1>2, <2>1 DEF TaskFails
  <2>2. CASE ~(Goes(i, "sleep") \/ TaskFails(i))
    <3>1. task[i].attempt # MaxRetries
          /\ task' = [task EXCEPT ![i].at = "select", ![i].attempt = t.attempt + 1]
      BY <1>0, <1>1, <1>6, <2>2 DEF AfterError
    <3> QED
      BY <1>3, <3>1
  <2> QED
    BY <2>1, <2>2
<1>7. CASE UseProvider(i)
  <2>1. CASE task[i].id \in Members
    <3> DEFINE m == member[task[i].id]
               u == [t EXCEPT !.at = "acquire", !.sem = m.sem, !.stats = m.stats, !.tries = 1]
    <3>1. task' = [task EXCEPT ![i] = u]
      BY <1>0, <1>1, <1>7, <2>1 DEF UseProvider
    <3>2. u.attempt = t.attempt /\ u.tries = 1
      BY DEF Task
    <3> HIDE DEF u
    <3> QED
      BY <1>0, <1>1, <3>1, <3>2 DEF AttemptsGo
  <2>2. CASE task[i].id \notin Members
    BY <1>6, <1>7, <2>2 DEF UseProvider
  <2> QED
    BY <2>1, <2>2
<1>8. CASE Wake(i)
  <2>1. CASE task[i].attempt = MaxRetries
    BY <1>2, <1>8, <2>1 DEF Wake, TaskFails
  <2>2. CASE task[i].attempt # MaxRetries
    <3>1. task' = [task EXCEPT ![i].at = "select", ![i].attempt = t.attempt + 1]
      BY <1>0, <1>1, <1>8, <2>2 DEF Wake
    <3> QED
      BY <1>3, <2>2, <3>1
  <2> QED
    BY <2>1, <2>2
<1>9. ASSUME NEW ending, RequestAgain(i, ending)
      PROVE  AttemptsGo(i) /\ \A j \in Chunks : j # i => task'[j] = task[j]
  <2> DEFINE u == [t EXCEPT !.tries = t.tries + 1]
  <2>1. task' = [task EXCEPT ![i] = u] /\ t.tries < ProviderTries
    BY <1>0, <1>1, <1>9 DEF RequestAgain
  <2>2. u.attempt = t.attempt /\ u.tries = t.tries + 1
    BY DEF Task
  <2> HIDE DEF u
  <2> QED
    BY <1>0, <1>1, <2>1, <2>2 DEF AttemptsGo
<1>10. ASSUME NEW ending, CallFails(i, ending)
       PROVE  AttemptsGo(i) /\ \A j \in Chunks : j # i => task'[j] = task[j]
  <2>1. AfterError(i, Reveals(KindOf[task[i].id], ending))
    BY <1>10 DEF CallFails
  <2> QED
    BY <1>6, <2>1
<1> QED
  BY <1>4, <1>5, <1>7, <1>8, <1>9, <1>10 DEF TaskStep

LEMMA AttemptsKept ==
  ASSUME PoolInv, AttemptsInv, [PoolNext]_poolVars
  PROVE  AttemptsInv'
<1>0. /\ MaxRetries \in Nat \ {0} /\ ProviderTries \in Nat \ {0}
      /\ \A i \in Chunks : task[i].attempt \in 1 .. MaxRetries /\ task[i].tries \in 1 .. ProviderTries
  BY PoolAssumption DEF AttemptsInv
<1>1. ASSUME NEW i \in Chunks, TaskStep(i) PROVE AttemptsInv'
  <2>1. task'[i].attempt \in 1 .. MaxRetries /\ task'[i].tries \in 1 .. ProviderTries
    BY <1>0, <1>1, AttemptsOfStep DEF AttemptsGo
  <2> QED
    BY <1>0, <1>1, <2>1, AttemptsOfStep DEF AttemptsInv
<1>2. ASSUME NEW m \in 0 .. 1, GenerateBatch(m) PROVE AttemptsInv'
  <2>1. \A i \in Chunks : task'[i] = [Queued EXCEPT !.at = "queued"]
    BY <1>2 DEF GenerateBatch
  <2>2. [Queued EXCEPT !.at = "queued"].attempt = 1 /\ [Queued EXCEPT !.at = "queued"].tries = 1
    BY DEF Queued
  <2>3. \A i \in Chunks : task'[i].attempt = 1 /\ task'[i].tries = 1
    BY <2>1, <2>2, Zenon
  <2>4. 1 \in 1 .. MaxRetries /\ 1 \in 1 .. ProviderTries
    BY <1>0
  <2> QED
    BY <2>3, <2>4 DEF AttemptsInv
<1>3. ASSUME UNCHANGED task PROVE AttemptsInv'
  BY <1>3 DEF AttemptsInv
<1> QED
  BY <1>1, <1>2, <1>3 DEF PoolNext, poolVars, AddProvider, RemoveProvider, ForgetOrder,
     ResetPoolStats, ResetCooldowns, CooldownEnds, GatherEnds

\* The turns of the pool are those of its providers, but for one that is just being
\* removed, and no task tries more often than generate and its provider's retry allow.
THEOREM PoolTyped == PoolSpec => []PoolTypeOK
<1>1. ASSUME PoolInit PROVE TurnsInv /\ AttemptsInv
  <2>1. Members = {} /\ Range(<<>>) = {}
    BY <1>1 DEF PoolInit, Members, Range
  <2>2. TurnsInv
    BY <1>1, <2>1 DEF PoolInit, TurnsInv
  <2>3. \A i \in Chunks : task[i].attempt = 1 /\ task[i].tries = 1
    BY <1>1 DEF PoolInit, Queued
  <2> QED
    BY <2>2, <2>3, PoolAssumption DEF AttemptsInv
<1>2. ASSUME PoolInv, TurnsInv, AttemptsInv PROVE PoolTypeOK
  <2>1. \A p \in PoolIds : member[p].sem \in 0 .. Len(pstats) /\ member[p].stats \in 0 .. Len(pstats)
    <3>1. Len(pstats) \in Nat
      BY <1>2 DEF PoolInv, Typed
    <3> QED
      BY <1>2, <3>1 DEF PoolInv, MembersTyped, NotMember
  <2>2. progress \in 0 .. Cardinality(Chunks)
    <3>1. Done \subseteq Chunks /\ IsFiniteSet(Chunks)
      BY ChunksFinite DEF Done
    <3>2. Cardinality(Done) <= Cardinality(Chunks) /\ Cardinality(Done) \in Nat /\ Cardinality(Chunks) \in Nat
      BY <3>1, ChunkSets, FS_Subset
    <3> QED
      BY <1>2, <3>2 DEF PoolInv, CountInv
  <2>3. batch.state \in {"idle", "running", "returned", "raised"}
    BY <1>2 DEF PoolInv, Typed
  <2> QED
    BY <1>2, <2>1, <2>2, <2>3 DEF TurnsInv, AttemptsInv, PoolTypeOK
<1> QED
  BY <1>1, <1>2, PoolHolds, TurnsKept, AttemptsKept, PTL DEF PoolSpec

-----------------------------------------------------------------------------
(* The plugin registry *)

Info  == [cls : PluginClass, met : BOOLEAN, instance : Nat]
Fates == {"live", "shut", "dropped"}

PluginTyped ==
  /\ files \in [PluginFiles -> Contents]
  /\ infos \in Seq(Info)
  /\ plugins \in [PluginNames -> 0 .. Len(infos)]
  /\ category \in [Protocols -> [PluginNames -> 0 .. Len(infos)]]
  /\ instances \in Seq(Fates)

NamesRight ==
  /\ \A n \in PluginNames : plugins[n] # 0 => infos[plugins[n]].cls.name = n
  /\ \A p \in Protocols, n \in PluginNames : category[p][n] # 0 =>
       infos[category[p][n]].cls.name = n /\ ImplementsProtocol(infos[category[p][n]].cls, p)

\* an info with an instance has one of its own, alive, and what its class needs
InstancesRight ==
  \A k \in 1 .. Len(infos) : infos[k].instance # 0 =>
    /\ infos[k].met
    /\ infos[k].instance \in 1 .. Len(instances)
    /\ instances[infos[k].instance] = "live"

OneEach ==
  \A j, k \in 1 .. Len(infos) :
    infos[j].instance = infos[k].instance => j = k \/ infos[j].instance = 0

PluginInv == PluginTyped /\ NamesRight /\ CategoriesFollow /\ InstancesRight /\ OneEach

\* The classes found are classes of the files, and finitely many.
LEMMA ClassesFound ==
  ASSUME PluginTyped
  PROVE  /\ \A x \in FoundClasses :
              /\ x[1] \in PluginFiles /\ x[2] \in Nat
              /\ ClassAt(x) \in PluginClass
         /\ IsFiniteSet(FoundClasses)
<1>1. ASSUME NEW f \in PluginFiles
      PROVE  /\ files[f] \in Seq(PluginClass)
             /\ LoadFromFile(files[f]) \subseteq 1 .. Len(files[f])
             /\ IsFiniteSet({f} \X LoadFromFile(files[f]))
  <2>1. files[f] \in Seq(PluginClass)
    BY PluginAssumption DEF PluginTyped
  <2>2. LoadFromFile(files[f]) \subseteq 1 .. Len(files[f])
    BY <2>1 DEF LoadFromFile
  <2>3. IsFiniteSet(1 .. Len(files[f]))
    <3>1. Len(files[f]) \in Int
      BY <2>1
    <3> QED
      BY <3>1, FS_Interval
  <2>4. IsFiniteSet(LoadFromFile(files[f]))
    BY <2>2, <2>3, FS_Subset
  <2>5. IsFiniteSet({f})
    BY FS_Singleton
  <2> QED
    BY <2>1, <2>2, <2>4, <2>5, FS_Product
<1>2. ASSUME NEW x \in FoundClasses
      PROVE  x[1] \in PluginFiles /\ x[2] \in Nat /\ ClassAt(x) \in PluginClass
  <2>1. PICK f \in PluginFiles : x \in {f} \X LoadFromFile(files[f])
    BY DEF FoundClasses
  <2>2. x[1] = f /\ x[2] \in 1 .. Len(files[f])
    BY <1>1, <2>1
  <2>3. files[f] \in Seq(PluginClass)
    BY <1>1
  <2> QED
    BY <2>2, <2>3 DEF ClassAt
<1>3. IsFiniteSet(FoundClasses)
  <2> DEFINE G == [f \in PluginFiles |-> {f} \X LoadFromFile(files[f])]
             T == {{f} \X LoadFromFile(files[f]) : f \in PluginFiles}
  <2>1. G \in Surjection(PluginFiles, T)
    BY DEF Surjection
  <2>2. IsFiniteSet(T)
    BY <2>1, PluginAssumption, FS_Surjection
  <2>3. \A t \in T : IsFiniteSet(t)
    BY <1>1
  <2> HIDE DEF T
  <2>4. IsFiniteSet(UNION T)
    BY <2>2, <2>3, FS_UNION
  <2> QED
    BY <2>4 DEF FoundClasses, T
<1> QED
  BY <1>2, <1>3

\* For a name some class has there is a first class of it, in any order of the files.
LEMMA FirstNamedExists ==
  ASSUME PluginTyped, NEW turn \in Turns, NEW z \in FoundClasses
  PROVE  /\ FirstNamed(turn, ClassAt(z).name) \in FoundClasses
         /\ ClassAt(FirstNamed(turn, ClassAt(z).name)).name = ClassAt(z).name
<1> DEFINE n == ClassAt(z).name
           same == {x \in FoundClasses : ClassAt(x).name = n}
           times == {turn[x[1]] : x \in same}
<1>1. turn \in [PluginFiles -> 1 .. Cardinality(PluginFiles)]
      /\ \A f, g \in PluginFiles : turn[f] = turn[g] => f = g
  BY DEF Turns, IsInjective
<1>2. \A x \in same : x[1] \in PluginFiles /\ x[2] \in Nat /\ turn[x[1]] \in Nat
  BY <1>1, ClassesFound
<1>3. PICK t \in times : \A u \in times : t <= u
  <2>1. times \subseteq Nat /\ times # {}
    BY <1>2
  <2> HIDE DEF times
  <2> QED
    BY <2>1, LeastNumber
<1>4. PICK y \in same : turn[y[1]] = t
  BY <1>3
<1> DEFINE places == {x[2] : x \in {w \in same : w[1] = y[1]}}
<1>5. PICK p \in places : \A q \in places : p <= q
  <2>1. places \subseteq Nat /\ places # {}
    BY <1>2, <1>4
  <2> HIDE DEF places
  <2> QED
    BY <2>1, LeastNumber
<1>6. PICK x \in same : x[1] = y[1] /\ x[2] = p
  BY <1>5
<1>7. ASSUME NEW w \in same PROVE ~Before(turn, w, x)
  <2>1. turn[x[1]] <= turn[w[1]] /\ turn[x[1]] \in Nat /\ turn[w[1]] \in Nat
    BY <1>2, <1>3, <1>4, <1>6
  <2>2. w[1] = x[1] => x[2] <= w[2] /\ x[2] \in Nat /\ w[2] \in Nat
    BY <1>2, <1>5, <1>6
  <2> QED
    BY <2>1, <2>2 DEF Before
<1>8. \E v \in FoundClasses :
        /\ ClassAt(v).name = n
        /\ \A w \in FoundClasses : ClassAt(w).name = n => ~Before(turn, w, v)
  BY <1>6, <1>7
<1> HIDE DEF n
<1> QED
  BY <1>8 DEF FirstNamed, n

\* What discover makes of the files: an info for each name that is found, of a class of
\* that name, without an instance.
NewInfos(new) ==
  \A n \in DOMAIN new : /\ n \in PluginNames
                        /\ new[n] \in Info
                        /\ new[n].cls.name = n /\ new[n].instance = 0

LEMMA InfosOfNames ==
  ASSUME PluginTyped, NEW turn \in Turns
  PROVE  /\ NewInfos(FirstOfEachName(turn))
         /\ IsFiniteSet(DOMAIN FirstOfEachName(turn))
         /\ DOMAIN FirstOfEachName(turn) = {ClassAt(x).name : x \in FoundClasses}
<1> DEFINE new   == FirstOfEachName(turn)
           names == {ClassAt(x).name : x \in FoundClasses}
<1>1. DOMAIN new = names /\ \A n \in names : new[n] = CreatePluginInfo(ClassAt(FirstNamed(turn, n)))
  BY DEF FirstOfEachName
<1>2. IsFiniteSet(names)
  <2> DEFINE G == [x \in FoundClasses |-> ClassAt(x).name]
  <2>1. G \in Surjection(FoundClasses, names)
    BY DEF Surjection
  <2>2. IsFiniteSet(FoundClasses)
    BY ClassesFound
  <2> HIDE DEF G, names
  <2> QED
    BY <2>1, <2>2, FS_Surjection
<1>3. ASSUME NEW n \in names
      PROVE  n \in PluginNames /\ new[n] \in Info /\ new[n].cls.name = n /\ new[n].instance = 0
  <2>1. PICK z \in FoundClasses : n = ClassAt(z).name
    OBVIOUS
  <2>2. FirstNamed(turn, n) \in FoundClasses /\ ClassAt(FirstNamed(turn, n)).name = n
    BY <2>1, FirstNamedExists
  <2>3. PICK cls \in PluginClass : cls = ClassAt(FirstNamed(turn, n)) /\ cls.name = n
    BY <2>2, ClassesFound
  <2>4. new[n] = [cls |-> cls, met |-> cls.needs = "nothing", instance |-> 0]
    BY <1>1, <2>3 DEF CreatePluginInfo
  <2>5. n \in PluginNames
    BY <2>3 DEF PluginClass
  <2> QED
    BY <2>3, <2>4, <2>5 DEF Info
<1> HIDE DEF new, names
<1>4. NewInfos(new)
  BY <1>1, <1>3 DEF NewInfos
<1> QED
  BY <1>1, <1>2, <1>4 DEF new, names

\* What discover leaves: the infos that were there and one more for each name found.
Discovered(new, id) ==
  /\ infos' \in Seq(Info) /\ Len(infos) <= Len(infos')
  /\ \A k \in 1 .. Len(infos) : infos'[k] = infos[k]
  /\ \A k \in 1 .. Len(infos') : k > Len(infos) => infos'[k].instance = 0
  /\ \A n \in DOMAIN new : /\ id[n] \in 1 .. Len(infos') /\ id[n] > Len(infos)
                           /\ infos'[id[n]] = new[n]
  /\ plugins' = [n \in PluginNames |-> IF n \in DOMAIN new THEN id[n] ELSE plugins[n]]
  /\ category' = [p \in Protocols |-> CategoryWith(p, id, new)]
  /\ UNCHANGED <<files, instances>>

LEMMA DiscoverAdds ==
  ASSUME PluginTyped, Discover
  PROVE  \E turn \in Turns : \E id : Discovered(FirstOfEachName(turn), id)
<1>1. PICK turn \in Turns :
        LET new  == FirstOfEachName(turn)
            made == SetToSeq(DOMAIN new)
            id   == [n \in DOMAIN new |-> Len(infos) + (CHOOSE i \in DOMAIN made : made[i] = n)]
        IN  /\ infos' = infos \o [i \in DOMAIN made |-> new[made[i]]]
            /\ plugins' = [n \in PluginNames |-> IF n \in DOMAIN new THEN id[n] ELSE plugins[n]]
            /\ category' = [p \in Protocols |-> CategoryWith(p, id, new)]
            /\ UNCHANGED <<files, instances>>
  BY DEF Discover
<1> DEFINE new  == FirstOfEachName(turn)
           made == SetToSeq(DOMAIN new)
           c    == Cardinality(DOMAIN new)
           id   == [n \in DOMAIN new |-> Len(infos) + (CHOOSE i \in DOMAIN made : made[i] = n)]
           more == [i \in DOMAIN made |-> new[made[i]]]
<1>2. NewInfos(new) /\ IsFiniteSet(DOMAIN new)
  BY InfosOfNames
<1>3. /\ infos' = infos \o more
      /\ plugins' = [n \in PluginNames |-> IF n \in DOMAIN new THEN id[n] ELSE plugins[n]]
      /\ category' = [p \in Protocols |-> CategoryWith(p, id, new)]
      /\ UNCHANGED <<files, instances>>
  BY <1>1
<1> HIDE DEF new
<1>4. /\ made \in Seq(DOMAIN new) /\ c \in Nat /\ DOMAIN made = 1 .. c
      /\ \A n \in DOMAIN new : \E i \in 1 .. c : made[i] = n
  BY <1>2, SetInARow
<1> HIDE DEF c, made
<1>5. ASSUME NEW i \in 1 .. c PROVE more[i] = new[made[i]] /\ more[i] \in Info /\ more[i].instance = 0
  <2>1. made[i] \in DOMAIN new
    BY <1>4
  <2> QED
    BY <1>2, <1>4, <2>1 DEF NewInfos
<1>6. more \in Seq(Info) /\ Len(more) = c
  BY <1>4, <1>5
<1>7. ASSUME NEW n \in DOMAIN new
      PROVE  \E i \in 1 .. c : id[n] = Len(infos) + i /\ made[i] = n
  <2> DEFINE j == CHOOSE i \in 1 .. c : made[i] = n
  <2>1. j \in 1 .. c /\ made[j] = n
    BY <1>4
  <2>2. id[n] = Len(infos) + j
    BY <1>4
  <2> QED
    BY <2>1, <2>2
<1> HIDE DEF id, more
<1>8. PICK s \in Seq(Info), t \in Seq(Info) : s = infos /\ t = more /\ Len(t) = c
  BY <1>6 DEF PluginTyped
<1>9. /\ s \o t \in Seq(Info) /\ Len(s \o t) = Len(s) + c
      /\ \A k \in 1 .. Len(s) : (s \o t)[k] = s[k]
      /\ \A i \in 1 .. c : (s \o t)[Len(s) + i] = t[i]
  <2>1. /\ s \o t \in Seq(Info) /\ Len(s \o t) = Len(s) + Len(t)
        /\ \A i \in 1 .. Len(s) + Len(t) : (s \o t)[i] = IF i <= Len(s) THEN s[i] ELSE t[i - Len(s)]
    BY ONLY ZenonT(40), ConcatProperties
  <2>2. Len(s) \in Nat /\ Len(t) = c /\ c \in Nat
    BY <1>4, <1>8
  <2>3. ASSUME NEW i \in 1 .. c PROVE (s \o t)[Len(s) + i] = t[i]
    <3>1. Len(s) + i \in 1 .. Len(s) + c /\ ~ (Len(s) + i <= Len(s)) /\ (Len(s) + i) - Len(s) = i
      BY <2>2
    <3> QED
      BY <2>1, <2>2, <3>1
  <2>4. ASSUME NEW k \in 1 .. Len(s) PROVE (s \o t)[k] = s[k]
    BY <2>1, <2>2
  <2> QED
    BY <2>1, <2>2, <2>3, <2>4
<1>10. infos' = s \o t /\ Len(s) \in Nat /\ c \in Nat
  BY <1>3, <1>4, <1>8
<1>11. ASSUME NEW k \in 1 .. Len(infos'), k > Len(infos) PROVE infos'[k].instance = 0
  <2>1. k - Len(s) \in 1 .. c /\ k = Len(s) + (k - Len(s))
    BY <1>8, <1>9, <1>10, <1>11
  <2>2. infos'[k] = more[k - Len(s)]
    BY <1>8, <1>9, <1>10, <2>1
  <2> QED
    BY <1>5, <2>1, <2>2
<1>12. ASSUME NEW n \in DOMAIN new
       PROVE  id[n] \in 1 .. Len(infos') /\ id[n] > Len(infos) /\ infos'[id[n]] = new[n]
  <2>1. PICK i \in 1 .. c : id[n] = Len(s) + i /\ made[i] = n
    BY <1>7, <1>8
  <2>2. infos'[id[n]] = more[i] /\ more[i] = new[n]
    BY <1>5, <1>8, <1>9, <1>10, <2>1
  <2> QED
    BY <1>8, <1>9, <1>10, <2>1, <2>2
<1>13. /\ infos' \in Seq(Info) /\ Len(infos) <= Len(infos')
       /\ \A k \in 1 .. Len(infos) : infos'[k] = infos[k]
  BY <1>8, <1>9, <1>10
<1>14. Discovered(new, id)
  BY <1>3, <1>11, <1>12, <1>13 DEF Discovered
<1> QED
  BY <1>14 DEF new

LEMMA DiscoverKept ==
  ASSUME PluginInv, Discover
  PROVE  PluginInv'
<1>0. PluginTyped /\ NamesRight /\ CategoriesFollow /\ InstancesRight /\ OneEach
  BY DEF PluginInv
<1>1. PICK turn \in Turns : \E id : Discovered(FirstOfEachName(turn), id)
  BY <1>0, DiscoverAdds
<1>2. PICK new : new = FirstOfEachName(turn)
  OBVIOUS
<1>3. PICK id : Discovered(new, id)
  BY <1>1, <1>2
<1>4. NewInfos(new)
  BY <1>0, <1>2, InfosOfNames
<1>5. /\ infos \in Seq(Info) /\ infos' \in Seq(Info)
      /\ Len(infos) \in Nat /\ Len(infos') \in Nat /\ Len(infos) <= Len(infos')
      /\ \A k \in 1 .. Len(infos) : infos'[k] = infos[k] /\ k \in 1 .. Len(infos')
  BY <1>0, <1>3 DEF PluginTyped, Discovered
<1>6. \A n \in DOMAIN new :
        /\ id[n] \in 1 .. Len(infos') /\ id[n] # 0 /\ infos'[id[n]] = new[n]
        /\ n \in PluginNames /\ infos'[id[n]].cls.name = n
  BY <1>3, <1>4, <1>5 DEF Discovered, NewInfos
<1>7. ASSUME NEW n \in PluginNames
      PROVE  \/ n \in DOMAIN new /\ plugins'[n] = id[n]
             \/ n \notin DOMAIN new /\ plugins'[n] = plugins[n]
  BY <1>3 DEF Discovered
<1>8. ASSUME NEW p \in Protocols, NEW n \in PluginNames
      PROVE  \/ n \in DOMAIN new /\ ImplementsProtocol(new[n].cls, p) /\ category'[p][n] = id[n]
             \/ /\ ~(n \in DOMAIN new /\ ImplementsProtocol(new[n].cls, p))
                /\ category'[p][n] = category[p][n]
  BY <1>3 DEF Discovered, CategoryWith
<1>9. PluginTyped'
  <2>1. plugins' \in [PluginNames -> 0 .. Len(infos')]
    <3>1. ASSUME NEW n \in PluginNames PROVE plugins'[n] \in 0 .. Len(infos')
      <4>1. plugins[n] \in 0 .. Len(infos)
        BY <1>0 DEF PluginTyped
      <4> QED
        BY <1>5, <1>6, <1>7, <4>1
    <3> QED
      BY <1>3, <3>1 DEF Discovered
  <2>2. category' \in [Protocols -> [PluginNames -> 0 .. Len(infos')]]
    <3>1. ASSUME NEW p \in Protocols, NEW n \in PluginNames PROVE category'[p][n] \in 0 .. Len(infos')
      <4>1. category[p][n] \in 0 .. Len(infos)
        BY <1>0 DEF PluginTyped
      <4> QED
        BY <1>5, <1>6, <1>8, <4>1
    <3>2. category' = [p \in Protocols |-> [n \in PluginNames |-> category'[p][n]]]
      BY <1>3 DEF Discovered, CategoryWith
    <3> QED
      BY <3>1, <3>2
  <2> QED
    BY <1>0, <1>3, <1>5, <2>1, <2>2 DEF PluginTyped, Discovered
<1>10. NamesRight'
  <2>1. ASSUME NEW n \in PluginNames, plugins'[n] # 0 PROVE infos'[plugins'[n]].cls.name = n
    <3>1. plugins[n] \in 0 .. Len(infos) /\ (plugins[n] # 0 => infos[plugins[n]].cls.name = n)
      BY <1>0 DEF PluginTyped, NamesRight
    <3> QED
      BY <1>5, <1>6, <1>7, <2>1, <3>1
  <2>2. ASSUME NEW p \in Protocols, NEW n \in PluginNames, category'[p][n] # 0
        PROVE  infos'[category'[p][n]].cls.name = n /\ ImplementsProtocol(infos'[category'[p][n]].cls, p)
    <3>1. /\ category[p][n] \in 0 .. Len(infos)
          /\ category[p][n] # 0 => /\ infos[category[p][n]].cls.name = n
                                   /\ ImplementsProtocol(infos[category[p][n]].cls, p)
      BY <1>0 DEF PluginTyped, NamesRight
    <3>2. CASE n \in DOMAIN new /\ ImplementsProtocol(new[n].cls, p) /\ category'[p][n] = id[n]
      BY <1>6, <3>2
    <3>3. CASE category'[p][n] = category[p][n]
      BY <1>5, <2>2, <3>1, <3>3
    <3> QED
      BY <1>8, <3>2, <3>3
  <2> QED
    BY <2>1, <2>2 DEF NamesRight, ImplementsProtocol
<1>11. CategoriesFollow'
  <2>1. ASSUME NEW p \in Protocols, NEW n \in PluginNames, plugins'[n] # 0,
               ImplementsProtocol(infos'[plugins'[n]].cls, p)
        PROVE  category'[p][n] = plugins'[n]
    <3>1. CASE n \in DOMAIN new
      BY <1>6, <1>7, <1>8, <2>1, <3>1
    <3>2. CASE n \notin DOMAIN new
      <4>1. plugins'[n] = plugins[n] /\ category'[p][n] = category[p][n]
        BY <1>7, <1>8, <3>2
      <4>2. plugins[n] \in 1 .. Len(infos)
        BY <1>0, <2>1, <4>1 DEF PluginTyped
      <4>3. infos'[plugins[n]] = infos[plugins[n]]
        BY <1>5, <4>2
      <4> QED
        BY <1>0, <2>1, <4>1, <4>3 DEF CategoriesFollow, NoInfo
    <3> QED
      BY <3>1, <3>2
  <2> QED
    BY <2>1 DEF CategoriesFollow, NoInfo, ImplementsProtocol
<1>12. ASSUME NEW k \in 1 .. Len(infos'), infos'[k].instance # 0
       PROVE  k \in 1 .. Len(infos) /\ infos'[k] = infos[k]
  BY <1>3, <1>5, <1>12 DEF Discovered
<1>13. InstancesRight'
  BY <1>0, <1>3, <1>12 DEF InstancesRight, Discovered
<1>14. OneEach'
  BY <1>0, <1>12 DEF OneEach
<1> QED
  BY <1>9, <1>10, <1>11, <1>13, <1>14 DEF PluginInv

LEMMA InitializeKept ==
  ASSUME PluginInv, NEW n \in PluginNames, Initialize(n)
  PROVE  PluginInv'
<1>0. PluginTyped /\ NamesRight /\ CategoriesFollow /\ InstancesRight /\ OneEach
  BY DEF PluginInv
<1>1. PICK k \in 1 .. Len(infos), new \in Nat : k = plugins[n] /\ new = Len(instances) + 1
  BY <1>0 DEF Initialize, PluginTyped, NoInfo
<1>2. /\ infos[k].met
      /\ infos' = [infos EXCEPT ![k].instance = new]
      /\ instances' = Append([i \in DOMAIN instances |->
                            IF i = infos[k].instance THEN "dropped" ELSE instances[i]], "live")
      /\ UNCHANGED <<files, plugins, category>>
  BY <1>1 DEF Initialize
<1>3. /\ infos \in Seq(Info) /\ instances \in Seq(Fates) /\ DOMAIN instances = 1 .. Len(instances)
      /\ Len(instances) \in Nat /\ "live" \in Fates /\ "dropped" \in Fates
  BY <1>0 DEF PluginTyped, Fates
<1>4. /\ infos' \in Seq(Info) /\ Len(infos') = Len(infos)
      /\ \A j \in 1 .. Len(infos) : infos'[j] = IF j = k THEN [infos[k] EXCEPT !.instance = new] ELSE infos[j]
  <2>1. PICK info \in Info : info = infos[k]
    BY <1>3
  <2>2. [info EXCEPT !.instance = new] \in Info
    BY DEF Info
  <2>3. infos' = [infos EXCEPT ![k] = [info EXCEPT !.instance = new]]
    BY <1>2, <2>1
  <2> QED
    BY <1>3, <2>1, <2>2, <2>3
<1>5. \A j \in 1 .. Len(infos) : /\ infos'[j].cls = infos[j].cls /\ infos'[j].met = infos[j].met
                                  /\ infos'[j].instance = IF j = k THEN new ELSE infos[j].instance
  <2>1. \A j \in 1 .. Len(infos) : infos[j] \in Info
    BY <1>3
  <2> QED
    BY <1>4, <2>1 DEF Info
<1>6. /\ instances' \in Seq(Fates) /\ Len(instances') = new /\ instances'[new] = "live"
      /\ \A i \in 1 .. Len(instances) : instances'[i] = IF i = infos[k].instance THEN "dropped" ELSE instances[i]
  <2> DEFINE old == [i \in 1 .. Len(instances) |-> IF i = infos[k].instance THEN "dropped" ELSE instances[i]]
  <2>1. old \in Seq(Fates) /\ Len(old) = Len(instances)
        /\ \A i \in 1 .. Len(instances) : old[i] = IF i = infos[k].instance THEN "dropped" ELSE instances[i]
    BY <1>3
  <2>2. instances' = Append(old, "live")
    BY <1>2, <1>3
  <2> HIDE DEF old
  <2> QED
    BY <1>1, <1>3, <2>1, <2>2
<1>7. PluginTyped'
  BY <1>0, <1>2, <1>4, <1>6 DEF PluginTyped
<1>8. NamesRight'
  BY <1>0, <1>2, <1>5 DEF PluginTyped, NamesRight, ImplementsProtocol
<1>9. CategoriesFollow'
  <2>1. ASSUME NEW p \in Protocols, NEW m \in PluginNames, plugins'[m] # 0,
               ImplementsProtocol(infos'[plugins'[m]].cls, p)
        PROVE  category'[p][m] = plugins'[m]
    <3>1. plugins[m] \in 1 .. Len(infos) /\ plugins' = plugins /\ category' = category
      BY <1>0, <1>2, <2>1 DEF PluginTyped
    <3>2. infos'[plugins[m]].cls = infos[plugins[m]].cls
      BY <1>5, <3>1
    <3> QED
      BY <1>0, <2>1, <3>1, <3>2 DEF CategoriesFollow, NoInfo
  <2> QED
    BY <2>1 DEF CategoriesFollow, NoInfo, ImplementsProtocol
<1>10. InstancesRight'
  <2>1. ASSUME NEW j \in 1 .. Len(infos), infos'[j].instance # 0
        PROVE  /\ infos'[j].met
               /\ infos'[j].instance \in 1 .. Len(instances')
               /\ instances'[infos'[j].instance] = "live"
    <3>1. CASE j = k
      BY <1>1, <1>2, <1>3, <1>5, <1>6, <3>1
    <3>2. CASE j # k
      <4>1. PICK i \in 1 .. Len(instances) : i = infos[j].instance /\ instances[i] = "live" /\ infos[j].met
        BY <1>0, <1>5, <2>1, <3>2 DEF InstancesRight
      <4>2. i # infos[k].instance
        BY <1>0, <3>2, <4>1 DEF OneEach
      <4>3. i \in 1 .. Len(instances')
        BY <1>1, <1>3, <1>6
      <4> QED
        BY <1>5, <1>6, <3>2, <4>1, <4>2, <4>3
    <3> QED
      BY <3>1, <3>2
  <2> QED
    BY <1>4, <2>1 DEF InstancesRight
<1>11. OneEach'
  <2>1. \A j \in 1 .. Len(infos) : infos[j].instance # 0 => infos[j].instance # new
    BY <1>0, <1>1, <1>3 DEF InstancesRight
  <2> QED
    BY <1>0, <1>4, <1>5, <2>1 DEF OneEach
<1> QED
  BY <1>7, <1>8, <1>9, <1>10, <1>11 DEF PluginInv

LEMMA ShutDownKept ==
  ASSUME PluginInv, NEW names, names \subseteq PluginNames, ShutDown(names),
         UNCHANGED <<files, plugins, category>>
  PROVE  PluginInv'
<1> DEFINE done == {plugins[n] : n \in names} \ {NoInfo}
<1>0. PluginTyped /\ NamesRight /\ CategoriesFollow /\ InstancesRight /\ OneEach
  BY DEF PluginInv
<1>1. /\ instances' = [i \in DOMAIN instances |->
           IF \E k \in done : infos[k].instance = i THEN "shut" ELSE instances[i]]
      /\ infos' = [k \in DOMAIN infos |-> IF k \in done THEN [infos[k] EXCEPT !.instance = 0]
                                                        ELSE infos[k]]
  BY DEF ShutDown
<1>2. done \subseteq 1 .. Len(infos)
  BY <1>0 DEF PluginTyped, NoInfo
<1> HIDE DEF done
<1>3. /\ infos \in Seq(Info) /\ instances \in Seq(Fates) /\ DOMAIN instances = 1 .. Len(instances)
      /\ DOMAIN infos = 1 .. Len(infos) /\ "shut" \in Fates
  BY <1>0 DEF PluginTyped, Fates
<1>4. \A j \in 1 .. Len(infos) : infos[j] \in Info
  BY <1>3
<1>5. \A j \in 1 .. Len(infos) :
        /\ infos'[j] \in Info /\ infos'[j].cls = infos[j].cls /\ infos'[j].met = infos[j].met
        /\ infos'[j].instance = IF j \in done THEN 0 ELSE infos[j].instance
  BY <1>1, <1>3, <1>4 DEF Info
<1>6. infos' \in Seq(Info) /\ Len(infos') = Len(infos)
  <2>1. infos' = [j \in 1 .. Len(infos) |-> infos'[j]]
    BY <1>1, <1>3
  <2> QED
    BY <1>3, <1>5, <2>1
<1>7. \A i \in 1 .. Len(instances) :
        instances'[i] = IF \E k \in done : infos[k].instance = i THEN "shut" ELSE instances[i]
  BY <1>1, <1>3
<1>8. instances' \in Seq(Fates) /\ Len(instances') = Len(instances)
  <2>1. \A i \in 1 .. Len(instances) : instances'[i] \in Fates
    BY <1>3, <1>7
  <2>2. instances' = [i \in 1 .. Len(instances) |-> instances'[i]]
    BY <1>1, <1>3
  <2> QED
    BY <1>3, <2>1, <2>2
<1>9. PluginTyped'
  BY <1>0, <1>6, <1>8 DEF PluginTyped
<1>10. NamesRight'
  <2>1. ASSUME NEW n \in PluginNames, plugins'[n] # 0 PROVE infos'[plugins'[n]].cls.name = n
    <3>1. plugins' = plugins /\ plugins[n] \in 1 .. Len(infos) /\ infos[plugins[n]].cls.name = n
      BY <1>0, <2>1 DEF PluginTyped, NamesRight
    <3> QED
      BY <1>5, <3>1
  <2>2. ASSUME NEW p \in Protocols, NEW n \in PluginNames, category'[p][n] # 0
        PROVE  infos'[category'[p][n]].cls.name = n /\ ImplementsProtocol(infos'[category'[p][n]].cls, p)
    <3>1. /\ category' = category /\ category[p][n] \in 1 .. Len(infos)
          /\ infos[category[p][n]].cls.name = n
          /\ ImplementsProtocol(infos[category[p][n]].cls, p)
      BY <1>0, <2>2 DEF PluginTyped, NamesRight
    <3>2. infos'[category[p][n]].cls = infos[category[p][n]].cls
      BY <1>5, <3>1
    <3> QED
      BY <3>1, <3>2
  <2> QED
    BY <2>1, <2>2 DEF NamesRight, ImplementsProtocol
<1>11. CategoriesFollow'
  <2>1. ASSUME NEW p \in Protocols, NEW m \in PluginNames, plugins'[m] # 0,
               ImplementsProtocol(infos'[plugins'[m]].cls, p)
        PROVE  category'[p][m] = plugins'[m]
    <3>1. plugins[m] \in 1 .. Len(infos) /\ plugins' = plugins /\ category' = category
      BY <1>0, <2>1 DEF PluginTyped
    <3>2. infos'[plugins[m]].cls = infos[plugins[m]].cls
      BY <1>5, <3>1
    <3> QED
      BY <1>0, <2>1, <3>1, <3>2 DEF CategoriesFollow, NoInfo
  <2> QED
    BY <2>1 DEF CategoriesFollow, NoInfo, ImplementsProtocol
<1>12. InstancesRight'
  <2>1. ASSUME NEW j \in 1 .. Len(infos), infos'[j].instance # 0
        PROVE  /\ infos'[j].met
               /\ infos'[j].instance \in 1 .. Len(instances')
               /\ instances'[infos'[j].instance] = "live"
    <3>1. j \notin done /\ infos'[j].instance = infos[j].instance
      BY <1>5, <2>1
    <3>2. PICK i \in 1 .. Len(instances) : i = infos[j].instance /\ instances[i] = "live" /\ infos[j].met
      BY <1>0, <2>1, <3>1 DEF InstancesRight
    <3>3. \A k \in done : infos[k].instance # i
      BY <1>0, <1>2, <2>1, <3>1, <3>2 DEF OneEach
    <3> QED
      BY <1>5, <1>7, <1>8, <3>1, <3>2, <3>3
  <2> QED
    BY <1>6, <2>1 DEF InstancesRight
<1>13. OneEach'
  BY <1>0, <1>5, <1>6 DEF OneEach
<1> QED
  BY <1>9, <1>10, <1>11, <1>12, <1>13 DEF PluginInv

LEMMA PluginsStart ==
  ASSUME PluginInit
  PROVE  PluginInv
  BY DEF PluginInit, PluginInv, PluginTyped, NamesRight, CategoriesFollow, InstancesRight, OneEach, NoInfo

LEMMA PluginInvKept ==
  ASSUME PluginInv, [PluginNext]_pluginVars
  PROVE  PluginInv'
<1>1. ASSUME NEW f \in PluginFiles, NEW content \in Contents, ReplaceFile(f, content) PROVE PluginInv'
  <2>1. UNCHANGED <<infos, plugins, category, instances>> /\ files' \in [PluginFiles -> Contents]
    BY <1>1 DEF PluginInv, PluginTyped, ReplaceFile
  <2> QED
    BY <2>1 DEF PluginInv, PluginTyped, NamesRight, CategoriesFollow, InstancesRight, OneEach
<1>2. ASSUME Discover PROVE PluginInv'
  BY <1>2, DiscoverKept
<1>3. ASSUME NEW n \in PluginNames, Initialize(n) PROVE PluginInv'
  BY <1>3, InitializeKept
<1>4. ASSUME NEW n \in PluginNames, ShutdownPlugin(n) PROVE PluginInv'
  <2>1. {n} \subseteq PluginNames /\ ShutDown({n}) /\ UNCHANGED <<files, plugins, category>>
    BY <1>4 DEF ShutdownPlugin
  <2> QED
    BY <2>1, ShutDownKept
<1>5. ASSUME NEW raising, ShutdownAll(raising) PROVE PluginInv'
  <2>1. PluginNames \ raising \subseteq PluginNames /\ ShutDown(PluginNames \ raising)
        /\ UNCHANGED <<files, plugins, category>>
    BY <1>5 DEF ShutdownAll
  <2> QED
    BY <2>1, ShutDownKept
<1>6. ASSUME UNCHANGED pluginVars PROVE PluginInv'
  BY <1>6 DEF pluginVars, PluginInv, PluginTyped, NamesRight, CategoriesFollow, InstancesRight, OneEach
<1> QED
  BY <1>1, <1>2, <1>3, <1>4, <1>5, <1>6 DEF PluginNext

\* A look-up of get_parser_for_extension finds a parser that is initialised and not shut
\* down, _plugins and the categories agree, and no class of a file keeps the others from
\* being registered: after any discoveries, initialisations and shutdowns.
THEOREM LookupsHold == PluginSpec => LookupsRight
<1>1. ASSUME PluginInv PROVE ServingParserLive
  <2>1. ASSUME NEW ext \in Extensions, NEW n \in PluginNames, ParserFor(ext, n)
        PROVE  LET info == infos[category[ParserPlugin][n]] IN
                 instances[info.instance] = "live" /\ info.met
    <3>1. category[ParserPlugin][n] \in 1 .. Len(infos)
      BY <1>1, <2>1 DEF PluginInv, PluginTyped, ParserFor, Protocols, NoInfo
    <3> QED
      BY <1>1, <2>1, <3>1 DEF PluginInv, InstancesRight, ParserFor, Initialized
  <2> QED
    BY <2>1 DEF ServingParserLive
<1>2. ASSUME PluginInv PROVE BadPluginHidesNoOther
  <2> SUFFICES ASSUME Discover, NEW f \in PluginFiles,
                      files[f] # <<>>, IsPluginClass(files[f][1]), files[f][1].needs # "missing.part"
               PROVE  plugins'[files[f][1].name] > Len(infos)
    BY DEF BadPluginHidesNoOther
  <2>1. PluginTyped
    BY <1>2 DEF PluginInv
  <2>2. PICK turn \in Turns : \E id : Discovered(FirstOfEachName(turn), id)
    BY <2>1, DiscoverAdds
  <2>3. PICK id : Discovered(FirstOfEachName(turn), id)
    BY <2>2
  <2>4. files[f] \in Seq(PluginClass) /\ 1 \in DOMAIN files[f]
    <3>1. PICK content \in Seq(PluginClass) : content = files[f] /\ content # <<>>
      BY <2>1, PluginAssumption DEF PluginTyped
    <3> QED
      BY <3>1
  <2>5. 1 \in LoadFromFile(files[f])
    BY <2>4 DEF LoadFromFile
  <2>6. <<f, 1>> \in FoundClasses /\ ClassAt(<<f, 1>>) = files[f][1]
    BY <2>5 DEF FoundClasses, ClassAt
  <2>7. files[f][1].name \in DOMAIN FirstOfEachName(turn)
    BY <2>1, <2>6, InfosOfNames
  <2>8. files[f][1].name \in PluginNames
    <3>1. files[f][1] \in PluginClass
      BY <2>4
    <3> QED
      BY <3>1 DEF PluginClass
  <2> QED
    BY <2>3, <2>7, <2>8 DEF Discovered
<1>3. ASSUME PluginInv, [PluginNext]_pluginVars
      PROVE  [ServingParserLive' /\ CategoriesFollow' /\ BadPluginHidesNoOther]_pluginVars
  <2>1. PluginInv'
    BY <1>3, PluginInvKept
  <2>2. ServingParserLive'
    BY <1>1, <2>1, PTL
  <2>3. CategoriesFollow'
    BY <2>1 DEF PluginInv
  <2> QED
    BY <1>2, <1>3, <2>2, <2>3
<1> QED
  BY <1>3, PluginsStart, PluginInvKept, PTL DEF PluginSpec, LookupsRight

\* The registry's dictionaries point to infos of their names and kinds.
THEOREM PluginsTyped == PluginSpec => []PluginTypeOK
<1>1. PluginInv => PluginTypeOK
  <2> SUFFICES ASSUME PluginInv PROVE PluginTypeOK
    OBVIOUS
  <2>1. \A k \in 1 .. Len(infos) : infos[k].instance \in 0 .. Len(instances)
    BY DEF PluginInv, PluginTyped, InstancesRight
  <2>2. \A i \in 1 .. Len(instances) : instances[i] \in Fates
    BY DEF PluginInv, PluginTyped
  <2> QED
    BY <2>1, <2>2 DEF PluginInv, PluginTyped, NamesRight, PluginTypeOK, NoInfo, Fates
<1> QED
  BY <1>1, PluginsStart, PluginInvKept, PTL DEF PluginSpec

-----------------------------------------------------------------------------
(* The services together *)

\* While one service moves the others rest, so each of them behaves as it does alone.
LEMMA ServicesBesideEachOther ==
  ServicesSpec => FolderSpec /\ CacheSpec /\ PluginSpec /\ PoolSpec
<1>1. ServicesInit => FolderInit /\ CacheInit /\ PluginInit /\ PoolInit
  BY DEF ServicesInit
<1>2. [ServicesNext]_serviceVars =>
        /\ [FolderNext]_folderVars /\ [CacheNext]_cacheVars
        /\ [PluginNext]_pluginVars /\ [PoolNext]_poolVars
  BY DEF ServicesNext, serviceVars
<1> QED
  BY <1>1, <1>2, PTL DEF ServicesSpec, FolderSpec, CacheSpec, PluginSpec, PoolSpec

\* The folder's entries, the cache's cells, the registry's dictionaries and the pool's
\* turns and attempts keep their types, in whichever service the worker is busy.
THEOREM ServicesTyped == ServicesSpec => []ServicesTypeOK
  BY ServicesBesideEachOther, FolderTypeCorrect, CacheTypeCorrect, PluginsTyped, PoolTyped, PTL
     DEF ServicesTypeOK

==============================================================================
