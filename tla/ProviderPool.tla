------------------------------ MODULE ProviderPool ------------------------------
(***************************************************************************)
(* The pool of LLM providers (review/llm/pool.py), the providers' own      *)
(* retries (providers.py, ollama.py, cli.py, lm_studio.py) and the         *)
(* translator that sends texts to the pool in chunks (batch.py).           *)
(*                                                                         *)
(* The prompts of a batch are tasks of one event loop, which other threads *)
(* may interrupt to add and remove providers.  Semaphores and ProviderStats*)
(* are objects: a task keeps the ones it found when it was given the       *)
(* provider, and adding or resetting makes new ones.                       *)
(***************************************************************************)
EXTENDS Integers, Sequences, FiniteSets, FiniteSetsExt, SequencesExt

CONSTANTS
  PoolIds,       \* provider ids
  KindOf,        \* KindOf[p]: which class of provider is behind the id
  PerProvider,   \* max_concurrent_per_provider
  CoolAfter,     \* cooldown_after_failures
  MaxRetries,    \* max_retries of generate
  ProviderTries, \* stop_after_attempt of the providers
  TextCount,     \* texts to translate
  ChunkSize,     \* texts in a prompt
  MaxObjects,    \* bound on the ProviderStats and semaphores made
  MaxCools       \* bound on the cooldowns that run out

Kinds == {"sdk", "ollama", "cli", "lm_studio"}

ASSUME PoolAssumption ==
  /\ IsFiniteSet(PoolIds) /\ KindOf \in [PoolIds -> Kinds]
  /\ {PerProvider, CoolAfter, MaxRetries, ProviderTries, TextCount, ChunkSize, MaxObjects}
       \subseteq Nat \ {0}
  /\ MaxCools \in Nat

VARIABLES
  member,    \* member[p]: numbers of the semaphore and the stats of p, 0 when absent
  order,     \* _provider_order
  removing,  \* ids whose removal is half done
  pstats,    \* the ProviderStats objects made so far
  task,      \* task[i]: where prompt i is
  results,   \* results[i]: the answer to prompt i
  progress,  \* what on_progress was told last
  batch,     \* the call of generate_batch
  output,    \* what translate_texts_chunked returned
  cools      \* cooldowns that ran out so far

poolVars == <<member, order, removing, pstats, task, results, progress, batch, output, cools>>

NotMember == [sem |-> 0, stats |-> 0]
NewStats  == [ok |-> 0, failed |-> 0, row |-> 0, cooling |-> FALSE]
NoAnswer  == [by |-> 0, reply |-> "none"]

\* translate_texts_chunked: chunk c holds the texts ChunkTexts(c)
Chunks  == 1 .. (TextCount + ChunkSize - 1) \div ChunkSize
ChunkTexts(c) == [j \in 1 .. Min({ChunkSize, TextCount - (c - 1) * ChunkSize}) |->
                    (c - 1) * ChunkSize + j]

Queued == [at |-> "new", id |-> 0, sem |-> 0, stats |-> 0, attempt |-> 1, tries |-> 1]

PoolInit ==
  /\ member = [p \in PoolIds |-> NotMember]
  /\ order = <<>>
  /\ removing = {}
  /\ pstats = <<>>
  /\ task = [i \in Chunks |-> Queued]
  /\ results = [i \in Chunks |-> NoAnswer]
  /\ progress = 0
  /\ batch = [state |-> "idle", slots |-> 0]
  /\ output = <<>>
  /\ cools = 0

Members == {p \in PoolIds : member[p] # NotMember}
Cooling(p) == pstats[member[p].stats].cooling
Goes(i, at) == task' = [task EXCEPT ![i].at = at]
\* between choosing a provider and using it the event loop runs no other task
Loop(i) == \A j \in Chunks : task[j].at = "use" => j = i

(***************************************************************************)
(* Operators of the pool                                                   *)
(***************************************************************************)
\* add_provider: an id that is there gets a second turn and new objects
AddProvider(p) ==
  /\ removing = {} /\ Len(pstats) < MaxObjects
  /\ pstats' = Append(pstats, NewStats)
  /\ member' = [member EXCEPT ![p] = [sem |-> Len(pstats'), stats |-> Len(pstats')]]
  /\ order' = Append(order, p)
  /\ UNCHANGED <<removing, task, results, progress, batch, output, cools>>

\* remove_provider: first the dictionaries ...
RemoveProvider(p) ==
  /\ removing = {} /\ p \in Members
  /\ member' = [member EXCEPT ![p] = NotMember]
  /\ removing' = {p}
  /\ UNCHANGED <<order, pstats, task, results, progress, batch, output, cools>>

ForgetFirstTurn(p) ==
  /\ p \in removing
  /\ order' = RemoveFirst(order, p)
  /\ removing' = {}
  /\ UNCHANGED <<member, pstats, task, results, progress, batch, output, cools>>
\* ... then the order, which the event loop reads without the lock
ForgetOrder(p) ==
  /\ p \in removing
  /\ order' = FlattenSeq([k \in DOMAIN order |-> IF order[k] = p THEN <<>> ELSE <<order[k]>>])
  /\ removing' = {}
  /\ UNCHANGED <<member, pstats, task, results, progress, batch, output, cools>>

ResetPoolStats ==
  /\ removing = {} /\ Members # {} /\ Len(pstats) + Cardinality(Members) <= MaxObjects
  /\ \E number \in [Members -> Len(pstats) + 1 .. Len(pstats) + Cardinality(Members)] :
       /\ IsInjective(number)
       /\ member' = [p \in PoolIds |-> IF p \in Members
                       THEN [member[p] EXCEPT !.stats = number[p]] ELSE NotMember]
  /\ pstats' = pstats \o [i \in 1 .. Cardinality(Members) |-> NewStats]
  /\ UNCHANGED <<order, removing, task, results, progress, batch, output, cools>>

ResetCooldowns ==
  /\ removing = {}
  /\ pstats' = [k \in DOMAIN pstats |-> IF \E p \in Members : member[p].stats = k
                  THEN [pstats[k] EXCEPT !.cooling = FALSE, !.row = 0] ELSE pstats[k]]
  /\ pstats' # pstats
  /\ UNCHANGED <<member, order, removing, task, results, progress, batch, output, cools>>

\* cooldown_until passes; the failures in a row stay counted
CooldownEnds(k) ==
  /\ pstats[k].cooling /\ cools < MaxCools
  /\ pstats' = [pstats EXCEPT ![k].cooling = FALSE]
  /\ cools' = cools + 1
  /\ UNCHANGED <<member, order, removing, task, results, progress, batch, output>>

(***************************************************************************)
(* generate_batch                                                          *)
(***************************************************************************)
\* max_concurrent, or what the pool can take at that moment: nothing when it is empty
Slots(maxConcurrent) ==
  IF maxConcurrent # 0 THEN maxConcurrent ELSE Cardinality(Members) * PerProvider

GenerateBatch(maxConcurrent) ==
  /\ batch.state = "idle"
  /\ batch' = [state |-> "running", slots |-> Slots(maxConcurrent)]
  /\ task' = [i \in Chunks |-> [Queued EXCEPT !.at = "queued"]]
  /\ UNCHANGED <<member, order, removing, pstats, results, progress, output, cools>>

Active == {i \in Chunks : task[i].at \notin {"new", "queued", "done", "failed"}}
Enter(i) ==
  /\ task[i].at = "queued" /\ Cardinality(Active) < batch.slots /\ Loop(i)
  /\ Goes(i, "select")
  /\ UNCHANGED <<member, order, removing, pstats, results, progress, batch, output, cools>>

TaskFailsUnnoticed(i) == Goes(i, "failed") /\ UNCHANGED batch
\* generate raises: gather raises the first exception and the other tasks go on
TaskFails(i) ==
  /\ Goes(i, "failed")
  /\ batch' = [batch EXCEPT !.state = IF @ = "running" THEN "raised" ELSE @]

\* get_available_providers()[0] is the k-th in turn
FirstAvailable(k) == ~Cooling(order[k]) /\ \A j \in 1 .. k - 1 : Cooling(order[j])
\* _select_provider: the first that is not cooling down, and the order turns by one;
\* an id without its stats is a KeyError that generate does not catch
SelectProvider(i) ==
  /\ task[i].at = "select" /\ Loop(i)
  /\ IF Range(order) \subseteq Members /\ \E q \in Range(order) : ~Cooling(q)
       THEN /\ \E k \in DOMAIN order : /\ FirstAvailable(k)
                                      /\ task' = [task EXCEPT ![i].at = "use", ![i].id = order[k]]
            /\ order' = Append(Tail(order), Head(order))
            /\ UNCHANGED batch
       ELSE TaskFails(i) /\ UNCHANGED order
  /\ UNCHANGED <<member, removing, pstats, results, progress, output, cools>>

\* the except clause of generate; a rate limit is slept on also after the last attempt
AfterError(i, limit) ==
  IF limit THEN Goes(i, "sleep") /\ UNCHANGED batch
  ELSE IF task[i].attempt = MaxRetries THEN TaskFails(i)
  ELSE /\ task' = [task EXCEPT ![i].at = "select", ![i].attempt = @ + 1]
       /\ UNCHANGED batch

\* _generate_with_provider looks the provider up: another thread may have removed it
UseProvider(i) ==
  /\ task[i].at = "use"
  /\ LET p == task[i].id IN
     IF p \in Members
       THEN /\ task' = [task EXCEPT ![i].at = "acquire", ![i].sem = member[p].sem,
                                    ![i].stats = member[p].stats, ![i].tries = 1]
            /\ UNCHANGED batch
       ELSE AfterError(i, FALSE)
  /\ UNCHANGED <<member, order, removing, pstats, results, progress, output, cools>>

Users(sem) == {j \in Chunks : task[j].at = "call" /\ task[j].sem = sem}
HasRoomForOneMore(sem) == Cardinality(Users(sem)) <= PerProvider
HasRoom(sem) == Cardinality(Users(sem)) < PerProvider
Acquire(i) ==
  /\ task[i].at = "acquire" /\ HasRoom(task[i].sem) /\ Loop(i)
  /\ Goes(i, "call")
  /\ UNCHANGED <<member, order, removing, pstats, results, progress, batch, output, cools>>

(***************************************************************************)
(* The providers                                                           *)
(***************************************************************************)
\* what one request may end with: LM Studio's second generate_async has no body
Endings(kind) == IF kind = "lm_studio" THEN {"nothing"}
                   ELSE {"array", "short", "limit", "timeout", "error"}
PoolReplies == {"array", "short", "nothing"}

\* retry: the CLI turns an exit code into a RuntimeError and repeats timeouts only
Retried(kind, ending) == kind # "cli" \/ ending = "timeout"

\* without reraise the pool sees a RetryError, which does not tell the rate limit
Reveals(kind, ending) == ending = "limit" /\ kind \in {"ollama", "cli"}

RequestAgain(i, ending) ==
  /\ task[i].at = "call" /\ Loop(i)
  /\ ending \in Endings(KindOf[task[i].id]) \ PoolReplies
  /\ Retried(KindOf[task[i].id], ending) /\ task[i].tries < ProviderTries
  /\ task' = [task EXCEPT ![i].tries = @ + 1]
  /\ UNCHANGED <<member, order, removing, pstats, results, progress, batch, output, cools>>

\* the stats after a failed call, in the object the task holds
Failed(s) == [s EXCEPT !.failed = @ + 1, !.row = @ + 1,
                       !.cooling = @ \/ s.row + 1 >= CoolAfter]
SucceededAnew(s) == [NewStats EXCEPT !.ok = 1]
Succeeded(s) == [s EXCEPT !.ok = @ + 1, !.row = 0]

CallFails(i, ending) ==
  /\ task[i].at = "call" /\ Loop(i)
  /\ LET kind == KindOf[task[i].id] IN
       /\ ending \in Endings(kind) \ PoolReplies
       /\ ~Retried(kind, ending) \/ task[i].tries = ProviderTries
       /\ AfterError(i, Reveals(kind, ending))
  /\ pstats' = [pstats EXCEPT ![task[i].stats] = Failed(@)]
  /\ UNCHANGED <<member, order, removing, results, progress, output, cools>>

CallAnswers(i, ending) ==
  /\ task[i].at = "call" /\ Loop(i)
  /\ ending \in Endings(KindOf[task[i].id]) \cap PoolReplies
  /\ pstats' = [pstats EXCEPT ![task[i].stats] = Succeeded(@)]
  /\ results' = [results EXCEPT ![i] = [by |-> i, reply |-> ending]]
  /\ progress' = progress + 1
  /\ Goes(i, "done")
  /\ UNCHANGED <<member, order, removing, batch, output, cools>>

\* the sleep of the backoff is over
Wake(i) ==
  /\ task[i].at = "sleep" /\ Loop(i)
  /\ IF task[i].attempt = MaxRetries
       THEN TaskFails(i)
       ELSE /\ task' = [task EXCEPT ![i].at = "select", ![i].attempt = @ + 1]
            /\ UNCHANGED batch
  /\ UNCHANGED <<member, order, removing, pstats, results, progress, output, cools>>

(***************************************************************************)
(* translate_texts_chunked                                                 *)
(***************************************************************************)
\* the last line of generate_batch leaves out what is None
Responses == FlattenSeq([i \in Chunks |-> IF results[i].reply = "nothing" THEN <<>> ELSE <<results[i]>>])

ParseAnyArray(response, texts) ==
  CASE response.reply = "array" -> [j \in DOMAIN texts |-> [text |-> texts[j], by |-> response.by]]
    [] response.reply = "short" -> [j \in 1 .. Len(texts) - 1 |-> [text |-> texts[j], by |-> response.by]]
    [] OTHER -> <<>>
\* _parse_json_array: only an array of the expected length counts
ParseJsonArray(response, texts) ==
  IF response.reply = "array"
    THEN [j \in DOMAIN texts |-> [text |-> texts[j], by |-> response.by]] ELSE <<>>

\* zip of the chunks and the responses; a chunk that was not understood stays as it is
ChunkResult(response, texts) ==
  IF ParseJsonArray(response, texts) # <<>> THEN ParseJsonArray(response, texts)
  ELSE [j \in DOMAIN texts |-> [text |-> texts[j], by |-> 0]]

Assembled(responses) ==
  FlattenSeq([c \in DOMAIN responses |-> ChunkResult(responses[c], ChunkTexts(c))])

GatherEnds ==
  /\ batch.state = "running" /\ \A i \in Chunks : task[i].at = "done"
  /\ batch' = [batch EXCEPT !.state = "returned"]
  /\ output' = Assembled(Responses)
  /\ UNCHANGED <<member, order, removing, pstats, task, results, progress, cools>>

TaskStep(i) ==
  \/ Enter(i) \/ SelectProvider(i) \/ UseProvider(i) \/ Acquire(i) \/ Wake(i)
  \/ \E ending \in {"limit", "timeout", "error"} : RequestAgain(i, ending) \/ CallFails(i, ending)
  \/ \E ending \in PoolReplies : CallAnswers(i, ending)

PoolNext ==
  \/ \E p \in PoolIds : AddProvider(p) \/ RemoveProvider(p) \/ ForgetOrder(p)
  \/ ResetPoolStats \/ ResetCooldowns
  \/ \E k \in DOMAIN pstats : CooldownEnds(k)
  \/ \E maxConcurrent \in 0 .. 1 : GenerateBatch(maxConcurrent)
  \/ \E i \in Chunks : TaskStep(i)
  \/ GatherEnds

PoolSpec == PoolInit /\ [][PoolNext]_poolVars

\* the event loop runs its tasks, the semaphores serve first come first, requests
\* end and a removal finishes
PoolFairness ==
  /\ \A i \in Chunks : SF_poolVars(TaskStep(i))
  /\ WF_poolVars(GatherEnds)
PoolFairSpec == PoolSpec /\ PoolFairness

(***************************************************************************)
(* Properties                                                              *)
(***************************************************************************)
\* The turns are those of the members, but for an id that is just being removed, and
\* the attempts stay within their bounds.
PoolTypeOK ==
  /\ \A p \in PoolIds : member[p].sem \in 0 .. Len(pstats) /\ member[p].stats \in 0 .. Len(pstats)
  /\ Range(order) = Members \cup removing
  /\ \A i \in Chunks : task[i].attempt \in 1 .. MaxRetries /\ task[i].tries \in 1 .. ProviderTries
  /\ progress \in 0 .. Cardinality(Chunks)
  /\ batch.state \in {"idle", "running", "returned", "raised"}

\* No more than max_concurrent_per_provider requests use one semaphore at a time, and
\* no more tasks than the batch may run at once are under way.
ConcurrencyBounded ==
  /\ \A k \in DOMAIN pstats : Cardinality(Users(k)) <= PerProvider
  /\ Cardinality(Active) <= batch.slots

\* Every prompt that was answered is one success of one ProviderStats, although stats
\* were reset or the provider was replaced or removed while it was under way.
Successes == UNION {{k} \X (1 .. pstats[k].ok) : k \in DOMAIN pstats}
AnswersCounted == Cardinality(Successes) = Cardinality({i \in Chunks : task[i].at = "done"})

\* When the batch returns there is one text for each text, in their order, and a
\* translated one was made from its own chunk: unless LM Studio answered.
TextsInPlace ==
  batch.state = "returned" /\ (\A i \in Chunks : results[i].reply # "nothing") =>
    /\ progress = Cardinality(Chunks)
    /\ Len(output) = TextCount
    /\ \A j \in 1 .. TextCount :
         output[j].text = j /\ (output[j].by # 0 => j \in Range(ChunkTexts(output[j].by)))

\* Tasks that wait, retry and fail over one another, and operators that change the pool
\* under them, neither break its limits and its books nor mix up the texts.
BatchSound == ConcurrencyBounded /\ AnswersCounted /\ TextsInPlace

\* A batch that the pool lets run at all returns or raises, whatever the providers
\* answer and whoever is added, removed or reset meanwhile.
BatchEnds == batch.state = "running" /\ batch.slots > 0 ~> batch.state # "running"
=============================================================================
