--------------------------- MODULE TranslationCache ---------------------------
(***************************************************************************)
(* The translation cache of the worker: CacheManager (cache/manager.py)    *)
(* over FileCacheBackend or RedisCacheBackend (cache/backend.py).  Clients *)
(* are processes or threads that share a directory or a Redis database.    *)
(*                                                                         *)
(* A file is opened, which empties it, and written; nothing locks it.  A   *)
(* write into a file that was unlinked meanwhile is lost.  Redis commands  *)
(* are atomic and may fail.  The clock counts in units of the TTL.         *)
(***************************************************************************)
EXTENDS Integers, FiniteSets

CONSTANTS
  CacheClients,
  Requests,     \* what may be asked: text, surrounding blanks, model, glossary
  Sizes,        \* lengths of an encoded entry
  Setups,       \* [kind : {"file", "redis"}, enabled : BOOLEAN]
  Ttl,          \* default_ttl
  MaxClock,     \* bound on the clock
  MaxCalls      \* bound on the calls of the clients together

Request == [text : STRING, blanks : BOOLEAN, model : STRING, glossary : Nat]
CacheSetup == [kind : {"file", "redis"}, enabled : BOOLEAN]

ASSUME CacheAssumption ==
  /\ Requests \subseteq Request
  /\ Setups \subseteq CacheSetup
  /\ Sizes \subseteq Nat
  /\ Ttl \in Nat \ {0} /\ {MaxClock, MaxCalls} \subseteq Nat

VARIABLES
  cacheSetup,
  cell,   \* cell[k]: what is stored under key k, and which file it is in
  caller, \* caller[c]: what client c does next, for which request, on which key
  clock,
  stats,  \* _stats
  asked   \* answers of retrieve since reset_stats, and the calls so far

cacheVars == <<cacheSetup, cell, caller, clock, stats, asked>>

GenerateKeyWithoutGlossary(r) == [text |-> r.text, model |-> r.model, glossary |-> 1]
\* generate_key: the stripped text, the model and the glossary (and the context)
GenerateKey(r) == [text |-> r.text, model |-> r.model, glossary |-> r.glossary]
Keys == {GenerateKey(r) : r \in Requests}

Entry(k, size) == [state |-> "whole", for |-> k, size |-> size, at |-> clock]
Blank(state)   == [state |-> state, for |-> 0, size |-> 0, at |-> 0]
Absent         == Blank("absent")
Free           == [at |-> "idle", request |-> 0, value |-> Absent, file |-> 0,
                   todo |-> {}, hit |-> FALSE]
NoStats        == [hits |-> 0, misses |-> 0, stores |-> 0, invalidations |-> 0]
File           == cacheSetup.kind = "file"

CacheInit ==
  /\ cacheSetup \in Setups
  /\ cell = [k \in Keys |-> [content |-> Absent, file |-> 0]]
  /\ caller = [c \in CacheClients |-> Free]
  /\ clock = 0
  /\ stats = NoStats
  /\ asked = [answers |-> 0, calls |-> 0]

KeyOf(c)     == GenerateKey(caller[c].request)
Content(k)   == cell[k].content
Expired(v)   == v.state = "whole" /\ clock - v.at > Ttl
Call         == asked.calls < MaxCalls /\ asked' = [asked EXCEPT !.calls = @ + 1]
CallerGoes(c, at)  == caller' = [caller EXCEPT ![c].at = at]
CallerEnds(c)      == caller' = [caller EXCEPT ![c] = Free]
Unlinked(k)  == [cell EXCEPT ![k] = [content |-> Absent, file |-> @.file + 1]]

(***************************************************************************)
(* retrieve and get_or_translate                                           *)
(***************************************************************************)
GetOrTranslate(c, r) ==
  /\ caller[c].at = "idle" /\ Call
  /\ caller' = [caller EXCEPT ![c] = [Free EXCEPT
       !.at = IF cacheSetup.enabled THEN "get" ELSE "translate", !.request = r]]
  /\ UNCHANGED <<cacheSetup, cell, clock, stats>>

Miss == /\ stats' = [stats EXCEPT !.misses = @ + 1]
        /\ asked' = [asked EXCEPT !.answers = @ + 1]
Hit  == /\ stats' = [stats EXCEPT !.hits = @ + 1]
        /\ asked' = [asked EXCEPT !.answers = @ + 1]

UsableAtAnyAge(v) == v.state = "whole"
\* get of either backend: what cannot be decoded counts as missing, and Redis
\* expires its keys itself
Usable(v) == v.state = "whole" /\ ~Expired(v)
Get(c) ==
  LET v == Content(KeyOf(c)) IN
  /\ caller[c].at = "get"
  /\ \/ Usable(v) /\ Hit
        /\ caller' = [caller EXCEPT ![c].at = "answer", ![c].value = v, ![c].hit = TRUE]
     \/ ~Usable(v) /\ (Expired(v) => ~File) /\ Miss /\ CallerGoes(c, "translate")
     \/ Expired(v) /\ File /\ CallerGoes(c, "unlink") /\ UNCHANGED <<stats, asked>>
  /\ UNCHANGED <<cacheSetup, cell, clock>>

UnlinkExpiredUncounted(c) ==
  /\ caller[c].at = "unlink"
  /\ cell' = Unlinked(KeyOf(c))
  /\ asked' = [asked EXCEPT !.answers = @ + 1]
  /\ CallerGoes(c, "translate")
  /\ UNCHANGED <<cacheSetup, clock, stats>>
\* the expired file is unlinked by name, whatever the name stands for by then
UnlinkExpired(c) ==
  /\ caller[c].at = "unlink"
  /\ cell' = Unlinked(KeyOf(c))
  /\ Miss
  /\ CallerGoes(c, "translate")
  /\ UNCHANGED <<cacheSetup, clock>>

\* an exception of the Redis client, or of the decoder at a letter cut in two, leaves
\* get_or_translate: nothing is translated
GetRaises(c) ==
  /\ caller[c].at = "get" /\ (File => Content(KeyOf(c)).state = "torn")
  /\ CallerEnds(c)
  /\ UNCHANGED <<cacheSetup, cell, clock, stats, asked>>

\* translate_func
TranslateText(c, size) ==
  /\ caller[c].at = "translate"
  /\ caller' = [caller EXCEPT ![c].value = Entry(KeyOf(c), size),
                              ![c].at = IF cacheSetup.enabled THEN "set" ELSE "answer"]
  /\ UNCHANGED <<cacheSetup, cell, clock, stats, asked>>

AnswerCaller(c) ==
  /\ caller[c].at = "answer"
  /\ CallerEnds(c)
  /\ UNCHANGED <<cacheSetup, cell, clock, stats, asked>>

\* warm and batch_store: entries that are known are stored without a look
Warm(c, r, size) ==
  /\ caller[c].at = "idle" /\ Call
  /\ cacheSetup.enabled
  /\ caller' = [caller EXCEPT ![c] = [Free EXCEPT !.at = "set", !.request = r,
                                        !.value = Entry(GenerateKey(r), size)]]
  /\ UNCHANGED <<cacheSetup, cell, clock, stats>>

(***************************************************************************)
(* store                                                                   *)
(***************************************************************************)
\* setex: one command, or an exception that counts as not stored
SetRedis(c) ==
  /\ caller[c].at = "set" /\ ~File
  /\ \/ /\ cell' = [cell EXCEPT ![KeyOf(c)].content = [caller[c].value EXCEPT !.at = clock]]
        /\ stats' = [stats EXCEPT !.stores = @ + 1]
     \/ UNCHANGED <<cell, stats>>
  /\ CallerGoes(c, "answer")
  /\ UNCHANGED <<cacheSetup, clock, asked>>

\* open(path, "w")
OpenFile(c) ==
  /\ caller[c].at = "set" /\ File
  /\ cell' = [cell EXCEPT ![KeyOf(c)].content = Blank("empty")]
  /\ caller' = [caller EXCEPT ![c].at = "write", ![c].file = cell[KeyOf(c)].file,
                              ![c].value = [@ EXCEPT !.at = clock]]
  /\ UNCHANGED <<cacheSetup, clock, stats, asked>>

Interleaved(old, new) ==
  IF old.state # "empty" THEN [new EXCEPT !.size = old.size + new.size] ELSE new
\* the bytes replace the first ones of the file: a longer text keeps its tail
Overwritten(old, new) ==
  IF old.state # "empty" /\ old.size > new.size
    THEN [Blank("torn") EXCEPT !.size = old.size] ELSE new
WriteFile(c) ==
  /\ caller[c].at = "write"
  /\ LET k == KeyOf(c) IN
     cell' = IF cell[k].file = caller[c].file
               THEN [cell EXCEPT ![k].content = Overwritten(@, caller[c].value)] ELSE cell
  /\ stats' = [stats EXCEPT !.stores = @ + 1]
  /\ CallerGoes(c, "answer")
  /\ UNCHANGED <<cacheSetup, clock, asked>>

\* the disk is full: what was there is gone already
WriteFails(c) ==
  /\ caller[c].at = "write"
  /\ CallerGoes(c, "answer")
  /\ UNCHANGED <<cacheSetup, cell, clock, stats, asked>>

(***************************************************************************)
(* Removal                                                                 *)
(***************************************************************************)
\* invalidate, and each key of invalidate_by_prefix on Redis
Invalidate(c, k) ==
  /\ caller[c].at = "idle" /\ Call /\ cacheSetup.enabled
  /\ Content(k) # Absent
  /\ cell' = Unlinked(k)
  /\ stats' = [stats EXCEPT !.invalidations = @ + 1]
  /\ UNCHANGED <<cacheSetup, caller, clock>>

\* clear lists the files, unlinks one after the other and gives up at one that is gone
Clear(c) ==
  /\ caller[c].at = "idle" /\ Call /\ cacheSetup.enabled
  /\ IF File
       THEN /\ caller' = [caller EXCEPT ![c].at = "clear",
                            ![c].todo = {k \in Keys : Content(k) # Absent}]
            /\ UNCHANGED cell
       ELSE /\ cell' = [k \in Keys |-> [cell[k] EXCEPT !.content = Absent]]
            /\ UNCHANGED caller
  /\ UNCHANGED <<cacheSetup, clock, stats>>

ClearFile(c) ==
  /\ caller[c].at = "clear"
  /\ \/ \E k \in caller[c].todo :
          IF Content(k) = Absent
            THEN CallerEnds(c) /\ UNCHANGED cell
            ELSE /\ cell' = Unlinked(k)
                 /\ caller' = [caller EXCEPT ![c].todo = @ \ {k}]
     \/ caller[c].todo = {} /\ CallerEnds(c) /\ UNCHANGED cell
  /\ UNCHANGED <<cacheSetup, clock, stats, asked>>

\* cleanup_expired reads a file, then unlinks it when it was expired or not JSON
CleanupExpired(c, r) ==
  LET v == Content(GenerateKey(r)) IN
  /\ caller[c].at = "idle" /\ Call /\ File
  /\ v.state \in {"empty", "torn"} \/ Expired(v)
  /\ caller' = [caller EXCEPT ![c].at = "sweep", ![c].request = r]
  /\ UNCHANGED <<cacheSetup, cell, clock, stats>>

Sweep(c) ==
  /\ caller[c].at = "sweep"
  /\ cell' = Unlinked(KeyOf(c))
  /\ CallerEnds(c)
  /\ UNCHANGED <<cacheSetup, clock, stats, asked>>

ResetStats ==
  /\ stats # NoStats
  /\ stats' = NoStats
  /\ asked' = [asked EXCEPT !.answers = 0]
  /\ UNCHANGED <<cacheSetup, cell, caller, clock>>

CacheTick ==
  /\ clock < MaxClock
  /\ clock' = clock + 1
  /\ UNCHANGED <<cacheSetup, cell, caller, stats, asked>>

CacheNext ==
  \/ \E c \in CacheClients :
       \/ \E r \in Requests : GetOrTranslate(c, r) \/ CleanupExpired(c, r)
       \/ \E r \in Requests, size \in Sizes : Warm(c, r, size)
       \/ \E size \in Sizes : TranslateText(c, size)
       \/ \E k \in Keys : Invalidate(c, k)
       \/ Get(c) \/ UnlinkExpired(c) \/ GetRaises(c) \/ AnswerCaller(c)
       \/ SetRedis(c) \/ OpenFile(c) \/ WriteFile(c) \/ WriteFails(c)
       \/ Clear(c) \/ ClearFile(c) \/ Sweep(c)
  \/ ResetStats \/ CacheTick

CacheSpec == CacheInit /\ [][CacheNext]_cacheVars

(***************************************************************************)
(* Properties                                                              *)
(***************************************************************************)
\* A stored entry is whole, with the length of one text, or one of the things that
\* writers and crashes leave in a file; no entry is of the future.
CacheTypeOK ==
  /\ cacheSetup \in Setups
  /\ \A k \in Keys : LET v == cell[k].content IN
       /\ v.state \in {"absent", "empty", "torn", "whole"}
       /\ v.state = "whole" => v.size \in Sizes /\ v.at <= clock
  /\ \A c \in CacheClients :
       caller[c].at \in {"idle", "get", "unlink", "translate", "set", "write", "answer",
                         "clear", "sweep"}
  /\ clock \in 0 .. MaxClock /\ asked.calls \in 0 .. MaxCalls

\* What retrieve returns is a translation of the text that was asked for, by the
\* same model under the same glossary, however writers of a file overlap.
HitIsForRequest ==
  \A c \in CacheClients : caller[c].hit =>
    /\ caller[c].value.for.text = caller[c].request.text
    /\ caller[c].value.for.model = caller[c].request.model
    /\ caller[c].value.for.glossary = caller[c].request.glossary

\* Each answer of retrieve since reset_stats is one hit or one miss, also when the
\* entry was found expired, could not be read or was removed by someone else.
StatsExact == stats.hits + stats.misses = asked.answers

\* No entry that is older than the TTL is returned, on either backend.
HitIsFresh ==
  \A c \in CacheClients :
    caller'[c].hit /\ ~caller[c].hit => clock - caller'[c].value.at <= Ttl

\* A caller is answered with what it asked for, fresh, and the answer is counted once.
AnswersRight == [][HitIsForRequest' /\ HitIsFresh /\ StatsExact']_cacheVars
=============================================================================
