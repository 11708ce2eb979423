--------------------------- MODULE MCWorkerServices ---------------------------
(***************************************************************************)
(* TLC instances of the services of the translation worker that share no   *)
(* state: the folder watcher, the translation cache, the plugin registry   *)
(* and the provider pool.  One of them moves in a behaviour; part says     *)
(* which, and the others stay in one of their initial states.              *)
(***************************************************************************)
EXTENDS FolderWatcher, TranslationCache, PluginRegistry, ProviderPool

VARIABLE part
serviceVars == <<folderVars, cacheVars, pluginVars, poolVars, part>>

(* Three requests: one with blanks around the text, one with another glossary. *)
Rq(text, blanks, model, glossary) ==
  [text |-> text, blanks |-> blanks, model |-> model, glossary |-> glossary]
SomeRequests == {Rq("a", FALSE, "m", 1), Rq("a", TRUE, "m", 1), Rq("a", FALSE, "m", 2)}
SomeSetups == {[kind |-> "file", enabled |-> TRUE], [kind |-> "redis", enabled |-> TRUE],
               [kind |-> "file", enabled |-> FALSE]}

(* Files whose plugins change kind, miss a dependency, break the import or are none. *)
Cl(name, members, extensions, needs) ==
  [name |-> name, attributes |-> TRUE, members |-> members, extensions |-> extensions,
   needs |-> needs]
APdf  == Cl("a", ParserPlugin, {"pdf"}, "nothing")
ACheck == Cl("a", QualityCheckPlugin, {}, "nothing")
ABoth == Cl("a", ParserPlugin \cup QualityCheckPlugin, {"pdf", "doc"}, "missing")
BBad  == Cl("b", UploadDestinationPlugin, {}, "missing.part")
BDoc  == Cl("b", ParserPlugin, {"doc"}, "nothing")
BOdd  == [Cl("b", {"parse", "upload"}, {}, "nothing") EXCEPT !.attributes = FALSE]
SomeContents == {<<APdf, BBad>>, <<ACheck>>, <<BDoc, ABoth>>, <<BOdd, BDoc>>}

(* A command line tool beside a local server. *)
SomeKinds == [p \in {"q1", "q2"} |-> IF p = "q1" THEN "cli" ELSE "lm_studio"]

ServicesInit ==
  /\ part \in {"folder", "cache", "plugins", "pool"}
  /\ FolderInit /\ CacheInit /\ PluginInit /\ PoolInit
  /\ part # "cache" => cacheSetup = [kind |-> "file", enabled |-> TRUE]
  /\ part # "plugins" => files = [f \in PluginFiles |-> <<ACheck>>]

ServicesNext ==
  /\ \/ part = "folder" /\ FolderNext /\ UNCHANGED <<cacheVars, pluginVars, poolVars>>
     \/ part = "cache" /\ CacheNext /\ UNCHANGED <<folderVars, pluginVars, poolVars>>
     \/ part = "plugins" /\ PluginNext /\ UNCHANGED <<folderVars, cacheVars, poolVars>>
     \/ part = "pool" /\ PoolNext /\ UNCHANGED <<folderVars, cacheVars, pluginVars>>
  /\ UNCHANGED part

(* A part that does not move has no fair action enabled. *)
ServicesSpec ==
  ServicesInit /\ [][ServicesNext]_serviceVars /\ FolderFairness /\ PoolFairness

(* The types of all parts, moving or at rest. *)
ServicesTypeOK == FolderTypeOK /\ CacheTypeOK /\ PluginTypeOK /\ PoolTypeOK
=============================================================================
