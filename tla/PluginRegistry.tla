----------------------------- MODULE PluginRegistry -----------------------------
(***************************************************************************)
(* The plugin registry of the worker (plugins/registry.py, plugins/base.py)*)
(* over directories whose files change between two discoveries.  One thread*)
(* uses a registry; rglob lists the files in any order.                    *)
(*                                                                         *)
(* A PluginInfo is an object: _plugins and the four categories point to it.*)
(* infos numbers the objects and the other variables hold these numbers.   *)
(***************************************************************************)
EXTENDS Integers, Sequences, FiniteSets, SequencesExt

CONSTANTS
  PluginFiles,   \* Python files of the plugin directories
  PluginNames,   \* values of the name attribute
  Contents,      \* what a file may hold: its plugin classes, in the order of getmembers
  Extensions,    \* file extensions asked for
  MaxInfos,      \* bound on the PluginInfo objects
  MaxInstances   \* bound on the plugin instances

\* plugins/base.py: what a class must have, besides name, version and dependencies
ParserPlugin            == {"supported_extensions", "parse", "render"}
QualityCheckPlugin      == {"check"}
PipelineStagePlugin     == {"execute"}
UploadDestinationPlugin == {"upload", "delete"}
Protocols == {ParserPlugin, QualityCheckPlugin, PipelineStagePlugin, UploadDestinationPlugin}

\* a missing submodule of a missing package makes find_spec raise
PluginClass ==
  [name : PluginNames, attributes : BOOLEAN, members : SUBSET UNION Protocols,
   extensions : SUBSET Extensions, needs : {"nothing", "missing", "missing.part"}]

ASSUME PluginAssumption ==
  /\ IsFiniteSet(PluginFiles)
  /\ Contents \subseteq Seq(PluginClass)
  /\ {MaxInfos, MaxInstances} \subseteq Nat

VARIABLES
  files,     \* files[f]: the classes in file f
  infos,     \* the PluginInfo objects made so far
  plugins,   \* _plugins: name to info, 0 for none
  category,  \* _parsers, _quality_checks, _pipeline_stages, _uploads
  instances  \* instances[i]: what happened to the i-th instance

pluginVars == <<files, infos, plugins, category, instances>>

NoInfo == 0

PluginInit ==
  /\ files \in [PluginFiles -> Contents]
  /\ infos = <<>>
  /\ plugins = [n \in PluginNames |-> NoInfo]
  /\ category = [p \in Protocols |-> [n \in PluginNames |-> NoInfo]]
  /\ instances = <<>>

\* another deployment replaces a file
ReplaceFile(f, content) ==
  /\ files' = [files EXCEPT ![f] = content]
  /\ UNCHANGED <<infos, plugins, category, instances>>

(***************************************************************************)
(* discover                                                                *)
(***************************************************************************)
ImplementsProtocol(cls, protocol) == protocol \subseteq cls.members
IsPluginClass(cls) == cls.attributes /\ \E p \in Protocols : ImplementsProtocol(cls, p)

CreatePluginInfo(cls) == [cls |-> cls, met |-> cls.needs = "nothing", instance |-> 0]

LoadedAllOrNothing(content) ==
  IF \E i \in DOMAIN content : content[i].needs = "missing.part" THEN {}
  ELSE {i \in DOMAIN content : IsPluginClass(content[i])}
\* _load_from_file: an exception ends the file, what came before it stays
LoadFromFile(content) ==
  {i \in DOMAIN content :
     /\ IsPluginClass(content[i])
     /\ \A j \in 1 .. i : IsPluginClass(content[j]) => content[j].needs # "missing.part"}

\* a class is known by its file and its place there; turn[f] is when rglob lists file f
FoundClasses == UNION {{f} \X LoadFromFile(files[f]) : f \in PluginFiles}
ClassAt(x)   == files[x[1]][x[2]]
Turns        == {turn \in [PluginFiles -> 1 .. Cardinality(PluginFiles)] : IsInjective(turn)}
Before(turn, x, y) == turn[x[1]] < turn[y[1]] \/ (x[1] = y[1] /\ x[2] < y[2])

\* the first class of each name, in the order the files are listed
FirstNamed(turn, n) ==
  CHOOSE x \in FoundClasses :
    /\ ClassAt(x).name = n
    /\ \A y \in FoundClasses : ClassAt(y).name = n => ~Before(turn, y, x)
FirstOfEachName(turn) ==
  [n \in {ClassAt(x).name : x \in FoundClasses} |-> CreatePluginInfo(ClassAt(FirstNamed(turn, n)))]

CategoryOfAnyClass(p, id, new) ==
  [n \in PluginNames |-> IF n \in DOMAIN new THEN id[n] ELSE category[p][n]]
CategoryFirstStays(p, id, new) ==
  [n \in PluginNames |-> IF /\ n \in DOMAIN new /\ ImplementsProtocol(new[n].cls, p)
                            /\ category[p][n] = NoInfo
                         THEN id[n] ELSE category[p][n]]
\* _register_plugin: a category keeps a name whose class has left it
CategoryWith(p, id, new) ==
  [n \in PluginNames |-> IF n \in DOMAIN new /\ ImplementsProtocol(new[n].cls, p)
                         THEN id[n] ELSE category[p][n]]

Discover ==
  \E turn \in Turns :
    LET new  == FirstOfEachName(turn)
        made == SetToSeq(DOMAIN new)
        id   == [n \in DOMAIN new |-> Len(infos) + (CHOOSE i \in DOMAIN made : made[i] = n)]
    IN  /\ Len(infos) + Len(made) <= MaxInfos
        /\ infos' = infos \o [i \in DOMAIN made |-> new[made[i]]]
        /\ plugins' = [n \in PluginNames |-> IF n \in DOMAIN new THEN id[n] ELSE plugins[n]]
        /\ category' = [p \in Protocols |-> CategoryWith(p, id, new)]
        /\ UNCHANGED <<files, instances>>

(***************************************************************************)
(* Instances                                                               *)
(***************************************************************************)
Initialized(info) == info.instance # 0

\* initialize_plugin: an instance that was there is dropped without a shutdown
Initialize(n) ==
  /\ plugins[n] # NoInfo /\ infos[plugins[n]].met
  /\ Len(instances) < MaxInstances
  /\ instances' = Append([i \in DOMAIN instances |->
                            IF i = infos[plugins[n]].instance THEN "dropped" ELSE instances[i]],
                         "live")
  /\ infos' = [infos EXCEPT ![plugins[n]].instance = Len(instances) + 1]
  /\ UNCHANGED <<files, plugins, category>>

ShutDownKeptInitialized(names) ==
  LET done == {plugins[n] : n \in names} \ {NoInfo} IN
    /\ instances' = [i \in DOMAIN instances |->
         IF \E k \in done : infos[k].instance = i THEN "shut" ELSE instances[i]]
    /\ UNCHANGED infos
\* the plugins named are shut down; one whose shutdown raises stays as it was
ShutDown(names) ==
  LET done == {plugins[n] : n \in names} \ {NoInfo} IN
    /\ instances' = [i \in DOMAIN instances |->
         IF \E k \in done : infos[k].instance = i THEN "shut" ELSE instances[i]]
    /\ infos' = [k \in DOMAIN infos |-> IF k \in done THEN [infos[k] EXCEPT !.instance = 0]
                                                      ELSE infos[k]]

ShutdownPlugin(n) ==
  /\ plugins[n] # NoInfo /\ Initialized(infos[plugins[n]])
  /\ ShutDown({n})
  /\ UNCHANGED <<files, plugins, category>>

\* shutdown_all goes on after a plugin that raises
ShutdownAll(raising) ==
  /\ ShutDown(PluginNames \ raising)
  /\ UNCHANGED <<files, plugins, category>>

PluginNext ==
  \/ \E f \in PluginFiles, content \in Contents : ReplaceFile(f, content)
  \/ Discover
  \/ \E n \in PluginNames : Initialize(n) \/ ShutdownPlugin(n)
  \/ \E raising \in SUBSET PluginNames : ShutdownAll(raising)

PluginSpec == PluginInit /\ [][PluginNext]_pluginVars

\* get_parser_for_extension may return the name
ParserFor(ext, n) ==
  LET k == category[ParserPlugin][n] IN
    k # NoInfo /\ Initialized(infos[k]) /\ ext \in infos[k].cls.extensions

(***************************************************************************)
(* Properties                                                              *)
(***************************************************************************)
\* The dictionaries point to infos of their names and the infos to instances.
PluginTypeOK ==
  /\ files \in [PluginFiles -> Contents]
  /\ \A n \in PluginNames : plugins[n] # NoInfo => infos[plugins[n]].cls.name = n
  /\ \A p \in Protocols, n \in PluginNames : category[p][n] # NoInfo =>
       infos[category[p][n]].cls.name = n /\ ImplementsProtocol(infos[category[p][n]].cls, p)
  /\ \A k \in DOMAIN infos : infos[k].instance \in 0 .. Len(instances)
  /\ \A i \in DOMAIN instances : instances[i] \in {"live", "shut", "dropped"}

\* The parser found for an extension has a live instance, never one that was shut
\* down or replaced, and everything it depends on: also after rediscoveries.
ServingParserLive ==
  \A ext \in Extensions, n \in PluginNames : ParserFor(ext, n) =>
    LET info == infos[category[ParserPlugin][n]] IN
      instances[info.instance] = "live" /\ info.met

\* A category differs from _plugins only for a name whose newest class has left
\* that category: a rediscovered plugin is replaced everywhere at once.
CategoriesFollow ==
  \A p \in Protocols, n \in PluginNames :
    plugins[n] # NoInfo /\ ImplementsProtocol(infos[plugins[n]].cls, p) =>
      category[p][n] = plugins[n]

\* "one bad plugin shouldn't break discovery": after discover, every plugin that is
\* the first of its file is registered under its name, whatever else is there.
BadPluginHidesNoOther ==
  Discover => \A f \in PluginFiles :
    files[f] # <<>> /\ IsPluginClass(files[f][1]) /\ files[f][1].needs # "missing.part" =>
      plugins'[files[f][1].name] > Len(infos)

\* Whatever is discovered, initialised and shut down in whatever order, a look-up finds
\* the newest plugin of a name, and a parser that is alive.
LookupsRight == [][ServingParserLive' /\ CategoriesFollow' /\ BadPluginHidesNoOther]_pluginVars
=============================================================================
