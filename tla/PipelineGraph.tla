---------------------------- MODULE PipelineGraph ----------------------------
(***************************************************************************)
(* How a pipeline comes to be: a configuration, in the code or in a JSON   *)
(* file, is built into modules, connectors and links (BuildPipeline), and  *)
(* Start opens the modules in the order of an unordered_map.               *)
(*                                                                         *)
(* A module's configuration is a record with its name, class, params,      *)
(* queue_capicity and next.  modules_map holds for each name the class of  *)
(* its instance, or Null for the null pointer that operator[] inserts.     *)
(***************************************************************************)
EXTENDS Naturals, Sequences, SequencesExt

CONSTANTS Configurations,  \* what the program is started with: where its
                           \* modules are configured (from), whether the file
                           \* parses, and the configurations of the modules
          Registered,      \* the classes that ModuleFactory knows
          Processors       \* the processors that ReflexObject knows, with
                           \* their kind: "pre" or "post"

Null == "null"
Phases == {"read", "add", "link", "open", "run", "failed", "crashed"}

VARIABLES conf,            \* the configuration
          configs,         \* module_configs of BuildPipeline
          at,              \* how many of them the loop has handled
          phase,
          modules_map,
          modules_config_,
          connector,       \* capacity of each module's connector
          output_connectors,
          input_connectors,
          opened,          \* modules_open
          run_id           \* number of low bits set

mapVars == <<modules_map, modules_config_, connector>>
linkVars == <<output_connectors, input_connectors>>
startVars == <<opened, run_id>>
graphVars == <<conf, configs, at, phase, mapVars, linkVars, startVars>>

With(f, n, v) == [x \in DOMAIN f \cup {n} |-> IF x = n THEN v ELSE f[x]]
NoNames == [n \in {} |-> << >>]

GraphInit ==
    /\ conf \in Configurations
    /\ phase = IF conf.from = "code" THEN "add" ELSE "read"
    /\ configs = IF conf.from = "code" THEN conf.modules ELSE << >>
    /\ at = 0
    /\ modules_map = NoNames
    /\ modules_config_ = NoNames
    /\ connector = NoNames
    /\ output_connectors = NoNames
    /\ input_connectors = NoNames
    /\ opened = {}
    /\ run_id = 1

Names == DOMAIN modules_map

-----------------------------------------------------------------------------
(* ConfigsFromJsonFile and BuildPipelineByJSONFile.                        *)

\* class_name is there and is a string.
ParseByJSONStr(v) == v.class # Null

ConfigsFromJsonFile(file) ==
    /\ file.parses
    /\ \A v \in Range(file.modules) : ParseByJSONStr(v)
    /\ IsInjective([i \in DOMAIN file.modules |-> file.modules[i].name])

\* The vector is passed by value: the caller's configs stay empty.
BuildPipelineByJSONFile ==
    /\ phase = "read"
    /\ phase' = IF ConfigsFromJsonFile(conf) THEN "add" ELSE "open"
    /\ UNCHANGED <<conf, configs, at, mapVars, linkVars, startVars>>

-----------------------------------------------------------------------------
(* BuildPipeline.                                                          *)

\* ModuleCreatorWorker::Create
Create(class) == IF class \in Registered THEN class ELSE Null

\* AddModule: a name that is taken is refused, and the first instance stays.
AddModule(v) ==
    IF v.name \in Names
    THEN UNCHANGED <<modules_map, linkVars>>
    ELSE /\ modules_map' = With(modules_map, v.name, Create(v.class))
         /\ output_connectors' = With(output_connectors, v.name, << >>)
         /\ input_connectors' = With(input_connectors, v.name, << >>)

\* The first loop: AddModuleConfig, Create, AddModule and SetModuleAttribute,
\* of which the last replaces the connector of a name that is taken.
BuildAdd ==
    /\ phase = "add"
    /\ at < Len(configs)
    /\ LET v == configs[at + 1] IN
       /\ Create(v.class) # Null
       /\ modules_config_' = With(modules_config_, v.name, v.params)
       /\ AddModule(v)
       /\ connector' = With(connector, v.name, v.queue_capicity)
    /\ at' = at + 1
    /\ UNCHANGED <<conf, configs, phase, startVars>>

\* AddModule dereferences the instance that could not be created.
BuildAddNull ==
    /\ phase = "add"
    /\ at < Len(configs)
    /\ Create(configs[at + 1].class) = Null
    /\ phase' = "crashed"
    /\ UNCHANGED <<conf, configs, at, mapVars, linkVars, startVars>>

BuildAdded ==
    /\ phase = "add"
    /\ at = Len(configs)
    /\ phase' = "link"
    /\ at' = 0
    /\ UNCHANGED <<conf, configs, mapVars, linkVars, startVars>>

\* LinkModules refuses a null pointer; the lookup has inserted it.
LinkModules(up, down) ==
    IF down \in Names /\ modules_map[down] # Null
    THEN /\ output_connectors' = [output_connectors EXCEPT
                                    ![up] = Append(@, down)]
         /\ input_connectors' = [input_connectors EXCEPT
                                    ![down] = Append(@, up)]
         /\ UNCHANGED modules_map
    ELSE /\ modules_map' = With(modules_map, down, Null)
         /\ UNCHANGED linkVars

\* Mutant of BuildLink: the last of a module's successors is linked.
BuildLinkLast ==
    /\ phase = "link"
    /\ at < Len(configs)
    /\ LET v == configs[at + 1] IN
       IF v.next = << >> THEN UNCHANGED <<modules_map, linkVars>>
                         ELSE LinkModules(v.name, Last(v.next))
    /\ at' = at + 1
    /\ UNCHANGED <<conf, configs, phase, modules_config_, connector, startVars>>

\* The second loop: only the first of a module's successors is linked.
BuildLink ==
    /\ phase = "link"
    /\ at < Len(configs)
    /\ LET v == configs[at + 1] IN
       IF v.next = << >> THEN UNCHANGED <<modules_map, linkVars>>
                         ELSE LinkModules(v.name, Head(v.next))
    /\ at' = at + 1
    /\ UNCHANGED <<conf, configs, phase, modules_config_, connector, startVars>>

BuildLinked ==
    /\ phase = "link"
    /\ at = Len(configs)
    /\ phase' = "open"
    /\ UNCHANGED <<conf, configs, at, mapVars, linkVars, startVars>>

-----------------------------------------------------------------------------
(* Start.                                                                  *)

\* GetModuleParamSet
ParamSet(n) == modules_config_[n]
HasParams(n, keys) == keys \subseteq DOMAIN ParamSet(n)

\* What Open of a module may return.  Only Inference depends on its
\* surroundings: the infer server may refuse the session.
OpenResults(n) ==
    CASE modules_map[n] = "Source" ->
           {HasParams(n, {"decoder_type", "path"})
            /\ ParamSet(n)["decoder_type"] \in {"opencv", "codec"}}
      [] modules_map[n] = "Inference" ->
           IF HasParams(n, {"model_path", "preproc", "posproc"})
           THEN BOOLEAN ELSE {FALSE}
      [] modules_map[n] \in {"OpencvDetect", "OpencvExtract"} ->
           {HasParams(n, {"path"})}
      [] OTHER -> {TRUE}

\* ReflexObject::CreateObject, with the cast to the kind that is asked for.
CreateObject(name, kind) ==
    name \in DOMAIN Processors /\ Processors[name] = kind

\* Start dereferences the null pointer of an unknown successor; Init of
\* Inference dereferences a processor that is not registered.
OpenCrashes(n) ==
    \/ modules_map[n] = Null
    \/ /\ modules_map[n] = "Inference"
       /\ TRUE \in OpenResults(n)
       /\ \/ ~CreateObject(ParamSet(n)["posproc"], "post")
          \/ /\ ParamSet(n)["preproc"] # "cncv"
             /\ ~CreateObject(ParamSet(n)["preproc"], "pre")

\* A module that does not open ends the loop.  If others had been opened, the
\* first of them is closed and Start returns false; otherwise it goes on.
Open(n) ==
    /\ phase = "open"
    /\ n \in Names \ opened
    /\ run_id' = run_id + 1
    /\ \/ /\ OpenCrashes(n)
          /\ phase' = "crashed"
          /\ UNCHANGED opened
       \/ /\ ~OpenCrashes(n)
          /\ TRUE \in OpenResults(n)
          /\ opened' = opened \cup {n}
          /\ UNCHANGED phase
       \/ /\ ~OpenCrashes(n)
          /\ FALSE \in OpenResults(n)
          /\ phase' = IF opened = {} THEN "run" ELSE "failed"
          /\ UNCHANGED opened
    /\ UNCHANGED <<conf, configs, at, mapVars, linkVars>>

\* running is set, the connectors and the threads are started.
Launch ==
    /\ phase = "open"
    /\ opened = Names
    /\ phase' = "run"
    /\ UNCHANGED <<conf, configs, at, mapVars, linkVars, startVars>>

Build == BuildPipelineByJSONFile \/ BuildAdd \/ BuildAddNull \/ BuildAdded
         \/ BuildLink \/ BuildLinked
Start == (\E n \in Names : Open(n)) \/ Launch
=============================================================================
