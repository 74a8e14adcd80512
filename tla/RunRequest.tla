----------------------------- MODULE RunRequest -----------------------------
(***************************************************************************)
(* From the command line to a list of recipes that can run: the keywords   *)
(* select recipes, dependencies are added and ordered, the settings of     *)
(* --config-file and --update-config are converted and merged, and the     *)
(* external tools each recipe needs are looked for (core/cmd/run.py,       *)
(* report.py and config.py; registry.py; lib/run/run_helper.py;            *)
(* core/resources/ext_tool.py).                                            *)
(*                                                                         *)
(* A session is a short sequence of commands sharing one configuration     *)
(* file: `config save` writes it, `config check` and --config-file read it.*)
(* A source of settings is a set of entries, one for each setting it names.*)
(***************************************************************************)
EXTENDS RecipeTable, StepProgress

CONSTANTS Recipe,    \* the table of recipes, by name
          Sessions,  \* sequences of commands
          Disks,     \* what the configuration file holds at first
          Machines   \* hidden recipes, tools, fio engines, NUMA nodes

Tool == {"fio", "mpstat", "numactl", "iperf3"}

\* A recipe goes by its short or its full name.
Called(n) == {n, Recipe[n].short}

\* No two recipes share a name.  A recipe has at most one dependency, which has none
\* itself; it comes earlier by its priority or, in another category, because all the
\* recipes of its dependent's category have dependencies.
ASSUME RecipeAssumption ==
    \A n \in DOMAIN Recipe :
        /\ n \in Range(Alphabetical)
        /\ \A m \in DOMAIN Recipe \ {n} : Called(n) \cap Called(m) = {}
        /\ Recipe[n].priority \in Nat
        /\ Recipe[n].fields \subseteq DOMAIN USER_CFG_FIELDS
        /\ \A f \in Recipe[n].fields \cap DOMAIN Recipe[n].default_config :
               IsSetting(f, Recipe[n].default_config[f])
        /\ \A d, e \in Recipe[n].depends_on : d = e
        /\ Recipe[n].depends_on \subseteq DOMAIN Recipe
        /\ \A d \in Recipe[n].depends_on :
               /\ Recipe[d].depends_on = {}
               /\ IF Recipe[d].category = Recipe[n].category
                  THEN Recipe[d].priority < Recipe[n].priority
                  ELSE \A m \in DOMAIN Recipe :
                           Recipe[m].category = Recipe[n].category => Recipe[m].depends_on # {}

\* The settings the steps of a sweep come from.
StorageSweeps == {"request_size_sweep_steps", "iodepth_sweep_steps", "process_count_sweep_steps",
                  "access_pattern_sweep_steps"}
NetworkSweeps == {"duration_sweep_steps", "window_sweep_steps", "message_size_sweep_steps",
                  "bandwidth_target_bps_sweep_steps", "client_affinities"}

\* The settings that say how many steps a recipe has are there by default.
ASSUME StepsAssumption ==
    \A n \in DOMAIN Recipe :
        LET fields == Recipe[n].fields
            default == Recipe[n].default_config
            category == Recipe[n].category
        IN /\ category \in {"report", "memory", "network", "io"}
           /\ category = "memory" <=> n \in {"peak-bandwidth", "latency-sweep", "bandwidth-sweep", "idle-latency",
                                            "cross-numa-bandwidth", "loaded-latency", "c2c-latency"}
           /\ n = "loaded-latency" => "injected_nops" \in fields \cap DOMAIN default
           /\ n = "c2c-latency" => /\ "number_of_runs" \in DOMAIN default \ fields
                                  /\ default["number_of_runs"] = Num(1)
           /\ category = "network" => NetworkSweeps \subseteq fields \cap DOMAIN default
           /\ category = "io" => /\ StorageSweeps \cap fields # {}
                                /\ StorageSweeps \cap fields \subseteq DOMAIN default

\* A text without a default is one the recipe itself takes the text "None" for.
ASSUME DefaultsAssumption ==
    \A n \in DOMAIN Recipe : \A f \in Recipe[n].fields \cap DOMAIN Recipe[n].default_config :
        LET default == Recipe[n].default_config[f]
        IN /\ USER_CFG_FIELDS[f] = "text" /\ default = None => f = "server_host"
           /\ USER_CFG_FIELDS[f] = "texts" /\ f # "window_sweep_steps" => None \notin Range(default[2])

\* A source is read from a table of names: it gives a setting once.
OneOfEach(source) ==
    \A e, d \in source :
        /\ e.field = d.field
        /\ \E n \in DOMAIN Recipe : {e.recipe, d.recipe} \subseteq Called(n)
        => e = d

\* What is written on the command line is text: there is no null.
ASSUME RequestAssumption ==
    /\ \A s \in Sessions :
           /\ s \in Seq(Range(s)) \ {<<>>}
           /\ \A c \in Range(s) : /\ OneOfEach(c.update)
                                  /\ \A e \in c.update : IsRaw(e.raw) /\ e.raw.k # "null"
    /\ \A n \in DOMAIN Recipe : "cmn" \in Called(n) => Called(n) = {"cmn"}
    /\ \A d \in Disks : OneOfEach(d.entries) /\ \A e \in d.entries : IsRaw(e.raw)
    /\ \A m \in Machines :
           /\ {m.numa, m.cpus, m.access, m.sizes} \subseteq Nat
           /\ m.tools \in [Tool -> {"absent", "good", "old", "unknown", "silent"}]
           /\ \A n \in DOMAIN Recipe : \A d \in Recipe[n].depends_on :
                  \/ Recipe[d].fields = {}
                  \/ Recipe[d].category = Recipe[n].category /\ d \notin m.hidden

VARIABLES session, host,
          at,        \* the command being executed
          stage,
          disk,      \* the configuration file: whether it exists, and its entries
          selection, \* RecipeFilteredBenchmarks
          user,      \* user_config: (recipe, field) -> value
          plan,      \* the recipes in the order they will run
          i,         \* the recipe setup_benchmarks is at
          cfgs,      \* RecipeBase._cfg of the recipes set up
          status,    \* ready or skipped
          version,   \* ExternalToolResource.version of each tool
          bar,       \* ASCTProgressTrackerContainer
          ran,       \* steps finished, by recipe
          exits      \* exit codes of the commands so far

fixed == <<session, host>>
progress == <<bar, ran>>
requestVars == <<fixed, at, stage, disk, selection, user, plan, i, cfgs, status, version, bar, ran, exits>>

Cmd == session[at]

NoSelection == [filtered |-> {}, added |-> {}, restored |-> {}]

NoSettings == [k \in {} |-> None]

RequestInit ==
    /\ session \in Sessions
    /\ host \in Machines
    /\ disk \in Disks
    /\ at = 1
    /\ stage = "start"
    /\ selection = NoSelection
    /\ user = NoSettings
    /\ plan = <<>>
    /\ i = 1
    /\ cfgs = [n \in {} |-> NoConfig]
    /\ status = [n \in {} |-> "ready"]
    /\ version = [t \in Tool |-> "none"]
    /\ bar = Container({})
    /\ ran = [n \in {} |-> 0]
    /\ exits = <<>>

----------------------------------------------------------------------------
(* Selection *)

RecipeNames == DOMAIN Recipe

\* The tables of the commands: run excludes the reports, report takes only them.
\* Some recipes are visible only on a machine where they can run.
GetRecipeMetadata(command, hidden) ==
    {n \in RecipeNames \ hidden :
        CASE command = "run"    -> Recipe[n].category # "report"
          [] command = "report" -> Recipe[n].category = "report"
          [] OTHER              -> TRUE}

GetRecipe(name, names) == {n \in names : name \in Called(n)}

GetDefaultUserConfig(n) ==
    [f \in Recipe[n].fields \cap DOMAIN Recipe[n].default_config |-> Recipe[n].default_config[f]]

Matches(n, tags) == Recipe[n].tags \cap tags # {}

\* Fault: only the recipe's own tags are looked at.
RemovedByOwnTags(n, negative) == Matches(n, negative)

Removed(n, negative) ==
    Matches(n, negative) \/ \E d \in Recipe[n].depends_on : Matches(d, negative)

GetFilteredRecipes(names, positive, negative, addDependencies) ==
    LET wanted == IF positive = {} THEN {"default"} ELSE positive
        filtered == {n \in names : Matches(n, wanted) /\ ~Removed(n, negative)}
    IN [filtered |-> filtered, restored |-> {},
        added |-> IF addDependencies
                  THEN (UNION {Recipe[n].depends_on : n \in filtered}) \ filtered ELSE {}]

CompleteList(s) == s.filtered \cup s.added

\* sorted() of the names.
Alphabetically(m, n) == Place[m] < Place[n]

\* Fault: the sorted list is taken as it is.
ResolveDependenciesNot(names) == InOrder(names, Alphabetically)

\* TopologicalSorter.static_order() of the sorted names: the recipes without
\* dependencies in the order they are met, themselves or as a dependency, then the
\* others in the order their dependencies are done.
ResolveDependencies(names) ==
    LET Meets(d) == {m \in names : m = d \/ d \in Recipe[m].depends_on}
        Met(d, e) == \E m \in Meets(d) : \A n \in Meets(e) : Alphabetically(m, n)
        Leaf(n) == Recipe[n].depends_on = {}
        Before(m, n) ==
            \/ Leaf(m) /\ ~Leaf(n)
            \/ Leaf(m) /\ Leaf(n) /\ Met(m, n)
            \/ /\ ~Leaf(m) /\ ~Leaf(n)
               /\ \/ \E d \in Recipe[m].depends_on, e \in Recipe[n].depends_on : Met(d, e)
                  \/ Recipe[m].depends_on = Recipe[n].depends_on /\ Alphabetically(m, n)
    IN InOrder(names, Before)

RemoveCachedDependencies(s, cached) ==
    [s EXCEPT !.restored = s.added \cap cached, !.added = s.added \ cached]

\* Grouped by category, in the order the categories appear, then by priority.
GetRecipes(list) ==
    LET Category(j) == Recipe[list[j]].category
        Priority(j) == Recipe[list[j]].priority
        Appears(j, l) == \E k \in 1..j : Category(k) = Category(j) /\ \A h \in 1..k : Category(h) # Category(l)
        Before(j, l) == \/ Appears(j, l)
                        \/ /\ Category(j) = Category(l)
                           /\ Priority(j) < Priority(l) \/ (Priority(j) = Priority(l) /\ j < l)
        places == InOrder(DOMAIN list, Before)
    IN [j \in DOMAIN list |-> list[places[j]]]

----------------------------------------------------------------------------
(* Settings *)

\* Fault: a value that was set first stays.
MergeKeepingFirst(settings, new) ==
    [k \in DOMAIN settings \cup DOMAIN new |-> IF k \in DOMAIN settings THEN settings[k] ELSE new[k]]

Merge(settings, new) ==
    [k \in DOMAIN settings \cup DOMAIN new |-> IF k \in DOMAIN new THEN new[k] ELSE settings[k]]

\* The entries of a source that name a setting of a requested recipe.
Accepted(source, requested, names) ==
    {e \in source : \E n \in GetRecipe(e.recipe, names) \cap requested : e.field \in Recipe[n].fields}

Key(e) == <<CHOOSE n \in GetRecipe(e.recipe, RecipeNames) : TRUE, e.field>>

\* A value that cannot be converted is ignored with a warning; one that is the default
\* is not recorded, whatever an earlier source said.
Recorded(e) ==
    LET value == Conv(e.field, e.raw)
        defaults == GetDefaultUserConfig(Key(e)[1])
    IN value \notin {Error, Stalls} /\ (e.field \in DOMAIN defaults => defaults[e.field] # value)

GetConvUserConfig(source, settings, requested, names) ==
    LET recorded == {e \in Accepted(source, requested, names) : Recorded(e)}
        entry(k) == CHOOSE e \in recorded : Key(e) = k
    IN Merge(settings, [k \in {Key(e) : e \in recorded} |-> Conv(k[2], entry(k).raw)])

\* A range with a step that does not grow is converted for ever.
SourceStalls(source, requested, names) ==
    \E e \in Accepted(source, requested, names) : Conv(e.field, e.raw) = Stalls

\* just_check: anything a run would ignore is an error.
CheckFails(source, names) ==
    \E e \in source :
        LET found == GetRecipe(e.recipe, names)
        IN \/ found = {}
           \/ \E n \in found : /\ Recipe[n].fields # {}
                               /\ e.field \in Recipe[n].fields => Conv(e.field, e.raw) = Error

\* report --detect replaces what the user says of cmn.detect.
UpdateConfig(c) ==
    IF c.detect
    THEN {e \in c.update : e.recipe # "cmn" \/ e.field # "detect"}
         \cup {[recipe |-> "cmn", field |-> "detect", raw |-> [k |-> "text", t |-> "true"]]}
    ELSE c.update

\* ASCTBenchmarkConfig._set in quick mode.
GetAdjustedValue(field, value) ==
    CASE field = "duration" -> Num(IF value[2] \div 100 > 20 THEN value[2] \div 100 ELSE 20)
      [] field = "data_size" -> Num(64 * (IF (value[2] \div 64) \div 10 > 1
                                          THEN (value[2] \div 64) \div 10 ELSE 1))
      [] field = "number_of_runs" -> Num(1)
      [] OTHER -> value

\* Defaults, then the user's settings; None is never stored.
InitializeConfig(n, settings, quick) ==
    LET defaults == Recipe[n].default_config
        given(f) == <<n, f>> \in DOMAIN settings /\ settings[<<n, f>>] # None
        value(f) == IF given(f) THEN settings[<<n, f>>]
                    ELSE IF f \in DOMAIN defaults THEN defaults[f] ELSE None
    IN [f \in Recipe[n].fields \cup DOMAIN defaults |->
            IF quick /\ value(f) # None THEN GetAdjustedValue(f, value(f)) ELSE value(f)]

\* Fault: the text "None" in a list of windows is taken as a window size.
NormalizedHostOnly(field, value) ==
    IF field = "server_host" /\ value = Text("None") THEN None ELSE value

\* The texts the recipes themselves take for no value.
Normalized(field, value) ==
    CASE field = "server_host" /\ value = Text("None") -> None
      [] field = "window_sweep_steps" ->
             List([j \in DOMAIN value[2] |-> IF value[2][j] = Text("None") THEN None ELSE value[2][j]])
      [] OTHER -> value

Meaning(config) == [f \in DOMAIN config |-> Normalized(f, config[f])]

----------------------------------------------------------------------------
(* The commands *)

\* What a command starts with: the process is new.
Fresh ==
    /\ selection' = NoSelection
    /\ user' = NoSettings
    /\ plan' = <<>>
    /\ i' = 1
    /\ cfgs' = [n \in {} |-> NoConfig]
    /\ status' = [n \in {} |-> "ready"]
    /\ version' = [t \in Tool |-> "none"]
    /\ bar' = Container({})
    /\ ran' = [n \in {} |-> 0]

Exit(code) ==
    /\ exits' = Append(exits, code)
    /\ stage' = "end"

Start ==
    /\ stage = "start"
    /\ stage' = CASE Cmd.name = "save" -> "save" [] Cmd.name = "check" -> "check" [] OTHER -> "select"
    /\ Fresh
    /\ UNCHANGED <<fixed, at, disk, exits>>

NextCommand ==
    /\ stage = "end"
    /\ at < Len(session)
    /\ at' = at + 1
    /\ stage' = "start"
    /\ Fresh
    /\ UNCHANGED <<fixed, disk, exits>>

Names == GetRecipeMetadata(Cmd.name, host.hidden)

Select ==
    /\ stage = "select"
    /\ selection' = GetFilteredRecipes(Names, Cmd.positive, Cmd.negative, TRUE)
    /\ IF Cmd.name = "report" /\ Cmd.dry THEN Exit(0)
       ELSE IF CompleteList(selection') = {} THEN Exit(1)
       ELSE stage' = "file" /\ UNCHANGED exits
    /\ UNCHANGED <<fixed, at, disk, user, plan, i, cfgs, status, version, progress>>

\* A file that cannot be read counts as empty.
FileEntries == IF Cmd.usefile /\ disk.exists THEN disk.entries ELSE {}

ReadSource(source, next) ==
    IF SourceStalls(source, CompleteList(selection), Names)
    THEN stage' = "stalled" /\ UNCHANGED user
    ELSE /\ user' = GetConvUserConfig(source, user, CompleteList(selection), Names)
         /\ stage' = next

ReadConfigFile ==
    /\ stage = "file"
    /\ ReadSource(FileEntries, "update")
    /\ UNCHANGED <<fixed, at, disk, selection, plan, i, cfgs, status, version, exits, progress>>

ReadUpdateConfig ==
    /\ stage = "update"
    /\ ReadSource(UpdateConfig(Cmd), "plan")
    /\ UNCHANGED <<fixed, at, disk, selection, plan, i, cfgs, status, version, exits, progress>>

DryRun ==
    /\ stage = "plan"
    /\ Cmd.dry
    /\ Exit(0)
    /\ UNCHANGED <<fixed, at, disk, selection, user, plan, i, cfgs, status, version, progress>>

Resolve ==
    /\ stage = "plan"
    /\ ~Cmd.dry
    /\ plan' = ResolveDependencies(CompleteList(selection))
    /\ stage' = "restore"
    /\ UNCHANGED <<fixed, at, disk, selection, user, i, cfgs, status, version, exits, progress>>

\* Dependencies with a usable cache entry are restored, not run.
RestoreCached ==
    /\ stage = "restore"
    /\ selection' = RemoveCachedDependencies(selection, host.cached)
    /\ plan' = Listed(CompleteList(selection'), plan)
    /\ stage' = "order"
    /\ UNCHANGED <<fixed, at, disk, user, i, cfgs, status, version, exits, progress>>

Order ==
    /\ stage = "order"
    /\ plan' = GetRecipes(plan)
    /\ stage' = "setup"
    /\ UNCHANGED <<fixed, at, disk, selection, user, i, cfgs, status, version, exits, progress>>

\* f[n] = value, of a dictionary.
Assigned(f, n, value) == [m \in DOMAIN f \cup {n} |-> IF m = n THEN value ELSE f[m]]

Skip(n) == [m \in DOMAIN status \cup {n} \cup {d \in Range(plan) : n \in Recipe[d].depends_on} |->
                IF m \in DOMAIN status /\ m # n /\ n \notin Recipe[m].depends_on THEN status[m] ELSE "skipped"]

Ready(n) == Assigned(status, n, "ready")

Skipped(n) == n \in DOMAIN status /\ status[n] = "skipped"

\* Fault: the loop goes on behind the last recipe.
AdvancePastEnd(next) ==
    IF i = Len(plan) THEN i' = i + 1 /\ stage' = next ELSE i' = i + 1 /\ UNCHANGED stage

Advance(next) ==
    IF i = Len(plan) THEN i' = 1 /\ stage' = next ELSE i' = i + 1 /\ UNCHANGED stage

\* Creating the resources of a storage recipe fails without a file to use.
CreateResourcesFails(n, config) ==
    /\ Recipe[n].category = "io"
    /\ config["create_temp_file"] = <<"bool", FALSE>>
    /\ config["filenames"] = List(<<>>)

SetupBenchmarks ==
    /\ stage = "setup"
    /\ LET n == plan[i]
           config == InitializeConfig(n, user, Cmd.quick)
       IN IF Skipped(n) THEN UNCHANGED <<cfgs, status>>
          ELSE /\ cfgs' = Assigned(cfgs, n, config)
               /\ status' = IF CreateResourcesFails(n, config) THEN Skip(n) ELSE Ready(n)
    /\ Advance("alloc")
    /\ UNCHANGED <<fixed, at, disk, selection, user, plan, version, exits, progress>>

----------------------------------------------------------------------------
(* External tools *)

Tools(n) ==
    CASE Recipe[n].category = "memory"  -> <<"numactl">>
      [] Recipe[n].category = "network" -> <<"iperf3">>
      [] Recipe[n].category = "io"      -> <<"fio", "mpstat", "numactl">>
      [] OTHER                          -> <<>>

\* Fault: any version of fio will do.
CheckVersionAny(t, v) == v # "silent"

\* A tool that prints nothing is refused; fio must be recent enough, and its version
\* readable; for iperf3 an old version is a warning.
CheckVersion(t, v) == v # "silent" /\ (t = "fio" => v \notin {"old", "unknown"})

\* The version is stored before it is checked; once stored it is not checked again.
ToolPasses(t, stored) ==
    /\ t = "numactl" => host.numa >= 1
    /\ stored # "none" \/ (host.tools[t] # "absent" /\ CheckVersion(t, host.tools[t]))
    /\ t = "fio" => host.engines \cap {"libaio", "io_uring", "posixaio"} # {}

\* The tools of a recipe up to and including the first that fails.
Tried(n) ==
    LET tools == Tools(n)
        fails == {j \in DOMAIN tools : ~ToolPasses(tools[j], version[tools[j]])}
    IN IF fails = {} THEN tools ELSE SubSeq(tools, 1, CHOOSE j \in fails : \A l \in fails : j <= l)

StoresVersion(t) == host.tools[t] # "absent" /\ (t = "numactl" => host.numa >= 1)

AllocateResources ==
    /\ stage = "alloc"
    /\ LET n == plan[i]
       IN IF Skipped(n) THEN UNCHANGED <<status, version>>
          ELSE /\ version' = [t \in Tool |-> IF Contains(Tried(n), t) /\ StoresVersion(t)
                                             THEN host.tools[t] ELSE version[t]]
               /\ status' = IF \A t \in Range(Tools(n)) : ToolPasses(t, version[t]) THEN status ELSE Skip(n)
    /\ Advance("execute")
    /\ UNCHANGED <<fixed, at, disk, selection, user, plan, cfgs, exits, progress>>

----------------------------------------------------------------------------
(* Execution *)

ReadyList == Listed({n \in Range(plan) : ~Skipped(n)}, plan)

\* The recipe being executed.
Current == ReadyList[i]

\* What goes wrong with a recipe on this machine: an exception of one of its steps,
\* of one of the kinds that are handled ("step") or another ("other"), or one of the
\* generator of its steps ("generator").
Failure(n) == IF n \in DOMAIN host.failing THEN host.failing[n] ELSE "none"

ItemsOf(value) == Len(value[2])

\* An empty list of a sweep means the default.
SweepValues(config, f) ==
    IF config[f] = List(<<>>) THEN ItemsOf(IPERF3_SWEEP_DEFAULT_CONFIG[f]) ELSE ItemsOf(config[f])

\* gen_steps: how many steps a recipe has.
StepCount(n, config) ==
    CASE n = "loaded-latency" -> ItemsOf(config["injected_nops"])
      [] n = "c2c-latency" -> host.cpus * host.numa * config["number_of_runs"][2] + 1
      [] n = "peak-bandwidth" -> host.access
      [] n \in {"latency-sweep", "bandwidth-sweep"} -> host.sizes
      [] n \in {"idle-latency", "cross-numa-bandwidth"} -> host.numa * host.numa
      [] Recipe[n].category = "network" ->
             SweepValues(config, "duration_sweep_steps") * SweepValues(config, "window_sweep_steps")
             * SweepValues(config, "message_size_sweep_steps")
             * SweepValues(config, "bandwidth_target_bps_sweep_steps")
             * (IF config["client_affinities"] = List(<<>>) THEN 1 ELSE ItemsOf(config["client_affinities"]))
      [] OTHER -> ItemsOf(config[CHOOSE f \in Recipe[n].fields : f \in StorageSweeps])

Steps == StepCount(Current, cfgs[Current])

\* The latency sweep decides as it goes: its steps come from a generator.
Sized(n) == n # "latency-sweep"

\* Only benchmarks have steps; a report is one call.
HasSteps(n) == Recipe[n].category # "report"

\* A failing recipe fails in its second step, if it has one.
FailsNow == /\ Failure(Current) # "none"
            /\ ran[Current] + 1 = IF Steps >= 2 THEN 2 ELSE 1

Outcome(n, o) == Assigned(status, n, o)

\* An exception execute_benchmarks does not handle: its `finally` stops the bar and
\* tears the recipes down, and the program ends.
Crash == Exit(1) /\ UNCHANGED status

\* report runs its recipes without a bar.
ExecuteReports ==
    /\ stage = "execute"
    /\ Cmd.name = "report"
    /\ status' = [n \in DOMAIN status |-> IF Skipped(n) THEN "skipped"
                                          ELSE IF Failure(n) = "none" THEN "completed" ELSE "failed"]
    /\ Exit(0)
    /\ UNCHANGED <<fixed, at, disk, selection, user, plan, i, cfgs, version, progress>>

BeginExecution ==
    /\ stage = "execute"
    /\ Cmd.name = "run"
    /\ IF ReadyList = <<>>
       THEN Exit(0) /\ UNCHANGED <<i, bar>>
       ELSE /\ LET container == Container(Trackers(Cmd.quiet, Cmd.nobar, Cmd.logfile))
               IN bar' = IF Active(container) THEN OnEnterIterationBlock(container, TRUE, Len(ReadyList))
                         ELSE container
            /\ i' = 0
            /\ stage' = "recipe"
            /\ UNCHANGED exits
    /\ UNCHANGED <<fixed, at, disk, selection, user, plan, cfgs, status, version, ran>>

\* The loop over the recipes asks for the next one; output() follows the last.
NextRecipe ==
    /\ stage = "recipe"
    /\ LET resumed == IF Active(bar) /\ i > 0 THEN Resume(bar) ELSE bar
       IN IF i < Len(ReadyList)
          THEN /\ bar' = IF Active(bar) THEN Announce(resumed, 0) ELSE bar
               /\ i' = i + 1
               /\ stage' = "run"
               /\ UNCHANGED exits
          ELSE /\ bar' = IF Active(bar) THEN Complete(resumed, 0) ELSE bar
               /\ Exit(0)
               /\ UNCHANGED i
    /\ UNCHANGED <<fixed, at, disk, selection, user, plan, cfgs, status, version, ran>>

RunRecipe ==
    /\ stage = "run"
    /\ \/ /\ ~HasSteps(Current)
          /\ status' = Outcome(Current, IF Failure(Current) = "none" THEN "completed" ELSE "failed")
          /\ stage' = "recipe"
          /\ UNCHANGED <<progress, exits>>
       \/ /\ HasSteps(Current)
          /\ ran' = Assigned(ran, Current, 0)
          /\ IF Active(bar) /\ ~CanEnter(bar) THEN Crash /\ UNCHANGED bar
             ELSE /\ bar' = IF Active(bar) THEN OnEnterIterationBlock(bar, Sized(Current), Steps) ELSE bar
                  /\ stage' = "step"
                  /\ UNCHANGED <<status, exits>>
    /\ UNCHANGED <<fixed, at, disk, selection, user, plan, i, cfgs, version>>

\* The step is announced and taken; if it fails, the loop over the steps is left.
OneStep ==
    /\ stage = "step"
    /\ ran[Current] < Steps
    /\ ~(FailsNow /\ Failure(Current) = "generator")
    /\ LET announced == IF Active(bar) THEN Announce(bar, 1) ELSE bar
       IN \/ /\ ~FailsNow
             /\ ran' = [ran EXCEPT ![Current] = @ + 1]
             /\ bar' = IF Active(bar) THEN Resume(announced) ELSE bar
             /\ UNCHANGED <<stage, status, exits>>
          \/ /\ FailsNow
             /\ Failure(Current) = "step"
             /\ bar' = IF BreakRaises(bar) THEN bar ELSE BreakFromIteration(announced)
             /\ status' = Outcome(Current, IF BreakRaises(bar) THEN "unexplained" ELSE "failed")
             /\ stage' = "recipe"
             /\ UNCHANGED <<ran, exits>>
          \/ /\ FailsNow
             /\ Failure(Current) = "other"
             /\ bar' = announced
             /\ Crash
             /\ UNCHANGED ran
    /\ UNCHANGED <<fixed, at, disk, selection, user, plan, i, cfgs, version>>

\* iterate() turns every exception of the generator into a RuntimeError, unless the
\* container is inactive.
StepSetupFails ==
    /\ stage = "step"
    /\ FailsNow
    /\ Failure(Current) = "generator"
    /\ IF Active(bar)
       THEN /\ bar' = OnExitIterationBlock(bar)
            /\ status' = Outcome(Current, "failed")
            /\ stage' = "recipe"
            /\ UNCHANGED exits
       ELSE Crash /\ UNCHANGED bar
    /\ UNCHANGED <<fixed, at, disk, selection, user, plan, i, cfgs, version, ran>>

\* get_results: a storage recipe cannot combine no results at all; loaded-latency
\* plots them.
ResultsOf(n) ==
    IF Steps > 0 THEN {"completed"}
    ELSE IF Recipe[n].category = "io" THEN {"failed"} ELSE {"completed", "failed"}

FinishSteps ==
    /\ stage = "step"
    /\ ran[Current] = Steps
    /\ IF Active(bar) /\ CompletionRaises(bar, 1) THEN Crash /\ UNCHANGED bar
       ELSE /\ bar' = IF Active(bar) THEN Complete(bar, 1) ELSE bar
            /\ \E o \in ResultsOf(Current) : status' = Outcome(Current, o)
            /\ stage' = "recipe"
            /\ UNCHANGED exits
    /\ UNCHANGED <<fixed, at, disk, selection, user, plan, i, cfgs, version, ran>>

----------------------------------------------------------------------------
(* config save and config check *)

SavedEntries(names, settings) ==
    LET values(n) == [f \in DOMAIN GetDefaultUserConfig(n) \cup {k[2] : k \in {x \in DOMAIN settings : x[1] = n}} |->
                          IF <<n, f>> \in DOMAIN settings THEN settings[<<n, f>>] ELSE GetDefaultUserConfig(n)[f]]
        entries(n) == {[recipe |-> n, field |-> f, raw |-> Json(f, values(n)[f])] : f \in DOMAIN values(n)}
    IN UNION {entries(n) : n \in names}

WriteDefault ==
    /\ stage = "save"
    /\ LET chosen == GetFilteredRecipes(Names, Cmd.positive, Cmd.negative, FALSE).filtered
       IN IF disk.exists /\ ~Cmd.force
          THEN Exit(1) /\ UNCHANGED <<disk, user>>
          ELSE IF SourceStalls(Cmd.update, chosen, Names)
          THEN stage' = "stalled" /\ UNCHANGED <<disk, user, exits>>
          ELSE /\ user' = GetConvUserConfig(Cmd.update, NoSettings, chosen, Names)
               /\ disk' = [exists |-> TRUE, entries |-> SavedEntries(chosen, user')]
               /\ Exit(0)
    /\ UNCHANGED <<fixed, at, selection, plan, i, cfgs, status, version, progress>>

Check ==
    /\ stage = "check"
    /\ IF SourceStalls(disk.entries, Names, Names)
       THEN stage' = "stalled" /\ UNCHANGED exits
       ELSE Exit(IF disk.entries = {} \/ CheckFails(disk.entries, Names) THEN 1 ELSE 0)
    /\ UNCHANGED <<fixed, at, disk, selection, user, plan, i, cfgs, status, version, progress>>

Ended == stage = "end" /\ at = Len(session)

RequestStep ==
    \/ Start \/ NextCommand \/ Select \/ ReadConfigFile \/ ReadUpdateConfig \/ DryRun
    \/ Resolve \/ RestoreCached \/ Order
    \/ SetupBenchmarks \/ AllocateResources \/ ExecuteReports \/ BeginExecution \/ NextRecipe \/ RunRecipe
    \/ OneStep \/ StepSetupFails \/ FinishSteps \/ WriteDefault \/ Check

Done == (Ended \/ stage = "stalled") /\ UNCHANGED requestVars

RequestNext == RequestStep \/ Done

RequestSpec == RequestInit /\ [][RequestNext]_requestVars

----------------------------------------------------------------------------
(* Properties *)

RequestTypeOK ==
    /\ at \in 1..Len(session)
    /\ stage \in {"start", "select", "file", "update", "plan", "restore", "order", "setup", "alloc", "execute", "recipe", "run",
               "step", "save", "check", "stalled", "end"}
    /\ selection \in [filtered : SUBSET RecipeNames, added : SUBSET RecipeNames, restored : SUBSET RecipeNames]
    /\ DOMAIN user \subseteq RecipeNames \X DOMAIN USER_CFG_FIELDS
    /\ Range(plan) \subseteq RecipeNames
    /\ plan # <<>> => i \in DOMAIN plan \cup {0}
    /\ DOMAIN cfgs \subseteq Range(plan)
    /\ DOMAIN status \subseteq Range(plan)
    /\ Range(status) \subseteq {"ready", "skipped", "completed", "failed", "unexplained"}
    /\ DOMAIN ran \subseteq Range(plan)
    /\ bar.depth \in -1..(MaxDepth - 1)
    /\ version \in [Tool -> {"none", "good", "old", "unknown", "silent"}]
    /\ Len(exits) \in {at - 1, at}

(* A recipe never runs before the recipes it depends on: each of them was      *)
(* restored from the cache or comes earlier in the plan, through the           *)
(* topological order, the removal of cached recipes and the regrouping by      *)
(* category and priority that follows it.                                      *)
DependenciesFirst ==
    \A j \in DOMAIN plan : \A d \in Recipe[plan[j]].depends_on :
        d \in selection.restored \/ \E l \in 1..(j - 1) : plan[l] = d

(* A recipe the user deselected does not run, not even because another one     *)
(* depends on it.                                                              *)
DeselectedNotPlanned ==
    \A n \in Range(plan) \cup selection.restored : ~Matches(n, Cmd.negative)

\* The valid value a source gives for a setting, or Error.
Given(source, n, f) ==
    LET fits == {e \in source : e.field = f /\ n \in GetRecipe(e.recipe, RecipeNames)}
    IN IF fits = {} THEN Error ELSE Conv(f, (CHOOSE e \in fits : TRUE).raw)

Adjusted(f, v) == IF Cmd.quick /\ v # None THEN GetAdjustedValue(f, v) ELSE v

DefaultOf(n, f) == IF f \in DOMAIN Recipe[n].default_config THEN Recipe[n].default_config[f] ELSE None

(* The setting a recipe runs with is the one of --update-config, else the one  *)
(* of the configuration file, else the default; a value that cannot be         *)
(* converted, is meant for another recipe, or is null counts as not given.     *)
(* The exception: --update-config cannot set a value back to the default.      *)
SettingsPrecedence ==
    stage = "execute" => \A n \in DOMAIN cfgs : \A f \in Recipe[n].fields :
        LET update == Given(UpdateConfig(Cmd), n, f)
            file == Given(FileEntries, n, f)
        IN cfgs[n][f] = Adjusted(f,
               IF update \notin {Error, None, DefaultOf(n, f)} THEN update
               ELSE IF file \notin {Error, None} THEN file
               ELSE DefaultOf(n, f))

\* The recipes whose settings `config save` writes.
SavedRecipes(c) ==
    GetFilteredRecipes(GetRecipeMetadata("save", host.hidden), c.positive, c.negative, FALSE).filtered

(* A file that `config save` wrote passes `config check`: every default value, *)
(* and every converted setting, survives being written as JSON and converted   *)
(* again.  The exception: recipes without settings are saved as a file that    *)
(* counts as empty.                                                            *)
SavedFileAccepted ==
    \A c \in 1..(Len(exits) - 1) :
        (/\ session[c].name = "save" /\ exits[c] = 0 /\ session[c + 1].name = "check"
         /\ \E n \in SavedRecipes(session[c]) : GetDefaultUserConfig(n) # NoConfig)
        => exits[c + 1] = 0

(* Running with a file that `config save` wrote means the same as running with *)
(* the settings that were given to `config save`, and the same as running with *)
(* no settings if none were given, although None becomes the text "None" on    *)
(* the way.                                                                    *)
SavedFileMeansTheSame ==
    (stage = "execute" /\ at = 2 /\ session[1].name = "save" /\ exits[1] = 0 /\ Cmd.usefile /\ UpdateConfig(Cmd) = {})
    => LET all == GetRecipeMetadata("save", host.hidden)
           chosen == SavedRecipes(session[1])
           direct == GetConvUserConfig(session[1].update, NoSettings, chosen, all)
       IN \A n \in DOMAIN cfgs \cap chosen :
              Meaning(cfgs[n]) = Meaning(InitializeConfig(n, direct, Cmd.quick))

(* A recipe goes on to run only if each tool it needs is installed in an       *)
(* accepted version.  The exception is the hazard of the version that is       *)
(* stored before it is checked: after a recipe was skipped because of a tool,  *)
(* the next recipe that needs the tool is not stopped.                         *)
ToolsChecked ==
    stage = "execute" => \A j \in DOMAIN plan : ~Skipped(plan[j]) =>
        \A t \in Range(Tools(plan[j])) :
            \/ host.tools[t] = "good"
            \/ host.tools[t] \in {"old", "unknown"} /\ t # "fio"
            \/ /\ host.tools[t] # "absent"
               /\ \E l \in 1..(j - 1) : Skipped(plan[l]) /\ Contains(Tools(plan[l]), t)

\* Some range of a setting has a step that does not grow.
EndlessRange ==
    \E c \in Range(session) : \E e \in c.update \cup disk.entries :
        \E item \in Range(Items(e.raw)) : item.k = "range" /\ item.step <= 0

(* The conversion of the settings comes to an end, whatever they are, unless a *)
(* range has a step of zero or less, which no check refuses: that one is       *)
(* converted for ever.                                                         *)
ConversionEnds == stage = "stalled" => EndlessRange

(* The plan is what the keywords ask for: dependencies come first, whatever    *)
(* the order of the table, nothing that was deselected is in it, and what of   *)
(* it goes on to run has its tools.                                            *)
PlanIsSound == RequestTypeOK /\ DependenciesFirst /\ DeselectedNotPlanned /\ ToolsChecked

(* Settings from the command line and a file reach the recipes they name, with *)
(* the precedence of their sources, and their conversion ends.                 *)
SettingsReachRecipes == SettingsPrecedence /\ ConversionEnds

(* A file written by `config save` can be used in place of the settings it was *)
(* written from: it passes `config check` and means the same to a run.         *)
SavedFileRoundTrips == SavedFileAccepted /\ SavedFileMeansTheSame

\* The recipes of the plan were executed.
Executed == stage = "end" /\ Cmd.name \in {"run", "report"} /\ plan # <<>>

(* When `run` has ended, every recipe of the plan was skipped, completed or    *)
(* failed, however the others ended.  The exceptions: an exception of a kind   *)
(* execute_benchmarks does not handle, one from the generator of the steps     *)
(* that no bar turns into a RuntimeError, and an empty list of steps under the *)
(* animated bar, which raises NameError.                                       *)
EveryRecipeAccounted ==
    Executed => \A n \in Range(plan) : status[n] = "ready" =>
        \E m \in DOMAIN ran : /\ status[m] = "ready"
                              /\ \/ Failure(m) = "other"
                                 \/ Failure(m) = "generator" /\ ~Active(bar)
                                 \/ StepCount(m, cfgs[m]) = 0 /\ "async" \in bar.trackers

(* A recipe is reported as failed only for a failure of its own, whatever the  *)
(* recipes before it left behind in the bar; and with its own reason, unless   *)
(* there is no bar at all: then leaving the loop raises another exception.     *)
FailuresAreTheirOwn ==
    \A n \in DOMAIN status : status[n] \in {"failed", "unexplained"} =>
        /\ Failure(n) # "none" \/ (n \in DOMAIN ran /\ StepCount(n, cfgs[n]) = 0)
        /\ status[n] = "unexplained" => ~Active(bar)

\* The steps that were finished, of all recipes.
StepsTaken == UNION {{n} \X (1..ran[n]) : n \in DOMAIN ran}

\* The recipes whose loop over the steps has ended.
StepsOver == {n \in DOMAIN ran : n # Current \/ stage \in {"recipe", "end"}}

(* The blocks of iterate() are entered and left in pairs, through completion,  *)
(* a failing step and a failing generator alike: between two recipes only the  *)
(* outer one is open, every recipe whose steps are over has given the averages *)
(* one sample, and the global index counts the steps that were finished.       *)
BlocksNest ==
    Active(bar) =>
        /\ stage \in {"recipe", "run"} => bar.depth = 0
        /\ stage = "step" => bar.depth = 1
        /\ \A d \in Depth : bar.stack[d].open <=> d <= bar.depth
        /\ exits # <<>> /\ stage = "end" /\ exits[at] = 0 => bar.depth = -1
        /\ stage \in {"recipe", "run", "step"} =>
               /\ bar.avg[1].count = Cardinality(StepsOver)
               /\ bar.global = Cardinality(StepsTaken)

(* Every bar shows the recipe and the step that are being executed, counted    *)
(* from one; the drawn bar never grows past its length; and after the last     *)
(* step of a list the animated bar shows all of it as done.                    *)
ShownIsCurrent ==
    \A t \in bar.trackers :
        LET recipes == bar.shown[t][0]
            steps == bar.shown[t][1]
        IN /\ stage \in {"run", "step"} => StepShown(recipes) = i /\ recipes.max = Len(ReadyList)
           /\ stage = "step" /\ ran[Current] > 0 => /\ StepShown(steps) = ran[Current]
                                                 /\ PercentageShown(steps) < 1000
           /\ BarEmpty(steps) >= 0
           /\ (stage = "recipe" /\ t = "async" /\ i > 0 /\ status[Current] = "completed"
               /\ HasSteps(Current) /\ Sized(Current)) => PercentageShown(steps) = 1000 /\ BarEmpty(steps) = 0

(* A run reports what happened: every recipe gets its own outcome, and the     *)
(* progress shown on the way is that of the recipe and the step at hand.       *)
RunIsReported == EveryRecipeAccounted /\ FailuresAreTheirOwn /\ BlocksNest /\ ShownIsCurrent
=============================================================================
