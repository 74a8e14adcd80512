# A TLA+ model of asct (Arm System Characterization Tool)

asct runs memory, network and storage benchmarks ("recipes") on an Arm system,
keeps their raw results in an output directory, and can resume an interrupted
run, report on a system, and view or compare results. It is one Python process
with a few threads and many child processes. It changes the system it measures
(huge pages, servers, temporary files), it is interrupted with Ctrl+C, and it
leaves files behind for its own next invocation. These three are what the model
is about.

Paths below are relative to the repository's `src/` directory; `docs/` is the
repository's documentation.

## 1. Inventory

| Component | Files | State it keeps | Operations | What makes it correct |
|---|---|---|---|---|
| Huge pages | `core/resources/hugepages.py` | requests per recipe, node and size; initial and granted counts; the kernel's `nr_hugepages` | register, acquire (the first one allocates for all), release | a granted request is backed until it is released; the counters are restored |
| Resource manager | `core/managers/resource_manager.py`, `core/resources/resource_base.py` | a global and per-recipe lists, an `applied` flag per resource | register, apply_all, restore_all, cleanup at exit | what was set up is torn down, in reverse order, on every way out |
| Benchmark loop | `lib/run/run_helper.py`, `core/cmd/run.py`, `core/cmd/report.py` | sets of skipped, failed and completed recipes | two stages of set-up, execution, teardown | a recipe runs only with its resources and dependencies; each has one outcome |
| Child processes | `core/benchrunner.py` | child, thread, stop event, return code, lock of each runner | run, start, stop | no child is forgotten; stop() does not look like a failure |
| Process watcher | `core/asct_env.py` | live children, stop flag, lock | register, SIGINT handler | no child is started after Ctrl+C; no circular wait |
| Process mutex, output folder | `core/asct_env.py`, `core/resources/output_folder.py`, `lib/utility/misc.py` | an flock on `/var/lock/_asct_.lock`; a folder and who made it | enter with retries, exit; check, make, delete if empty | one run at a time; a folder that was there is kept |
| Progress bar, terminal | `lib/term_ui/*` | event queue, iteration stack, update thread, three locks | iterate, update, wait_until_idle, terminate, resize | no deadlock between main thread, update thread and signal handlers; loops are left as often as they are entered, and what is shown is what runs |
| Recipe cache | `core/cache.py` | validators, fingerprints and data in `~/.cache` | refresh, validate, save, restore, clear | a cached result is used only on the system it was measured on |
| Result store, resume | `core/cmd/helpers/run_helpers.py`, `lib/run/result_loader.py`, `core/cmd/resume.py`, `lib/utility/files.py` | manifest, files and `.hash` of each recipe | save, validate, restore, resume | no partial result looks complete; no complete one is lost |
| Recipe selection | `core/recipes/configuration/{metadata,registry}.py` | recipe metadata | filter by keyword, add dependencies, order | dependencies are there, and first; what is deselected is not |
| Settings | `core/recipes/configuration/{schema,defaults}.py`, `core/cmd/config.py`, `lib/run/run_helper.py` | a JSON file, user settings | convert, merge, save, check | sources have their precedence; a saved file means what it was saved from |
| External tools | `core/resources/{ext_tool,fio,mpstat,numactl}.py` | version found, engine chosen (singletons) | check | a refused tool is not used |
| Network resources, iperf3 | `core/resources/network_resources.py`, `core/recipes/impl/iperf3.py`, `core/benchspec/network_benchspec.py`, `lib/networking/iperf3_parser.py` | port, server, who owns it; rows and log files | start or reuse a server, stop; one client for each step | only its own server is stopped; a row is the result of its step |
| Sweeps | `core/sweep_algorithm.py`, `core/recipes/impl/memory_load_latency.py` | data frame of measured points, bounds, three files | measure, group, bisect | the sweep ends and finds the levels |
| Memory and storage recipes | `core/recipes/impl/{memory_load_latency,core_to_core_latency,storage_io}.py`, `core/benchspec/*`, `lib/c2c_latency` | settings, steps left, rows | one_step, report | CPUs are not used twice; tables say what was measured |
| System information | `lib/sysreport/sr_cpulist.py`, `core/recipes/impl/system_info.py` | CPUs, caches, groups, nodes | discover, serialize, deserialize | what is reported is the machine at one moment |
| View and diff | `core/cmd/{view,diff}.py`, `lib/sysdiff/*`, `lib/run/result_loader.py` | none of their own: folders of four versions | load, normalise, compare | whole results only; exactly the fields that differ |
| Rest of sysreport, CMN, PMU, reporters, logger, command line | `lib/sysreport`, `lib/cmn-tools`, ... | none of their own | read, format, print | – |

How they interact: `run`/`resume` take the process mutex, ask the registry for
the recipes, let each recipe register its resources with the resource manager,
set them up, run the recipes one after the other (each through runners that
register their children with the process watcher), save every result to the
cache and to the output folder, tear down, and print. The SIGINT handler runs in
the main thread between any two bytecodes of all this: it stops the progress
bar's thread and the children and raises `SystemExit`. An `atexit` handler
restores what is left.

Hard behaviours: Ctrl+C inside any of these steps and inside each other's locks;
one failure of several set-ups or teardowns; a child that ends between two
checks; a process killed between two files; a folder or cache that outlives the
process, the run and the machine; another asct, another program on a port and a
CPU that comes or goes while asct is running. `PROJECT.json` lists them one by one, with the
line where each bites.

## 2. Modules

`HugePages`, `BenchmarkRun`, `ProcessControl`, `RecipeCache`, `ResultStore`,
`ExclusiveRun`, `Iperf3Sweep` and `RunDiff` have a `_proofs` module with their
theorems; those of `ProgressTracker` are at the end of `ProcessControl_proofs`, those
of `Topology`, `CacheSweep` and `MemoryRecipes` at the end of `HugePages_proofs`, and
those of `RunRequest` at the end of `ExclusiveRun_proofs`. Every component has
an `MC` module with the constants of its run. Components that work on the same
state are composed by `EXTENDS`: `RunRequest` with `RecipeTable` and `StepProgress`,
`MemoryRecipes` with `CacheSweep` and `Topology` (system-info discovers the machine, latency-sweep finds its levels, the later recipes take
their CPUs from the one and their data sizes from the other). Between the others
the interaction is a call whose outcome the caller tells apart; it is an action
of the environment, with every outcome the callee can have (a set-up that fails,
a process that is killed).

**`HugePages`** – `HugePageSizeResolver`, `HugePageManager`, `HugepageImpl` and
`PreallocatedHugepageImpl`. `stage[r]` follows the Hugepage resource of recipe r
from its constructor (`Register`) through `acquire` to `release`; `nr` is the
kernel's counter per node and size. The first acquire allocates for all
requests, trying counts from the largest down; the kernel may grant fewer pages
than were written, reads may fail, and a write-back may raise. Assumed of the
environment: nobody else changes `nr_hugepages` during a run.

**`BenchmarkRun`** – one command from the creation of the output folder to the
`atexit` handlers, one resource operation per step. `held` is the real effect of
a resource on the system, `applied` the flag the code keeps; the two part when
Ctrl+C comes between them, and that is what the properties are about. Ctrl+C is
possible at every step, a second one raises `KeyboardInterrupt`.

**`ProcessControl`** – `AsyncRunner`, `SyncRunner`, `ProcessWatcher`: servers,
background loads and a measured command; the main thread, one thread per
runner, the children, the two kinds of locks, and the SIGINT handler with its
deadline. One Ctrl+C; the terminal's own SIGINT to the foreground process group
is not modelled (it only ends children earlier).

**`ProgressTracker`** – `ASCTProgressTrackerAsync` and `TermManager`: the main
thread follows a script of operations as `execute_benchmarks` issues them, the
update thread animates. `SignalAt` says in which states of the main thread
signals arrive, so that the same specification covers both signals between and
inside the critical sections.

**`RecipeCache`** – `ASCTCache` as `run` and `resume` use it, one file operation
per step, with a crash between any two. A system is a hardware and a memory
configuration; an ordinary user cannot read the memory configuration. Each command
finds the cache directory writeable or not (`writeable`): one that cannot write it
clears, validates and saves nothing, and restores all the same. One cached recipe
(`latency-sweep`), the only one others depend on.

**`ResultStore`** – the output folder: manifest, data/metadata/summary/.hash of
each recipe, and the summary from which dependent recipes take their data
sizes. A file holds the number of the measurement it was written for; the hash
of files is the tuple of these numbers (sha256 is taken to be injective).
A kill can come between two writes or inside one; `--force` starts another run
on the same folder. `made` and `saved` are history variables.

**`RunLock`, `ExclusiveRun`** – `RunLock` is what `ProcessMutex` promises: ask,
enter when nobody is inside, be refused, leave. `ExclusiveRun` is several
invocations from `initialize_asct` to the exit handlers: the output folder,
`--clear-cache`, the lock file with its retries, the counters a recipe changes
and what is left of them for the exit handler, a cached result written and
looked at, a kill at any step. It refines `RunLock` (`ImplementsLock`): whoever
holds the flock between the two ends of the `with` block is the owner.

**`RecipeTable`, `StepProgress`, `RunRequest`** – the table of recipes with their real fields,
defaults, tags, dependencies and priorities, the converters of settings, and
the way from a command line to recipes that can run: keywords, dependencies,
the two orders, settings of file and command line, tools; then the loop over the
recipes and the one over the steps of each. The number of steps comes from the
settings. `StepProgress` is `ASCTProgressTrackerContainer`, which wraps both loops
in `iterate()`: the stack of open blocks, what each bar is told, what it shows. A
session is one or two commands on one configuration file. A machine says which
recipes fail and how: in a step, with an exception that is handled or one that is
not, or in the generator of the steps. An order is written as what it sorts by:
`InOrder` lists a set by any strict total order, and `sorted()`, the topological
order and the order by category and priority are three such orders. Assumed of the
table (`RecipeAssumption`): names are unique, short or full; a recipe has at most one
dependency, which has none itself and a lower priority, or is of another category in
a category whose recipes all have dependencies. Assumed of the inputs
(`RequestAssumption`): a file or a command line names a setting once, no value of a
command line is null, and a dependency with settings is visible wherever its
dependents are. Defaults have the type of their field (`RecipeAssumption`), the settings
a sweep takes its steps from are there by default (`StepsAssumption`), and where the
schema would read the text "None" back as text, the recipe does not distinguish the two
(`DefaultsAssumption`). TLC evaluates all of them on the real table.

**`Iperf3Sweep`** – the two iperf3 recipes: probe of the port, reuse or start
of a server, steps with their clients and log files, teardown. Other programs
come and go on the port at any moment, and a server may die. The nested loops of
`gen_steps` are written by position (step k is combination (k - 1) mod n of run
(k - 1) div n), so that what they yield can be proved. Settings are typed as the
recipe converts them: an affinity is a CPU number or absent.

**`CacheSweep`** – latency-sweep and bandwidth-sweep. Sizes are multiples of the
smallest, means are geometric and cut off as in the code, medians are kept as
products, and the k-means clustering is any grouping of the latencies into
intervals. Steps fail, and the program is killed and resumed from the files. Assumed
of a machine: it shows one or more positive latencies for each size; of a range that
is set for bandwidth-sweep: both ends are positive.

**`Topology`** – `System.discover` over `/proc/cpuinfo`, the CPU directories in
any listing order, the NUMA nodes and the CPU count, while CPUs come and go;
what system-info keeps of it and reads back, from this version and from older
ones. A mask is the set of its CPUs. Assumed of the hardware (`IsHardware`): CPUs are
numbered, no CPU is on two nodes, and a CPU with a cache has one that holds data;
and that different numbers are different as keys of a JSON object.

**`MemoryRecipes`** – idle-latency, peak-bandwidth, cross-numa-bandwidth,
loaded-latency, core-to-core-latency and the storage sweeps. A process is the
CPUs it runs on and the nodes its memory may lie on, and a measured figure is
the process that measured it: so the tables can be compared with what was run. Assumed
of the machine: one of the nodes that system-info can list has a CPU that stays
online; of fio: it reports as many jobs as it was asked to run.

**`RunDiff`** – `view` and `diff` over folders in the formats of 0.5, 0.6 and now
(0.4 is refused), beside saves that may be cut short anywhere. A result is a
list of rows with a key and a value, a number or a text. The table of diff shows a
report's own value and of a measurement the difference in percent of the baseline,
rounded twice as `get_delta` does; the records hold both values and the difference.
Assumed of the recipes' tables: a table has each
key once, none of them is a field that diff ignores, and the levels that bandwidth-sweep
measures are among those of latency-sweep (in 0.5 its rows are kept by their position
among them).

## 3. Runs

| Run | Bounds | Shows |
|---|---|---|
| `hugepages` | 3 recipes, 2 nodes with different page sizes, counts up to 2, 0 or 2 pages at the start | grants stay backed, memory is covered, smaller requests go first, counters are restored, pages of the system are kept |
| `benchmark_run` | 3 recipes, one dependent, a shared resource, run and report, 2 × Ctrl+C | recipes run prepared, one outcome each, clean exit, reverse order, termination |
| `processes` | a server, a load that ignores SIGINT, a measured command | failures are real, nothing is started after Ctrl+C, interrupted loads are stopped, the program ends |
| `progress_bar` | two recipes with steps, a log line, 3 animation steps, Ctrl+C, 2 resizes, signals outside critical sections | the thread has ended when the loop is left; the loop is left |
| `progress_interrupt` (violation) | the same, signals also inside the update mutex | see section 6 |
| `recipe_cache` | 3 systems (2 hardware, 2 memory), 4 commands, each with a writeable cache or not, crashes anywhere | a cached result fits, unless it was saved unvalidated or the cache could not be written; root saves beside its own validators |
| `result_store` | latency-sweep, a dependent and an independent recipe, 2 runs, 2 kills, 1 failure, any number of resumes | what is restored is whole, nothing saved is measured again, data sizes fit, resuming completes |
| `iperf3_sweep` | 2 recipes, 8 pairs of settings, 2 runs of 1 or 2 points, 2 changes by other programs | no server is left or stopped too early, every row is the result of its step, the sweeps end |
| `exclusive_run` | 2 invocations on one folder, one with `--force`, 2 attempts, 1 kill, with and without `--clear-cache` and stdin | the invocations implement `RunLock`; counters and folder are as before; a missing cache file has a reason; everyone gets an answer |
| `run_request` | the real table of recipes, 6 machines, 4 files, 8 updates, 7 pairs of keyword sets, animated bar, logged bar and none, sessions of one or two commands | the plan is sound and its tools are checked, settings reach their recipes, a saved file round-trips, every recipe gets its own outcome and the bar shows the step at hand |
| `run_diff` | 3 folders, one of them of an older version, 2 saves cut short anywhere, 4 ways to call diff, values that are zero, close to each other and no numbers | view shows whole results only; of a report the table of diff shows the run's value, of a measurement its percentage of the baseline or N/A; records and summary agree with it |
| `memory_recipes` | sizes 1 to 32, 19 pairs of latencies and hardware, 2 faults, 1 hotplug | the machine is reported as it was, the levels are found and the sweep converges, CPUs are accounted for, tables say what was measured |

The properties of the last five runs are conjunctions of named parts, each with
a comment of its own in the module; most parts have a mutant of their own.

Why these bounds: each hazard needs two actors and at most one bystander – two
recipes that share pages and a third that does not, a resource between two
others, one load and one server, a run before and a run after. Two Ctrl+C are
all the handler tells apart; two kills allow a kill during the recovery from a
kill; four commands allow run, run elsewhere, resume, run. Two invocations are all
that can meet at a lock, a cache or a folder; two changes of a port are one
before and one after it is probed; sizes up to 32 give every level a power of two
and room to bisect; one hotplug separates any two reads of the discovery (two,
off and on again, escape the code's count check, see section 6). Machines cover
gaps in CPU numbers, a node of one CPU, a node without CPUs and a first node that
is not node 0. The theorems of section 5 remove the bounds for the safety
properties they state.

`CHECK_DEADLOCK FALSE` is set where the system may stop: no request left
(`HugePages`), no command left (`RecipeCache`, `ResultStore`), every invocation
ended (`ExclusiveRun`). In
`progress_interrupt` the hang is the point. The others check deadlock; their end
state repeats itself.

Each property of a passing run has a mutant: a faulty variant of one definition
(marked "Fault" in the modules) under which TLC finds the property violated.

## 4. Fairness

- `BenchmarkRun`: weak fairness of the main thread's step. A recipe's `run()`
  and a resource's set-up are assumed to return or raise; the code has no
  timeout for them.
- `ProcessControl`: strong fairness of the main thread and the runner threads,
  because they compete for locks that are taken and released again and again (a
  load restarts its child for ever); weak fairness of the measured command's end
  and of the death of a child that was killed or honours SIGINT. Background
  loads need not end by themselves.
- `ProgressTracker`: weak fairness of both threads.
- `ResultStore`: weak fairness of the process unless it is killed, and of
  `resume`: the user resumes what was cut short. Nothing makes him start over.
- `ExclusiveRun`: weak fairness of every invocation that was not killed; the retry
  sleeps are finite and the kernel drops the lock of a process that dies.
- `Iperf3Sweep`: weak fairness of the program. A client ends: iperf3 is given a
  duration. The other programs on the port are free.
- `CacheSweep`, `Topology`: the program goes on until the sweep, or the discovery,
  is over; faults and hotplugs are bounded. (Weak fairness is written out as
  "at the end again and again, or a step again and again", which TLC evaluates
  without computing ENABLED of the larger next-state relation.)
- `HugePages`, `RecipeCache`, `RunRequest`, `RunDiff`: safety only.

Ctrl+C, kills, failures and window resizes are never required to happen.

## 5. Proofs

Proved with TLAPS for all values of the constants that satisfy the named
assumptions of each module. One theorem proves that the inductive invariant of the
third column holds (`Invariance`, `BarInvariance`, `Discovery`, `RecipesInvariance`,
`TablesInvariance`, `SweepInvariance`, the lemma `RequestInvariant`; for `RunDiff` the lemma `DiskStep`), with one step per action and
one per conjunct it can disturb; the others follow.

| Module | Theorems | Why the property is not inductive, and what IInv adds |
|---|---|---|
| `HugePages_proofs` | `TypeCorrect`, `AcquiredBacked`, `MemoryCovered`, `GrantOrder`, `Restoration`, `PagesKept` | that pages are there now says nothing about the next release: requests follow the resource's stage (`RequestsFollowStage`), allocation happens once (`AllocationIsOnce`), a grown slot remembers the count it grew from (`GrownFromStart`), successes of one slot fit together (`SuccessIsBacked`) |
| `BenchmarkRun_proofs` | `TypeCorrect`, `Preparedness`, `Outcomes`, `CleanAtExit`, `ReverseOrder` | the loops' positions have to be tied to what they have passed: `LoopShape`, `ListsRegistered`, `Tracked` (an effect without flag has a reason), `Prepared`, `PassedGone`, `SkippedClosed`, `OutcomesSoFar` |
| `ProcessControl_proofs` | `TypeCorrect`, `RealFailures`, `LoadsStopped`, `NoLateSpawn` | the lock discipline: `WatcherLock` (who is in a window in which a child exists and is not registered), `AfterStop`, `ChildKnown`, `MainAt`, `Told` |
| the same, on `ProgressTracker` | `BarTypeCorrect`, `Quiet` | `QuitPassed`: whoever has passed a terminate() has joined the thread |
| `RecipeCache_proofs` | `TypeCorrect`, `CacheFits`, `RootSaves` | `OneSystem`, `EntryValidated`, `RunValidated`: nothing is left of the old system when new validators are written |
| `ResultStore_proofs` | `TypeCorrect`, `RestoresWhole`, `NoSecondMeasurement`, `DependentsUseTheSweep` | `HashOfOne`, `OnlyOwnFiles`, `Saving` (what a save has written so far), `Fresh`, `SavedValid`, `NotAgain`; for the last theorem `SizesInv`, relative to `IInv` (see below) |
| `ExclusiveRun_proofs` | `LeavesMachineAsBefore`, `AbortsAreDisturbances`, `RefusalsHaveReasons`, `RefinesRunLock`, `MutualExclusion` | who is inside holds the flock (`InsideHolds`); who changed the counters last is the only one that has to restore them, unless an exit handler was overtaken (`OneChange`, `OverlapLeft`); whose folder it is (`NotOurs`, `SomeoneWillDelete`); a missing cache file was taken away (`GoneIfDisturbed`) |
| `ExclusiveRun_proofs`, on `RunRequest` | `RequestPlan`, `RequestPrecedence`, `RequestFile` | `SelectionHolds` (the selection is what the keywords ask for, less what was restored), `PlanHolds` (members, order and leaves of the plan at each stage), `PlaceHolds`, `OutcomesHold` (whose status is set so far), `AllocationHolds` (a stored version was found by a recipe at an earlier place), `SettingsHold` (which sources the settings are made of at each stage), `FilesHold` (which entries a `config save` that succeeded has left on disk) |
| `Iperf3Sweep_proofs` | `StopsEveryServer`, `EveryRowIsItsResult`, `ServerServesToTheEnd` | a server that is up listens (`ServerListens`) and has a teardown to come (`WillStop`); it is still the one a recipe was set up with (`ReadyServed`, `StillServed`); rows follow the steps (`RowsFollowSteps`) and logs of later steps are old (`LogsToCome`) |
| `RunDiff_proofs` | `FilesInOrder`, `ViewSound`, `DiffSound` | `DiskInv`: a folder is the one of an old run, or each of its files is missing, torn or of some save, and a result counts as measured if and only if all its files are of one (`FilesOK`, `NewFolder`, `KeptFolder`) |
| `HugePages_proofs`, on `Topology` | `GroupTree`, `MachineSound` | `FoundOK`, `MachineOK`; `StillSo`: what was read so far is still so, or the count of CPUs is going to tell |
| the same, on `MemoryRecipes` | `CpusSound` | `NodesKnown` (the lists of CPUs are those of one moment), `SettingsOK`, `StepsOK`, `RoundsOK`, `RowsOK` |
| the same, on `CacheSweep` | `LevelsSound`, `BoundsOnlyWiden` | `MeasuredOK` (the presweep is among what was measured), `SpotsOK`, `FilesOK` (what is on disk is whole and in order), `BoundsMeasured` (the bounds of a clear step were measured on it) |
| the same, on `MemoryRecipes` | `TablesSound` | `CellsOK` (cells filled and cells to come are all there are), `LoadsOK`, `CorePairsOK` (times measured plus steps left are the runs wanted), `MachineRead` |

`Quiet` is proved for signals in any state, also inside critical sections; a
program that hangs never leaves the loop. `Preparedness` assumes that
dependencies are one level deep, as in the recipe metadata.

`DependentsUseTheSweep` is about one run on a new folder without failures, killed
and resumed any number of times. Up to the manifest nothing of a recipe is on
disk (`BeforeHeader`). Afterwards the run is in one of two stages: latency-sweep is
not saved and no dependent recipe has been measured (`SweepOpen`), or the sizes are
final and every dependent result, in memory or on disk, was measured with them
(`SweepSettled`). The `.hash` of latency-sweep leads from the first to the second; a
kill does not lead back, nor does it tear a summary that is final, because the
summary is written only by a latency-sweep that is still to be run. That nothing
dependent runs in the first stage needs the priorities: `StoreAssumption` says that
latency-sweep's is lower than that of each recipe that uses its sizes (0 against 1 to
5 in `memory_load_latency.py`). Without it the theorem is false, which is what the
mutant `NextInAnyOrder` shows.

`LeavesMachineAsBefore` and `RefinesRunLock` hold for any set of invocations, any
number of attempts and any number of kills; the first is stated for the case that
none was killed, since a killed process restores nothing. `RefinesRunLock` maps the
owner of `RunLock` to whoever holds the flock between the two ends of the `with`
block: every step of an invocation is a step of `RunLock` or a stutter.
`MutualExclusion` is `RunLock`'s own invariant, carried over.

`EveryRowIsItsResult` needs the arithmetic of the steps: k is read back from its run
and its position (`ReadBack`), the positions of the product cover every pair once
(`SweepStepsFacts`, `GenStepsFacts`, `AllSteps`). Assumed of the settings is what the
recipe's own conversion guarantees: sizes are numbers, an affinity is a CPU or
absent, and the list of default sizes is not empty.

`ViewSound` and `DiffSound` hold for any folders, formats, recipes, results and
commands, with saves cut short between any two files. The argument has three
parts: a run that loads as complete has exactly the fields that were measured, in
each of the three formats (for 0.5 through the positions of the levels); a
difference, a row of the table and a record of the file say the same of a field;
and the counts of the summary are those of the fields, by induction over the runs
compared. What a cell shows is then a matter of cases: a report or a measurement, two
numbers that can be compared or not.

`RequestPlan` holds for any table, keywords, cache and machine that satisfy the
assumptions. Its core is about sorting: a strict total order of a finite set gives
each member a place of its own (`OrderPlaces`), so `InOrder` lists them in order
(`OrderSorts`). That the order in which `TopologicalSorter` hands out recipes is such
an order, with the recipes that need nothing in front, is `ResolvedOrder`; that
taking out the restored ones keeps that is `ListedSorts`; and that the regrouping by
category and priority, which no longer looks at dependencies, does not put a
dependent first is `GroupedOrder`. The last is where the assumption about priorities
and categories is needed: in a category of its own a dependency comes first because
its category is met first. `ToolsChecked` ties each stored version to a place of the
plan: a version nobody accepted was stored by a recipe at an earlier place that was
skipped for it.

`RequestPrecedence` follows the settings through the two sources. Two settings of one
source never meet (`SavedOnce`, `UpdateOnce`: a file that `config save` wrote, or
`--detect`, gives a setting once), so what is recorded for a key is what its only
entry converts to (`SettingAfterSource`). A conversion fails, or yields a value of the
kind of its field (`ConvertedValue`), which is how null is known to come from a file
only; and it goes on for ever just for a range that does not grow (`StallIsEndless`).

`RequestFile` is about values that go through JSON and come back. A setting has the
type of its field, whichever source it is from (`SettingsFit`), so what `config save`
writes of it is known; converting that again gives the value back, but for None and
lists of None, which come back as the text "None" where the field is a text
(`ConvertedAgain`). For those fields the recipes read both as absent
(`DefaultsAssumption`), which is why the meaning is the same although the settings are
not. The converters work on lists of any length: the wrong item that decides is the
first one, and what a list of numbers keeps is a sorted set of positions (`Listed`),
so neither needs an induction.

`GroupTree` holds for any number of hotplugs. `MachineSound` is for one at most: a
CPU that goes and comes back between two reads leaves the count as it was (see 6).
Its core is that a single change either happens before the first read or makes
the two counts differ.

`CpusSound` and `TablesSound` hold for any machine, with gaps in the numbers of CPUs
and nodes without a CPU. The first needs that the list of all CPUs has each of
them once (an induction over the nodes it is put together from) and the arithmetic
of the extrapolated bandwidth. For the second the steps of a recipe are related to
its table: `itertools.product` yields every cell once; pingpong, asked for a CPU,
measures each pair of which it is the lower one, and the number of times a pair was
measured plus the number of steps left for it is constant (`PairsMeasured`); the
steady window of a storage step lies within each of its jobs (`WindowInside`). A view
that knows only the saved rows rebuilds the same map of CPUs to nodes for the CPUs
in them (`ViewSame`). `TablesSound` names two exceptions, memory of node 0
(`DataHomed`) and the remote rows for diff (`CoreDiffAgrees`); see section 6. That the saved machine reads as it was needs `MachineRead`, and
so the bound of one hotplug.

`LevelsSound` holds for any number of levels and sizes, any range that is set for
bandwidth-sweep, any failures, kills and resumes. `BoundsOnlyWiden` and the third part
of `LevelsFound` (a bandwidth is shown for the level whose size it was measured at)
hold for any machine, with any noise; the second part (the levels are where they are)
is about machines whose latencies are clear steps (`Clean`): one latency for each size,
rising, one value for each level, 5% and more apart, and a size of the presweep on each.
There the grouping has no choice: all latencies are measured after the presweep, so
that each is a group of its own (`ClearGroups`) with itself as the median
(`ClearMedian`), and beyond 5% of it lie just the other steps (`ClearlyApart`). The
sizes a round goes by are then the first and last that were measured on a step and
their neighbours (`ClearEdges`), and a round that asks for no new size has no room left
between the two, because the middle of two sizes is the lower one only if they are
adjacent as far as the truncation can tell (`MiddleBetween`). The rows of
bandwidth-sweep and the names of the levels, put together by position, match because
both are in order and, where their numbers agree, the same (`RowsInOrder`). That no
group is empty, so that every median exists, holds for all latencies (`GroupsHold`,
`MedianMeasured`).

Type correctness is part of each invariant. It is a theorem of its own in the
first rows and not repeated in the runs; in `ExclusiveRun`, `Iperf3Sweep`,
`CacheSweep`, `MemoryRecipes` and `RunRequest` it is a part of `MachineAsBefore`,
`RowsAreResults`, `LevelsFound`, `CpusAccountedFor` and `PlanIsSound`. Every inductive invariant was checked with TLC on the constants
of its run before it was proved.

Only model-checked:

- liveness (`Terminates`, `Ends`, `BarEnds`, `ResumeCompletes`, and the second parts of
  `SharedServerServes`, `MutexAnswers` and `SweepConverges`), which needs fairness;
  the first, safety parts of these three are proved (`ServerServesToTheEnd`,
  `RefusalsHaveReasons`, `BoundsOnlyWiden`);
- `RunIsReported` of `RunRequest`, which relates four pieces of state (stack of blocks,
  averages, what is shown, outcomes) at every stage of the nested loops.

## 6. Disagreements

With a run that shows the counterexample – `progress_interrupt`: Ctrl+C inside the
update mutex hangs the program (`progress_bar.py:442`): the handler joins a thread
that waits for the mutex the interrupted code holds.

Without a run of their own. Where one of them touches a property, the property
names the exception.

*Resources and processes.*
- The request of a recipe that was skipped between registration and allocation is
  never removed, so the last release does not shrink the counter
  (`hugepages.py:442`); pages of a partial grant stay reserved when every attempt
  falls short.
- A teardown that raises in the exit handler ends it, and later resources are not
  restored (`resource_manager.py:147`, against `:143` "to ensure that all leftover
  resources are restored to their original state"). A resource whose `setup()` was
  interrupted before `applied` was set, or that failed half way (a temporary file
  on a full disk), is not undone. A Ctrl+C between the release of huge pages and the
  removal of their list makes the exit handler release them again, which raises an
  `AssertionError` (`hugepages.py:430`): whatever is later in it stays as it is.
- When the measured command fails, the background loads of the step are not
  stopped (`memory_load_latency.py:972`); the error message at `:389` asks for
  `load.ret_code`, which does not exist. A failing fio leaves mpstat running.
- A child between `Popen` and its registration escapes the handler; `report` treats
  Ctrl+C as a failure of the recipe and goes on; SIGWINCH inside
  `TermManager.write` asks for a lock its own thread holds; an exception in the
  update thread ends it, and `wait_until_idle()` then polls for ever.
- A recipe with an empty list of steps (`injected_nops=5-3`) ends the whole run
  under the animated bar: the completion of the last step refers to a variable
  the loop never assigned (`progress_bar.py:642`), and `NameError` is not among
  what `run_helper.py:103` handles. With `--quiet`, `break_from_iteration()`
  itself raises and hides the reason of the failure (`progress_bar.py:668`), and
  an exception of the generator is not turned into a `RuntimeError`.
- A tool's version is stored before it is checked: the next recipe that needs a
  refused tool is not stopped (`ext_tool.py:56`).
- A running iperf3 server without an affinity is reused for a recipe that asks for
  one and has no client affinities (`network_resources.py:222-224`).

*Invocations and files.*
- The mutex is released before the exit handlers restore what is left
  (`asct_env.py:74`); `--clear-cache` acts before it is taken (`asct:119`); a lock
  with file descriptor 0 counts as a failed attempt (`misc.py:107`).
- Two invocations can both take an output folder for their own, and one that is
  refused can delete, as empty, the folder the other is about to write to.
- Where the cache directory cannot be written, a cache of another system is neither
  cleared nor replaced (`cache.py:62-73`, `:109`), and `restore_to_output_folder`
  (`registry.py:266`) still restores from it, because `is_cache_available` asks only
  for the files. `RestoredFits` names this exception (`LeftInPlace`) beside the one of
  `resume` below.
- A failed write to the cache ends the program (`files.py:46-56`), like any other;
  the `os.stat` of a file that another invocation removed raises.
- `resume` saves to the cache without validating it (`resume.py:304`, against the
  comment at `run.py:114`).
- Dependents of a failed latency-sweep run with default sizes, and a resume reports
  them beside a sweep they are not based on (`run_helper.py:112`,
  `docs/memory.md:88`).

*Settings.*
- `--update-config` cannot set a value of the file back to the default
  (`run_helper.py:207`); a range `N-M:0` is expanded for ever (`schema.py:173`).
- `config save` of recipes that have no settings writes a file `config check` refuses as
  empty (`config.py:45-46` against `:73`). `SavedFileAccepted` names this exception,
  which the proof needed and no session of the run had met.
- Quick mode: the comment at `benchspec.py:61-62` says 7.5 % and 15 ms, the code
  1 % and 2 ms; it looks for `iteration` where the field is `iterations`; a
  deserialized configuration is scaled again.

*Measurements.*
- Memory of node 0 is recorded as bound and is not (`memory_benchspec.py:259`,
  against `docs/memory.md:125`): the number is tested for truth. `DataHomed` is about
  the other nodes and says nothing of this one.
- With `latency_cpu_id` set and no `bw_cpu_blocklist`, bandwidth runs on the latency
  CPU (comment at `:948`); the extrapolation takes the default node less one CPU
  whatever the blocklist, and divides by zero on a node of one CPU.
- The remote rows of core-to-core-latency that diff compares are not filtered by the
  node of CPUB (`core_to_core_latency.py:389` against `:144-146`), as those of run and
  view are: they include pairs on one node with memory on another. `CoreDiffAgrees`
  says how the two relate.
- core-to-core-latency ignores `data_size`; the process count sweep chooses CPUs by the base `numjobs`.
- The sweep's truncated logarithms can put the sweet spot of a plateau narrower
  than a factor of two outside it; a level the presweep misses gets its
  neighbour's name. `EdgesFound` is stated for levels that hold a power of two.
  Without a logarithmic scale `bounds_df` is missing (TypeError).
- The loop over NUMA nodes stops at the first gap; a CPU that goes offline and comes
  back between two reads escapes the count check; the cache sizes of old results
  take a larger instruction cache for the level's; an `AssertionError` of the
  discovery is not among those `run.py:113` catches.

*View and diff.*
- Sweeps of the current format are compared and not plotted (`registry.py:32-33`,
  against `docs/sysdiff.md`); diff does not look at the hash that view checks.
- An interrupted bandwidth-sweep save fails the whole diff. Two runs with one base
  name: an error if it is the baseline's, else both columns show the first.
- `docs/sysdiff.md:36` promises `<missing>` for a field that one run does not have; of
  a measurement the table shows N/A, because the percentage takes the cell
  (`manager.py:231-254`, `display.py:31-47`). Only the records say `<missing>`, `added`
  or `removed`. The difference is rounded before the percentage is taken, so two values
  that differ by less than 0.005 differ by 0.0%. A zero baseline shows "changed" and
  N/A. `DiffAgrees` says exactly when a cell is N/A.
- bandwidth-sweep without levels
  collapses into one row; repeated NOP counts give "Unable to load data".

## 7. Not modelled

- Text, tables, plots, logging, argument parsing: they read and print. This is
  most of `lib/sysreport`, `core/managers/ubench_reporter.py`,
  `lib/c2c_latency/report.py` and `core/logger.py`.
- `lib/networking/network_helpers.py` beside the addresses and ports iperf3 uses: it
  collects what `ethtool`, `ip` and `/sys` print for network-info.
- The C micro-benchmarks, dietperf, cmn-tools, pingpong (`extern/`,
  `lib/cmn-tools`): vendored, or driven through vendored code.
- k-means and gradients over floats: out of TLC's reach. `CacheSweep` allows every
  grouping instead. The PMU and gradient variants of the sweep are not called.
- The time estimate of the progress bar and its layout.
- Ownership changes under sudo; figures (throughput, percentiles) that are sums and
  quotients of what a program printed; dev mode and cycle units.
- A CPU that goes offline after system-info has run.
- Reading a saved result that raises although its hash is right (`resume.py:280`); a
  running iperf3 server with several CPUs; a server that ends with return code 0,
  which `AsyncRunner` would start again.

## 8. Plan

All components with decisions of their own are modelled, and every safety property
that a run checks is a theorem, but for `RunIsReported`. What could still be
added:

1. `ProcessControl`: the order in which the watcher's lock and a runner's lock are
   taken, as an invariant (no circular wait), beside the liveness TLC checks.
2. `ProgressTracker`: which thread holds which lock, and that outside the update
   mutex a signal handler finds it free or held by a thread that can go on: the
   safety half of why `progress_bar` ends and `progress_interrupt` does not.
3. `HugePages`, `BenchmarkRun`: their environment assumptions (nobody else changes
   the counters, set-ups return) weakened where the proofs do not need them.
