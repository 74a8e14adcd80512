---------------------------- MODULE ResultStore ----------------------------
(***************************************************************************)
(* The output folder of a run as `asct run` fills it (core/cmd/run.py,     *)
(* save_benchmark_result) and `asct resume` reads it (core/cmd/resume.py,  *)
(* lib/run/result_loader.py): the manifest asct.json, the files of each    *)
(* recipe with their .hash, and the summary file through which the memory  *)
(* recipes get their data sizes from latency-sweep.                        *)
(*                                                                         *)
(* Files are written one at a time; the process can be killed between two  *)
(* writes or inside one, and the folder can be used again by a later run   *)
(* with --force, which removes nothing.  What a file holds is the number   *)
(* of the measurement it was written for.                                  *)
(***************************************************************************)
EXTENDS Integers, Sequences

CONSTANTS Recipe,      \* the selected recipes
          Rank,        \* their priority, lower runs first
          Base,        \* latency-sweep
          Dependent,   \* recipes that take their data sizes from it
          WithSummary, \* recipes whose result has a summary part
          Info,        \* system-info, saved before the others
          MaxRuns,     \* bound: times `asct run` is started on the folder
          MaxCrashes,  \* bound: times the process is killed
          MaxFails     \* bound: times a recipe fails

ASSUME StoreAssumption ==
    /\ Rank \in [Recipe -> Nat]
    /\ Base \in Recipe
    /\ Dependent \subseteq Recipe \ {Base}
    /\ \A d \in Dependent : Rank[Base] < Rank[d]
    /\ Info \notin Recipe
    /\ MaxRuns \in Nat
    /\ MaxCrashes \in Nat
    /\ MaxFails \in Nat

File == {"data", "metadata", "summary"}
Saved == Recipe \cup {Info}

Absent == 0
Torn == -1

VARIABLES pc,          \* "off", "save", "restore", "header", "exec"
          cur, left,   \* inside save_benchmark_result: the recipe, files still to write
          todo,        \* recipes still to run
          results,     \* completed_benchmarks: number of the measurement, or Absent
          complete,    \* output() has shown a result of every requested recipe
          file,        \* file[r][f]: what file f of recipe r holds
          hash,        \* hash[r][f]: what .hash says of it
          sizes,       \* latency-sweep-summary.ubench.json
          manifest,    \* asct.json: [run, requested], run = 0 when unreadable
          made,        \* history: [run, basis] of every measurement
          saved,       \* history: the run that last completed the save of a recipe
          runs, crashes, fails

proc == <<pc, cur, left, todo, results, complete>>
folder == <<file, hash, sizes, manifest>>
bounds == <<runs, crashes, fails>>
vars == <<proc, folder, made, saved, bounds>>

Nothing == [f \in File |-> Absent]
NoManifest == [run |-> 0, requested |-> {}]

Init ==
    /\ pc = "off"
    /\ cur = Info
    /\ left = <<>>
    /\ todo = {}
    /\ results = [r \in Recipe |-> Absent]
    /\ complete = FALSE
    /\ file = [r \in Saved |-> Nothing]
    /\ hash = [r \in Saved |-> Nothing]
    /\ sizes = Absent
    /\ manifest = NoManifest
    /\ made = <<>>
    /\ saved = [r \in Recipe |-> 0]
    /\ runs = 0
    /\ crashes = 0
    /\ fails = 0

FilesOf(r) == IF r \in WithSummary THEN File ELSE File \ {"summary"}

\* The order in which save_benchmark_result writes.
Writes(r) == IF r \in WithSummary THEN <<"data", "metadata", "summary", "hash">>
                                  ELSE <<"data", "metadata", "hash">>

\* hash_saved_recipe_files over the files that were written.
HashOf(r, n) == [f \in File |-> IF f \in FilesOf(r) THEN n ELSE Absent]

\* Fault: the two files are there.
HasSavedRecipe(r) == file[r]["data"] # Absent /\ hash[r]["data"] # Absent

\* has_valid_saved_recipe: the hash of the files that are there is the saved one.
HasValid(r) == file[r]["data"] # Absent /\ hash[r] = file[r]

-----------------------------------------------------------------------------
Measured(run, basis) == made' = Append(made, [run |-> run, basis |-> basis])

\* `asct run` on a new folder, or with --force on this one: system-info first.
Run ==
    /\ pc = "off"
    /\ runs < MaxRuns
    /\ runs' = runs + 1
    /\ Measured(runs + 1, Absent)
    /\ cur' = Info
    /\ left' = Writes(Info)
    /\ complete' = FALSE
    /\ pc' = "save"
    /\ UNCHANGED <<todo, results, folder, saved, crashes, fails>>

\* system-info cannot be gathered: the manifest is written all the same, with
\* the recipes as filtered, their dependencies not yet added.
InfoFails ==
    /\ pc = "off"
    /\ runs < MaxRuns
    /\ fails < MaxFails
    /\ runs' = runs + 1
    /\ fails' = fails + 1
    /\ \E R \in {Recipe, Recipe \ {Base}} :
          manifest' = [run |-> runs + 1, requested |-> R]
    /\ complete' = FALSE
    /\ UNCHANGED <<pc, cur, left, todo, results, file, hash, sizes, made, saved, crashes>>

\* One write_to_file of save_benchmark_result.
SaveStep ==
    /\ pc = "save"
    /\ left # <<>>
    /\ LET n == Len(made)
       IN  IF Head(left) = "hash"
           THEN /\ hash' = [hash EXCEPT ![cur] = HashOf(cur, n)]
                /\ saved' = [r \in Recipe |-> IF r = cur THEN manifest.run ELSE saved[r]]
                /\ UNCHANGED file
           ELSE /\ file' = [file EXCEPT ![cur][Head(left)] = n]
                /\ UNCHANGED <<hash, saved>>
    /\ left' = Tail(left)
    /\ UNCHANGED <<pc, cur, todo, results, complete, sizes, manifest, made, bounds>>

SaveEnd ==
    /\ pc = "save"
    /\ left = <<>>
    /\ pc' = IF cur = Info THEN "restore" ELSE "exec"
    /\ UNCHANGED <<cur, left, todo, results, complete, folder, made, saved, bounds>>

\* remove_cached_dependencies: a latency-sweep that nobody asked for may come
\* from the cache, with its summary file.
Restore ==
    /\ pc = "restore"
    /\ pc' = "header"
    /\ \/ /\ todo' = Recipe
          /\ UNCHANGED <<sizes, made>>
       \/ /\ todo' = Recipe \ {Base}
          /\ Measured(Absent, Absent)
          /\ sizes' = Len(made) + 1
    /\ UNCHANGED <<cur, left, results, complete, file, hash, manifest, saved, bounds>>

\* write_asct_json_header, then execute_benchmarks.
Header ==
    /\ pc = "header"
    /\ manifest' = [run |-> runs, requested |-> todo]
    /\ results' = [r \in Recipe |-> Absent]
    /\ pc' = "exec"
    /\ UNCHANGED <<cur, left, todo, complete, file, hash, sizes, made, saved, bounds>>

\* Fault: recipes run in any order.
NextInAnyOrder(r) == r \in todo

\* get_recipes: by priority.
NextUp(r) == r \in todo /\ \A q \in todo : Rank[r] <= Rank[q]

\* get_optimal_data_size: a default when the summary cannot be used.
Basis(r) == IF r \in Dependent /\ sizes > 0 THEN sizes ELSE Absent

Complete(r) ==
    /\ Measured(manifest.run, Basis(r))
    /\ sizes' = IF r = Base THEN Len(made) + 1 ELSE sizes
    /\ results' = [results EXCEPT ![r] = Len(made) + 1]
    /\ cur' = r
    /\ left' = Writes(r)
    /\ pc' = "save"
    /\ UNCHANGED fails

\* A latency-sweep that fails may already have written an empty summary.
Fail(r) ==
    /\ fails < MaxFails
    /\ fails' = fails + 1
    /\ sizes' \in IF r = Base THEN {sizes, Absent} ELSE {sizes}
    /\ UNCHANGED <<pc, cur, left, results, made>>

\* benchmark.run() in the loop of execute_benchmarks.
Execute ==
    /\ pc = "exec"
    /\ \E r \in Recipe :
          /\ NextUp(r)
          /\ todo' = todo \ {r}
          /\ Complete(r) \/ Fail(r)
    /\ UNCHANGED <<complete, file, hash, manifest, saved, runs, crashes>>

\* output().
Report ==
    /\ pc = "exec"
    /\ todo = {}
    /\ complete' = (\A r \in manifest.requested : results[r] # Absent)
    /\ pc' = "off"
    /\ UNCHANGED <<cur, left, todo, results, folder, made, saved, bounds>>

\* Fault: what has a data.json is not run again.
TodoMissing == {r \in manifest.requested : file[r]["data"] = Absent}

\* Fault: everything the run asked for is run again.
TodoRequested == manifest.requested

\* _get_resume_run_state.
TodoOnResume == {r \in manifest.requested : ~HasValid(r)}

\* `asct resume`: the manifest and the saved system-info have to be readable.  A
\* set of files whose hash is right can be: if reading one raises all the same
\* (an I/O error), the recipe is run again, which is left out.
Resume ==
    /\ pc = "off"
    /\ manifest.run # 0
    /\ manifest.requested # {}
    /\ HasValid(Info)
    /\ todo' = TodoOnResume
    /\ results' = [r \in Recipe |-> IF r \in manifest.requested /\ HasValid(r)
                                    THEN file[r]["data"]
                                    ELSE Absent]
    /\ complete' = FALSE
    /\ pc' = "exec"
    /\ UNCHANGED <<cur, left, folder, made, saved, bounds>>

\* The process is killed, or leaves through sys.exit in write_to_file; the file
\* it is writing may be left incomplete.
Crash ==
    /\ pc # "off"
    /\ crashes < MaxCrashes
    /\ crashes' = crashes + 1
    /\ pc' = "off"
    /\ \/ UNCHANGED folder
       \/ /\ pc = "save" /\ left # <<>> /\ Head(left) # "hash"
          /\ file' = [file EXCEPT ![cur][Head(left)] = Torn]
          /\ UNCHANGED <<hash, sizes, manifest>>
       \/ /\ pc = "save" /\ left # <<>> /\ Head(left) = "hash"
          /\ hash' = [hash EXCEPT ![cur] = Nothing]
          /\ UNCHANGED <<file, sizes, manifest>>
       \/ /\ pc = "header"
          /\ manifest' = NoManifest
          /\ UNCHANGED <<file, hash, sizes>>
       \/ /\ pc = "restore" \/ (pc = "exec" /\ NextUp(Base))
          /\ sizes' = Torn
          /\ UNCHANGED <<file, hash, manifest>>
    /\ UNCHANGED <<cur, left, todo, results, complete, made, saved, runs, fails>>

Proceed == SaveStep \/ SaveEnd \/ Restore \/ Header \/ Execute \/ Report

Next == Run \/ InfoFails \/ Proceed \/ Resume \/ Crash

Spec == Init /\ [][Next]_vars

\* The process goes on unless it is killed, and the user resumes what was cut
\* short.  Nothing makes him start over.
FairSpec == Spec /\ WF_vars(Proceed) /\ WF_vars(Resume)

-----------------------------------------------------------------------------
Content == Torn .. Len(made)

\* Every variable keeps its type.
TypeOK ==
    /\ pc \in {"off", "save", "restore", "header", "exec"}
    /\ cur \in Saved
    /\ left \in Seq(File \cup {"hash"})
    /\ todo \subseteq Recipe
    /\ results \in [Recipe -> 0 .. Len(made)]
    /\ complete \in BOOLEAN
    /\ file \in [Saved -> [File -> Content]]
    /\ hash \in [Saved -> [File -> 0 .. Len(made)]]
    /\ sizes \in Content
    /\ manifest \in [run : 0 .. runs, requested : SUBSET Recipe]
    /\ made \in Seq([run : 0 .. runs, basis : 0 .. Len(made)])
    /\ saved \in [Recipe -> 0 .. runs]
    /\ runs \in 0 .. MaxRuns
    /\ crashes \in 0 .. MaxCrashes
    /\ fails \in 0 .. MaxFails

\* What resume restores is one result: all its files are there, none
\* incomplete, and none left by another measurement.
SavedIsWhole ==
    \A r \in Saved :
        HasValid(r) => /\ file[r]["data"] > 0
                       /\ file[r] = HashOf(r, file[r]["data"])

\* A recipe whose result a run has saved is not measured again in that run,
\* however often the run is cut short and resumed.
MeasuredOnce ==
    (pc = "exec" /\ manifest.run # 0) => \A r \in todo : saved[r] # manifest.run

\* A run on a new folder in which nothing fails, but which may be cut short and
\* resumed, measures every dependent recipe with the sizes found by the
\* latency-sweep it reports, or by the one restored from the cache.
SizesOfTheSweep ==
    (complete /\ runs = 1 /\ fails = 0) =>
        \A r \in Dependent \cap manifest.requested :
            /\ sizes > 0
            /\ made[results[r]].basis = sizes
            /\ Base \in manifest.requested => results[Base] = sizes

\* Once no new run is started on the folder, resuming completes it.
ResumeCompletes == (pc = "exec" /\ runs = MaxRuns) ~> complete

-----------------------------------------------------------------------------
(* The inductive invariant behind SavedIsWhole and MeasuredOnce.            *)

\* A .hash was written whole, over one measurement.
HashOfOne ==
    \A r \in Saved :
        \/ hash[r] = Nothing
        \/ \E n \in 1 .. Len(made) : hash[r] = HashOf(r, n)

\* A recipe without a summary never gets one.
OnlyOwnFiles ==
    \A r \in Saved \ WithSummary : file[r]["summary"] = Absent

\* What can be left to write, last file first.
Remaining(r) ==
    {<<>>, <<"hash">>} \cup
        IF r \in WithSummary
        THEN {<<"summary", "hash">>, <<"metadata", "summary", "hash">>, Writes(r)}
        ELSE {<<"metadata", "hash">>, Writes(r)}

\* The files already written in this save hold the latest measurement.
Saving ==
    pc = "save" =>
        /\ left \in Remaining(cur)
        /\ Len(made) > 0
        /\ Len(left) < Len(Writes(cur)) => file[cur]["data"] = Len(made)
        /\ Len(left) < Len(Writes(cur)) - 1 => file[cur]["metadata"] = Len(made)
        /\ (Len(left) < 2 /\ cur \in WithSummary) => file[cur]["summary"] = Len(made)

\* A run has saved nothing before its manifest is there.
Fresh ==
    (pc \in {"restore", "header"} \/ (pc = "save" /\ cur = Info)) =>
        /\ runs > 0
        /\ \A r \in Recipe : saved[r] < runs

\* What the run of the manifest has saved is valid, ...
SavedValid ==
    \A r \in Recipe : (manifest.run # 0 /\ saved[r] = manifest.run) => HasValid(r)

\* ... and is neither to be run nor being saved again.
NotAgain ==
    (manifest.run # 0 /\ (pc = "exec" \/ (pc = "save" /\ cur # Info))) =>
        /\ \A r \in todo : saved[r] # manifest.run
        /\ (pc = "save" => cur \notin todo)
        /\ ((pc = "save" /\ left # <<>>) => saved[cur] # manifest.run)

IInv ==
    /\ TypeOK
    /\ HashOfOne
    /\ OnlyOwnFiles
    /\ Saving
    /\ Fresh
    /\ SavedValid
    /\ NotAgain

(* The inductive invariant behind SizesOfTheSweep, which is about one run on *)
(* a new folder in which nothing fails.                                      *)

OneCleanRun == runs <= 1 /\ fails = 0

Measuring == pc \in {"exec", "save"}

\* Until its manifest is there the run has written nothing of a recipe; a
\* latency-sweep that is not to be run has been restored.
BeforeHeader ==
    /\ pc \in {"off", "save", "restore", "header"}
    /\ pc = "save" => cur = Info
    /\ runs = 0 => pc = "off"
    /\ \A r \in Recipe : hash[r] = Nothing /\ file[r]["data"] = Absent
    /\ (pc = "header" /\ Base \notin todo) => sizes > 0

\* From then on it saves what it has just measured, and only that.
AfterHeader ==
    /\ pc \in {"off", "exec", "save"}
    /\ pc = "save" => /\ cur \in manifest.requested
                      /\ results[cur] = Len(made)
                      /\ cur = Base => sizes = Len(made)
    /\ Measuring => todo \subseteq manifest.requested
    /\ \A r \in Recipe : hash[r] # Nothing => saved[r] = manifest.run

\* The sizes are final: every dependent result, on disk or in memory, has them.
SweepSettled ==
    /\ sizes > 0
    /\ Base \in manifest.requested =>
          /\ saved[Base] = manifest.run
          /\ file[Base]["data"] = sizes
          /\ (Measuring /\ results[Base] # Absent) => results[Base] = sizes
    /\ \A d \in Dependent :
          /\ file[d]["data"] > 0 => made[file[d]["data"]].basis = sizes
          /\ (Measuring /\ results[d] # Absent) => made[results[d]].basis = sizes

\* latency-sweep has still to be saved, and no dependent recipe has been run.
SweepOpen ==
    /\ Base \in manifest.requested
    /\ saved[Base] # manifest.run
    /\ \A d \in Dependent : /\ file[d]["data"] = Absent
                            /\ Measuring => results[d] = Absent
    /\ pc = "exec" => Base \in todo
    /\ pc = "save" => /\ cur \notin Dependent
                      /\ Base \in todo \/ (cur = Base /\ left # <<>>)

SweepFirst ==
    OneCleanRun =>
        /\ manifest.run = 0 => BeforeHeader
        /\ manifest.run # 0 => AfterHeader /\ (SweepSettled \/ SweepOpen)

SizesInv ==
    /\ SweepFirst
    /\ complete => pc = "off"
    /\ SizesOfTheSweep
=============================================================================
