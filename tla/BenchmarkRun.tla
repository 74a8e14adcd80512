---------------------------- MODULE BenchmarkRun ----------------------------
(***************************************************************************)
(* One `asct run`, `resume` or `report` from the creation of the output    *)
(* folder to the atexit handlers: setup_benchmarks, execute_benchmarks and *)
(* teardown_benchmarks (lib/run/run_helper.py) over the ResourceManager    *)
(* (core/managers/resource_manager.py).                                    *)
(*                                                                         *)
(* The main thread is followed one resource operation at a time, because   *)
(* Ctrl+C makes the SIGINT handler raise SystemExit (the second one raises *)
(* KeyboardInterrupt) between any two of them.  `held` is the effect of a  *)
(* resource on the system: a folder, reserved pages, a server process.     *)
(***************************************************************************)
EXTENDS Integers, Sequences, FiniteSets

CONSTANTS Command,         \* the commands it may be: "run" (also resume) or "report"
          Order,           \* the selected recipes, in execution order (get_recipes)
          Resource,        \* resource objects
          Local,           \* Local[b]: what _create_resources of recipe b returns
          Global,          \* resources registered with global_scope=True
          DependsOn,       \* DependsOn[b]: recipes b depends on (recipe metadata)
          LeavesPartial,   \* resources whose failing setup() can leave its effect behind
          TeardownMayFail, \* resources whose teardown() can raise
          ClearsApplied,   \* resources whose teardown() resets `applied`
          TeardownOnce,    \* resources whose second teardown() raises an AssertionError
          MaxInterrupts    \* bound: number of times Ctrl+C is pressed

N == Len(Order)
Recipe == {Order[k] : k \in 1 .. N}

ASSUME CommandAssumption == Command \subseteq {"run", "report"}

ASSUME RunAssumption ==
    /\ Order \in Seq(Recipe)
    /\ \A k, l \in 1 .. N : Order[k] = Order[l] => k = l
    /\ Local \in [Recipe -> Seq(Resource)]
    /\ \A b \in Recipe : \A k, l \in 1 .. Len(Local[b]) : Local[b][k] = Local[b][l] => k = l
    /\ Global \in Seq(Resource)
    /\ DependsOn \in [Recipe -> SUBSET Recipe]
    /\ MaxInterrupts \in Nat

\* What recipe metadata guarantees: a recipe that others depend on depends on
\* nothing itself (latency-sweep and network-info are the only dependencies).
ASSUME FlatDependencies ==
    \A b \in Recipe : b \notin DependsOn[b] /\ \A d \in DependsOn[b] : DependsOn[d] = {}

VARIABLES command,         \* "run" (and resume), or "report"
          phase,           \* where the main thread is
          idx,             \* loop index into Order
          pos,             \* loop index into the current resource list
          busy,            \* inside apply_all / benchmark.run / restore_all for Order[idx]
          unmarked,        \* setup() has returned, `applied` is not set yet
          registered,      \* keys of ResourceManager.local_resources
          applied,         \* Resource.applied
          held,            \* effects present on the system
          skipped, failed, completed,
          interrupts,
          orphan,          \* history: effects left by a setup() that did not complete
          refused,         \* history: resources whose teardown() raised
          aborted          \* history: the main thread left its course

vars == <<command, phase, idx, pos, busy, unmarked, registered, applied, held, skipped, failed,
          completed, interrupts, orphan, refused, aborted>>

Phase == {"init", "setup", "alloc", "execute", "teardown", "cleanup_global", "cleanup", "done", "cut"}

\* The program is over: the exit handler got to its end, or was cut short.
Over == phase \in {"done", "cut"}

Cur == Order[idx]
ResList == IF phase \in {"init", "cleanup_global"} THEN Global ELSE Local[Cur]
Res == ResList[pos]
Inside == busy /\ pos \in 1 .. Len(ResList)

Goto(p) == /\ phase' = p
           /\ idx' = 1
           /\ pos' = 1
           /\ busy' = (p \in {"init", "cleanup_global"})

NextRecipe == /\ idx' = idx + 1
              /\ busy' = FALSE
              /\ UNCHANGED <<phase, pos>>

\* What follows when benchmark.run() is left by an exception nobody catches:
\* execute_benchmarks has a `finally`, the report command has none.
AfterEscape == IF command = "run" THEN "teardown" ELSE "cleanup_global"

\* Fault: a failing dependency does not take its dependents along.
DependentsForgotten(b) == {}

\* get_dependents over the whole benchmark list: one level.
Dependents(b) == {c \in Recipe : c # b /\ b \in DependsOn[c]}

Skip(b) == skipped' = skipped \cup {b} \cup Dependents(b)

-----------------------------------------------------------------------------
Init ==
    /\ command \in Command
    /\ phase = "init"
    /\ idx = 1
    /\ pos = 1
    /\ busy = TRUE
    /\ unmarked = FALSE
    /\ registered = {}
    /\ applied = {}
    /\ held = {}
    /\ skipped = {}
    /\ failed = {}
    /\ completed = {}
    /\ interrupts = 0
    /\ orphan = {}
    /\ refused = {}
    /\ aborted = FALSE

\* Stage "setup": config and construction of the resources.  A recipe is
\* registered only when _create_resources returned.
SetupRecipe ==
    /\ phase = "setup"
    /\ idx <= N
    /\ \/ /\ Cur \notin skipped
          /\ registered' = registered \cup {b \in {Cur} : Local[b] # <<>>}
          /\ UNCHANGED skipped
       \/ /\ Cur \notin skipped
          /\ Skip(Cur)
          /\ UNCHANGED registered
       \/ /\ Cur \in skipped
          /\ UNCHANGED <<registered, skipped>>
    /\ NextRecipe
    /\ UNCHANGED <<command, unmarked, applied, held, failed, completed, interrupts, orphan, refused, aborted>>

\* Stage "alloc": enter apply_all for the next recipe that is not skipped.
BeginApply ==
    /\ phase = "alloc"
    /\ idx <= N
    /\ ~busy
    /\ IF Cur \in skipped
       THEN NextRecipe
       ELSE /\ busy' = TRUE
            /\ pos' = 1
            /\ UNCHANGED <<phase, idx>>
    /\ UNCHANGED <<command, unmarked, registered, applied, held, skipped, failed, completed,
                   interrupts, orphan, refused, aborted>>

\* _apply_all, one resource: setup() unless it is applied already.
SetupResource ==
    /\ phase \in {"init", "alloc"}
    /\ Inside
    /\ ~unmarked
    /\ IF Res \in applied
       THEN /\ pos' = pos + 1
            /\ UNCHANGED <<unmarked, held>>
       ELSE /\ held' = held \cup {Res}
            /\ unmarked' = TRUE
            /\ UNCHANGED pos
    /\ UNCHANGED <<command, phase, idx, busy, registered, applied, skipped, failed, completed,
                   interrupts, orphan, refused, aborted>>

MarkApplied ==
    /\ unmarked
    /\ applied' = applied \cup {Res}
    /\ unmarked' = FALSE
    /\ pos' = pos + 1
    /\ UNCHANGED <<command, phase, idx, busy, registered, held, skipped, failed, completed,
                   interrupts, orphan, refused, aborted>>

\* Fault: the recipe goes on without the resource.
AfterFailedSetupGoOn ==
    /\ pos' = pos + 1
    /\ UNCHANGED <<phase, idx, busy, skipped, aborted>>

\* The recipe whose resource failed is skipped; what it had applied before
\* stays applied.  A failing global resource ends the program.
AfterFailedSetup ==
    IF phase = "init"
    THEN /\ Goto("cleanup_global")
         /\ aborted' = TRUE
         /\ UNCHANGED skipped
    ELSE /\ Skip(Cur)
         /\ NextRecipe
         /\ UNCHANGED aborted

SetupResourceFails ==
    /\ phase \in {"init", "alloc"}
    /\ Inside
    /\ ~unmarked
    /\ Res \notin applied
    /\ \E left \in SUBSET ({Res} \cap LeavesPartial) :
          /\ held' = held \cup left
          /\ orphan' = orphan \cup left
    /\ AfterFailedSetup
    /\ UNCHANGED <<command, unmarked, registered, applied, failed, completed, interrupts, refused>>

EndApply ==
    /\ phase \in {"init", "alloc"}
    /\ busy
    /\ pos > Len(ResList)
    /\ IF phase = "init" THEN Goto("setup") ELSE NextRecipe
    /\ UNCHANGED <<command, unmarked, registered, applied, held, skipped, failed, completed,
                   interrupts, orphan, refused, aborted>>

\* execute_benchmarks: the recipes of priority_list, one after the other.
BeginRun ==
    /\ phase = "execute"
    /\ idx <= N
    /\ ~busy
    /\ IF Cur \in skipped
       THEN NextRecipe
       ELSE /\ busy' = TRUE
            /\ UNCHANGED <<phase, idx, pos>>
    /\ UNCHANGED <<command, unmarked, registered, applied, held, skipped, failed, completed,
                   interrupts, orphan, refused, aborted>>

\* Fault: a failure is not recorded.
FinishRunSilently ==
    /\ phase = "execute"
    /\ busy
    /\ completed' \in {completed, completed \cup {Cur}}
    /\ NextRecipe
    /\ UNCHANGED <<command, unmarked, registered, applied, held, skipped, failed,
                   interrupts, orphan, refused, aborted>>

FinishRun ==
    /\ phase = "execute"
    /\ busy
    /\ \/ failed' = failed \cup {Cur} /\ UNCHANGED completed
       \/ completed' = completed \cup {Cur} /\ UNCHANGED failed
    /\ NextRecipe
    /\ UNCHANGED <<command, unmarked, registered, applied, held, skipped, interrupts, orphan, refused, aborted>>

\* The result cannot be written (write_to_file exits), or run() raised what is
\* not caught: the program is on its way out.
AbortRun ==
    /\ phase = "execute"
    /\ busy
    /\ completed' \in {completed, completed \cup {Cur}}
    /\ aborted' = TRUE
    /\ Goto(AfterEscape)
    /\ UNCHANGED <<command, unmarked, registered, applied, held, skipped, failed, interrupts, orphan, refused>>

\* Fault: going through the list in the order of its set-up.
FirstToRestoreForward(b) == 1

\* Restoring starts at the end of a recipe's list.
FirstToRestore(b) == Len(Local[b])

\* teardown_benchmarks visits priority_list, the exit handler every list that
\* is still there.
BeginRestore ==
    /\ phase \in {"teardown", "cleanup"}
    /\ idx <= N
    /\ ~busy
    /\ IF Cur \notin registered \/ (phase = "teardown" /\ Cur \in skipped)
       THEN NextRecipe
       ELSE /\ busy' = TRUE
            /\ pos' = FirstToRestore(Cur)
            /\ UNCHANGED <<phase, idx>>
    /\ UNCHANGED <<command, unmarked, registered, applied, held, skipped, failed, completed,
                   interrupts, orphan, refused, aborted>>

\* Local lists are restored backwards, the global one forwards.
NextToRestore == IF phase = "cleanup_global" THEN pos + 1 ELSE pos - 1

RestoreResource ==
    /\ phase \in {"teardown", "cleanup", "cleanup_global"}
    /\ Inside
    /\ Res \notin (applied \ held) \cap TeardownOnce
    /\ IF Res \in applied
       THEN /\ held' = held \ {Res}
            /\ applied' = applied \ ({Res} \cap ClearsApplied)
       ELSE UNCHANGED <<held, applied>>
    /\ pos' = NextToRestore
    /\ UNCHANGED <<command, phase, idx, busy, unmarked, registered, skipped, failed, completed,
                   interrupts, orphan, refused, aborted>>

\* Fault: the loop over the recipes stays where it is.
AfterFailedTeardownAgain ==
    IF phase = "teardown"
    THEN /\ busy' = FALSE
         /\ UNCHANGED <<phase, idx, pos, aborted>>
    ELSE /\ Goto("cut")
         /\ aborted' = TRUE

\* teardown_benchmarks catches the exception and goes on with the next recipe,
\* unless it is the AssertionError of a second teardown; in the exit handler it
\* ends the whole cleanup.
AfterFailedTeardown ==
    IF phase = "teardown" /\ Res \in held
    THEN NextRecipe /\ UNCHANGED aborted
    ELSE /\ Goto(IF phase = "teardown" THEN "cleanup_global" ELSE "cut")
         /\ aborted' = TRUE

RestoreResourceFails ==
    /\ phase \in {"teardown", "cleanup", "cleanup_global"}
    /\ Inside
    /\ Res \in applied
    /\ Res \in IF Res \in held THEN TeardownMayFail ELSE TeardownOnce
    /\ refused' = refused \cup {Res}
    /\ AfterFailedTeardown
    /\ UNCHANGED <<command, unmarked, registered, applied, held, skipped, failed, completed, interrupts, orphan>>

\* Fault: the list is dropped before its resources are restored.
EndRestoreEarly ==
    /\ phase \in {"teardown", "cleanup"}
    /\ busy
    /\ registered' = registered \ {Cur}
    /\ NextRecipe
    /\ UNCHANGED <<command, unmarked, applied, held, skipped, failed, completed, interrupts,
                   orphan, refused, aborted>>

EndRestore ==
    /\ phase \in {"teardown", "cleanup"}
    /\ busy
    /\ pos = 0
    /\ registered' = registered \ {Cur}
    /\ NextRecipe
    /\ UNCHANGED <<command, unmarked, applied, held, skipped, failed, completed, interrupts,
                   orphan, refused, aborted>>

EndRestoreGlobal ==
    /\ phase = "cleanup_global"
    /\ pos > Len(Global)
    /\ Goto("cleanup")
    /\ UNCHANGED <<command, unmarked, registered, applied, held, skipped, failed, completed,
                   interrupts, orphan, refused, aborted>>

NextPhase(p) == CASE p = "setup" -> "alloc"
                  [] p = "alloc" -> "execute"
                  [] p = "execute" -> "teardown"
                  [] p = "teardown" -> "cleanup_global"
                  [] p = "cleanup" -> "done"

EndLoop ==
    /\ phase \in {"setup", "alloc", "execute", "teardown", "cleanup"}
    /\ idx > N
    /\ Goto(NextPhase(phase))
    /\ UNCHANGED <<command, unmarked, registered, applied, held, skipped, failed, completed,
                   interrupts, orphan, refused, aborted>>

\* The progress tracker exists only inside execute_benchmarks.  Under report
\* the SIGINT handler fails in terminate() with a TypeError (the list of
\* trackers is None) instead of raising SystemExit, and the loops around run()
\* and teardown() catch a TypeError.
Swallowed == /\ command = "report"
             /\ interrupts = 0
             /\ busy
             /\ phase \in {"execute", "teardown"}

InterruptSwallowed ==
    /\ interrupts < MaxInterrupts
    /\ Swallowed
    /\ interrupts' = interrupts + 1
    /\ failed' = IF phase = "execute" THEN failed \cup {Cur} ELSE failed
    /\ NextRecipe
    /\ UNCHANGED <<command, unmarked, registered, applied, held, skipped, completed, orphan,
                   refused, aborted>>

\* Ctrl+C: the exception unwinds to the `finally` of execute_benchmarks or to
\* the end of the program; inside the exit handler it ends the cleanup.  The
\* recipe may have completed: then its result is being written.
Interrupt ==
    /\ ~Over
    /\ interrupts < MaxInterrupts
    /\ interrupts' = interrupts + 1
    /\ aborted' = TRUE
    /\ orphan' = orphan \cup {r \in Resource : unmarked /\ r = Res}
    /\ unmarked' = FALSE
    /\ \E written \in SUBSET {b \in Recipe : phase = "execute" /\ busy /\ b = Cur} :
          /\ Swallowed => written # {}
          /\ completed' = completed \cup written
    /\ Goto(CASE phase \in {"init", "setup", "alloc", "teardown"} -> "cleanup_global"
              [] phase = "execute" -> AfterEscape
              [] phase \in {"cleanup_global", "cleanup"} -> "cut")
    /\ UNCHANGED <<command, registered, applied, held, skipped, failed, refused>>

Step ==
    \/ SetupRecipe
    \/ BeginApply
    \/ SetupResource
    \/ MarkApplied
    \/ SetupResourceFails
    \/ EndApply
    \/ BeginRun
    \/ FinishRun
    \/ AbortRun
    \/ BeginRestore
    \/ RestoreResource
    \/ RestoreResourceFails
    \/ EndRestore
    \/ EndRestoreGlobal
    \/ EndLoop

Done == Over /\ UNCHANGED vars

Next == Step \/ InterruptSwallowed \/ Interrupt \/ Done

Spec == Init /\ [][Next]_vars

\* The main thread always has something to do next: it never waits for another.
FairSpec == Spec /\ WF_vars(Step)

-----------------------------------------------------------------------------
\* Every variable keeps its type.
TypeOK ==
    /\ command \in Command
    /\ phase \in Phase
    /\ idx \in 1 .. N + 1
    /\ pos \in Nat
    /\ busy \in BOOLEAN
    /\ unmarked \in BOOLEAN
    /\ registered \subseteq Recipe
    /\ applied \subseteq Resource
    /\ held \subseteq Resource
    /\ skipped \subseteq Recipe
    /\ failed \subseteq Recipe
    /\ completed \subseteq Recipe
    /\ interrupts \in 0 .. MaxInterrupts
    /\ orphan \subseteq Resource
    /\ refused \subseteq Resource
    /\ aborted \in BOOLEAN

ResourcesOf(b) == {Local[b][k] : k \in 1 .. Len(Local[b])}

\* benchmark.run() is called only with every resource of the recipe set up and
\* in place, and with none of its dependencies skipped: neither a failure half
\* way through a list nor another recipe's skipping takes them away.
RunsPrepared ==
    (phase = "execute" /\ busy) =>
        /\ ResourcesOf(Cur) \subseteq held
        /\ DependsOn[Cur] \cap skipped = {}

\* A recipe's resource is torn down only when those set up after it for the
\* same recipe are gone, at the end of the run and in the exit handler alike
\* (_restore_all_local_from_id goes through the list backwards).
RestoredInReverse ==
    [][\A b \in Recipe : \A k \in 1 .. Len(Local[b]) :
          (/\ phase \in {"teardown", "cleanup"}
           /\ busy
           /\ b = Cur
           /\ Local[b][k] \in held \ held')
              => \A l \in k + 1 .. Len(Local[b]) : Local[b][l] \notin held' \ orphan
      ]_vars

\* A run that keeps its course gives every selected recipe exactly one of the
\* outcomes that output() reports.
OutcomeRecorded ==
    (phase \in {"teardown", "cleanup_global", "cleanup", "done", "cut"} /\ ~aborted) =>
        /\ skipped \cup failed \cup completed = Recipe
        /\ skipped \cap (failed \cup completed) = {}
        /\ failed \cap completed = {}

\* When the exit handler gets to its end, nothing is left on the system but
\* what a setup() left that never completed: also after failures, after an
\* interrupted run and after a teardown that raised the first time.  It does not
\* get there when a teardown raises inside it, be it the second one of huge pages
\* that a first loop, cut short, had released.
CleanExit ==
    phase = "done" => held \subseteq orphan

\* The inductive invariant behind these properties.  Shape of the loops:
LoopShape ==
    /\ phase \in {"init", "cleanup_global"} => busy
    /\ phase \in {"setup", "done", "cut"} => ~busy
    /\ (busy /\ phase \notin {"init", "cleanup_global"}) => idx <= N
    /\ (phase \in {"alloc", "execute"} /\ busy) => Cur \notin skipped
    /\ (phase \in {"teardown", "cleanup"} /\ busy) => pos <= Len(Local[Cur])
    /\ (phase \in {"init", "alloc", "cleanup_global"} /\ busy) => pos >= 1
    /\ unmarked => /\ phase \in {"init", "alloc"}
                   /\ Inside
                   /\ Res \in held

\* Recipes that are not skipped have their list registered.
ListsRegistered ==
    phase \in {"setup", "alloc", "execute"} =>
        \A k \in 1 .. N : (/\ phase = "setup" => k < idx
                           /\ Order[k] \notin skipped
                           /\ Len(Local[Order[k]]) > 0) => Order[k] \in registered

\* The exit handler will still come to resource r.
OnGlobalList(r) ==
    /\ phase \notin {"cleanup", "done"}
    /\ \E k \in 1 .. Len(Global) : Global[k] = r /\ (phase = "cleanup_global" => k >= pos)

OnLocalList(r) ==
    /\ phase # "done"
    /\ \E k \in 1 .. N : \E l \in 1 .. Len(Local[Order[k]]) :
          /\ Order[k] \in registered
          /\ Local[Order[k]][l] = r
          /\ phase = "cleanup" => k >= idx
          /\ (phase \in {"teardown", "cleanup"} /\ busy /\ k = idx) => l <= pos

Tracked ==
    phase # "cut" =>
        \A r \in held \ orphan :
            \/ unmarked /\ r = Res
            \/ r \in applied /\ (OnGlobalList(r) \/ OnLocalList(r))

\* Until the teardown nothing that is applied goes away, and the recipes that
\* are through apply_all have everything.
Prepared ==
    phase \in {"init", "setup", "alloc", "execute"} =>
        /\ applied \subseteq held
        /\ \A k \in 1 .. N : \A l \in 1 .. Len(Local[Order[k]]) :
              (/\ Order[k] \notin skipped
               /\ \/ phase = "execute"
                  \/ phase = "alloc" /\ k < idx
                  \/ phase = "alloc" /\ k = idx /\ busy /\ l < pos)
                     => Local[Order[k]][l] \in applied

\* What a restoring loop has passed is gone.
PassedGone ==
    (phase \in {"teardown", "cleanup"} /\ busy) =>
        \A l \in 1 .. Len(Local[Cur]) : l > pos => Local[Cur][l] \notin held \ orphan

SkippedClosed == \A b \in skipped : Dependents(b) \subseteq skipped

\* Outcomes of the recipes the execution loop has passed.
OutcomesSoFar ==
    /\ phase \in {"init", "setup", "alloc"} => failed = {} /\ completed = {}
    /\ (phase = "execute" /\ ~aborted) =>
          /\ failed \cap completed = {}
          /\ \A k \in 1 .. N : Order[k] \in failed \cup completed
                                   <=> k < idx /\ Order[k] \notin skipped

IInv ==
    /\ TypeOK
    /\ LoopShape
    /\ ListsRegistered
    /\ Tracked
    /\ Prepared
    /\ PassedGone
    /\ SkippedClosed
    /\ OutcomesSoFar
    /\ OutcomeRecorded

\* The program comes to its end whatever fails.
Terminates == <>Over
=============================================================================
