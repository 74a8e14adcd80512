--------------------------- MODULE ProcessControl ---------------------------
(***************************************************************************)
(* Child processes of a benchmark step and Ctrl+C: AsyncRunner and         *)
(* SyncRunner (core/benchrunner.py), ProcessWatcher and its SIGINT handler *)
(* (core/asct_env.py), used the way the loaded memory, storage and iperf3  *)
(* recipes use them: servers are started while resources are set up, then  *)
(* the background loads, then one measured command in the foreground, then *)
(* the loads are stopped and at last the servers.                          *)
(*                                                                         *)
(* The main thread and one thread per background runner share the runner's *)
(* lock and the watcher's lock; the handler runs inside the main thread,   *)
(* for which the watcher's lock is re-entrant.  A runner's thread starts a *)
(* new child only when the last one has ended, so a runner stands for its  *)
(* current child.                                                          *)
(***************************************************************************)
EXTENDS Integers, FiniteSets

CONSTANTS NServer,   \* runners 1 .. NServer are iperf3 servers (resources)
          NLoad,     \* runners NServer + 1 .. NLoad are background loads
          UseInt,    \* runners that stop() ends with SIGINT, the others are killed
          Stubborn   \* runners whose child ignores SIGINT

Async == 1 .. NLoad
Server == 1 .. NServer
Sync == 0
Runner == Async \cup {Sync}

ASSUME ProcessAssumption ==
    /\ NServer \in Nat
    /\ NLoad \in Nat
    /\ NServer <= NLoad
    /\ Server \subseteq UseInt
    /\ UseInt \subseteq Async
    /\ Stubborn \subseteq Runner \ UseInt

Live == {"running", "interrupted", "killed"}
Ended == {"none", "ok", "bad"}

VARIABLES mpc,            \* where the main thread is
          cursor,         \* the runner it deals with
          outcome,        \* "ok", "failed" or "interrupted": how the step goes
          owned,          \* servers whose setup() completed
          tracker,        \* the progress tracker is initialized
          pc,             \* AsyncRunner._run, per runner
          rlock,          \* AsyncRunner._lock: "free", "main" or "thread"
          wlock,          \* ProcessWatcher._lock: "free", "main" or "thread"
          stopEvent,      \* AsyncRunner._stop_requested
          current,        \* Runner._current_proc is set
          retcode,        \* Runner._retcode: "none", "ok" or "bad"
          child,          \* the child process, for the kernel
          registered,     \* ProcessWatcher._processes
          stopRequested,  \* ProcessWatcher._stop_requested
          faulty          \* history: runners whose command failed by itself

mainVars == <<mpc, cursor, outcome, owned, tracker>>
runnerVars == <<pc, rlock, stopEvent, current, retcode>>
vars == <<mainVars, runnerVars, wlock, child, registered, stopRequested, faulty>>

InHandler == mpc \in {"h_lock", "h_signal", "h_wait"}
Over == mpc = "over"

Init ==
    /\ mpc = "start"
    /\ cursor = 1
    /\ outcome = "ok"
    /\ owned = {}
    /\ tracker = FALSE
    /\ pc = [r \in Async |-> "none"]
    /\ rlock = [r \in Async |-> "free"]
    /\ wlock = "free"
    /\ stopEvent = [r \in Async |-> FALSE]
    /\ current = [r \in Async |-> FALSE]
    /\ retcode = [r \in Async |-> "none"]
    /\ child = [r \in Runner |-> "none"]
    /\ registered = {}
    /\ stopRequested = FALSE
    /\ faulty = {}

\* The step is left by an exception: only the servers will be stopped.
Escape(o) == /\ outcome' = o
             /\ mpc' = "stop"
             /\ cursor' = 1

-----------------------------------------------------------------------------
\* The main thread.

\* execute_benchmarks initializes the tracker once the resources are there.
TrackerInit ==
    /\ mpc = "start"
    /\ cursor = NServer + 1
    /\ ~tracker
    /\ tracker' = TRUE
    /\ UNCHANGED <<mpc, cursor, outcome, owned, runnerVars, wlock, child, registered, stopRequested, faulty>>

\* AsyncRunner.start.
Start ==
    /\ mpc = "start"
    /\ cursor \in Async
    /\ cursor \in Server <=> ~tracker
    /\ stopEvent' = [stopEvent EXCEPT ![cursor] = FALSE]
    /\ pc' = [pc EXCEPT ![cursor] = "loop"]
    /\ mpc' = "ramp"
    /\ UNCHANGED <<cursor, outcome, owned, tracker, rlock, current, retcode, wlock, child, registered,
                   stopRequested, faulty>>

\* AsyncRunner.run returns after a second; Iperf3Server.setup looks at the
\* retcode then.
Ramped ==
    /\ mpc = "ramp"
    /\ IF cursor \in Server /\ retcode[cursor] = "bad"
       THEN Escape("failed") /\ UNCHANGED owned
       ELSE /\ owned' = owned \cup ({cursor} \cap Server)
            /\ cursor' = cursor + 1
            /\ mpc' = "start"
            /\ UNCHANGED outcome
    /\ UNCHANGED <<tracker, runnerVars, wlock, child, registered, stopRequested, faulty>>

\* SyncRunner.run: execute_command under the watcher's lock.
SyncEnter ==
    /\ mpc = "start"
    /\ cursor > NLoad
    /\ tracker
    /\ wlock = "free"
    /\ wlock' = "main"
    /\ mpc' = "popen"
    /\ UNCHANGED <<cursor, outcome, owned, tracker, runnerVars, child, registered, stopRequested, faulty>>

SyncPopen ==
    /\ mpc = "popen"
    /\ \/ /\ child' = [child EXCEPT ![Sync] = "running"]
          /\ mpc' = "register"
          /\ UNCHANGED <<wlock, cursor, outcome, faulty>>
       \/ /\ wlock' = "free"
          /\ faulty' = faulty \cup {Sync}
          /\ Escape("failed")
          /\ UNCHANGED child
    /\ UNCHANGED <<owned, tracker, runnerVars, registered, stopRequested>>

SyncRegister ==
    /\ mpc = "register"
    /\ registered' = registered \cup {Sync}
    /\ wlock' = "free"
    /\ mpc' = "communicate"
    /\ UNCHANGED <<cursor, outcome, owned, tracker, runnerVars, child, stopRequested, faulty>>

\* communicate() has returned; the `finally` unregisters the child.
SyncCollect ==
    /\ mpc = "communicate"
    /\ child[Sync] \in Ended
    /\ wlock = "free"
    /\ registered' = registered \ {Sync}
    /\ IF child[Sync] = "ok"
       THEN /\ mpc' = "stop"
            /\ cursor' = NServer + 1
            /\ UNCHANGED outcome
       ELSE Escape("failed")
    /\ UNCHANGED <<owned, tracker, runnerVars, wlock, child, stopRequested, faulty>>

\* Runners nobody stops: loads of a step that was left, servers that were not
\* set up; and those that were never started or are stopped already.
ToStop(r) == pc[r] # "none" /\ (IF r \in Server THEN r \in owned ELSE outcome = "ok")

\* The loads first; the servers are resources and come when the step is over.
NothingToStop ==
    /\ mpc = "stop"
    /\ \/ cursor \in Async /\ ~ToStop(cursor) /\ cursor' = cursor + 1 /\ UNCHANGED mpc
       \/ cursor > NLoad /\ (\E r \in Server : ToStop(r)) /\ cursor' = 1 /\ UNCHANGED mpc
       \/ cursor > NLoad /\ (\A r \in Server : ~ToStop(r)) /\ mpc' = "over" /\ UNCHANGED cursor
    /\ UNCHANGED <<outcome, owned, tracker, runnerVars, wlock, child, registered, stopRequested, faulty>>

Signalled(r) ==
    IF ~current[r] \/ child[r] \in Ended THEN child
    ELSE [child EXCEPT ![r] = IF r \in UseInt /\ @ = "running" THEN "interrupted"
                              ELSE IF r \in UseInt THEN @ ELSE "killed"]

\* AsyncRunner.stop: first the event, then the signal, both under the lock.
Stop ==
    /\ mpc = "stop"
    /\ cursor \in Async
    /\ ToStop(cursor)
    /\ rlock[cursor] = "free"
    /\ rlock' = [rlock EXCEPT ![cursor] = "main"]
    /\ stopEvent' = [stopEvent EXCEPT ![cursor] = TRUE]
    /\ mpc' = "signal"
    /\ UNCHANGED <<cursor, outcome, owned, tracker, pc, current, retcode, wlock, child, registered,
                   stopRequested, faulty>>

StopSignal ==
    /\ mpc = "signal"
    /\ child' = Signalled(cursor)
    /\ rlock' = [rlock EXCEPT ![cursor] = "free"]
    /\ mpc' = "join"
    /\ UNCHANGED <<cursor, outcome, owned, tracker, pc, stopEvent, current, retcode, wlock, registered,
                   stopRequested, faulty>>

\* The recipe takes a load that did not end well for a failed step.
StopJoin ==
    /\ mpc = "join"
    /\ pc[cursor] = "ended"
    /\ pc' = [pc EXCEPT ![cursor] = "none"]
    /\ IF cursor \notin Server /\ retcode[cursor] # "ok"
       THEN Escape("failed")
       ELSE /\ mpc' = "stop"
            /\ cursor' = cursor + 1
            /\ UNCHANGED outcome
    /\ UNCHANGED <<owned, tracker, rlock, stopEvent, current, retcode, wlock, child, registered,
                   stopRequested, faulty>>

-----------------------------------------------------------------------------
\* AsyncRunner._run, in the thread of runner r.

Loop(r) ==
    /\ pc[r] = "loop"
    /\ pc' = [pc EXCEPT ![r] = IF stopEvent[r] THEN "final" ELSE "lock"]
    /\ UNCHANGED <<mainVars, rlock, stopEvent, current, retcode, wlock, child, registered,
                   stopRequested, faulty>>

\* Fault: the event is not looked at again under the lock.
LockUnchecked(r) ==
    /\ pc[r] = "lock"
    /\ rlock[r] = "free"
    /\ rlock' = [rlock EXCEPT ![r] = "thread"]
    /\ pc' = [pc EXCEPT ![r] = "enter"]
    /\ UNCHANGED <<mainVars, stopEvent, current, retcode, wlock, child, registered, stopRequested, faulty>>

Lock(r) ==
    /\ pc[r] = "lock"
    /\ rlock[r] = "free"
    /\ IF stopEvent[r]
       THEN /\ pc' = [pc EXCEPT ![r] = "final"]
            /\ UNCHANGED rlock
       ELSE /\ rlock' = [rlock EXCEPT ![r] = "thread"]
            /\ pc' = [pc EXCEPT ![r] = "enter"]
    /\ UNCHANGED <<mainVars, stopEvent, current, retcode, wlock, child, registered, stopRequested, faulty>>

\* Fault: a thread that enters does not look for a stop request.
EnterUnchecked(r) ==
    /\ pc[r] = "enter"
    /\ wlock = "free"
    /\ wlock' = "thread"
    /\ pc' = [pc EXCEPT ![r] = "popen"]
    /\ UNCHANGED <<mainVars, rlock, stopEvent, current, retcode, child, registered, stopRequested, faulty>>

\* ProcessWatcher.__enter__: after Ctrl+C it raises SystemExit, which ends the
\* thread without the final section.
Enter(r) ==
    /\ pc[r] = "enter"
    /\ wlock = "free"
    /\ IF stopRequested
       THEN /\ pc' = [pc EXCEPT ![r] = "ended"]
            /\ rlock' = [rlock EXCEPT ![r] = "free"]
            /\ UNCHANGED wlock
       ELSE /\ wlock' = "thread"
            /\ pc' = [pc EXCEPT ![r] = "popen"]
            /\ UNCHANGED rlock
    /\ UNCHANGED <<mainVars, stopEvent, current, retcode, child, registered, stopRequested, faulty>>

Popen(r) ==
    /\ pc[r] = "popen"
    /\ \/ /\ child' = [child EXCEPT ![r] = "running"]
          /\ current' = [current EXCEPT ![r] = TRUE]
          /\ pc' = [pc EXCEPT ![r] = "register"]
          /\ UNCHANGED <<rlock, wlock, retcode, faulty>>
       \/ /\ retcode' = [retcode EXCEPT ![r] = "bad"]
          /\ faulty' = faulty \cup {r}
          /\ rlock' = [rlock EXCEPT ![r] = "free"]
          /\ wlock' = "free"
          /\ pc' = [pc EXCEPT ![r] = "final"]
          /\ UNCHANGED <<child, current>>
    /\ UNCHANGED <<mainVars, stopEvent, registered, stopRequested>>

\* Fault: the child is not registered.
RegisterNothing(r) ==
    /\ pc[r] = "register"
    /\ wlock' = "free"
    /\ rlock' = [rlock EXCEPT ![r] = "free"]
    /\ pc' = [pc EXCEPT ![r] = "communicate"]
    /\ UNCHANGED <<mainVars, stopEvent, current, retcode, child, registered, stopRequested, faulty>>

Register(r) ==
    /\ pc[r] = "register"
    /\ registered' = registered \cup {r}
    /\ wlock' = "free"
    /\ rlock' = [rlock EXCEPT ![r] = "free"]
    /\ pc' = [pc EXCEPT ![r] = "communicate"]
    /\ UNCHANGED <<mainVars, stopEvent, current, retcode, child, stopRequested, faulty>>

\* Fault: the retcode of a child that was asked to stop counts.
CollectAnyway(r) ==
    /\ pc[r] = "communicate"
    /\ child[r] \in Ended
    /\ retcode' = [retcode EXCEPT ![r] = child[r]]
    /\ pc' = [pc EXCEPT ![r] = IF child[r] = "ok" THEN "loop" ELSE "final"]
    /\ UNCHANGED <<mainVars, rlock, stopEvent, current, wlock, child, registered, stopRequested, faulty>>

\* communicate() has returned: a retcode counts only if nobody asked to stop.
Collect(r) ==
    /\ pc[r] = "communicate"
    /\ child[r] \in Ended
    /\ LET rc == IF stopEvent[r] THEN "ok" ELSE child[r]
       IN  /\ retcode' = [retcode EXCEPT ![r] = rc]
           /\ pc' = [pc EXCEPT ![r] = IF rc = "ok" THEN "loop" ELSE "final"]
    /\ UNCHANGED <<mainVars, rlock, stopEvent, current, wlock, child, registered, stopRequested, faulty>>

Final(r) ==
    /\ pc[r] = "final"
    /\ rlock[r] = "free"
    /\ rlock' = [rlock EXCEPT ![r] = "thread"]
    /\ pc' = [pc EXCEPT ![r] = "unregister"]
    /\ UNCHANGED <<mainVars, stopEvent, current, retcode, wlock, child, registered, stopRequested, faulty>>

Unregister(r) ==
    /\ pc[r] = "unregister"
    /\ wlock = "free"
    /\ registered' = registered \ {r}
    /\ current' = [current EXCEPT ![r] = FALSE]
    /\ rlock' = [rlock EXCEPT ![r] = "free"]
    /\ pc' = [pc EXCEPT ![r] = "ended"]
    /\ UNCHANGED <<mainVars, stopEvent, retcode, wlock, child, stopRequested, faulty>>

Thread(r) ==
    /\ ~Over
    /\ \/ Loop(r)
       \/ Lock(r)
       \/ Enter(r)
       \/ Popen(r)
       \/ Register(r)
       \/ Collect(r)
       \/ Final(r)
       \/ Unregister(r)

-----------------------------------------------------------------------------
\* The kernel: a child ends by itself, or because of a signal.

ChildExits(r) ==
    /\ ~Over
    /\ child[r] = "running" \/ (child[r] = "interrupted" /\ r \in Stubborn)
    /\ \E end \in {"ok", "bad"} :
          /\ child' = [child EXCEPT ![r] = end]
          /\ faulty' = faulty \cup {x \in {r} : end = "bad"}
    /\ UNCHANGED <<mainVars, runnerVars, wlock, registered, stopRequested>>

ChildDies(r) ==
    /\ ~Over
    /\ \/ child[r] = "killed" /\ child' = [child EXCEPT ![r] = "bad"]
       \/ /\ child[r] = "interrupted"
          /\ r \notin Stubborn
          /\ child' \in {[child EXCEPT ![r] = end] : end \in {"ok", "bad"}}
    /\ UNCHANGED <<mainVars, runnerVars, wlock, registered, stopRequested, faulty>>

-----------------------------------------------------------------------------
\* SIGINT: _handle_sigint runs in the main thread, wherever that is.

Interrupt ==
    /\ ~stopRequested
    /\ ~InHandler
    /\ ~Over
    /\ mpc' = "h_lock"
    /\ UNCHANGED <<cursor, outcome, owned, tracker, runnerVars, wlock, child, registered,
                   stopRequested, faulty>>

\* The exception leaves the `with` blocks the main thread was in.
Unwind == /\ wlock' = "free"
          /\ rlock' = [r \in Async |-> IF rlock[r] = "main" THEN "free" ELSE rlock[r]]
          /\ Escape("interrupted")

\* Before the tracker is initialized its terminate() raises TypeError, and the
\* handler does not get to the processes.
HandlerLock ==
    /\ mpc = "h_lock"
    /\ wlock \in {"free", "main"}
    /\ stopRequested' = TRUE
    /\ IF tracker
       THEN /\ wlock' = "main"
            /\ mpc' = "h_signal"
            /\ UNCHANGED <<cursor, outcome, rlock>>
       ELSE Unwind
    /\ UNCHANGED <<owned, tracker, pc, stopEvent, current, retcode, child, registered, faulty>>

HandlerSignal ==
    /\ mpc = "h_signal"
    /\ child' = [r \in Runner |-> IF r \in registered /\ child[r] = "running"
                                  THEN "interrupted" ELSE child[r]]
    /\ mpc' = "h_wait"
    /\ UNCHANGED <<cursor, outcome, owned, tracker, runnerVars, wlock, registered, stopRequested, faulty>>

\* Every registered child has ended, or the deadline has passed and it is killed.
HandlerWait ==
    /\ mpc = "h_wait"
    /\ child' = [r \in Runner |-> IF r \in registered /\ child[r] \in Live
                                  THEN "killed" ELSE child[r]]
    /\ registered' = {}
    /\ Unwind
    /\ UNCHANGED <<owned, tracker, pc, stopEvent, current, retcode, stopRequested, faulty>>

-----------------------------------------------------------------------------
Main ==
    \/ TrackerInit
    \/ Start
    \/ Ramped
    \/ SyncEnter
    \/ SyncPopen
    \/ SyncRegister
    \/ SyncCollect
    \/ NothingToStop
    \/ Stop
    \/ StopSignal
    \/ StopJoin
    \/ HandlerLock
    \/ HandlerSignal
    \/ HandlerWait

Done == Over /\ UNCHANGED vars

Next ==
    \/ Main
    \/ \E r \in Async : Thread(r)
    \/ \E r \in Runner : ChildExits(r) \/ ChildDies(r)
    \/ Interrupt
    \/ Done

Spec == Init /\ [][Next]_vars

\* Both locks are given to a waiting thread in the end: their owners give them
\* up and wait for a child before they ask again.  A measured command ends by
\* itself, a background load need not; a signal reaches its process.
FairSpec ==
    /\ Spec
    /\ SF_vars(Main)
    /\ \A r \in Async : SF_vars(Thread(r))
    /\ WF_vars(ChildExits(Sync))
    /\ \A r \in Runner : WF_vars(ChildDies(r))

-----------------------------------------------------------------------------
\* Every variable keeps its type.
TypeOK ==
    /\ mpc \in {"start", "ramp", "popen", "register", "communicate", "stop", "signal", "join",
               "h_lock", "h_signal", "h_wait", "over"}
    /\ cursor \in 1 .. NLoad + 1
    /\ outcome \in {"ok", "failed", "interrupted"}
    /\ owned \subseteq Server
    /\ tracker \in BOOLEAN
    /\ pc \in [Async -> {"none", "loop", "lock", "enter", "popen", "register", "communicate",
                         "final", "unregister", "ended"}]
    /\ rlock \in [Async -> {"free", "main", "thread"}]
    /\ wlock \in {"free", "main", "thread"}
    /\ stopEvent \in [Async -> BOOLEAN]
    /\ current \in [Async -> BOOLEAN]
    /\ retcode \in [Async -> {"none", "ok", "bad"}]
    /\ child \in [Runner -> Live \cup Ended]
    /\ registered \subseteq Runner
    /\ stopRequested \in BOOLEAN
    /\ faulty \subseteq Runner

\* A load's retcode is bad only when its command failed by itself or Ctrl+C
\* ended it: a recipe never fails because of the signal its own stop() sent,
\* whichever of stop() and _run comes first.
FailureIsReal ==
    \A r \in Async : retcode[r] = "bad" => r \in faulty \/ stopRequested

\* After Ctrl+C no thread starts another child, also one that was on its way
\* into execute_command (ProcessWatcher.__enter__ under the lock).
NoSpawnAfterStop ==
    [][stopRequested => \A r \in Runner : child'[r] = "running" => child[r] = "running"]_vars

\* When an interrupted run is over, every background child that is still
\* alive has been told to stop; only a server that was still being set up is
\* nobody's (its teardown is not registered yet).
InterruptedLoadsStopped ==
    (Over /\ outcome = "interrupted") =>
        \A r \in Async : child[r] = "running" => r \in Server \ owned

\* The program ends: stop() returns also when it comes between two children of
\* a load, and nobody waits for the two locks in a circle.
Ends == <>Over

\* The inductive invariant behind them.  The watcher's lock excludes the two
\* windows in which a child exists and is not registered:
WatcherLock ==
    /\ \A r \in Async : pc[r] \in {"popen", "register"} => wlock = "thread"
    /\ \A r, s \in Async : (/\ pc[r] \in {"popen", "register"}
                            /\ pc[s] \in {"popen", "register"}) => r = s
    /\ mpc \in {"popen", "register", "h_signal", "h_wait"} => wlock = "main"

\* so that after a stop request nobody is in one of them,
AfterStop ==
    /\ stopRequested => /\ mpc \in {"h_signal", "h_wait", "stop", "signal", "join", "over"}
                        /\ \A r \in Async : pc[r] \notin {"popen", "register"}
    /\ mpc \in {"h_signal", "h_wait"} => stopRequested /\ tracker
    /\ outcome = "interrupted" => stopRequested

\* and the handler finds every live child among the registered ones.
ChildKnown ==
    \A r \in Async :
        /\ child[r] \in Live => pc[r] \in {"register", "communicate"}
        /\ (pc[r] = "communicate" /\ (~stopRequested \/ mpc = "h_signal")) => r \in registered

\* Where the main thread is, and what it has not come to yet.
MainAt ==
    /\ mpc \in {"ramp", "signal", "join"} => cursor \in Async
    /\ mpc = "signal" => stopEvent[cursor]
    /\ \A r \in Async : (mpc = "start" /\ r >= cursor) \/ (mpc = "ramp" /\ r > cursor)
                            => pc[r] = "none" /\ child[r] = "none"
    /\ ~tracker => \A r \in Async \ Server : pc[r] = "none"
    /\ Over => \A r \in owned : pc[r] = "none"

\* What has been told to stop, and why a child ended badly.
Told ==
    /\ (stopRequested /\ mpc # "h_signal") =>
          \A r \in Async : child[r] = "running" => r \in Server /\ ~tracker
    /\ \A r \in Async : child[r] \in {"interrupted", "killed"} => stopEvent[r] \/ stopRequested
    /\ \A r \in Async : child[r] = "bad" => r \in faulty \/ stopEvent[r] \/ stopRequested

IInv ==
    /\ TypeOK
    /\ WatcherLock
    /\ AfterStop
    /\ ChildKnown
    /\ MainAt
    /\ Told
    /\ FailureIsReal
=============================================================================
