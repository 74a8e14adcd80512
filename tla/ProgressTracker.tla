-------------------------- MODULE ProgressTracker --------------------------
(***************************************************************************)
(* The animated progress bar: the main thread and the update thread of     *)
(* ASCTProgressTrackerAsync (lib/term_ui/progress_bar.py), the terminal    *)
(* they share (TermManager, lib/term_ui/term_manager.py) and the two       *)
(* signals whose handlers use both, SIGINT (core/asct_env.py) and          *)
(* SIGWINCH.                                                               *)
(*                                                                         *)
(* Three locks are not re-entrant: the update mutex, the mutex inside      *)
(* queue.Queue and the lock of TermManager.  The update thread never waits *)
(* while it holds one, so its use of a lock is one step; the main thread   *)
(* can be stopped by a signal inside each of them, so its use has a state  *)
(* of its own ("notify", "put", "write").                                  *)
(***************************************************************************)
EXTENDS Integers, Sequences

CONSTANTS Script,      \* what the main thread does, a sequence of Op
          Finally,     \* first position of the `finally` of execute_benchmarks
          AnimSteps,   \* bound: updates an animated text takes until it is idle
          SignalAt,    \* states of the main thread in which signals arrive
          MayInterrupt,\* Ctrl+C is pressed
          MaxResizes   \* bound: how often the window changes its size

\* "status" announces a recipe, "step" one of its steps.
Op == {"status", "step", "idle", "log", "quit"}

\* terminate() is in the `finally`.
ASSUME TrackerAssumption ==
    /\ Script \in Seq(Op)
    /\ Finally \in 1 .. Len(Script)
    /\ \E k \in Finally .. Len(Script) : Script[k] = "quit"
    /\ AnimSteps \in Nat \ {0}
    /\ MaxResizes \in Nat
    /\ MayInterrupt \in BOOLEAN

VARIABLES ip,          \* position in Script
          barpc,       \* where the main thread is in this operation
          hpc,         \* where it is in a signal handler, "none" outside
          upc,         \* the update thread
          queue,       \* _update_queue
          anim,        \* updates until every component is idle
          terminated,  \* _terminated
          interrupted, \* Ctrl+C was pressed
          resizes

barVars == <<ip, barpc, hpc, upc, queue, anim, terminated, interrupted, resizes>>

BarInit ==
    /\ ip = 1
    /\ barpc = "op"
    /\ hpc = "none"
    /\ upc = "get"
    /\ queue = <<>>
    /\ anim = 0
    /\ terminated = FALSE
    /\ interrupted = FALSE
    /\ resizes = 0

BarOver == ip > Len(Script) /\ hpc = "none"

\* Nobody is in the critical section.
MutexFree == barpc # "notify"
QueueFree == barpc # "put"
TermFree == barpc # "write"

MainRuns(op) == /\ hpc = "none"
                /\ ip <= Len(Script)
                /\ Script[ip] = op

NextOp == /\ ip' = ip + 1
          /\ barpc' = "op"

-----------------------------------------------------------------------------
\* The main thread.

\* on_status_text_updated of the components of this depth: the animated text,
\* which shows the recipe, starts again where the new text differs.
Notify ==
    IF Script[ip] = "status" THEN anim' \in 1 .. AnimSteps ELSE UNCHANGED anim

\* _on_status_updated: notify the components under the mutex, then queue UPDATE.
Status ==
    /\ MainRuns("status") \/ MainRuns("step")
    /\ \/ /\ barpc = "op"
          /\ barpc' = "notify"
          /\ UNCHANGED <<ip, queue, anim>>
       \/ /\ barpc = "notify"
          /\ Notify
          /\ barpc' = "queue"
          /\ UNCHANGED <<ip, queue>>
       \/ /\ barpc = "queue"
          /\ barpc' = "put"
          /\ UNCHANGED <<ip, queue, anim>>
       \/ /\ barpc = "put"
          /\ queue' = Append(queue, "UPDATE")
          /\ NextOp
          /\ UNCHANGED anim
    /\ UNCHANGED <<hpc, upc, terminated, interrupted, resizes>>

\* Fault: the wait does not end with the tracker.
StillWaiting == anim > 0

\* _wait_until, polled by wait_until_idle.
Waiting == ~terminated /\ anim > 0

WaitUntilIdle ==
    /\ MainRuns("idle")
    /\ \/ Waiting /\ UNCHANGED <<ip, barpc>>
       \/ ~Waiting /\ NextOp
    /\ UNCHANGED <<hpc, upc, queue, anim, terminated, interrupted, resizes>>

\* A log message goes to the terminal through TermManager.write.
Log ==
    /\ MainRuns("log")
    /\ \/ barpc = "op" /\ barpc' = "write" /\ UNCHANGED ip
       \/ barpc = "write" /\ NextOp
    /\ UNCHANGED <<hpc, upc, queue, anim, terminated, interrupted, resizes>>

\* Fault: terminate() does not wait for the thread.
UpdaterTold == terminated

\* _update_thread.join() returns.
UpdaterEnded == upc = "ended"

Terminate ==
    /\ MainRuns("quit")
    /\ \/ /\ barpc = "op"
          /\ terminated' = TRUE
          /\ barpc' = "put"
          /\ UNCHANGED <<ip, queue>>
       \/ /\ barpc = "put"
          /\ queue' = Append(queue, "QUIT")
          /\ barpc' = "join"
          /\ UNCHANGED <<ip, terminated>>
       \/ /\ barpc = "join"
          /\ UpdaterEnded
          /\ NextOp
          /\ UNCHANGED <<queue, terminated>>
    /\ UNCHANGED <<hpc, upc, anim, interrupted, resizes>>

-----------------------------------------------------------------------------
\* component_update, the update thread.  get() returns an event, or nothing
\* when the queue stays empty for the update period.
Get ==
    /\ upc = "get"
    /\ QueueFree
    /\ IF queue = <<>>
       THEN upc' = "update" /\ UNCHANGED queue
       ELSE /\ queue' = Tail(queue)
            /\ upc' = IF Head(queue) = "QUIT" THEN "ended" ELSE "update"
    /\ UNCHANGED <<ip, barpc, hpc, anim, terminated, interrupted, resizes>>

AnimationNext == IF anim > 0 THEN anim - 1 ELSE 0

Update ==
    /\ upc = "update"
    /\ MutexFree
    /\ anim' = AnimationNext
    /\ upc' = "write"
    /\ UNCHANGED <<ip, barpc, hpc, queue, terminated, interrupted, resizes>>

Write ==
    /\ upc = "write"
    /\ TermFree
    /\ upc' = "get"
    /\ UNCHANGED <<ip, barpc, hpc, queue, anim, terminated, interrupted, resizes>>

-----------------------------------------------------------------------------
\* Signal handlers, run by the main thread wherever it is.
Deliverable == hpc = "none" /\ ip <= Len(Script) /\ barpc \in SignalAt

SigInt ==
    /\ Deliverable
    /\ MayInterrupt
    /\ ~interrupted
    /\ interrupted' = TRUE
    /\ hpc' = "int_log"
    /\ UNCHANGED <<ip, barpc, upc, queue, anim, terminated, resizes>>

\* _handle_sigint: a log message, then terminate().
SigIntLog ==
    /\ hpc = "int_log"
    /\ TermFree
    /\ terminated' = TRUE
    /\ hpc' = "int_put"
    /\ UNCHANGED <<ip, barpc, upc, queue, anim, interrupted, resizes>>

SigIntPut ==
    /\ hpc = "int_put"
    /\ QueueFree
    /\ queue' = Append(queue, "QUIT")
    /\ hpc' = "int_join"
    /\ UNCHANGED <<ip, barpc, upc, anim, terminated, interrupted, resizes>>

\* SystemExit: on to the next `finally`, out of every critical section.
SigIntJoin ==
    /\ hpc = "int_join"
    /\ UpdaterEnded
    /\ hpc' = "none"
    /\ ip' = IF ip < Finally THEN Finally ELSE Len(Script) + 1
    /\ barpc' = "op"
    /\ UNCHANGED <<upc, queue, anim, terminated, interrupted, resizes>>

SigWinch ==
    /\ Deliverable
    /\ resizes < MaxResizes
    /\ resizes' = resizes + 1
    /\ hpc' = "win_lock"
    /\ UNCHANGED <<ip, barpc, upc, queue, anim, terminated, interrupted>>

\* on_term_resize draws the reused line again.
Resize ==
    /\ hpc = "win_lock"
    /\ TermFree
    /\ hpc' = "none"
    /\ UNCHANGED <<ip, barpc, upc, queue, anim, terminated, interrupted, resizes>>

-----------------------------------------------------------------------------
BarMain == Status \/ WaitUntilIdle \/ Log \/ Terminate \/ SigIntLog \/ SigIntPut \/ SigIntJoin \/ Resize
Updater == ~BarOver /\ (Get \/ Update \/ Write)
BarDone == BarOver /\ UNCHANGED barVars

BarNext == BarMain \/ Updater \/ SigInt \/ SigWinch \/ BarDone

BarSpec == BarInit /\ [][BarNext]_barVars

\* Both threads are scheduled.
BarFairSpec == BarSpec /\ WF_barVars(BarMain) /\ WF_barVars(Updater)

-----------------------------------------------------------------------------
\* Every variable keeps its type.
BarTypeOK ==
    /\ ip \in 1 .. Len(Script) + 1
    /\ barpc \in {"op", "notify", "queue", "put", "write", "join"}
    /\ hpc \in {"none", "int_log", "int_put", "int_join", "win_lock"}
    /\ upc \in {"get", "update", "write", "ended"}
    /\ queue \in Seq({"UPDATE", "QUIT"})
    /\ anim \in 0 .. AnimSteps
    /\ terminated \in BOOLEAN
    /\ interrupted \in BOOLEAN
    /\ resizes \in 0 .. MaxResizes

\* When execute_benchmarks is left, also by Ctrl+C at any point of it, the
\* update thread has ended: the results are printed to a terminal nobody else
\* writes to.
QuietAtEnd == BarOver => upc = "ended"

\* What makes it inductive: whoever gets past a terminate() has joined.
QuitPassed == (\E k \in 1 .. ip - 1 : Script[k] = "quit") => upc = "ended"

BarIInv == BarTypeOK /\ QuitPassed

\* The main thread comes to its end: no wait for the animation outlives the
\* tracker, and the thread it joins always gets the QUIT.
BarEnds == <>BarOver

\* asct_env.py, _handle_sigint: "Ctrl+C received, stopping current run".
InterruptEnds == interrupted ~> BarOver
=============================================================================
