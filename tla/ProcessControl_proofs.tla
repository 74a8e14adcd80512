----------------------- MODULE ProcessControl_proofs -----------------------
(***************************************************************************)
(* Proofs about ProcessControl, for any number of servers and loads: IInv  *)
(* is inductive.  One lemma per action, one step per conjunct of IInv.     *)
(* At the end, the same for the other thread beside the main thread: the   *)
(* one that draws the progress bar (ProgressTracker).                      *)
(***************************************************************************)
EXTENDS ProcessControl, ProgressTracker, TLAPS

\* The constants, in the form the steps below use them.
LEMMA ConstFacts ==
    /\ NServer \in Nat
    /\ NLoad \in Nat
    /\ NServer <= NLoad
    /\ Server \subseteq Async
    /\ Sync \notin Async
    /\ Async \subseteq 1 .. NLoad
    /\ \A r \in Async : r \in Int /\ r >= 1 /\ r <= NLoad
  BY ProcessAssumption DEF Async, Server, Sync

LEMMA TrackerInitKeeps ==
    ASSUME IInv, TrackerInit PROVE IInv'
<1> USE ConstFacts DEF IInv, Live, Ended, Over, Runner, mainVars, runnerVars
<1>1. TypeOK'
  BY DEF TrackerInit, TypeOK, MainAt
<1>2. WatcherLock'
  BY DEF TrackerInit, TypeOK, WatcherLock, AfterStop
<1>3. AfterStop'
  BY DEF TrackerInit, TypeOK, AfterStop, WatcherLock
<1>4. ChildKnown'
  BY DEF TrackerInit, TypeOK, ChildKnown, WatcherLock, AfterStop, MainAt
<1>5. MainAt'
  BY DEF TrackerInit, TypeOK, MainAt, ChildKnown, AfterStop
<1>6. Told'
  BY DEF TrackerInit, TypeOK, Told, ChildKnown, AfterStop, MainAt, WatcherLock
<1>7. FailureIsReal'
  BY DEF TrackerInit, TypeOK, FailureIsReal, Told, ChildKnown
<1> QED
  BY <1>1, <1>2, <1>3, <1>4, <1>5, <1>6, <1>7

LEMMA StartKeeps ==
    ASSUME IInv, Start PROVE IInv'
<1> USE ConstFacts DEF IInv, Live, Ended, Over, Runner, mainVars, runnerVars
<1>1. TypeOK'
  BY DEF Start, TypeOK, MainAt
<1>2. WatcherLock'
  BY DEF Start, TypeOK, WatcherLock, AfterStop
<1>3. AfterStop'
  BY DEF Start, TypeOK, AfterStop, WatcherLock
<1>4. ChildKnown'
  BY DEF Start, TypeOK, ChildKnown, WatcherLock, AfterStop, MainAt
<1>5. MainAt'
  BY DEF Start, TypeOK, MainAt, ChildKnown, AfterStop
<1>6. Told'
  BY DEF Start, TypeOK, Told, ChildKnown, AfterStop, MainAt, WatcherLock
<1>7. FailureIsReal'
  BY DEF Start, TypeOK, FailureIsReal, Told, ChildKnown
<1> QED
  BY <1>1, <1>2, <1>3, <1>4, <1>5, <1>6, <1>7

LEMMA RampedKeeps ==
    ASSUME IInv, Ramped PROVE IInv'
<1> USE ConstFacts DEF IInv, Live, Ended, Over, Runner, mainVars, runnerVars
<1>1. TypeOK'
  <2>1. CASE cursor \in Server /\ retcode[cursor] = "bad"
    <3>1. cursor' = 1 /\ owned' = owned /\ mpc' = "stop" /\ outcome' = "failed"
      BY <2>1 DEF Ramped, Escape
    <3>2. UNCHANGED <<tracker, runnerVars, wlock, child, registered, stopRequested, faulty>>
      BY DEF Ramped
    <3> QED
      BY <3>1, <3>2 DEF TypeOK
  <2>2. CASE ~(cursor \in Server /\ retcode[cursor] = "bad")
    <3>1. cursor' \in 1 .. NLoad + 1
      BY <2>2 DEF Ramped, TypeOK, MainAt
    <3> QED
      BY <2>2, <3>1 DEF Ramped, TypeOK
  <2> QED
    BY <2>1, <2>2
<1>2. WatcherLock'
  BY DEF Ramped, Escape, TypeOK, WatcherLock, AfterStop
<1>3. AfterStop'
  BY DEF Ramped, Escape, TypeOK, AfterStop, WatcherLock
<1>4. ChildKnown'
  BY DEF Ramped, Escape, TypeOK, ChildKnown, WatcherLock, AfterStop, MainAt
<1>5. MainAt'
  BY DEF Ramped, Escape, TypeOK, MainAt, ChildKnown, AfterStop
<1>6. Told'
  BY DEF Ramped, Escape, TypeOK, Told, ChildKnown, AfterStop, MainAt, WatcherLock
<1>7. FailureIsReal'
  BY DEF Ramped, Escape, TypeOK, FailureIsReal, Told, ChildKnown
<1> QED
  BY <1>1, <1>2, <1>3, <1>4, <1>5, <1>6, <1>7

LEMMA SyncEnterKeeps ==
    ASSUME IInv, SyncEnter PROVE IInv'
<1> USE ConstFacts DEF IInv, Live, Ended, Over, Runner, mainVars, runnerVars
<1>1. TypeOK'
  BY DEF SyncEnter, TypeOK, MainAt
<1>2. WatcherLock'
  BY DEF SyncEnter, TypeOK, WatcherLock, AfterStop
<1>3. AfterStop'
  BY DEF SyncEnter, TypeOK, AfterStop, WatcherLock
<1>4. ChildKnown'
  BY DEF SyncEnter, TypeOK, ChildKnown, WatcherLock, AfterStop, MainAt
<1>5. MainAt'
  BY DEF SyncEnter, TypeOK, MainAt, ChildKnown, AfterStop
<1>6. Told'
  BY DEF SyncEnter, TypeOK, Told, ChildKnown, AfterStop, MainAt, WatcherLock
<1>7. FailureIsReal'
  BY DEF SyncEnter, TypeOK, FailureIsReal, Told, ChildKnown
<1> QED
  BY <1>1, <1>2, <1>3, <1>4, <1>5, <1>6, <1>7

LEMMA SyncPopenKeeps ==
    ASSUME IInv, SyncPopen PROVE IInv'
<1> USE ConstFacts DEF IInv, Live, Ended, Over, Runner, mainVars, runnerVars
<1>1. TypeOK'
  <2>1. child' \in [Runner -> Live \cup Ended]
    BY DEF SyncPopen, TypeOK
  <2>2. cursor' \in 1 .. NLoad + 1
    BY DEF SyncPopen, Escape, TypeOK
  <2>3. faulty' \subseteq Runner
    BY DEF SyncPopen, TypeOK
  <2> QED
    BY <2>1, <2>2, <2>3 DEF SyncPopen, Escape, TypeOK
<1>2. WatcherLock'
  BY DEF SyncPopen, Escape, TypeOK, WatcherLock, AfterStop
<1>3. AfterStop'
  BY DEF SyncPopen, Escape, TypeOK, AfterStop, WatcherLock
<1>4. ChildKnown'
  BY DEF SyncPopen, Escape, TypeOK, ChildKnown, WatcherLock, AfterStop, MainAt
<1>5. MainAt'
  BY DEF SyncPopen, Escape, TypeOK, MainAt, ChildKnown, AfterStop
<1>6. Told'
  BY DEF SyncPopen, Escape, TypeOK, Told, ChildKnown, AfterStop, MainAt, WatcherLock
<1>7. FailureIsReal'
  BY DEF SyncPopen, Escape, TypeOK, FailureIsReal, Told, ChildKnown
<1> QED
  BY <1>1, <1>2, <1>3, <1>4, <1>5, <1>6, <1>7

LEMMA SyncRegisterKeeps ==
    ASSUME IInv, SyncRegister PROVE IInv'
<1> USE ConstFacts DEF IInv, Live, Ended, Over, Runner, mainVars, runnerVars
<1>1. TypeOK'
  BY DEF SyncRegister, TypeOK, MainAt
<1>2. WatcherLock'
  BY DEF SyncRegister, TypeOK, WatcherLock, AfterStop
<1>3. AfterStop'
  BY DEF SyncRegister, TypeOK, AfterStop, WatcherLock
<1>4. ChildKnown'
  BY DEF SyncRegister, TypeOK, ChildKnown, WatcherLock, AfterStop, MainAt
<1>5. MainAt'
  BY DEF SyncRegister, TypeOK, MainAt, ChildKnown, AfterStop
<1>6. Told'
  BY DEF SyncRegister, TypeOK, Told, ChildKnown, AfterStop, MainAt, WatcherLock
<1>7. FailureIsReal'
  BY DEF SyncRegister, TypeOK, FailureIsReal, Told, ChildKnown
<1> QED
  BY <1>1, <1>2, <1>3, <1>4, <1>5, <1>6, <1>7

LEMMA SyncCollectKeeps ==
    ASSUME IInv, SyncCollect PROVE IInv'
<1> USE ConstFacts DEF IInv, Live, Ended, Over, Runner, mainVars, runnerVars
<1>1. TypeOK'
  <2>1. cursor' \in 1 .. NLoad + 1
    BY DEF SyncCollect, Escape, TypeOK
  <2> QED
    BY <2>1 DEF SyncCollect, Escape, TypeOK
<1>2. WatcherLock'
  BY DEF SyncCollect, Escape, TypeOK, WatcherLock, AfterStop
<1>3. AfterStop'
  BY DEF SyncCollect, Escape, TypeOK, AfterStop, WatcherLock
<1>4. ChildKnown'
  BY DEF SyncCollect, Escape, TypeOK, ChildKnown, WatcherLock, AfterStop, MainAt
<1>5. MainAt'
  BY DEF SyncCollect, Escape, TypeOK, MainAt, ChildKnown, AfterStop
<1>6. Told'
  BY DEF SyncCollect, Escape, TypeOK, Told, ChildKnown, AfterStop, MainAt, WatcherLock
<1>7. FailureIsReal'
  BY DEF SyncCollect, Escape, TypeOK, FailureIsReal, Told, ChildKnown
<1> QED
  BY <1>1, <1>2, <1>3, <1>4, <1>5, <1>6, <1>7

LEMMA NothingToStopKeeps ==
    ASSUME IInv, NothingToStop PROVE IInv'
<1> USE ConstFacts DEF IInv, Live, Ended, Over, Runner, mainVars, runnerVars
<1>1. TypeOK'
  BY DEF NothingToStop, ToStop, TypeOK, MainAt
<1>2. WatcherLock'
  BY DEF NothingToStop, ToStop, TypeOK, WatcherLock, AfterStop
<1>3. AfterStop'
  BY DEF NothingToStop, ToStop, TypeOK, AfterStop, WatcherLock
<1>4. ChildKnown'
  BY DEF NothingToStop, ToStop, TypeOK, ChildKnown, WatcherLock, AfterStop, MainAt
<1>5. MainAt'
  BY DEF NothingToStop, ToStop, TypeOK, MainAt, ChildKnown, AfterStop
<1>6. Told'
  BY DEF NothingToStop, ToStop, TypeOK, Told, ChildKnown, AfterStop, MainAt, WatcherLock
<1>7. FailureIsReal'
  BY DEF NothingToStop, ToStop, TypeOK, FailureIsReal, Told, ChildKnown
<1> QED
  BY <1>1, <1>2, <1>3, <1>4, <1>5, <1>6, <1>7

LEMMA StopKeeps ==
    ASSUME IInv, Stop PROVE IInv'
<1> USE ConstFacts DEF IInv, Live, Ended, Over, Runner, mainVars, runnerVars
<1>1. TypeOK'
  BY DEF Stop, TypeOK, MainAt
<1>2. WatcherLock'
  BY DEF Stop, TypeOK, WatcherLock, AfterStop
<1>3. AfterStop'
  BY DEF Stop, TypeOK, AfterStop, WatcherLock
<1>4. ChildKnown'
  BY DEF Stop, TypeOK, ChildKnown, WatcherLock, AfterStop, MainAt
<1>5. MainAt'
  BY DEF Stop, TypeOK, MainAt, ChildKnown, AfterStop
<1>6. Told'
  BY DEF Stop, TypeOK, Told, ChildKnown, AfterStop, MainAt, WatcherLock
<1>7. FailureIsReal'
  BY DEF Stop, TypeOK, FailureIsReal, Told, ChildKnown
<1> QED
  BY <1>1, <1>2, <1>3, <1>4, <1>5, <1>6, <1>7

LEMMA StopSignalKeeps ==
    ASSUME IInv, StopSignal PROVE IInv'
<1> USE ConstFacts DEF IInv, Live, Ended, Over, Runner, mainVars, runnerVars
<1>1. TypeOK'
  BY DEF StopSignal, Signalled, TypeOK, MainAt
<1>2. WatcherLock'
  BY DEF StopSignal, Signalled, TypeOK, WatcherLock, AfterStop
<1>3. AfterStop'
  BY DEF StopSignal, Signalled, TypeOK, AfterStop, WatcherLock
<1>4. ChildKnown'
  BY DEF StopSignal, Signalled, TypeOK, ChildKnown, WatcherLock, AfterStop, MainAt
<1>5. MainAt'
  BY DEF StopSignal, Signalled, TypeOK, MainAt, ChildKnown, AfterStop
<1>6. Told'
  BY DEF StopSignal, Signalled, TypeOK, Told, ChildKnown, AfterStop, MainAt, WatcherLock
<1>7. FailureIsReal'
  BY DEF StopSignal, Signalled, TypeOK, FailureIsReal, Told, ChildKnown
<1> QED
  BY <1>1, <1>2, <1>3, <1>4, <1>5, <1>6, <1>7

LEMMA StopJoinKeeps ==
    ASSUME IInv, StopJoin PROVE IInv'
<1> USE ConstFacts DEF IInv, Live, Ended, Over, Runner, mainVars, runnerVars
<1>1. TypeOK'
  BY DEF StopJoin, Escape, TypeOK, MainAt
<1>2. WatcherLock'
  BY DEF StopJoin, Escape, TypeOK, WatcherLock, AfterStop
<1>3. AfterStop'
  BY DEF StopJoin, Escape, TypeOK, AfterStop, WatcherLock
<1>4. ChildKnown'
  BY DEF StopJoin, Escape, TypeOK, ChildKnown, WatcherLock, AfterStop, MainAt
<1>5. MainAt'
  BY DEF StopJoin, Escape, TypeOK, MainAt, ChildKnown, AfterStop
<1>6. Told'
  BY DEF StopJoin, Escape, TypeOK, Told, ChildKnown, AfterStop, MainAt, WatcherLock
<1>7. FailureIsReal'
  BY DEF StopJoin, Escape, TypeOK, FailureIsReal, Told, ChildKnown
<1> QED
  BY <1>1, <1>2, <1>3, <1>4, <1>5, <1>6, <1>7

LEMMA HandlerLockKeeps ==
    ASSUME IInv, HandlerLock PROVE IInv'
<1> USE ConstFacts DEF IInv, Live, Ended, Over, Runner, mainVars, runnerVars
<1>1. TypeOK'
  BY DEF HandlerLock, Unwind, Escape, TypeOK, MainAt
<1>2. WatcherLock'
  BY DEF HandlerLock, Unwind, Escape, TypeOK, WatcherLock, AfterStop
<1>3. AfterStop'
  BY DEF HandlerLock, Unwind, Escape, TypeOK, AfterStop, WatcherLock
<1>4. ChildKnown'
  BY DEF HandlerLock, Unwind, Escape, TypeOK, ChildKnown, WatcherLock, AfterStop, MainAt
<1>5. MainAt'
  BY DEF HandlerLock, Unwind, Escape, TypeOK, MainAt, ChildKnown, AfterStop
<1>6. Told'
  BY DEF HandlerLock, Unwind, Escape, TypeOK, Told, ChildKnown, AfterStop, MainAt, WatcherLock
<1>7. FailureIsReal'
  BY DEF HandlerLock, Unwind, Escape, TypeOK, FailureIsReal, Told, ChildKnown
<1> QED
  BY <1>1, <1>2, <1>3, <1>4, <1>5, <1>6, <1>7

LEMMA HandlerSignalKeeps ==
    ASSUME IInv, HandlerSignal PROVE IInv'
<1> USE ConstFacts DEF IInv, Live, Ended, Over, Runner, mainVars, runnerVars
<1>1. TypeOK'
  BY DEF HandlerSignal, TypeOK, MainAt
<1>2. WatcherLock'
  BY DEF HandlerSignal, TypeOK, WatcherLock, AfterStop
<1>3. AfterStop'
  BY DEF HandlerSignal, TypeOK, AfterStop, WatcherLock
<1>4. ChildKnown'
  BY DEF HandlerSignal, TypeOK, ChildKnown, WatcherLock, AfterStop, MainAt
<1>5. MainAt'
  BY DEF HandlerSignal, TypeOK, MainAt, ChildKnown, AfterStop
<1>6. Told'
  BY DEF HandlerSignal, TypeOK, Told, ChildKnown, AfterStop, MainAt, WatcherLock
<1>7. FailureIsReal'
  BY DEF HandlerSignal, TypeOK, FailureIsReal, Told, ChildKnown
<1> QED
  BY <1>1, <1>2, <1>3, <1>4, <1>5, <1>6, <1>7

LEMMA HandlerWaitKeeps ==
    ASSUME IInv, HandlerWait PROVE IInv'
<1> USE ConstFacts DEF IInv, Live, Ended, Over, Runner, mainVars, runnerVars
<1>1. TypeOK'
  BY DEF HandlerWait, Unwind, Escape, TypeOK, MainAt
<1>2. WatcherLock'
  BY DEF HandlerWait, Unwind, Escape, TypeOK, WatcherLock, AfterStop
<1>3. AfterStop'
  BY DEF HandlerWait, Unwind, Escape, TypeOK, AfterStop, WatcherLock
<1>4. ChildKnown'
  BY DEF HandlerWait, Unwind, Escape, TypeOK, ChildKnown, WatcherLock, AfterStop, MainAt
<1>5. MainAt'
  BY DEF HandlerWait, Unwind, Escape, TypeOK, MainAt, ChildKnown, AfterStop
<1>6. Told'
  BY DEF HandlerWait, Unwind, Escape, TypeOK, Told, ChildKnown, AfterStop, MainAt, WatcherLock
<1>7. FailureIsReal'
  BY DEF HandlerWait, Unwind, Escape, TypeOK, FailureIsReal, Told, ChildKnown
<1> QED
  BY <1>1, <1>2, <1>3, <1>4, <1>5, <1>6, <1>7

LEMMA InterruptKeeps ==
    ASSUME IInv, Interrupt PROVE IInv'
<1> USE ConstFacts DEF IInv, Live, Ended, Over, Runner, mainVars, runnerVars
<1>1. TypeOK'
  BY DEF Interrupt, InHandler, TypeOK, MainAt
<1>2. WatcherLock'
  BY DEF Interrupt, InHandler, TypeOK, WatcherLock, AfterStop
<1>3. AfterStop'
  BY DEF Interrupt, InHandler, TypeOK, AfterStop, WatcherLock
<1>4. ChildKnown'
  BY DEF Interrupt, InHandler, TypeOK, ChildKnown, WatcherLock, AfterStop, MainAt
<1>5. MainAt'
  BY DEF Interrupt, InHandler, TypeOK, MainAt, ChildKnown, AfterStop
<1>6. Told'
  BY DEF Interrupt, InHandler, TypeOK, Told, ChildKnown, AfterStop, MainAt, WatcherLock
<1>7. FailureIsReal'
  BY DEF Interrupt, InHandler, TypeOK, FailureIsReal, Told, ChildKnown
<1> QED
  BY <1>1, <1>2, <1>3, <1>4, <1>5, <1>6, <1>7

LEMMA LoopKeeps ==
    ASSUME IInv, NEW r \in Async, ~Over, Loop(r) PROVE IInv'
<1> USE ConstFacts DEF IInv, Live, Ended, Over, Runner, mainVars, runnerVars
<1>1. TypeOK'
  BY DEF Loop, TypeOK, MainAt
<1>2. WatcherLock'
  BY DEF Loop, TypeOK, WatcherLock, AfterStop
<1>3. AfterStop'
  BY DEF Loop, TypeOK, AfterStop, WatcherLock
<1>4. ChildKnown'
  BY DEF Loop, TypeOK, ChildKnown, WatcherLock, AfterStop, MainAt
<1>5. MainAt'
  BY DEF Loop, TypeOK, MainAt, ChildKnown, AfterStop
<1>6. Told'
  BY DEF Loop, TypeOK, Told, ChildKnown, AfterStop, MainAt, WatcherLock
<1>7. FailureIsReal'
  BY DEF Loop, TypeOK, FailureIsReal, Told, ChildKnown
<1> QED
  BY <1>1, <1>2, <1>3, <1>4, <1>5, <1>6, <1>7

LEMMA LockKeeps ==
    ASSUME IInv, NEW r \in Async, ~Over, Lock(r) PROVE IInv'
<1> USE ConstFacts DEF IInv, Live, Ended, Over, Runner, mainVars, runnerVars
<1>1. TypeOK'
  BY DEF Lock, TypeOK, MainAt
<1>2. WatcherLock'
  BY DEF Lock, TypeOK, WatcherLock, AfterStop
<1>3. AfterStop'
  BY DEF Lock, TypeOK, AfterStop, WatcherLock
<1>4. ChildKnown'
  BY DEF Lock, TypeOK, ChildKnown, WatcherLock, AfterStop, MainAt
<1>5. MainAt'
  BY DEF Lock, TypeOK, MainAt, ChildKnown, AfterStop
<1>6. Told'
  BY DEF Lock, TypeOK, Told, ChildKnown, AfterStop, MainAt, WatcherLock
<1>7. FailureIsReal'
  BY DEF Lock, TypeOK, FailureIsReal, Told, ChildKnown
<1> QED
  BY <1>1, <1>2, <1>3, <1>4, <1>5, <1>6, <1>7

LEMMA EnterKeeps ==
    ASSUME IInv, NEW r \in Async, ~Over, Enter(r) PROVE IInv'
<1> USE ConstFacts DEF IInv, Live, Ended, Over, Runner, mainVars, runnerVars
<1>1. TypeOK'
  BY DEF Enter, TypeOK, MainAt
<1>2. WatcherLock'
  BY DEF Enter, TypeOK, WatcherLock, AfterStop
<1>3. AfterStop'
  BY DEF Enter, TypeOK, AfterStop, WatcherLock
<1>4. ChildKnown'
  BY DEF Enter, TypeOK, ChildKnown, WatcherLock, AfterStop, MainAt
<1>5. MainAt'
  BY DEF Enter, TypeOK, MainAt, ChildKnown, AfterStop
<1>6. Told'
  BY DEF Enter, TypeOK, Told, ChildKnown, AfterStop, MainAt, WatcherLock
<1>7. FailureIsReal'
  BY DEF Enter, TypeOK, FailureIsReal, Told, ChildKnown
<1> QED
  BY <1>1, <1>2, <1>3, <1>4, <1>5, <1>6, <1>7

LEMMA PopenKeeps ==
    ASSUME IInv, NEW r \in Async, ~Over, Popen(r) PROVE IInv'
<1> USE ConstFacts DEF IInv, Live, Ended, Over, Runner, mainVars, runnerVars
<1>1. TypeOK'
  <2>1. child' \in [Runner -> Live \cup Ended]
    BY DEF Popen, TypeOK
  <2>2. pc' \in [Async -> {"none", "loop", "lock", "enter", "popen", "register", "communicate",
                           "final", "unregister", "ended"}]
    BY DEF Popen, TypeOK
  <2>3. /\ rlock' \in [Async -> {"free", "main", "thread"}]
        /\ retcode' \in [Async -> {"none", "ok", "bad"}]
    BY DEF Popen, TypeOK
  <2>4. current' \in [Async -> BOOLEAN]
    BY DEF Popen, TypeOK
  <2>5. wlock' \in {"free", "main", "thread"} /\ faulty' \subseteq Runner
    BY DEF Popen, TypeOK
  <2> QED
    BY <2>1, <2>2, <2>3, <2>4, <2>5 DEF Popen, TypeOK
<1>2. WatcherLock'
  BY DEF Popen, TypeOK, WatcherLock, AfterStop
<1>3. AfterStop'
  BY DEF Popen, TypeOK, AfterStop, WatcherLock
<1>4. ChildKnown'
  BY DEF Popen, TypeOK, ChildKnown, WatcherLock, AfterStop, MainAt
<1>5. MainAt'
  BY DEF Popen, TypeOK, MainAt, ChildKnown, AfterStop
<1>6. Told'
  BY DEF Popen, TypeOK, Told, ChildKnown, AfterStop, MainAt, WatcherLock
<1>7. FailureIsReal'
  BY DEF Popen, TypeOK, FailureIsReal, Told, ChildKnown
<1> QED
  BY <1>1, <1>2, <1>3, <1>4, <1>5, <1>6, <1>7

LEMMA RegisterKeeps ==
    ASSUME IInv, NEW r \in Async, ~Over, Register(r) PROVE IInv'
<1> USE ConstFacts DEF IInv, Live, Ended, Over, Runner, mainVars, runnerVars
<1>1. TypeOK'
  BY DEF Register, TypeOK, MainAt
<1>2. WatcherLock'
  BY DEF Register, TypeOK, WatcherLock, AfterStop
<1>3. AfterStop'
  BY DEF Register, TypeOK, AfterStop, WatcherLock
<1>4. ChildKnown'
  BY DEF Register, TypeOK, ChildKnown, WatcherLock, AfterStop, MainAt
<1>5. MainAt'
  BY DEF Register, TypeOK, MainAt, ChildKnown, AfterStop
<1>6. Told'
  BY DEF Register, TypeOK, Told, ChildKnown, AfterStop, MainAt, WatcherLock
<1>7. FailureIsReal'
  BY DEF Register, TypeOK, FailureIsReal, Told, ChildKnown
<1> QED
  BY <1>1, <1>2, <1>3, <1>4, <1>5, <1>6, <1>7

LEMMA CollectKeeps ==
    ASSUME IInv, NEW r \in Async, ~Over, Collect(r) PROVE IInv'
<1> USE ConstFacts DEF IInv, Live, Ended, Over, Runner, mainVars, runnerVars
<1>1. TypeOK'
  BY DEF Collect, TypeOK, MainAt
<1>2. WatcherLock'
  BY DEF Collect, TypeOK, WatcherLock, AfterStop
<1>3. AfterStop'
  BY DEF Collect, TypeOK, AfterStop, WatcherLock
<1>4. ChildKnown'
  BY DEF Collect, TypeOK, ChildKnown, WatcherLock, AfterStop, MainAt
<1>5. MainAt'
  BY DEF Collect, TypeOK, MainAt, ChildKnown, AfterStop
<1>6. Told'
  BY DEF Collect, TypeOK, Told, ChildKnown, AfterStop, MainAt, WatcherLock
<1>7. FailureIsReal'
  BY DEF Collect, TypeOK, FailureIsReal, Told, ChildKnown
<1> QED
  BY <1>1, <1>2, <1>3, <1>4, <1>5, <1>6, <1>7

LEMMA FinalKeeps ==
    ASSUME IInv, NEW r \in Async, ~Over, Final(r) PROVE IInv'
<1> USE ConstFacts DEF IInv, Live, Ended, Over, Runner, mainVars, runnerVars
<1>1. TypeOK'
  BY DEF Final, TypeOK, MainAt
<1>2. WatcherLock'
  BY DEF Final, TypeOK, WatcherLock, AfterStop
<1>3. AfterStop'
  BY DEF Final, TypeOK, AfterStop, WatcherLock
<1>4. ChildKnown'
  BY DEF Final, TypeOK, ChildKnown, WatcherLock, AfterStop, MainAt
<1>5. MainAt'
  BY DEF Final, TypeOK, MainAt, ChildKnown, AfterStop
<1>6. Told'
  BY DEF Final, TypeOK, Told, ChildKnown, AfterStop, MainAt, WatcherLock
<1>7. FailureIsReal'
  BY DEF Final, TypeOK, FailureIsReal, Told, ChildKnown
<1> QED
  BY <1>1, <1>2, <1>3, <1>4, <1>5, <1>6, <1>7

LEMMA UnregisterKeeps ==
    ASSUME IInv, NEW r \in Async, ~Over, Unregister(r) PROVE IInv'
<1> USE ConstFacts DEF IInv, Live, Ended, Over, Runner, mainVars, runnerVars
<1>1. TypeOK'
  BY DEF Unregister, TypeOK, MainAt
<1>2. WatcherLock'
  BY DEF Unregister, TypeOK, WatcherLock, AfterStop
<1>3. AfterStop'
  BY DEF Unregister, TypeOK, AfterStop, WatcherLock
<1>4. ChildKnown'
  BY DEF Unregister, TypeOK, ChildKnown, WatcherLock, AfterStop, MainAt
<1>5. MainAt'
  BY DEF Unregister, TypeOK, MainAt, ChildKnown, AfterStop
<1>6. Told'
  BY DEF Unregister, TypeOK, Told, ChildKnown, AfterStop, MainAt, WatcherLock
<1>7. FailureIsReal'
  BY DEF Unregister, TypeOK, FailureIsReal, Told, ChildKnown
<1> QED
  BY <1>1, <1>2, <1>3, <1>4, <1>5, <1>6, <1>7

LEMMA ChildExitsKeeps ==
    ASSUME IInv, NEW r \in Runner, ChildExits(r) PROVE IInv'
<1> USE ConstFacts DEF IInv, Live, Ended, Over, Runner, mainVars, runnerVars
<1>1. TypeOK'
  <2>1. PICK end \in {"ok", "bad"} :
           /\ child' = [child EXCEPT ![r] = end]
           /\ faulty' = faulty \cup {x \in {r} : end = "bad"}
    BY DEF ChildExits
  <2>2. child' \in [Runner -> Live \cup Ended]
    BY <2>1 DEF TypeOK
  <2> QED
    BY <2>1, <2>2 DEF ChildExits, TypeOK
<1>2. WatcherLock'
  BY DEF ChildExits, TypeOK, WatcherLock, AfterStop
<1>3. AfterStop'
  BY DEF ChildExits, TypeOK, AfterStop, WatcherLock
<1>4. ChildKnown'
  BY DEF ChildExits, TypeOK, ChildKnown, WatcherLock, AfterStop, MainAt
<1>5. MainAt'
  BY DEF ChildExits, TypeOK, MainAt, ChildKnown, AfterStop
<1>6. Told'
  BY DEF ChildExits, TypeOK, Told, ChildKnown, AfterStop, MainAt, WatcherLock
<1>7. FailureIsReal'
  BY DEF ChildExits, TypeOK, FailureIsReal, Told, ChildKnown
<1> QED
  BY <1>1, <1>2, <1>3, <1>4, <1>5, <1>6, <1>7

LEMMA ChildDiesKeeps ==
    ASSUME IInv, NEW r \in Runner, ChildDies(r) PROVE IInv'
<1> USE ConstFacts DEF IInv, Live, Ended, Over, Runner, mainVars, runnerVars
<1>1. TypeOK'
  <2>1. PICK end \in {"ok", "bad"} : child' = [child EXCEPT ![r] = end]
    BY DEF ChildDies
  <2>2. child' \in [Runner -> Live \cup Ended]
    BY <2>1 DEF TypeOK
  <2> QED
    BY <2>2 DEF ChildDies, TypeOK
<1>2. WatcherLock'
  BY DEF ChildDies, TypeOK, WatcherLock, AfterStop
<1>3. AfterStop'
  BY DEF ChildDies, TypeOK, AfterStop, WatcherLock
<1>4. ChildKnown'
  BY DEF ChildDies, TypeOK, ChildKnown, WatcherLock, AfterStop, MainAt
<1>5. MainAt'
  BY DEF ChildDies, TypeOK, MainAt, ChildKnown, AfterStop
<1>6. Told'
  BY DEF ChildDies, TypeOK, Told, ChildKnown, AfterStop, MainAt, WatcherLock
<1>7. FailureIsReal'
  BY DEF ChildDies, TypeOK, FailureIsReal, Told, ChildKnown
<1> QED
  BY <1>1, <1>2, <1>3, <1>4, <1>5, <1>6, <1>7

LEMMA StutterKeeps ==
    ASSUME IInv, UNCHANGED vars PROVE IInv'
  BY DEF IInv, vars, mainVars, runnerVars, TypeOK, WatcherLock, AfterStop, ChildKnown, MainAt, Told,
         FailureIsReal, Over

LEMMA InitEstablishes == Init => IInv
<1> SUFFICES ASSUME Init PROVE IInv
  OBVIOUS
<1> USE ConstFacts DEF Init, Live, Ended, Over, Runner
<1>1. TypeOK
  <2>1. /\ rlock \in [Async -> {"free", "main", "thread"}]
        /\ retcode \in [Async -> {"none", "ok", "bad"}]
        /\ child \in [Runner -> Live \cup Ended]
    OBVIOUS
  <2>2. stopEvent \in [Async -> BOOLEAN] /\ current \in [Async -> BOOLEAN]
    OBVIOUS
  <2>3. cursor \in 1 .. NLoad + 1
    OBVIOUS
  <2> QED
    BY <2>1, <2>2, <2>3 DEF TypeOK
<1>2. WatcherLock /\ AfterStop
  BY DEF WatcherLock, AfterStop
<1>3. ChildKnown /\ MainAt
  BY DEF ChildKnown, MainAt
<1>4. Told /\ FailureIsReal
  BY DEF Told, FailureIsReal
<1> QED
  BY <1>1, <1>2, <1>3, <1>4 DEF IInv

LEMMA StepKeeps == IInv /\ [Next]_vars => IInv'
<1> SUFFICES ASSUME IInv, [Next]_vars PROVE IInv'
  OBVIOUS
<1>1. CASE Main
  BY <1>1, TrackerInitKeeps, StartKeeps, RampedKeeps, SyncEnterKeeps, SyncPopenKeeps,
     SyncRegisterKeeps, SyncCollectKeeps, NothingToStopKeeps, StopKeeps, StopSignalKeeps,
     StopJoinKeeps, HandlerLockKeeps, HandlerSignalKeeps, HandlerWaitKeeps DEF Main
<1>2. CASE \E r \in Async : Thread(r)
  BY <1>2, LoopKeeps, LockKeeps, EnterKeeps, PopenKeeps, RegisterKeeps, CollectKeeps, FinalKeeps,
     UnregisterKeeps DEF Thread
<1>3. CASE \E r \in Runner : ChildExits(r) \/ ChildDies(r)
  BY <1>3, ChildExitsKeeps, ChildDiesKeeps
<1>4. CASE Interrupt
  BY <1>4, InterruptKeeps
<1>5. CASE Done \/ UNCHANGED vars
  BY <1>5, StutterKeeps DEF Done
<1> QED
  BY <1>1, <1>2, <1>3, <1>4, <1>5 DEF Next

\* IInv is an invariant.
THEOREM Invariance == Spec => []IInv
<1>1. Init => IInv
  BY InitEstablishes
<1>2. IInv /\ [Next]_vars => IInv'
  BY StepKeeps
<1> QED
  BY <1>1, <1>2, PTL DEF Spec

\* The state of the threads, locks and children keeps its types.
THEOREM TypeCorrect == Spec => []TypeOK
<1>1. IInv => TypeOK
  BY DEF IInv
<1> QED
  BY <1>1, Invariance, PTL

\* A load's retcode is bad only for a reason other than its own stop().
THEOREM RealFailures == Spec => []FailureIsReal
<1>1. IInv => FailureIsReal
  BY DEF IInv
<1> QED
  BY <1>1, Invariance, PTL

\* After an interrupted run every background child was told to stop, except
\* that of a server that was still being set up.
THEOREM LoadsStopped == Spec => []InterruptedLoadsStopped
<1>1. IInv => InterruptedLoadsStopped
  <2> SUFFICES ASSUME IInv, Over, outcome = "interrupted", NEW r \in Async, child[r] = "running"
               PROVE  r \in Server \ owned
    BY DEF InterruptedLoadsStopped
  <2> USE DEF IInv
  <2>1. r \in Server
    BY DEF Told, AfterStop, Over
  <2>2. pc[r] # "none"
    BY DEF ChildKnown, Live
  <2> QED
    BY <2>1, <2>2 DEF MainAt
<1> QED
  BY <1>1, Invariance, PTL

\* The steps of Next that touch the children.
LEMMA ChildStep ==
    ASSUME IInv, Next, stopRequested, NEW s \in Runner, child'[s] = "running"
    PROVE  child[s] = "running"
<1> USE ConstFacts DEF IInv, TypeOK, AfterStop, Runner, mainVars, runnerVars, vars
<1>1. CASE Main
  <2>1. ~SyncPopen /\ ~TrackerInit /\ ~Start /\ ~Ramped /\ ~SyncEnter /\ ~SyncRegister /\ ~SyncCollect
        /\ ~HandlerLock
    BY DEF SyncPopen, TrackerInit, Start, Ramped, SyncEnter, SyncRegister, SyncCollect, HandlerLock
  <2>2. CASE StopSignal
    BY <2>2 DEF StopSignal, Signalled, Ended
  <2>3. CASE HandlerSignal
    BY <2>3 DEF HandlerSignal
  <2>4. CASE HandlerWait
    BY <2>4 DEF HandlerWait
  <2>5. CASE NothingToStop \/ Stop \/ StopJoin
    BY <2>5 DEF NothingToStop, Stop, StopJoin
  <2> QED
    BY <1>1, <2>1, <2>2, <2>3, <2>4, <2>5 DEF Main
<1>2. ASSUME NEW r \in Async, Thread(r) PROVE child[s] = "running"
  <2>1. ~Popen(r)
    BY DEF Popen
  <2> QED
    BY <1>2, <2>1 DEF Thread, Loop, Lock, Enter, Register, Collect, Final, Unregister
<1>3. ASSUME NEW r \in Runner, ChildExits(r) PROVE child[s] = "running"
  BY <1>3 DEF ChildExits
<1>4. ASSUME NEW r \in Runner, ChildDies(r) PROVE child[s] = "running"
  BY <1>4 DEF ChildDies
<1>5. CASE Interrupt \/ Done
  BY <1>5 DEF Interrupt, Done
<1> QED
  BY <1>1, <1>2, <1>3, <1>4, <1>5 DEF Next

\* After Ctrl+C no child is started.
THEOREM NoLateSpawn == Spec => NoSpawnAfterStop
<1>1. IInv /\ [Next]_vars
        => [stopRequested => \A r \in Runner : child'[r] = "running" => child[r] = "running"]_vars
  BY ChildStep
<1> QED
  BY <1>1, Invariance, PTL DEF Spec, NoSpawnAfterStop

----------------------------------------------------------------------------
(***************************************************************************)
(* The progress bar, whose terminate() the main thread and its SIGINT      *)
(* handler call: the update thread has ended when execute_benchmarks is    *)
(* left, for every sequence of operations with a terminate() in its        *)
(* `finally` and for signals in any state of the main thread.  What makes  *)
(* it inductive is QuitPassed: whoever is past a terminate() has joined.   *)
(***************************************************************************)
LEMMA BarScript ==
    /\ Len(Script) \in Nat
    /\ \A k \in 1 .. Len(Script) : Script[k] \in Op
    /\ Finally \in 1 .. Len(Script)
    /\ \E k \in Finally .. Len(Script) : Script[k] = "quit"
    /\ AnimSteps \in Nat \ {0}
    /\ MaxResizes \in Nat
  BY TrackerAssumption

LEMMA BarStarts == BarInit => BarIInv
<1> SUFFICES ASSUME BarInit PROVE BarIInv
  OBVIOUS
<1> USE BarScript DEF BarInit
<1>1. ip \in 1 .. Len(Script) + 1 /\ anim \in 0 .. AnimSteps /\ resizes \in 0 .. MaxResizes
  OBVIOUS
<1>2. queue \in Seq({"UPDATE", "QUIT"})
  OBVIOUS
<1>3. QuitPassed
  BY DEF QuitPassed
<1> QED
  BY <1>1, <1>2, <1>3, Zenon DEF BarIInv, BarTypeOK

\* Events are queued and taken one at a time.
LEMMA BarQueue == ASSUME BarIInv, [BarNext]_barVars PROVE queue' \in Seq({"UPDATE", "QUIT"})
<1> DEFINE Event == {"UPDATE", "QUIT"}
<1>0. queue \in Seq(Event)
  BY DEF BarIInv, BarTypeOK
<1>1. Append(queue, "UPDATE") \in Seq(Event) /\ Append(queue, "QUIT") \in Seq(Event)
  BY <1>0
<1>2. queue # <<>> => Tail(queue) \in Seq(Event)
  BY <1>0
<1>3. \/ queue' = queue
      \/ queue' = Append(queue, "UPDATE")
      \/ queue' = Append(queue, "QUIT")
      \/ queue # <<>> /\ queue' = Tail(queue)
  <2>1. CASE Status \/ Terminate \/ SigIntPut
    BY <2>1, Zenon DEF Status, Terminate, SigIntPut
  <2>2. CASE WaitUntilIdle \/ Log \/ SigIntLog \/ SigIntJoin \/ Resize \/ SigInt \/ SigWinch
    BY <2>2, Zenon DEF WaitUntilIdle, Log, SigIntLog, SigIntJoin, Resize, SigInt, SigWinch
  <2>3. CASE Updater
    BY <2>3, Zenon DEF Updater, Get, Update, Write
  <2>4. CASE BarDone \/ UNCHANGED barVars
    BY <2>4, Zenon DEF BarDone, barVars
  <2> QED
    BY <2>1, <2>2, <2>3, <2>4 DEF BarNext, BarMain
<1> QED
  BY <1>0, <1>1, <1>2, <1>3, Zenon

\* The two flags are only ever set.
LEMMA BarFlags == ASSUME BarIInv, [BarNext]_barVars
                   PROVE  terminated' \in BOOLEAN /\ interrupted' \in BOOLEAN
<1>0. terminated \in BOOLEAN /\ interrupted \in BOOLEAN
  BY DEF BarIInv, BarTypeOK
<1>1. (terminated' = terminated \/ terminated' = TRUE) /\ (interrupted' = interrupted \/ interrupted' = TRUE)
  <2>1. CASE BarMain
    BY <2>1, Zenon DEF BarMain, Status, WaitUntilIdle, Log, Terminate, SigIntLog, SigIntPut, SigIntJoin, Resize
  <2>2. CASE Updater
    BY <2>2, Zenon DEF Updater, Get, Update, Write
  <2>3. CASE SigInt \/ SigWinch \/ BarDone \/ UNCHANGED barVars
    BY <2>3, Zenon DEF SigInt, SigWinch, BarDone, barVars
  <2> QED
    BY <2>1, <2>2, <2>3 DEF BarNext
<1> QED
  BY <1>0, <1>1, Zenon

LEMMA BarTypes == ASSUME BarIInv, [BarNext]_barVars PROVE BarTypeOK'
<1> DEFINE Control ==
      /\ ip \in 1 .. Len(Script) + 1
      /\ barpc \in {"op", "notify", "queue", "put", "write", "join"}
      /\ hpc \in {"none", "int_log", "int_put", "int_join", "win_lock"}
      /\ upc \in {"get", "update", "write", "ended"}
      /\ anim \in 0 .. AnimSteps
      /\ resizes \in 0 .. MaxResizes
<1>0. Control
  BY DEF BarIInv, BarTypeOK
<1>8. Control'
  <2> USE BarScript, <1>0
  <2>1. CASE Status
    BY <2>1 DEF Status, MainRuns, Notify, NextOp
  <2>2. CASE WaitUntilIdle \/ Log
    BY <2>2 DEF WaitUntilIdle, Log, MainRuns, NextOp
  <2>3. CASE Terminate
    BY <2>3 DEF Terminate, MainRuns, NextOp
  <2>4. CASE SigIntLog \/ SigIntPut \/ SigIntJoin \/ Resize
    BY <2>4 DEF SigIntLog, SigIntPut, SigIntJoin, Resize
  <2>5. CASE SigInt \/ SigWinch
    BY <2>5 DEF SigInt, SigWinch
  <2>6. CASE Updater
    BY <2>6 DEF Updater, Get, Update, Write, AnimationNext
  <2>7. CASE BarDone \/ UNCHANGED barVars
    BY <2>7 DEF BarDone, barVars
  <2> QED
    BY <2>1, <2>2, <2>3, <2>4, <2>5, <2>6, <2>7 DEF BarNext, BarMain
<1> QED
  BY <1>8, BarQueue, BarFlags, Zenon DEF BarTypeOK

LEMMA QuitPassedKept == ASSUME BarIInv, [BarNext]_barVars PROVE QuitPassed'
<1> USE BarScript DEF BarIInv, BarTypeOK, QuitPassed
<1>1. CASE Status
  BY <1>1 DEF Status, MainRuns, NextOp
<1>2. CASE WaitUntilIdle \/ Log
  BY <1>2 DEF WaitUntilIdle, Log, MainRuns, NextOp
<1>3. CASE Terminate
  BY <1>3 DEF Terminate, MainRuns, NextOp, UpdaterEnded
<1>4. CASE SigIntLog \/ SigIntPut \/ SigIntJoin \/ Resize \/ SigInt \/ SigWinch
  BY <1>4 DEF SigIntLog, SigIntPut, SigIntJoin, Resize, SigInt, SigWinch, UpdaterEnded
<1>5. CASE Updater
  BY <1>5 DEF Updater, Get, Update, Write
<1>6. CASE BarDone \/ UNCHANGED barVars
  BY <1>6 DEF BarDone, barVars
<1> QED
  BY <1>1, <1>2, <1>3, <1>4, <1>5, <1>6 DEF BarNext, BarMain

\* The invariant of the progress bar, for any script of operations.
THEOREM BarInvariance == BarSpec => []BarIInv
<1>1. BarInit => BarIInv
  BY BarStarts
<1>2. BarIInv /\ [BarNext]_barVars => BarIInv'
  BY BarTypes, QuitPassedKept DEF BarIInv
<1> QED
  BY <1>1, <1>2, PTL DEF BarSpec

\* The two threads of the progress bar and the handlers keep their types.
THEOREM BarTypeCorrect == BarSpec => []BarTypeOK
<1>1. BarIInv => BarTypeOK
  BY DEF BarIInv
<1> QED
  BY <1>1, BarInvariance, PTL

\* Nobody else writes to the terminal once execute_benchmarks is left: main
\* joined the update thread in its `finally` or in the SIGINT handler.
THEOREM Quiet == BarSpec => []QuietAtEnd
<1>1. BarIInv => QuietAtEnd
  BY BarScript DEF BarIInv, BarTypeOK, QuitPassed, QuietAtEnd, BarOver
<1> QED
  BY <1>1, BarInvariance, PTL
============================================================================
