------------------------ MODULE ExclusiveRun_proofs ------------------------
(***************************************************************************)
(* Any number of invocations on one machine: what the process mutex        *)
(* protects and what it does not.                                          *)
(*                                                                         *)
(* The argument: whoever is in the body of the with statement has the      *)
(* flock (InsideHolds), so at most one process is inside, and the          *)
(* invocations implement RunLock.  The counters of the machine are changed *)
(* by the one inside; they can be changed when the next one is let in only *)
(* because a skipped recipe is left to the exit handler, which runs after  *)
(* the mutex is released (OneChange, OverlapLeft).  The output folder and  *)
(* the cache directory are outside the mutex: what protects the folder is  *)
(* that who finds it does not take it for its own (NotOurs), and that who  *)
(* makes it looks at it again on exit (SomeoneWillDelete); nothing         *)
(* protects the cache, but who finds it gone was disturbed                 *)
(* (GoneIfDisturbed).                                                      *)
(*                                                                         *)
(* At the end, proofs about RunRequest: what one of these invocations      *)
(* plans and with which settings.  InOrder sorts by any strict total order *)
(* (OrderSorts), the orders of the code are such, and the plan lists       *)
(* recipes that need none before those that need one (LeavesLead).  Each   *)
(* conjunct of RequestIInv has a lemma for the initial states and one for  *)
(* the steps.                                                              *)
(***************************************************************************)
EXTENDS ExclusiveRun, RunRequest, FiniteSetTheorems, SequenceTheorems, TLAPS

\* The counters of retry() stay within their limit by TriesLeft.
LEMMA TypeOKNext ==
    ASSUME IInv, [Next]_vars
    PROVE  TypeOK'
<1> USE ExclusiveAssumption DEF IInv, TypeOK, TriesLeft, Before, Inside, At, Goto, vars, shared, own, output
<1>1. CASE UNCHANGED vars
  BY <1>1
<1>2. ASSUME NEW p \in Process, MakeDirs(p) PROVE TypeOK'
  BY <1>2 DEF MakeDirs
<1>3. ASSUME NEW p \in Process, OpenLog(p) PROVE TypeOK'
  BY <1>3 DEF OpenLog, AfterOutput
<1>4. ASSUME NEW p \in Process, WriteResult(p) PROVE TypeOK'
  BY <1>4 DEF WriteResult
<1>5. ASSUME NEW p \in Process, DeleteResource(p) PROVE TypeOK'
  BY <1>5 DEF DeleteResource
<1>6. ASSUME NEW p \in Process, ClearAsctCache(p) PROVE TypeOK'
  BY <1>6 DEF ClearAsctCache
<1>7. ASSUME NEW p \in Process, PrepareLock(p) PROVE TypeOK'
  BY <1>7 DEF PrepareLock, LockPathOK
<1>8. ASSUME NEW p \in Process, AttemptLock(p) PROVE TypeOK'
  BY <1>8 DEF AttemptLock, LockFree, AfterLastAttempt
<1>9. ASSUME NEW p \in Process, Stat(p) PROVE TypeOK'
  <2>1. CASE cache = "none"
    BY <1>9, <2>1 DEF Stat, Abort
  <2>2. CASE cache # "none"
    BY <1>9, <2>2 DEF Stat
  <2> QED
    BY <2>1, <2>2
<1>10. ASSUME NEW p \in Process, Setup(p) PROVE TypeOK'
  BY <1>10 DEF Setup
<1>11. ASSUME NEW p \in Process, WriteToCache(p) PROVE TypeOK'
  BY <1>11 DEF WriteToCache, Abort
<1>12. ASSUME NEW p \in Process, WriteFingerprint(p) PROVE TypeOK'
  <2>1. CASE cache = "none"
    BY <1>12, <2>1 DEF WriteFingerprint, Abort
  <2>2. CASE cache # "none"
    BY <1>12, <2>2 DEF WriteFingerprint
  <2> QED
    BY <2>1, <2>2
<1>13. ASSUME NEW p \in Process, Teardown(p) PROVE TypeOK'
  BY <1>13 DEF Teardown
<1>14. ASSUME NEW p \in Process, AtExit(p) PROVE TypeOK'
  BY <1>14 DEF AtExit
<1>15. ASSUME NEW p \in Process, Kill(p) PROVE TypeOK'
  BY <1>15 DEF Kill
<1>16. ASSUME NEW p \in Process,
              \/ InitializeAsct(p) \/ CheckResourceCreatable(p) \/ CreateResource(p)
              \/ TeardownFolder(p) \/ Lookup(p) \/ Run(p) \/ Release(p)
       PROVE  TypeOK'
  BY <1>16 DEF InitializeAsct, CheckResourceCreatable, CreateResource, TeardownFolder,
       Lookup, Run, Release, AfterOutput, Deletable
<1> QED
  BY <1>1, <1>2, <1>3, <1>4, <1>5, <1>6, <1>7, <1>8, <1>9,
     <1>10, <1>11, <1>12, <1>13, <1>14, <1>15, <1>16
  DEF Next, Step

\* An invocation is let in as it takes the flock, and gives it up by leaving.
LEMMA InsideHoldsNext ==
    ASSUME IInv, [Next]_vars
    PROVE  InsideHolds'
<1> USE ExclusiveAssumption DEF IInv, TypeOK, InsideHolds, Inside, At, Goto, vars, shared, own, output
<1>1. CASE UNCHANGED vars
  BY <1>1
<1>2. ASSUME NEW p \in Process, AttemptLock(p) PROVE InsideHolds'
  BY <1>2 DEF AttemptLock, LockFree, AfterLastAttempt
<1>3. ASSUME NEW p \in Process, Release(p) PROVE InsideHolds'
  BY <1>3 DEF Release
<1>4. ASSUME NEW p \in Process, AtExit(p) PROVE InsideHolds'
  BY <1>4 DEF AtExit
<1>5. ASSUME NEW p \in Process, Kill(p) PROVE InsideHolds'
  BY <1>5 DEF Kill
<1>6. ASSUME NEW p \in Process,
              \/ InitializeAsct(p) \/ CheckResourceCreatable(p) \/ CreateResource(p)
              \/ MakeDirs(p) \/ OpenLog(p) \/ WriteResult(p) \/ TeardownFolder(p)
              \/ DeleteResource(p) \/ ClearAsctCache(p) \/ PrepareLock(p)
              \/ Lookup(p) \/ Stat(p) \/ Setup(p) \/ Run(p) \/ WriteToCache(p)
              \/ WriteFingerprint(p) \/ Teardown(p)
       PROVE  InsideHolds'
  BY <1>6 DEF InitializeAsct, CheckResourceCreatable, CreateResource, MakeDirs,
       OpenLog, WriteResult, TeardownFolder, DeleteResource, ClearAsctCache,
       PrepareLock, Lookup, Stat, Setup, Run, WriteToCache, WriteFingerprint, Teardown,
       AfterOutput, Deletable, LockPathOK, Abort
<1> QED
  BY <1>1, <1>2, <1>3, <1>4, <1>5, <1>6 DEF Next, Step

\* At the limit the next failure is the last.
LEMMA TriesLeftNext ==
    ASSUME IInv, [Next]_vars
    PROVE  TriesLeft'
<1> USE ExclusiveAssumption DEF IInv, TypeOK, TriesLeft, Before, Inside, At, Goto, vars, shared, own, output
<1>1. CASE UNCHANGED vars
  BY <1>1
<1>2. ASSUME NEW p \in Process, AttemptLock(p) PROVE TriesLeft'
  BY <1>2 DEF AttemptLock, LockFree, AfterLastAttempt
<1>3. ASSUME NEW p \in Process,
              \/ InitializeAsct(p) \/ CheckResourceCreatable(p) \/ CreateResource(p)
              \/ MakeDirs(p) \/ OpenLog(p) \/ WriteResult(p) \/ TeardownFolder(p)
              \/ DeleteResource(p) \/ ClearAsctCache(p) \/ PrepareLock(p)
              \/ Lookup(p) \/ Stat(p) \/ Setup(p) \/ Run(p) \/ WriteToCache(p)
              \/ WriteFingerprint(p) \/ Teardown(p) \/ Release(p) \/ AtExit(p)
              \/ Kill(p)
       PROVE  TriesLeft'
  BY <1>3 DEF InitializeAsct, CheckResourceCreatable, CreateResource, MakeDirs,
       OpenLog, WriteResult, TeardownFolder, DeleteResource, ClearAsctCache,
       PrepareLock, Lookup, Stat, Setup, Run, WriteToCache, WriteFingerprint, Teardown,
       Release, AtExit, Kill, AfterOutput, Deletable, LockPathOK, Abort
<1> QED
  BY <1>1, <1>2, <1>3 DEF Next, Step

\* Setup is done once, and a skipped recipe leaves the mutex at once.
LEMMA LeftOnExitNext ==
    ASSUME IInv, [Next]_vars
    PROVE  LeftOnExit'
<1> USE DEF IInv, TypeOK, LeftOnExit, Inside, At, Goto, vars, shared, own, output
<1>1. CASE UNCHANGED vars
  BY <1>1
<1>2. ASSUME NEW p \in Process, Setup(p) PROVE LeftOnExit'
  BY <1>2 DEF Setup
<1>3. ASSUME NEW p \in Process, Kill(p) PROVE LeftOnExit'
  BY <1>3 DEF Kill
<1>4. ASSUME NEW p \in Process,
              \/ InitializeAsct(p) \/ CheckResourceCreatable(p) \/ CreateResource(p)
              \/ MakeDirs(p) \/ OpenLog(p) \/ WriteResult(p) \/ TeardownFolder(p)
              \/ DeleteResource(p) \/ ClearAsctCache(p) \/ PrepareLock(p)
              \/ AttemptLock(p) \/ Lookup(p) \/ Stat(p) \/ Run(p) \/ WriteToCache(p)
              \/ WriteFingerprint(p) \/ Teardown(p) \/ Release(p) \/ AtExit(p)
       PROVE  LeftOnExit'
  BY <1>4 DEF InitializeAsct, CheckResourceCreatable, CreateResource, MakeDirs,
       OpenLog, WriteResult, TeardownFolder, DeleteResource, ClearAsctCache,
       PrepareLock, AttemptLock, Lookup, Stat, Run, WriteToCache, WriteFingerprint,
       Teardown, Release, AtExit, AfterOutput, Deletable, LockPathOK, LockFree,
       AfterLastAttempt, Abort
<1> QED
  BY <1>1, <1>2, <1>3, <1>4 DEF Next, Step

\* Whoever is at its setup has the mutex; so the one that changed the counters
\* before it has left, and only its exit handler may have to restore them.
LEMMA OneChangeNext ==
    ASSUME IInv, [Next]_vars
    PROVE  OneChange'
<1> USE ExclusiveAssumption DEF IInv, TypeOK, InsideHolds, LeftOnExit, OneChange, OverlapLeft, Changed, Inside, At, Goto, vars, shared, own, output
<1>1. CASE UNCHANGED vars
  BY <1>1
<1>2. ASSUME NEW p \in Process, Setup(p) PROVE OneChange'
  <2> SUFFICES ASSUME ~overlap'
               PROVE  /\ \A q \in Process : Changed(q)' => machine' = q /\ saved'[q] = Free
                      /\ (kills' = 0 /\ machine' # Free) => Changed(machine)'
    BY DEF OneChange
  <2>1. machine = Free /\ ~overlap /\ machine' = p
    BY <1>2 DEF Setup
  <2>2. \A q \in Process : ~Changed(q)
    BY <2>1, ExclusiveAssumption DEF OneChange
  <2>3. pc'[p] \in {"release", "run"} /\ (pc'[p] = "release" => leftover'[p])
    BY <1>2 DEF Setup
  <2>4. saved'[p] = Free
    BY <1>2, <2>1 DEF Setup
  <2>5. \A q \in Process \ {p} : ~Changed(q)'
    BY <1>2, <2>2 DEF Setup
  <2> QED
    BY <2>1, <2>3, <2>4, <2>5
<1>3. ASSUME NEW p \in Process, Teardown(p) PROVE OneChange'
  BY <1>3 DEF Teardown
<1>4. ASSUME NEW p \in Process, TeardownFolder(p) PROVE OneChange'
  BY <1>4 DEF TeardownFolder, Deletable
<1>5. ASSUME NEW p \in Process, AtExit(p) PROVE OneChange'
  BY <1>5 DEF AtExit
<1>6. ASSUME NEW p \in Process, Kill(p) PROVE OneChange'
  BY <1>6 DEF Kill
<1>7. ASSUME NEW p \in Process,
              \/ InitializeAsct(p) \/ CheckResourceCreatable(p) \/ CreateResource(p)
              \/ MakeDirs(p) \/ OpenLog(p) \/ WriteResult(p) \/ DeleteResource(p)
              \/ ClearAsctCache(p) \/ PrepareLock(p) \/ AttemptLock(p) \/ Lookup(p)
              \/ Stat(p) \/ Run(p) \/ WriteToCache(p) \/ WriteFingerprint(p)
              \/ Release(p)
       PROVE  OneChange'
  BY <1>7 DEF InitializeAsct, CheckResourceCreatable, CreateResource, MakeDirs,
       OpenLog, WriteResult, DeleteResource, ClearAsctCache, PrepareLock, AttemptLock,
       Lookup, Stat, Run, WriteToCache, WriteFingerprint, Release, AfterOutput,
       LockPathOK, LockFree, AfterLastAttempt, Abort
<1> QED
  BY <1>1, <1>2, <1>3, <1>4, <1>5, <1>6, <1>7 DEF Next, Step

\* The first that begins with changed counters finds them so because of a
\* skipped recipe: nobody else is inside.
LEMMA OverlapLeftNext ==
    ASSUME IInv, [Next]_vars
    PROVE  OverlapLeft'
<1> USE ExclusiveAssumption DEF IInv, OverlapLeft, Inside, At, Goto, vars, shared, own, output
<1>1. CASE UNCHANGED vars
  BY <1>1
<1>2. ASSUME NEW p \in Process, Setup(p) PROVE OverlapLeft'
  <2> SUFFICES ASSUME overlap', kills' = 0 PROVE \E q \in Process : leftover'[q]
    BY DEF OverlapLeft
  <2>1. kills = 0 /\ \A q \in Process \ {p} : leftover'[q] = leftover[q]
    BY <1>2 DEF Setup
  <2>2. ~leftover[p]
    BY <1>2 DEF Setup, LeftOnExit
  <2>3. CASE overlap
    BY <2>1, <2>2, <2>3 DEF OverlapLeft
  <2>4. CASE ~overlap
    <3>1. machine \in Process /\ Changed(machine)
      BY <1>2, <2>1, <2>4 DEF Setup, OneChange, TypeOK
    <3>2. holder = p /\ machine # p
      BY <1>2, <2>2, <3>1 DEF Setup, Changed, InsideHolds
    <3>3. leftover[machine]
      BY <3>1, <3>2 DEF Changed, InsideHolds
    <3> QED
      BY <2>1, <3>1, <3>2, <3>3
  <2> QED
    BY <2>3, <2>4
<1>3. ASSUME NEW p \in Process, Kill(p) PROVE OverlapLeft'
  BY <1>3 DEF Kill, TypeOK
<1>4. ASSUME NEW p \in Process,
              \/ InitializeAsct(p) \/ CheckResourceCreatable(p) \/ CreateResource(p)
              \/ MakeDirs(p) \/ OpenLog(p) \/ WriteResult(p) \/ TeardownFolder(p)
              \/ DeleteResource(p) \/ ClearAsctCache(p) \/ PrepareLock(p)
              \/ AttemptLock(p) \/ Lookup(p) \/ Stat(p) \/ Run(p) \/ WriteToCache(p)
              \/ WriteFingerprint(p) \/ Teardown(p) \/ Release(p) \/ AtExit(p)
       PROVE  OverlapLeft'
  BY <1>4 DEF InitializeAsct, CheckResourceCreatable, CreateResource, MakeDirs,
       OpenLog, WriteResult, TeardownFolder, DeleteResource, ClearAsctCache,
       PrepareLock, AttemptLock, Lookup, Stat, Run, WriteToCache, WriteFingerprint,
       Teardown, Release, AtExit, AfterOutput, Deletable, LockPathOK, LockFree,
       AfterLastAttempt, Abort
<1> QED
  BY <1>1, <1>2, <1>3, <1>4 DEF Next, Step

\* A folder that is there is never made, so created stays FALSE.
LEMMA NotOursNext ==
    ASSUME IInv, [Next]_vars
    PROVE  NotOurs'
<1> USE DEF IInv, TypeOK, NotOurs, Inside, At, Goto, vars, shared, own, output
<1>1. CASE UNCHANGED vars
  BY <1>1
<1>2. ASSUME NEW p \in Process, CreateResource(p) PROVE NotOurs'
  BY <1>2 DEF CreateResource
<1>3. ASSUME NEW p \in Process, MakeDirs(p) PROVE NotOurs'
  BY <1>3 DEF MakeDirs
<1>4. ASSUME NEW p \in Process, OpenLog(p) PROVE NotOurs'
  BY <1>4 DEF OpenLog, AfterOutput
<1>5. ASSUME NEW p \in Process, WriteResult(p) PROVE NotOurs'
  BY <1>5 DEF WriteResult
<1>6. ASSUME NEW p \in Process, TeardownFolder(p) PROVE NotOurs'
  BY <1>6 DEF TeardownFolder, Deletable
<1>7. ASSUME NEW p \in Process, DeleteResource(p) PROVE NotOurs'
  BY <1>7 DEF DeleteResource
<1>8. ASSUME NEW p \in Process,
              \/ InitializeAsct(p) \/ CheckResourceCreatable(p) \/ ClearAsctCache(p)
              \/ PrepareLock(p) \/ AttemptLock(p) \/ Lookup(p) \/ Stat(p)
              \/ Setup(p) \/ Run(p) \/ WriteToCache(p) \/ WriteFingerprint(p)
              \/ Teardown(p) \/ Release(p) \/ AtExit(p) \/ Kill(p)
       PROVE  NotOurs'
  BY <1>8 DEF InitializeAsct, CheckResourceCreatable, ClearAsctCache, PrepareLock,
       AttemptLock, Lookup, Stat, Setup, Run, WriteToCache, WriteFingerprint, Teardown,
       Release, AtExit, Kill, AfterOutput, LockPathOK, LockFree, AfterLastAttempt, Abort
<1> QED
  BY <1>1, <1>2, <1>3, <1>4, <1>5, <1>6, <1>7, <1>8 DEF Next, Step

\* A folder becomes empty as it is made, and its maker finds it empty on exit.
LEMMA SomeoneWillDeleteNext ==
    ASSUME IInv, [Next]_vars
    PROVE  SomeoneWillDelete'
<1> USE DEF IInv, TypeOK, NotOurs, SomeoneWillDelete, Inside, At, Goto, vars, shared, own, output
<1>1. CASE UNCHANGED vars
  BY <1>1
<1>2. ASSUME NEW p \in Process, MakeDirs(p) PROVE SomeoneWillDelete'
  BY <1>2 DEF MakeDirs
<1>3. ASSUME NEW p \in Process, OpenLog(p) PROVE SomeoneWillDelete'
  BY <1>3 DEF OpenLog, AfterOutput
<1>4. ASSUME NEW p \in Process, WriteResult(p) PROVE SomeoneWillDelete'
  BY <1>4 DEF WriteResult
<1>5. ASSUME NEW p \in Process, TeardownFolder(p) PROVE SomeoneWillDelete'
  BY <1>5 DEF TeardownFolder, Deletable
<1>6. ASSUME NEW p \in Process, DeleteResource(p) PROVE SomeoneWillDelete'
  BY <1>6 DEF DeleteResource
<1>7. ASSUME NEW p \in Process, Kill(p) PROVE SomeoneWillDelete'
  BY <1>7 DEF Kill
<1>8. ASSUME NEW p \in Process,
              \/ InitializeAsct(p) \/ CheckResourceCreatable(p) \/ CreateResource(p)
              \/ ClearAsctCache(p) \/ PrepareLock(p) \/ AttemptLock(p) \/ Lookup(p)
              \/ Stat(p) \/ Setup(p) \/ Run(p) \/ WriteToCache(p) \/ WriteFingerprint(p)
              \/ Teardown(p) \/ Release(p) \/ AtExit(p)
       PROVE  SomeoneWillDelete'
  BY <1>8 DEF InitializeAsct, CheckResourceCreatable, CreateResource, ClearAsctCache,
       PrepareLock, AttemptLock, Lookup, Stat, Setup, Run, WriteToCache,
       WriteFingerprint, Teardown, Release, AtExit, AfterOutput, LockPathOK, LockFree,
       AfterLastAttempt, Abort
<1> QED
  BY <1>1, <1>2, <1>3, <1>4, <1>5, <1>6, <1>7, <1>8 DEF Next, Step

\* The cache is written by the one inside, and cleared by anyone.
LEMMA GoneIfDisturbedNext ==
    ASSUME IInv, [Next]_vars
    PROVE  GoneIfDisturbed'
<1> USE DEF IInv, TypeOK, InsideHolds, GoneIfDisturbed, Inside, At, Goto, vars, shared, own, output
<1>1. CASE UNCHANGED vars
  BY <1>1
<1>2. ASSUME NEW p \in Process, ClearAsctCache(p) PROVE GoneIfDisturbed'
  BY <1>2 DEF ClearAsctCache
<1>3. ASSUME NEW p \in Process, Lookup(p) PROVE GoneIfDisturbed'
  BY <1>3 DEF Lookup
<1>4. ASSUME NEW p \in Process, WriteToCache(p) PROVE GoneIfDisturbed'
  BY <1>4 DEF WriteToCache, Abort
<1>5. ASSUME NEW p \in Process, WriteFingerprint(p) PROVE GoneIfDisturbed'
  BY <1>5 DEF WriteFingerprint, Abort
<1>6. ASSUME NEW p \in Process,
              \/ InitializeAsct(p) \/ CheckResourceCreatable(p) \/ CreateResource(p)
              \/ MakeDirs(p) \/ OpenLog(p) \/ WriteResult(p) \/ TeardownFolder(p)
              \/ DeleteResource(p) \/ PrepareLock(p) \/ AttemptLock(p) \/ Stat(p)
              \/ Setup(p) \/ Run(p) \/ Teardown(p) \/ Release(p) \/ AtExit(p)
              \/ Kill(p)
       PROVE  GoneIfDisturbed'
  BY <1>6 DEF InitializeAsct, CheckResourceCreatable, CreateResource, MakeDirs,
       OpenLog, WriteResult, TeardownFolder, DeleteResource, PrepareLock, AttemptLock,
       Stat, Setup, Run, Teardown, Release, AtExit, Kill, AfterOutput, Deletable,
       LockPathOK, LockFree, AfterLastAttempt, Abort
<1> QED
  BY <1>1, <1>2, <1>3, <1>4, <1>5, <1>6 DEF Next, Step

\* A run is ended where it looks at the file again.
LEMMA AbortsOnlyIfDisturbedNext ==
    ASSUME IInv, [Next]_vars
    PROVE  AbortsOnlyIfDisturbed'
<1> USE DEF IInv, TypeOK, GoneIfDisturbed, AbortsOnlyIfDisturbed, Inside, At, Goto, vars, shared, own, output
<1>1. CASE UNCHANGED vars
  BY <1>1
<1>2. ASSUME NEW p \in Process, ClearAsctCache(p) PROVE AbortsOnlyIfDisturbed'
  BY <1>2 DEF ClearAsctCache
<1>3. ASSUME NEW p \in Process, Stat(p) PROVE AbortsOnlyIfDisturbed'
  BY <1>3 DEF Stat, Abort
<1>4. ASSUME NEW p \in Process, WriteToCache(p) PROVE AbortsOnlyIfDisturbed'
  BY <1>4 DEF WriteToCache, Abort
<1>5. ASSUME NEW p \in Process, WriteFingerprint(p) PROVE AbortsOnlyIfDisturbed'
  BY <1>5 DEF WriteFingerprint, Abort
<1>6. ASSUME NEW p \in Process,
              \/ InitializeAsct(p) \/ CheckResourceCreatable(p) \/ CreateResource(p)
              \/ MakeDirs(p) \/ OpenLog(p) \/ WriteResult(p) \/ TeardownFolder(p)
              \/ DeleteResource(p) \/ PrepareLock(p) \/ AttemptLock(p) \/ Lookup(p)
              \/ Setup(p) \/ Run(p) \/ Teardown(p) \/ Release(p) \/ AtExit(p)
              \/ Kill(p)
       PROVE  AbortsOnlyIfDisturbed'
  BY <1>6 DEF InitializeAsct, CheckResourceCreatable, CreateResource, MakeDirs,
       OpenLog, WriteResult, TeardownFolder, DeleteResource, PrepareLock, AttemptLock,
       Lookup, Setup, Run, Teardown, Release, AtExit, Kill, AfterOutput, Deletable,
       LockPathOK, LockFree, AfterLastAttempt
<1> QED
  BY <1>1, <1>2, <1>3, <1>4, <1>5, <1>6 DEF Next, Step

LEMMA InitIInv == Init => IInv
<1> SUFFICES ASSUME Init PROVE IInv
  OBVIOUS
<1> USE ExclusiveAssumption DEF Init
<1>1. TypeOK
  <2>1. folder \in {"none", "empty", "files"}
    BY Zenon
  <2>2. /\ clears \in [Process -> BOOLEAN] /\ leftover \in [Process -> BOOLEAN]
        /\ aborted \in [Process -> BOOLEAN] /\ disturbed \in [Process -> BOOLEAN]
        /\ created \in [Process -> BOOLEAN]
        /\ overlap \in BOOLEAN /\ existed \in BOOLEAN
    OBVIOUS
  <2>3. /\ pc \in [Process -> Inside \cup {"off", "output", "create", "makedirs", "log", "clear", "prepare",
                                           "lock", "exit", "rmtree", "restore", "done", "dead"}]
        /\ fd \in [Process -> {0, 3}]
        /\ lockPath \in {"missing", "directory", "file"}
        /\ holder \in Process \cup {Free}
        /\ tries \in [Process -> 0..(RetryCount + 1)]
        /\ machine \in Process \cup {Free}
        /\ saved \in [Process -> Process \cup {Free}]
        /\ cache \in {"none", "data", "printed"}
        /\ kills \in 0..MaxKills
    OBVIOUS
  <2> QED
    BY <2>1, <2>2, <2>3 DEF TypeOK
<1>2. InsideHolds /\ TriesLeft
  BY DEF InsideHolds, Inside, TriesLeft
<1>3. LeftOnExit /\ OneChange /\ OverlapLeft
  BY DEF LeftOnExit, OneChange, OverlapLeft, Changed
<1>4. NotOurs /\ SomeoneWillDelete
  BY DEF NotOurs, SomeoneWillDelete
<1>5. GoneIfDisturbed /\ AbortsOnlyIfDisturbed
  BY DEF GoneIfDisturbed, AbortsOnlyIfDisturbed
<1> QED
  BY <1>1, <1>2, <1>3, <1>4, <1>5 DEF IInv

(* The inductive invariant holds in every state, for any number of             *)
(* invocations and whoever is killed.                                          *)
THEOREM Invariance == Spec => []IInv
<1>1. Init => IInv
  BY InitIInv
<1>2. IInv /\ [Next]_vars => IInv'
  BY TypeOKNext, InsideHoldsNext, TriesLeftNext, LeftOnExitNext, OneChangeNext, OverlapLeftNext,
     NotOursNext, SomeoneWillDeleteNext, GoneIfDisturbedNext, AbortsOnlyIfDisturbedNext
  DEF IInv
<1> QED
  BY <1>1, <1>2, PTL DEF Spec

(* When every invocation has ended and none was killed, the counters are the   *)
(* original ones, unless one began while the exit handler of a skipped recipe  *)
(* had yet to restore them; a folder that was there before is never deleted,   *)
(* and an empty one that asct made is gone again.                              *)
THEOREM LeavesMachineAsBefore == Spec => []MachineAsBefore
<1>1. IInv => MachineAsBefore
  <2> SUFFICES ASSUME IInv PROVE MachineAsBefore
    OBVIOUS
  <2>1. CountersRestored
    BY ExclusiveAssumption DEF IInv, TypeOK, CountersRestored, OneChange, OverlapLeft, Changed
  <2>2. FolderAsBefore
    BY DEF IInv, TypeOK, FolderAsBefore, NotOurs, SomeoneWillDelete
  <2> QED
    BY <2>1, <2>2 DEF IInv, MachineAsBefore
<1> QED
  BY <1>1, Invariance, PTL

(* A run is ended by a missing cache file only if its own write failed or the  *)
(* cache was cleared while it was inside the mutex.                            *)
THEOREM AbortsAreDisturbances == Spec => []AbortsOnlyIfDisturbed
<1>1. IInv => AbortsOnlyIfDisturbed
  BY DEF IInv
<1> QED
  BY <1>1, Invariance, PTL

(* Nobody gives up on the mutex without a reason: another one has it, its own  *)
(* descriptor is 0, or the path of the lock is a file.                         *)
THEOREM RefusalsHaveReasons == Spec => RefusedIfBusy
<1> DEFINE Refused(p) == (pc[p] \in {"prepare", "lock"} /\ pc'[p] = "exit")
                         => holder # Free \/ fd[p] = 0 \/ lockPath = "file"
<1>1. IInv /\ [Next]_vars => [\A p \in Process : Refused(p)]_vars
  <2> SUFFICES ASSUME IInv, NEW q \in Process, Step(q) \/ Kill(q), NEW p \in Process
               PROVE  Refused(p)
    BY DEF Next
  <2> USE DEF IInv, TypeOK, Inside, At, Goto
  <2>1. CASE p # q
    BY <2>1 DEF Step, InitializeAsct, CheckResourceCreatable, CreateResource, MakeDirs, OpenLog, WriteResult,
       TeardownFolder, DeleteResource, ClearAsctCache, PrepareLock, AttemptLock, Lookup, Stat, Setup, Run,
       WriteToCache, WriteFingerprint, Teardown, Release, AtExit, Kill, Abort
  <2>2. CASE p = q /\ PrepareLock(q)
    BY <2>2 DEF PrepareLock, LockPathOK
  <2>3. CASE p = q /\ AttemptLock(q)
    BY <2>3 DEF AttemptLock, LockFree
  <2>4. CASE p = q /\ Kill(q)
    BY <2>4 DEF Kill
  <2>5. CASE p = q /\ ~PrepareLock(q) /\ ~AttemptLock(q) /\ ~Kill(q)
    BY <2>5 DEF Step, InitializeAsct, CheckResourceCreatable, CreateResource, MakeDirs, OpenLog, WriteResult,
       TeardownFolder, DeleteResource, ClearAsctCache, Lookup, Stat, Setup, Run,
       WriteToCache, WriteFingerprint, Teardown, Release, AtExit
  <2> QED
    BY <2>1, <2>2, <2>3, <2>4, <2>5
<1> QED
  BY <1>1, Invariance, PTL DEF Spec, RefusedIfBusy

----------------------------------------------------------------------------
(* The refinement of RunLock *)

\* The abstract state, named.
Owner == IF holder # Free /\ pc[holder] \in Inside THEN holder ELSE Free

Where == [p \in Process |->
             CASE pc[p] \in {"off", "output", "create", "makedirs", "log", "clear", "prepare"} -> "out"
               [] pc[p] = "lock"    -> "asking"
               [] pc[p] \in Inside  -> "inside"
               [] OTHER             -> "gone"]

LEMMA WhereType == Where \in [Process -> {"out", "asking", "inside", "gone"}]
  BY DEF Where

\* Who is inside is the owner.
OwnerFits ==
    /\ Owner \in Process \cup {Free}
    /\ \A p \in Process : (Owner = p) <=> (Where[p] = "inside")

LEMMA OwnerInside == IInv => OwnerFits
<1> SUFFICES ASSUME IInv PROVE OwnerFits
  OBVIOUS
<1>1. \A p \in Process : (Owner = p) <=> (pc[p] \in Inside)
  BY ExclusiveAssumption DEF IInv, TypeOK, InsideHolds, Owner
<1>2. \A p \in Process : (pc[p] \in Inside) <=> (Where[p] = "inside")
  BY DEF Where, Inside
<1> QED
  BY <1>1, <1>2 DEF IInv, TypeOK, Owner, OwnerFits

\* A step of one process moves that process only: it asks, is let in when
\* nobody has the flock, or is gone.
LEMMA OneMoves ==
    ASSUME IInv, NEW p \in Process, Step(p) \/ Kill(p)
    PROVE  /\ Where' = [Where EXCEPT ![p] = Where'[p]]
           /\ \/ Where'[p] = Where[p]
              \/ Where[p] = "out" /\ Where'[p] = "asking"
              \/ Where[p] = "asking" /\ Where'[p] = "inside" /\ holder = Free
              \/ Where[p] # "gone" /\ Where'[p] = "gone"
<1>1. pc' = [pc EXCEPT ![p] = pc'[p]]
  BY DEF IInv, TypeOK, Inside, At, Goto, Step, InitializeAsct, CheckResourceCreatable, CreateResource, MakeDirs,
     OpenLog, WriteResult, TeardownFolder, DeleteResource, ClearAsctCache, PrepareLock, AttemptLock, Lookup,
     Stat, Setup, Run, WriteToCache, WriteFingerprint, Teardown, Release, AtExit, Kill, Abort
<1>2. Where' = [Where EXCEPT ![p] = Where'[p]]
  <2>1. \A q \in Process \ {p} : pc'[q] = pc[q]
    BY <1>1 DEF IInv, TypeOK
  <2>2. \A q \in Process \ {p} : Where'[q] = Where[q]
    BY <2>1 DEF Where
  <2>3. Where' \in [Process -> {"out", "asking", "inside", "gone"}]
    BY DEF Where
  <2> QED
    BY <2>2, <2>3, WhereType
<1>3. CASE AttemptLock(p)
  BY <1>2, <1>3 DEF AttemptLock, LockFree, AfterLastAttempt, Where, Inside, At, Goto, IInv, TypeOK
<1>4. CASE ~AttemptLock(p)
  BY <1>2, <1>4
  DEF IInv, TypeOK, Where, Inside, At, Goto, Step, InitializeAsct, AfterOutput, CheckResourceCreatable,
      CreateResource, MakeDirs, OpenLog, WriteResult, TeardownFolder, DeleteResource, ClearAsctCache, PrepareLock,
      Lookup, Stat, Setup, Run, WriteToCache, WriteFingerprint, Teardown, Release, AtExit, Kill, Abort
<1> QED
  BY <1>3, <1>4

\* Every step of an invocation is a step of the lock, or leaves it alone.
LEMMA LockStep ==
    ASSUME IInv, IInv', [Next]_vars
    PROVE  [Lock!Next]_(Lock!lockVars)
<1>1. CASE UNCHANGED vars
  BY <1>1 DEF vars, shared, own, output, Lock!lockVars
<1>2. ASSUME NEW p \in Process, Step(p) \/ Kill(p)
      PROVE  Lock!Next \/ UNCHANGED Lock!lockVars
  <2> USE ExclusiveAssumption
  <2>1. OwnerFits
    BY OwnerInside
  <2>2. OwnerFits'
    BY OwnerInside, PTL
  <2>3. /\ Where \in [Process -> {"out", "asking", "inside", "gone"}]
        /\ Where' = [Where EXCEPT ![p] = Where'[p]]
    BY <1>2, OneMoves, WhereType
  <2>4. CASE Where'[p] = Where[p]
    <3>1. Where' = Where
      BY <2>3, <2>4
    <3>2. Owner' = Owner
      BY <2>1, <2>2, <3>1 DEF OwnerFits
    <3> QED
      BY <3>1, <3>2 DEF Lock!lockVars, Owner, Where
  <2>5. CASE Where[p] = "out" /\ Where'[p] = "asking"
    <3>1. Owner' = Owner
      BY <2>1, <2>2, <2>3, <2>5 DEF OwnerFits
    <3>2. Lock!Ask(p)
      BY <2>3, <2>5, <3>1 DEF Lock!Ask, Owner, Where
    <3> QED
      BY <3>2 DEF Lock!Next
  <2>6. CASE Where[p] = "asking" /\ Where'[p] = "inside" /\ holder = Free
    <3>1. Owner = Free /\ Owner' = p
      BY <2>2, <2>6 DEF Owner, OwnerFits
    <3>2. Lock!Enter(p)
      BY <2>3, <2>6, <3>1 DEF Lock!Enter, Owner, Where
    <3> QED
      BY <3>2 DEF Lock!Next
  <2>7. CASE Where[p] # "gone" /\ Where'[p] = "gone"
    <3>1. Owner' = IF Owner = p THEN Free ELSE Owner
      BY <2>1, <2>2, <2>3, <2>7 DEF OwnerFits
    <3>2. Lock!Leave(p)
      BY <2>3, <2>7, <3>1 DEF Lock!Leave, Owner, Where
    <3> QED
      BY <3>2 DEF Lock!Next
  <2> QED
    BY <1>2, <2>4, <2>5, <2>6, <2>7, OneMoves
<1> QED
  BY <1>1, <1>2 DEF Next

(* Any number of invocations, killed at any step, implement the lock they rely *)
(* on: flock with retries lets one in when nobody is inside or refuses it.     *)
THEOREM RefinesRunLock == Spec => ImplementsLock
<1>1. Init => Lock!Init
  BY ExclusiveAssumption DEF Init, Lock!Init, Inside
<1>2. IInv /\ IInv' /\ [Next]_vars => [Lock!Next]_(Lock!lockVars)
  BY LockStep
<1> QED
  BY <1>1, <1>2, Invariance, PTL DEF Spec, ImplementsLock, Lock!Spec

(* The body of the with statement has one invocation in it at most, and it is  *)
(* the one the lock was given to.                                              *)
THEOREM MutualExclusion == Spec => []Lock!OneInside
<1>1. IInv => Lock!OneInside
  BY OwnerInside DEF Lock!OneInside, Owner, Where, OwnerFits
<1> QED
  BY <1>1, Invariance, PTL

----------------------------------------------------------------------------
(* RunRequest: sorting *)

\* A strict total order of a set, as pairs.
Orders(before, S) ==
    /\ \A n \in S : <<n, n>> \notin before
    /\ \A m, n \in S : m # n => <<m, n>> \in before \/ <<n, m>> \in before
    /\ \A k, m, n \in S : <<k, m>> \in before /\ <<m, n>> \in before => <<k, n>> \in before

\* What InOrder lists, of such an order.
Sort(S, before) ==
    [j \in 1 .. Cardinality(S) |-> CHOOSE c \in S : Cardinality({d \in S : <<d, c>> \in before}) = j - 1]

\* The list holds the members of the set, in this order.
SortedBy(list, S, before) ==
    /\ list \in Seq(S)
    /\ Len(list) = Cardinality(S)
    /\ DOMAIN list = 1 .. Cardinality(S)
    /\ Range(list) = S
    /\ \A n \in S : \E j \in 1 .. Cardinality(S) : list[j] = n
    /\ \A j, l \in 1 .. Cardinality(S) : <<list[j], list[l]>> \in before <=> j < l

LEMMA FirstNumbers ==
    ASSUME NEW k \in Nat
    PROVE  IsFiniteSet(1 .. k) /\ Cardinality(1 .. k) = k
<1>1. IsFiniteSet(1 .. k) /\ Cardinality(1 .. k) = IF 1 > k THEN 0 ELSE k - 1 + 1
  BY FS_Interval, SMT
<1> QED
  BY <1>1

\* The members of a finite set have places in such an order.
LEMMA OrderPlaces ==
    ASSUME NEW S, NEW before, IsFiniteSet(S), Orders(before, S)
    PROVE  \E place \in [S -> 1 .. Cardinality(S)] :
               /\ \A k \in 1 .. Cardinality(S) : \E c \in S : place[c] = k
               /\ \A c, e \in S : place[c] = place[e] => c = e
               /\ \A c, e \in S : <<c, e>> \in before => place[c] < place[e]
               /\ \A c \in S : \A k \in 1 .. Cardinality(S) :
                      Cardinality({d \in S : <<d, c>> \in before}) = k - 1 <=> place[c] = k
<1> DEFINE First(c) == {d \in S : <<d, c>> \in before}
           n == Cardinality(S)
           place == [c \in S |-> Cardinality(First(c)) + 1]
<1> HIDE DEF First
<1>0. n \in Nat
  BY FS_CardinalityType
<1>1. ASSUME NEW c \in S
      PROVE  IsFiniteSet(First(c)) /\ Cardinality(First(c)) \in 0 .. n - 1
  <2>1. First(c) \in SUBSET S /\ First(c) # S
    BY DEF Orders, First
  <2>2. IsFiniteSet(First(c)) /\ Cardinality(First(c)) <= n /\ Cardinality(First(c)) # n
    BY <2>1, FS_Subset
  <2>3. Cardinality(First(c)) \in Nat
    BY <2>2, FS_CardinalityType
  <2> QED
    BY <1>0, <2>2, <2>3
<1>2. ASSUME NEW c \in S, NEW e \in S, <<c, e>> \in before
      PROVE  Cardinality(First(c)) < Cardinality(First(e))
  <2>1. First(c) \in SUBSET First(e) /\ First(c) # First(e)
    <3>1. \A d \in S : <<d, c>> \in before => <<d, e>> \in before
      BY <1>2 DEF Orders, First
    <3>2. c \in First(e) /\ c \notin First(c)
      BY <1>2 DEF Orders, First
    <3> QED
      BY <3>1, <3>2 DEF First
  <2>2. IsFiniteSet(First(e)) /\ Cardinality(First(e)) \in Nat /\ Cardinality(First(c)) \in Nat
    BY <1>0, <1>1
  <2>3. Cardinality(First(c)) <= Cardinality(First(e)) /\ Cardinality(First(c)) # Cardinality(First(e))
    BY <2>1, <2>2, FS_Subset
  <2> QED
    BY <2>2, <2>3
<1>3. \A c, e \in S : place[c] = place[e] => c = e
  <2> SUFFICES ASSUME NEW c \in S, NEW e \in S, c # e PROVE place[c] # place[e]
    OBVIOUS
  <2>1. <<c, e>> \in before \/ <<e, c>> \in before
    BY DEF Orders
  <2>2. Cardinality(First(c)) \in Nat /\ Cardinality(First(e)) \in Nat /\ Cardinality(First(c)) # Cardinality(First(e))
    BY <1>0, <1>1, <1>2, <2>1
  <2> QED
    BY <2>2
<1>4. place \in [S -> 1 .. n]
  BY <1>0, <1>1
<1>5. \A k \in 1 .. n : \E c \in S : place[c] = k
  <2>1. place \in Injection(S, 1 .. n)
    BY <1>3, <1>4 DEF Injection, IsInjective
  <2>2. IsFiniteSet(1 .. n) /\ Cardinality(1 .. n) = n
    BY <1>0, FS_Interval
  <2>3. place \in Surjection(S, 1 .. n)
    BY <2>1, <2>2, FS_Injection
  <2> QED
    BY <2>3 DEF Surjection
<1>6. \A c \in S : \A k \in 1 .. n : Cardinality(First(c)) = k - 1 <=> place[c] = k
  BY <1>1
<1>7. \A c, e \in S : <<c, e>> \in before => place[c] < place[e]
  <2> SUFFICES ASSUME NEW c \in S, NEW e \in S, <<c, e>> \in before PROVE place[c] < place[e]
    OBVIOUS
  <2>1. Cardinality(First(c)) \in Nat /\ Cardinality(First(e)) \in Nat /\ Cardinality(First(c)) < Cardinality(First(e))
    BY <1>0, <1>1, <1>2
  <2> QED
    BY <2>1
<1> HIDE DEF place
<1> QED
  BY <1>3, <1>4, <1>5, <1>6, <1>7 DEF First

\* InOrder sorts.
LEMMA OrderSorts ==
    ASSUME NEW S, NEW before, IsFiniteSet(S), Orders(before, S)
    PROVE  SortedBy(Sort(S, before), S, before)
<1> DEFINE First(c) == {d \in S : <<d, c>> \in before}
           n == Cardinality(S)
           list == [j \in 1 .. n |-> CHOOSE c \in S : Cardinality(First(c)) = j - 1]
<1>0. n \in Nat
  BY FS_CardinalityType
<1>1. PICK place \in [S -> 1 .. n] :
          /\ \A k \in 1 .. n : \E c \in S : place[c] = k
          /\ \A c, e \in S : place[c] = place[e] => c = e
          /\ \A c, e \in S : <<c, e>> \in before => place[c] < place[e]
          /\ \A c \in S : \A k \in 1 .. n : Cardinality(First(c)) = k - 1 <=> place[c] = k
  BY OrderPlaces
<1> HIDE DEF First, n
<1>2. ASSUME NEW k \in 1 .. n PROVE list[k] \in S /\ place[list[k]] = k
  <2> DEFINE Here(c) == Cardinality(First(c)) = k - 1
  <2>1. \E c \in S : Here(c)
    BY <1>1
  <2>2. list[k] = CHOOSE c \in S : Here(c)
    OBVIOUS
  <2>3. list[k] \in S /\ Here(list[k])
    <3> HIDE DEF Here, list
    <3> QED
      BY <2>1, <2>2
  <2> QED
    BY <1>1, <2>3
<1>3. DOMAIN list = 1 .. n /\ list \in [1 .. n -> S]
  BY <1>2
<1> HIDE DEF list
<1>4. list \in Seq(S) /\ Len(list) = n
  <2>1. list \in Seq(S)
    BY <1>0, <1>3, SeqDef
  <2> QED
    BY <1>0, <1>3, <2>1, LenProperties
<1>5. \A c \in S : place[c] \in 1 .. n /\ list[place[c]] = c
  BY <1>1, <1>2
<1>6. Range(list) = S
  BY <1>2, <1>3, <1>5 DEF Range
<1>7. ASSUME NEW j \in 1 .. n, NEW l \in 1 .. n PROVE <<list[j], list[l]>> \in before <=> j < l
  <2>1. list[j] \in S /\ list[l] \in S /\ place[list[j]] = j /\ place[list[l]] = l
    BY <1>2
  <2>2. CASE list[j] = list[l]
    <3>1. j = l
      BY <2>1, <2>2
    <3> QED
      BY <1>0, <2>1, <2>2, <3>1 DEF Orders
  <2>3. CASE list[j] # list[l]
    <3>1. <<list[j], list[l]>> \in before \/ <<list[l], list[j]>> \in before
      BY <2>1, <2>3 DEF Orders
    <3>2. <<list[j], list[l]>> \in before => j < l
      BY <1>1, <2>1
    <3>3. <<list[l], list[j]>> \in before => l < j
      BY <1>1, <2>1
    <3> QED
      BY <1>0, <3>1, <3>2, <3>3
  <2> QED
    BY <2>2, <2>3
<1>8. Sort(S, before) = list
  BY DEF Sort, list, n, First
<1> QED
  BY <1>3, <1>4, <1>5, <1>6, <1>7, <1>8 DEF SortedBy, n

\* The numbers of a list's places, in order.
\* Nothing is listed twice.
LEMMA SortedOnce ==
    ASSUME NEW S, NEW before, Orders(before, S), NEW list, SortedBy(list, S, before)
    PROVE  \A j, l \in DOMAIN list : list[j] = list[l] => j = l
<1> SUFFICES ASSUME NEW j \in DOMAIN list, NEW l \in DOMAIN list, list[j] = list[l] PROVE j = l
  OBVIOUS
<1>1. /\ j \in 1 .. Cardinality(S) /\ l \in 1 .. Cardinality(S)
      /\ list[j] \in S /\ list[l] \in S
  BY DEF SortedBy, Range
<1>2. ~(j < l) /\ ~(l < j)
  BY <1>1 DEF SortedBy, Orders
<1> QED
  BY <1>1, <1>2

LEMMA PlacesSorted ==
    ASSUME NEW P, P \subseteq Nat, IsFiniteSet(P)
    PROVE  SortedBy(InOrder(P, Less), P, {p \in P \X P : p[1] < p[2]})
<1> DEFINE before == {p \in P \X P : p[1] < p[2]}
<1>1. Orders(before, P)
  BY DEF Orders
<1>2. \A c \in P : {d \in P : Less(d, c)} = {d \in P : <<d, c>> \in before}
  BY DEF Less
<1>3. InOrder(P, Less) = Sort(P, before)
  <2>1. \A j \in 1 .. Cardinality(P) :
            (CHOOSE c \in P : Cardinality({d \in P : Less(d, c)}) = j - 1)
            = (CHOOSE c \in P : Cardinality({d \in P : <<d, c>> \in before}) = j - 1)
    BY <1>2
  <2>2. InOrder(P, Less) = [j \in 1 .. Cardinality(P) |->
                               CHOOSE c \in P : Cardinality({d \in P : Less(d, c)}) = j - 1]
    BY DEF InOrder
  <2> QED
    BY <2>1, <2>2, Zenon DEF Sort
<1> HIDE DEF before
<1>4. SortedBy(InOrder(P, Less), P, before)
  BY <1>1, <1>3, OrderSorts
<1> QED
  BY <1>4 DEF before

\* A set of numbers has a first one.
LEMMA FirstNumber ==
    ASSUME NEW P, P \subseteq Nat, P # {}
    PROVE  \E p \in P : \A q \in P : p <= q
<1>1. PICK top \in P : TRUE
  OBVIOUS
<1> DEFINE Q == {q \in P : q <= top}
           first == InOrder(Q, Less)
<1>2. Q \subseteq 0 .. top /\ top \in Nat /\ Q \subseteq Nat /\ top \in Q
  <2>1. top \in Nat /\ top \in P
    BY <1>1
  <2>2. \A q \in Q : q \in Nat /\ q \in 0 .. top
    BY <2>1
  <2>3. top \in Q
    BY <2>1
  <2> HIDE DEF Q
  <2> QED
    BY <2>1, <2>2, <2>3
<1>3. IsFiniteSet(Q)
  <2>1. IsFiniteSet(0 .. top)
    BY <1>2, FS_Interval
  <2> QED
    BY <1>2, <2>1, FS_Subset
<1>4. SortedBy(first, Q, {p \in Q \X Q : p[1] < p[2]})
  BY <1>2, <1>3, PlacesSorted
<1> HIDE DEF first
<1>5. Cardinality(Q) \in Nat /\ Cardinality(Q) # 0
  BY <1>2, <1>3, FS_CardinalityType, FS_EmptySet
<1>6. first[1] \in Q /\ \A q \in Q : first[1] <= q
  <2>1. 1 \in 1 .. Cardinality(Q) /\ first[1] \in Q
    <3>1. 1 \in 1 .. Cardinality(Q)
      BY <1>5
    <3> QED
      BY <1>4, <3>1 DEF SortedBy, Range
  <2>2. ASSUME NEW q \in Q PROVE first[1] <= q
    <3>1. PICK j \in 1 .. Cardinality(Q) : first[j] = q
      BY <1>4 DEF SortedBy
    <3>2. j = 1 \/ 1 < j
      BY <1>5
    <3>3. 1 < j => first[1] < first[j]
      <4>1. <<first[1], first[j]>> \in {p \in Q \X Q : p[1] < p[2]} <=> 1 < j
        BY <1>4, <2>1 DEF SortedBy
      <4> QED
        BY <4>1
    <3> QED
      BY <1>2, <2>1, <3>1, <3>2, <3>3
  <2> QED
    BY <2>1, <2>2
<1> QED
  BY <1>2, <1>6

\* The part of a list that is in a set keeps its order.
LEMMA ListedSorts ==
    ASSUME NEW X, NEW list \in Seq(X), NEW names
    PROVE  LET P == {j \in DOMAIN list : list[j] \in names}
               part == Listed(names, list)
           IN /\ part \in Seq(X)
              /\ Len(part) <= Len(list)
              /\ Range(part) = Range(list) \cap names
              /\ DOMAIN part = 1 .. Len(part)
              /\ \A a, b \in DOMAIN part : a < b =>
                     \E j, l \in DOMAIN list : j < l /\ part[a] = list[j] /\ part[b] = list[l]
              /\ (\A j, l \in DOMAIN list : list[j] = list[l] => j = l)
                 => \A a, b \in DOMAIN part : part[a] = part[b] => a = b
<1> DEFINE P == {j \in DOMAIN list : list[j] \in names}
           places == InOrder(P, Less)
           part == Listed(names, list)
           n == Cardinality(P)
<1>1. Len(list) \in Nat /\ DOMAIN list = 1 .. Len(list) /\ \A j \in DOMAIN list : list[j] \in X
  BY LenProperties
<1>2. P \subseteq 1 .. Len(list) /\ P \subseteq Nat
  BY <1>1
<1>3. IsFiniteSet(1 .. Len(list)) /\ Cardinality(1 .. Len(list)) = Len(list)
  BY <1>1, FS_Interval
<1>4. IsFiniteSet(P) /\ n \in Nat /\ n <= Len(list)
  BY <1>1, <1>2, <1>3, FS_Subset, FS_CardinalityType
<1>5. part = [a \in DOMAIN places |-> list[places[a]]]
  BY DEF Listed
<1> HIDE DEF part, places
<1>6. SortedBy(places, P, {p \in P \X P : p[1] < p[2]})
  BY <1>2, <1>4, PlacesSorted DEF places
<1> HIDE DEF n
<1>7. /\ DOMAIN places = 1 .. n
      /\ \A a \in 1 .. n : places[a] \in P
      /\ \A j \in P : \E a \in 1 .. n : places[a] = j
      /\ \A a, b \in 1 .. n : a < b => places[a] < places[b]
  <2>1. \A a \in 1 .. n : places[a] \in P
    BY <1>6 DEF SortedBy, Range, n
  <2>2. \A a, b \in 1 .. n : <<places[a], places[b]>> \in {p \in P \X P : p[1] < p[2]} <=> a < b
    BY <1>6 DEF SortedBy, n
  <2>3. \A a, b \in 1 .. n : a < b => places[a] < places[b]
    BY <2>1, <2>2
  <2> QED
    BY <1>6, <2>1, <2>3 DEF SortedBy, n
<1>8. part \in [1 .. n -> X]
  BY <1>1, <1>5, <1>7
<1>9. part \in Seq(X) /\ Len(part) = n /\ DOMAIN part = 1 .. n
  <2>1. part \in Seq(X)
    BY <1>4, <1>8, SeqDef
  <2> QED
    BY <1>4, <1>8, <2>1, LenProperties
<1>10. Range(part) = Range(list) \cap names
  <2>1. ASSUME NEW x \in Range(part) PROVE x \in Range(list) \cap names
    <3>1. PICK a \in 1 .. n : x = part[a]
      BY <1>9 DEF Range
    <3> QED
      BY <1>5, <1>7, <3>1 DEF Range
  <2>2. ASSUME NEW x \in Range(list) \cap names PROVE x \in Range(part)
    <3>1. PICK j \in DOMAIN list : x = list[j]
      BY DEF Range
    <3>2. PICK a \in 1 .. n : places[a] = j
      BY <1>7, <3>1
    <3> QED
      BY <1>5, <1>7, <1>9, <3>1, <3>2 DEF Range
  <2> QED
    BY <2>1, <2>2
<1>11. \A a, b \in DOMAIN part : a < b => \E j, l \in DOMAIN list : j < l /\ part[a] = list[j] /\ part[b] = list[l]
  <2> SUFFICES ASSUME NEW a \in DOMAIN part, NEW b \in DOMAIN part, a < b
               PROVE  \E j, l \in DOMAIN list : j < l /\ part[a] = list[j] /\ part[b] = list[l]
    OBVIOUS
  <2>1. places[a] \in DOMAIN list /\ places[b] \in DOMAIN list /\ places[a] < places[b]
    BY <1>7, <1>9
  <2>2. part[a] = list[places[a]] /\ part[b] = list[places[b]]
    BY <1>5, <1>7, <1>9
  <2> QED
    BY <2>1, <2>2
<1>12. ASSUME \A j, l \in DOMAIN list : list[j] = list[l] => j = l,
              NEW a \in DOMAIN part, NEW b \in DOMAIN part, part[a] = part[b]
       PROVE  a = b
  <2>1. a \in 1 .. n /\ b \in 1 .. n
    BY <1>9
  <2>2. ASSUME NEW c \in 1 .. n, NEW d \in 1 .. n, c < d, part[c] = part[d] PROVE FALSE
    <3>1. \E j, l \in DOMAIN list : j < l /\ part[c] = list[j] /\ part[d] = list[l]
      BY <1>9, <1>11, <2>2
    <3>2. PICK j \in DOMAIN list, l \in DOMAIN list : j < l /\ part[c] = list[j] /\ part[d] = list[l]
      BY <3>1
    <3>3. j = l
      BY <1>12, <2>2, <3>2
    <3> QED
      BY <1>1, <3>2, <3>3
  <2> QED
    BY <1>4, <1>12, <2>1, <2>2
<1> QED
  BY <1>4, <1>9, <1>10, <1>11, <1>12 DEF part

\* Every recipe has a place in the alphabet, of its own.
LEMMA AlphabetPlaces ==
    /\ \A n \in RecipeNames : Place[n] \in Nat
    /\ \A m, n \in RecipeNames : Place[m] = Place[n] => m = n
    /\ IsFiniteSet(RecipeNames)
<1> DEFINE A == DOMAIN Alphabetical
<1>1. A = 1 .. 20
  BY DEF Alphabetical
<1> HIDE DEF A
<1>2. \A n \in RecipeNames : n \in Range(Alphabetical)
  BY RecipeAssumption DEF RecipeAssumption, RecipeNames
<1>3. ASSUME NEW n \in RecipeNames
      PROVE  Place[n] \in A /\ Alphabetical[Place[n]] = n
  <2>1. \E j \in A : Alphabetical[j] = n
    BY <1>2 DEF Range, A
  <2>2. Place[n] = CHOOSE j \in A : Alphabetical[j] = n
    BY <1>2 DEF Place, A
  <2> QED
    BY <2>1, <2>2
<1>4. \A m, n \in RecipeNames : Place[m] = Place[n] => m = n
  BY <1>3
<1>5. IsFiniteSet(RecipeNames)
  <2> DEFINE f == [n \in RecipeNames |-> Place[n]]
  <2>1. f \in Injection(RecipeNames, A)
    BY <1>3, <1>4 DEF Injection, IsInjective
  <2> HIDE DEF f
  <2>2. IsFiniteSet(A)
    <3>1. 1 \in Int /\ 20 \in Int
      OBVIOUS
    <3>2. IsFiniteSet(1 .. 20)
      BY <3>1, FS_Interval, Zenon
    <3> QED
      BY <1>1, <3>2
  <2> QED
    BY <2>1, <2>2, FS_Injection
<1> QED
  BY <1>1, <1>3, <1>4, <1>5

Leaf(n) == Recipe[n].depends_on = {}

\* What is known of the dependency of a recipe.
LEMMA Dependencies ==
    ASSUME NEW n \in RecipeNames
    PROVE  /\ Recipe[n].depends_on \subseteq RecipeNames
           /\ \A d \in Recipe[n].depends_on : Leaf(d) /\ Recipe[n].depends_on = {d}
           /\ Recipe[n].priority \in Nat
BY RecipeAssumption DEF RecipeAssumption, RecipeNames, Leaf

\* The topological order lists each recipe, first those without dependencies.
LEMMA ResolvedOrder ==
    ASSUME NEW names, names \subseteq RecipeNames
    PROVE  LET list == ResolveDependencies(names)
           IN /\ list \in Seq(names)
              /\ Range(list) = names
              /\ \A j, l \in DOMAIN list : list[j] = list[l] => j = l
              /\ \A j, l \in DOMAIN list : Leaf(list[j]) /\ ~Leaf(list[l]) => j < l
<1> DEFINE Meets(d) == {m \in names : m = d \/ d \in Recipe[m].depends_on}
           Met(d, e) == \E m \in Meets(d) : \A n \in Meets(e) : Alphabetically(m, n)
           Precedes(m, n) ==
            \/ Leaf(m) /\ ~Leaf(n)
            \/ Leaf(m) /\ Leaf(n) /\ Met(m, n)
            \/ /\ ~Leaf(m) /\ ~Leaf(n)
               /\ \/ \E d \in Recipe[m].depends_on, e \in Recipe[n].depends_on : Met(d, e)
                  \/ Recipe[m].depends_on = Recipe[n].depends_on /\ Alphabetically(m, n)
           before == {p \in names \X names : Precedes(p[1], p[2])}
           list == ResolveDependencies(names)
           Known(d) == Meets(d) # {} /\ d \in RecipeNames /\ Leaf(d)
           first(d) == CHOOSE m \in Meets(d) : \A q \in Meets(d) : Place[m] <= Place[q]
<1>1. IsFiniteSet(names) /\ \A n \in names : n \in RecipeNames /\ Place[n] \in Nat
  BY AlphabetPlaces, FS_Subset
<1>2. \A m, n \in names : Place[m] = Place[n] => m = n
  BY AlphabetPlaces
<1>3. ASSUME NEW d, Known(d)
      PROVE  first(d) \in Meets(d) /\ \A q \in Meets(d) : Place[first(d)] <= Place[q]
  <2> DEFINE P == {Place[m] : m \in Meets(d)}
  <2>1. P \subseteq Nat /\ P # {}
    BY <1>1, <1>3
  <2>2. PICK p \in P : \A q \in P : p <= q
    <3> HIDE DEF P
    <3> QED
      BY <2>1, FirstNumber
  <2>3. PICK m \in Meets(d) : Place[m] = p
    BY <2>2
  <2>4. \A q \in Meets(d) : Place[m] <= Place[q]
    BY <2>2, <2>3
  <2> HIDE DEF Meets, P
  <2> QED
    BY <2>3, <2>4
<1>4. ASSUME NEW d, NEW e, Known(d), Known(e), first(d) = first(e) PROVE d = e
  <2> HIDE DEF first
  <2>1. first(d) \in Meets(d) /\ first(d) \in Meets(e)
    BY <1>3, <1>4
  <2>2. /\ first(d) \in RecipeNames
        /\ first(d) = d \/ d \in Recipe[first(d)].depends_on
        /\ first(d) = e \/ e \in Recipe[first(d)].depends_on
    BY <1>1, <2>1
  <2>3. Recipe[d].depends_on = {} /\ Recipe[e].depends_on = {}
    BY <1>4 DEF Leaf
  <2> QED
    BY <2>2, <2>3, Dependencies
<1> DEFINE Rank(d) == Place[first(d)]
<1>5. ASSUME NEW d, NEW e, Known(d), Known(e)
      PROVE  /\ Rank(d) \in Nat /\ Rank(e) \in Nat
             /\ Met(d, e) <=> Rank(d) < Rank(e)
             /\ Rank(d) = Rank(e) => d = e
  <2>1. first(d) \in Meets(d) /\ \A q \in Meets(d) : Place[first(d)] <= Place[q]
    BY <1>3, <1>5
  <2>2. first(e) \in Meets(e) /\ \A q \in Meets(e) : Place[first(e)] <= Place[q]
    BY <1>3, <1>5
  <2>3. first(d) = first(e) => d = e
    BY <1>4, <1>5
  <2> HIDE DEF first
  <2>4. /\ first(d) \in names /\ first(e) \in names
        /\ \A q \in Meets(d) : q \in names
        /\ \A q \in Meets(e) : q \in names
    BY <2>1, <2>2
  <2>5. /\ Rank(d) \in Nat /\ Rank(e) \in Nat
        /\ \A q \in Meets(d) : Place[q] \in Nat
        /\ \A q \in Meets(e) : Place[q] \in Nat
    BY <1>1, <2>4
  <2>6. Rank(d) = Rank(e) => d = e
    BY <1>2, <2>3, <2>4
  <2> HIDE DEF Meets
  <2>7. Met(d, e) <=> Rank(d) < Rank(e)
    BY <2>1, <2>2, <2>5 DEF Alphabetically
  <2> QED
    BY <2>5, <2>6, <2>7
<1> HIDE DEF Met, first, Rank
\* What a recipe is placed by: itself, or its dependency.
<1> DEFINE by(n) == IF Leaf(n) THEN n ELSE CHOOSE d \in Recipe[n].depends_on : TRUE
<1>6. ASSUME NEW n \in names
      PROVE  /\ Known(by(n))
             /\ ~Leaf(n) => Recipe[n].depends_on = {by(n)}
  <2>1. CASE Leaf(n)
    BY <1>1, <2>1
  <2>2. CASE ~Leaf(n)
    <3>1. by(n) \in Recipe[n].depends_on
      BY <2>2 DEF Leaf
    <3> HIDE DEF by
    <3>2. by(n) \in RecipeNames /\ Leaf(by(n)) /\ Recipe[n].depends_on = {by(n)}
      BY <1>1, <3>1, Dependencies
    <3>3. n \in Meets(by(n))
      BY <3>1
    <3> QED
      BY <3>2, <3>3
  <2> QED
    BY <2>1, <2>2
<1>7. ASSUME NEW m \in names, NEW n \in names
      PROVE  Precedes(m, n) <=> \/ Leaf(m) /\ ~Leaf(n)
                              \/ /\ Leaf(m) <=> Leaf(n)
                                 /\ \/ Rank(by(m)) < Rank(by(n))
                                    \/ ~Leaf(m) /\ Rank(by(m)) = Rank(by(n)) /\ Place[m] < Place[n]
  <2>0. Known(by(m)) /\ Known(by(n))
    BY <1>6
  <2> HIDE DEF Known
  <2>1. /\ Rank(by(m)) \in Nat /\ Rank(by(n)) \in Nat
        /\ Met(by(m), by(n)) <=> Rank(by(m)) < Rank(by(n))
        /\ Rank(by(m)) = Rank(by(n)) => by(m) = by(n)
    BY <1>5, <2>0
  <2>2. CASE Leaf(m) /\ Leaf(n)
    BY <2>1, <2>2
  <2>3. CASE ~Leaf(m) /\ ~Leaf(n)
    <3>1. Recipe[m].depends_on = {by(m)} /\ Recipe[n].depends_on = {by(n)}
      BY <1>6, <2>3
    <3> HIDE DEF by
    <3>2. (\E d \in Recipe[m].depends_on, e \in Recipe[n].depends_on : Met(d, e)) <=> Met(by(m), by(n))
      BY <3>1
    <3>3. Recipe[m].depends_on = Recipe[n].depends_on <=> by(m) = by(n)
      BY <3>1
    <3>4. by(m) = by(n) <=> Rank(by(m)) = Rank(by(n))
      BY <2>1
    <3> QED
      BY <2>1, <2>3, <3>2, <3>3, <3>4 DEF Alphabetically
  <2>4. CASE ~(Leaf(m) <=> Leaf(n))
    BY <2>4
  <2> QED
    BY <2>2, <2>3, <2>4
<1>8. \A n \in names : Rank(by(n)) \in Nat
  BY <1>5, <1>6
<1>9. \A m, n \in names : Leaf(m) /\ Leaf(n) /\ Rank(by(m)) = Rank(by(n)) => m = n
  <2> SUFFICES ASSUME NEW m \in names, NEW n \in names, Leaf(m), Leaf(n), Rank(by(m)) = Rank(by(n)) PROVE m = n
    OBVIOUS
  <2>1. Known(by(m)) /\ Known(by(n))
    BY <1>6
  <2>2. by(m) = by(n)
    <3> HIDE DEF by, Known
    <3> QED
      BY <1>5, <2>1
  <2> QED
    BY <2>2
<1>10. \A m, n \in names : <<m, n>> \in before <=> Precedes(m, n)
  BY Zenon
<1>11. list = Sort(names, before)
  <2>1. \A c \in names : {d \in names : Precedes(d, c)} = {d \in names : <<d, c>> \in before}
    BY <1>10, Zenon
  <2>2. list = [j \in 1 .. Cardinality(names) |->
                   CHOOSE c \in names : Cardinality({d \in names : Precedes(d, c)}) = j - 1]
    BY DEF ResolveDependencies, InOrder, Leaf, Meets, Met
  <2>3. \A j \in 1 .. Cardinality(names) :
            (CHOOSE c \in names : Cardinality({d \in names : Precedes(d, c)}) = j - 1)
            = (CHOOSE c \in names : Cardinality({d \in names : <<d, c>> \in before}) = j - 1)
    <3> HIDE DEF Precedes, before
    <3> QED
      BY <2>1
  <2> DEFINE A(j) == CHOOSE c \in names : Cardinality({d \in names : Precedes(d, c)}) = j - 1
             B(j) == CHOOSE c \in names : Cardinality({d \in names : <<d, c>> \in before}) = j - 1
  <2>4. list = [j \in 1 .. Cardinality(names) |-> A(j)]
    BY <2>2
  <2>5. \A j \in 1 .. Cardinality(names) : A(j) = B(j)
    BY <2>3
  <2> HIDE DEF A, B, Precedes, before, list
  <2>6. list = [j \in 1 .. Cardinality(names) |-> B(j)]
    BY <2>4, <2>5
  <2> QED
    BY <2>6 DEF B, Sort
<1> HIDE DEF Precedes, before, by, list
<1>12. Orders(before, names)
  <2>1. \A m, n \in names : <<m, n>> \in before <=>
            \/ Leaf(m) /\ ~Leaf(n)
            \/ /\ Leaf(m) <=> Leaf(n)
               /\ \/ Rank(by(m)) < Rank(by(n))
                  \/ ~Leaf(m) /\ Rank(by(m)) = Rank(by(n)) /\ Place[m] < Place[n]
    BY <1>7, <1>10
  <2>2. \A n \in names : <<n, n>> \notin before
    BY <1>1, <1>8, <2>1
  <2>3. ASSUME NEW m \in names, NEW n \in names, m # n PROVE <<m, n>> \in before \/ <<n, m>> \in before
    <3>1. Place[m] # Place[n] /\ Place[m] \in Nat /\ Place[n] \in Nat /\ Rank(by(m)) \in Nat /\ Rank(by(n)) \in Nat
      BY <1>1, <1>2, <1>8, <2>3
    <3> QED
      BY <1>9, <2>1, <2>3, <3>1
  <2>4. ASSUME NEW k \in names, NEW m \in names, NEW n \in names, <<k, m>> \in before, <<m, n>> \in before
        PROVE  <<k, n>> \in before
    <3>1. /\ Place[k] \in Nat /\ Place[m] \in Nat /\ Place[n] \in Nat
          /\ Rank(by(k)) \in Nat /\ Rank(by(m)) \in Nat /\ Rank(by(n)) \in Nat
      BY <1>1, <1>8
    <3> QED
      BY <2>1, <2>4, <3>1
  <2> QED
    BY <2>2, <2>3, <2>4 DEF Orders
<1>13. SortedBy(list, names, before)
  <2>1. IsFiniteSet(names)
    BY <1>1
  <2> QED
    BY <1>11, <1>12, <2>1, OrderSorts
<1>14. ASSUME NEW j \in DOMAIN list, NEW l \in DOMAIN list, Leaf(list[j]), ~Leaf(list[l]) PROVE j < l
  <2>1. list[j] \in names /\ list[l] \in names
    BY <1>13 DEF SortedBy, Range
  <2>2. <<list[j], list[l]>> \in before
    BY <1>7, <1>10, <1>14, <2>1
  <2> QED
    BY <1>13, <2>2 DEF SortedBy
<1>15. \A j, l \in DOMAIN list : list[j] = list[l] => j = l
  BY <1>12, <1>13, SortedOnce
<1> QED
  BY <1>13, <1>14, <1>15 DEF SortedBy, list

\* Grouping by category and priority keeps dependencies in front, if the recipes
\* without dependencies are in front.
LEMMA GroupedOrder ==
    ASSUME NEW list \in Seq(RecipeNames),
           \A j, l \in DOMAIN list : Leaf(list[j]) /\ ~Leaf(list[l]) => j < l
    PROVE  LET grouped == GetRecipes(list)
           IN /\ grouped \in Seq(RecipeNames)
              /\ Range(grouped) = Range(list)
              /\ (\A j, l \in DOMAIN list : list[j] = list[l] => j = l)
                 => \A j, l \in DOMAIN grouped : grouped[j] = grouped[l] => j = l
              /\ \A j \in DOMAIN grouped : \A d \in Recipe[grouped[j]].depends_on :
                     d \in Range(list) => \E l \in 1 .. (j - 1) : grouped[l] = d
<1> DEFINE D == DOMAIN list
           Category(j) == Recipe[list[j]].category
           Priority(j) == Recipe[list[j]].priority
           Appears(j, l) == \E k \in 1..j : Category(k) = Category(j) /\ \A h \in 1..k : Category(h) # Category(l)
           Precedes(j, l) == \/ Appears(j, l)
                           \/ /\ Category(j) = Category(l)
                              /\ Priority(j) < Priority(l) \/ (Priority(j) = Priority(l) /\ j < l)
           before == {p \in D \X D : Precedes(p[1], p[2])}
           places == InOrder(D, Precedes)
           grouped == GetRecipes(list)
           n == Cardinality(D)
           Same(j) == {k \in D : Category(k) = Category(j)}
           first(j) == CHOOSE k \in Same(j) : \A q \in Same(j) : k <= q
<1>0. Len(list) \in Nat /\ D = 1 .. Len(list) /\ \A j \in D : list[j] \in RecipeNames
  BY LenProperties
<1>1. IsFiniteSet(D) /\ n = Len(list) /\ D \subseteq Nat
  <2>0. Len(list) \in Nat
    BY LenProperties
  <2>1. IsFiniteSet(1 .. Len(list)) /\ Cardinality(1 .. Len(list)) = Len(list)
    BY <2>0, FirstNumbers
  <2> QED
    BY <1>0, <2>1
<1> HIDE DEF n
<1>2. \A j \in D : Priority(j) \in Nat
  BY <1>0, Dependencies
<1> HIDE DEF D, Category, Priority
<1>3. ASSUME NEW j \in D
      PROVE  first(j) \in D /\ Category(first(j)) = Category(j) /\ \A q \in D : Category(q) = Category(j) => first(j) <= q
  <2>1. Same(j) \subseteq Nat /\ Same(j) # {}
    BY <1>1
  <2>2. \E k \in Same(j) : \A q \in Same(j) : k <= q
    <3> HIDE DEF Same
    <3> QED
      BY <2>1, FirstNumber
  <2>3. first(j) \in Same(j) /\ \A q \in Same(j) : first(j) <= q
    <3> HIDE DEF Same
    <3> QED
      BY <2>2
  <2> HIDE DEF first
  <2> QED
    BY <2>3
<1> HIDE DEF first, Same
<1>4. ASSUME NEW j \in D, NEW l \in D
      PROVE  /\ Appears(j, l) <=> first(j) < first(l)
             /\ Category(j) = Category(l) <=> first(j) = first(l)
  <2>1. /\ first(j) \in D /\ Category(first(j)) = Category(j)
        /\ first(l) \in D /\ Category(first(l)) = Category(l)
        /\ \A q \in D : Category(q) = Category(j) => first(j) <= q
        /\ \A q \in D : Category(q) = Category(l) => first(l) <= q
    BY <1>3
  <2>2. /\ first(j) \in 1 .. Len(list) /\ first(l) \in 1 .. Len(list)
        /\ j \in 1 .. Len(list) /\ l \in 1 .. Len(list)
    BY <1>0, <2>1
  <2>3. ASSUME Category(j) = Category(l) PROVE first(j) = first(l)
    <3>1. first(j) <= first(l) /\ first(l) <= first(j)
      BY <2>1, <2>3
    <3> QED
      BY <1>0, <2>2, <3>1
  <2>4. ASSUME first(j) = first(l) PROVE Category(j) = Category(l)
    BY <2>1, <2>4
  <2>5. ASSUME first(j) < first(l) PROVE Appears(j, l)
    <3>1. first(j) \in 1 .. j
      BY <1>0, <2>1, <2>2
    <3>2. ASSUME NEW h \in 1 .. first(j) PROVE Category(h) # Category(l)
      <4>1. h \in D /\ h < first(l) /\ h \in Nat
        BY <1>0, <2>2, <2>5
      <4> QED
        BY <1>0, <2>1, <2>2, <4>1
    <3> QED
      BY <2>1, <3>1, <3>2
  <2>6. ASSUME Appears(j, l) PROVE first(j) < first(l)
    <3>1. PICK k \in 1 .. j : Category(k) = Category(j) /\ \A h \in 1 .. k : Category(h) # Category(l)
      BY <2>6
    <3>2. k \in D /\ first(j) <= k
      BY <1>0, <2>1, <2>2, <3>1
    <3>3. ~(first(l) <= k)
      BY <1>0, <2>1, <2>2, <3>1
    <3> QED
      BY <1>0, <2>2, <3>2, <3>3
  <2> QED
    BY <2>3, <2>4, <2>5, <2>6
<1> HIDE DEF Appears
<1>5. \A j, l \in D : <<j, l>> \in before <=>
          \/ first(j) < first(l)
          \/ /\ first(j) = first(l)
             /\ Priority(j) < Priority(l) \/ (Priority(j) = Priority(l) /\ j < l)
  <2> SUFFICES ASSUME NEW j \in D, NEW l \in D
               PROVE  <<j, l>> \in before <=>
                          \/ first(j) < first(l)
                          \/ /\ first(j) = first(l)
                             /\ Priority(j) < Priority(l) \/ (Priority(j) = Priority(l) /\ j < l)
    OBVIOUS
  <2>1. <<j, l>> \in before <=> Precedes(j, l)
    BY Zenon
  <2> QED
    BY <1>4, <2>1
<1>6. Orders(before, D)
  <2>1. \A j \in D : first(j) \in Nat /\ j \in Nat /\ Priority(j) \in Nat
    BY <1>1, <1>2, <1>3
  <2> HIDE DEF before
  <2>2. \A j \in D : <<j, j>> \notin before
    BY <1>5, <2>1
  <2>3. \A j, l \in D : j # l => <<j, l>> \in before \/ <<l, j>> \in before
    BY <1>5, <2>1
  <2>4. ASSUME NEW j \in D, NEW k \in D, NEW l \in D, <<j, k>> \in before, <<k, l>> \in before
        PROVE  <<j, l>> \in before
    BY <1>5, <2>1, <2>4
  <2> QED
    BY <2>2, <2>3, <2>4 DEF Orders
<1>7. places = Sort(D, before)
  <2>1. \A c \in D : {d \in D : Precedes(d, c)} = {d \in D : <<d, c>> \in before}
    <3>1. \A c, d \in D : <<d, c>> \in before <=> Precedes(d, c)
      BY Zenon
    <3> QED
      BY <3>1, Zenon
  <2> DEFINE A(j) == CHOOSE c \in D : Cardinality({d \in D : Precedes(d, c)}) = j - 1
             B(j) == CHOOSE c \in D : Cardinality({d \in D : <<d, c>> \in before}) = j - 1
  <2>2. places = [j \in 1 .. Cardinality(D) |-> A(j)]
    BY DEF InOrder
  <2>3. \A j \in 1 .. Cardinality(D) : A(j) = B(j)
    <3> HIDE DEF Precedes, before
    <3> QED
      BY <2>1
  <2> HIDE DEF A, B, Precedes, before, places
  <2>4. places = [j \in 1 .. Cardinality(D) |-> B(j)]
    BY <2>2, <2>3
  <2> QED
    BY <2>4 DEF B, Sort
<1>8. SortedBy(places, D, before)
  <2>1. IsFiniteSet(D)
    BY <1>1
  <2> HIDE DEF before, places
  <2> QED
    BY <1>6, <1>7, <2>1, OrderSorts
<1>9. grouped = [j \in D |-> list[places[j]]]
  BY DEF GetRecipes, D, Category, Priority, Appears
<1> HIDE DEF before, Precedes, places, grouped
<1>10. /\ \A j \in D : places[j] \in D
       /\ \A p \in D : \E j \in D : places[j] = p
       /\ \A j, l \in D : <<places[j], places[l]>> \in before <=> j < l
  BY <1>0, <1>1, <1>8 DEF SortedBy, Range, n
<1>11. grouped \in Seq(RecipeNames)
  <2>1. grouped \in [1 .. Len(list) -> RecipeNames]
    BY <1>0, <1>9, <1>10
  <2> QED
    BY <1>0, <2>1, SeqDef
<1>12. Range(grouped) = Range(list)
  <2>1. \A j \in D : grouped[j] \in Range(list)
    BY <1>9, <1>10 DEF Range, D
  <2>2. \A p \in D : list[p] \in Range(grouped)
    <3> SUFFICES ASSUME NEW p \in D PROVE list[p] \in Range(grouped)
      OBVIOUS
    <3>1. PICK j \in D : places[j] = p
      BY <1>10
    <3> QED
      BY <1>9, <3>1 DEF Range
  <2>3. DOMAIN grouped = D /\ DOMAIN list = D
    BY <1>9 DEF D
  <2>4. Range(grouped) \subseteq Range(list)
    BY <2>1, <2>3 DEF Range
  <2>5. Range(list) \subseteq Range(grouped)
    BY <2>2, <2>3 DEF Range
  <2> QED
    BY <2>4, <2>5
<1>13. ASSUME NEW j \in DOMAIN grouped, NEW d \in Recipe[grouped[j]].depends_on, d \in Range(list)
       PROVE  \E l \in 1 .. (j - 1) : grouped[l] = d
  <2>1. j \in D /\ places[j] \in D /\ grouped[j] = list[places[j]]
    BY <1>9, <1>10
  <2>2. PICK q \in D : list[q] = d
    BY <1>13 DEF Range, D
  <2>3. PICK l \in D : places[l] = q
    BY <1>10
  <2> DEFINE p == places[j]
             name == list[p]
  <2>4. /\ name \in RecipeNames /\ d \in Recipe[name].depends_on
        /\ d \in RecipeNames /\ Recipe[d].depends_on = {}
        /\ IF Recipe[d].category = Recipe[name].category
           THEN Recipe[d].priority < Recipe[name].priority
           ELSE \A m \in RecipeNames : Recipe[m].category = Recipe[name].category => Recipe[m].depends_on # {}
    <3>1. name \in RecipeNames /\ d \in Recipe[name].depends_on
      BY <1>0, <1>13, <2>1
    <3> HIDE DEF name
    <3> QED
      BY <3>1, RecipeAssumption DEF RecipeAssumption, RecipeNames
  <2>5. p \in D
    BY <2>1
  <2> HIDE DEF p
  <2>6. <<q, p>> \in before
    <3>1. CASE Category(q) = Category(p)
      <4>1. Priority(q) < Priority(p)
        BY <2>2, <2>4, <3>1 DEF Category, Priority
      <4> QED
        BY <1>4, <1>5, <2>5, <3>1, <4>1
    <3>2. CASE Category(q) # Category(p)
      <4>1. first(q) \in D /\ first(q) <= q
        BY <1>3
      <4>2. first(p) \in D /\ Category(first(p)) = Category(p)
        BY <1>3, <2>5
      <4>3. ~Leaf(list[first(p)])
        BY <1>0, <2>2, <2>4, <3>2, <4>2 DEF Category, Leaf
      <4>4. q < first(p)
        <5>1. Leaf(list[q])
          BY <2>2, <2>4 DEF Leaf
        <5> QED
          BY <4>2, <4>3, <5>1 DEF D
      <4>5. q \in Nat /\ first(q) \in Nat /\ first(p) \in Nat
        BY <1>1, <4>1, <4>2
      <4>6. first(q) < first(p)
        BY <4>1, <4>4, <4>5
      <4> QED
        BY <1>5, <2>5, <4>6
    <3> QED
      BY <3>1, <3>2
  <2>7. l < j
    BY <1>10, <2>1, <2>3, <2>6 DEF p
  <2>8. l \in 1 .. (j - 1)
    <3>1. l \in 1 .. Len(list) /\ j \in 1 .. Len(list)
      BY <1>0, <2>1, <2>3
    <3> QED
      BY <1>0, <2>7, <3>1
  <2>9. grouped[l] = d
    BY <1>9, <2>2, <2>3
  <2> QED
    BY <2>8, <2>9
<1>14. ASSUME \A j, l \in DOMAIN list : list[j] = list[l] => j = l,
              NEW j \in DOMAIN grouped, NEW l \in DOMAIN grouped, grouped[j] = grouped[l]
       PROVE  j = l
  <2>1. j \in D /\ l \in D /\ places[j] \in D /\ places[l] \in D
    BY <1>9, <1>10, <1>14
  <2>2. places[j] = places[l]
    BY <1>9, <1>14, <2>1 DEF D
  <2>3. \A a, b \in DOMAIN places : places[a] = places[b] => a = b
    BY <1>6, <1>8, SortedOnce
  <2>4. DOMAIN places = D
    BY <1>0, <1>1, <1>8 DEF SortedBy, n
  <2> QED
    BY <2>1, <2>2, <2>3, <2>4
<1> QED
  BY <1>11, <1>12, <1>13, <1>14 DEF grouped

----------------------------------------------------------------------------
(* RunRequest: the inductive invariant *)

\* Nothing is planned yet.
Opening == {"start", "select", "file", "update", "plan", "save", "check", "stalled"}

Planned == {"restore", "order", "setup", "alloc", "execute", "recipe", "run", "step"}

Wanted == GetFilteredRecipes(Names, Cmd.positive, Cmd.negative, TRUE)

CommandHolds ==
    /\ session \in Sessions
    /\ host \in Machines
    /\ at \in 1 .. Len(session)
    /\ stage \in Opening \cup Planned \cup {"end"}
    /\ exits \in Seq({0, 1})
    /\ Len(exits) = IF stage = "end" THEN at ELSE at - 1

\* What is selected was not deselected, and is selected with its dependencies.
SelectionHolds ==
    /\ selection \in [filtered : SUBSET RecipeNames, added : SUBSET RecipeNames, restored : SUBSET RecipeNames]
    /\ stage \in {"start", "select", "save", "check"} => selection = NoSelection
    /\ stage \in {"file", "update", "plan", "restore"} => selection = Wanted
    /\ stage \in {"file", "update", "plan"} \cup Planned => selection.filtered # {}
    /\ stage \in Planned => CompleteList(selection) \subseteq CompleteList(Wanted)
    /\ \A n \in CompleteList(selection) \cup selection.restored :
           /\ ~Matches(n, Cmd.negative)
           /\ Recipe[n].depends_on \subseteq CompleteList(selection) \cup selection.restored

\* The plan is the selection; until it is grouped, recipes without dependencies lead.
PlanHolds ==
    /\ plan \in Seq(RecipeNames)
    /\ \A j, l \in DOMAIN plan : plan[j] = plan[l] => j = l
    /\ stage \in Opening => plan = <<>>
    /\ stage \in Planned => plan # <<>>
    /\ plan # <<>> => Range(plan) = CompleteList(selection)
    /\ stage \in {"restore", "order"} =>
           \A j, l \in DOMAIN plan : Leaf(plan[j]) /\ ~Leaf(plan[l]) => j < l
    /\ DependenciesFirst

\* Where the loops over the plan and over the recipes that are ready have got to.
PlaceHolds ==
    /\ stage \in Opening \cup {"restore", "order", "execute"} => i = 1
    /\ stage \in {"setup", "alloc"} => i \in DOMAIN plan
    /\ stage = "recipe" => i \in 0 .. Len(ReadyList)
    /\ stage \in {"run", "step"} => i \in 1 .. Len(ReadyList)
    /\ plan # <<>> => i \in 0 .. Len(plan)

OutcomesHold ==
    /\ DOMAIN cfgs \cup DOMAIN status \cup DOMAIN ran \subseteq Range(plan)
    /\ stage \in Opening \cup {"restore", "order"} => DOMAIN cfgs \cup DOMAIN status \cup DOMAIN ran = {}
    /\ \A n \in DOMAIN status : status[n] \in {"ready", "skipped", "completed", "failed", "unexplained"}

BarHolds ==
    /\ DOMAIN bar = {"trackers", "depth", "stack", "global", "avg", "shown"}
    /\ bar.depth \in -1 .. 1
    /\ stage \in {"recipe", "run"} /\ Active(bar) => bar.depth = 0
    /\ stage = "step" /\ Active(bar) => bar.depth = 1

\* A recipe before this place in the plan needed the tool and was skipped.
SkippedFor(t, place) ==
    \E l \in 1 .. (place - 1) : Skipped(plan[l]) /\ Contains(Tools(plan[l]), t)

\* A version that was stored is the one of the tool; if it is refused, a recipe was
\* skipped.
VersionsHold(place) ==
    \A t \in Tool : version[t] # "none" =>
        /\ version[t] = host.tools[t]
        /\ CheckVersion(t, version[t]) \/ SkippedFor(t, place)

ToolsHold(place) ==
    \A j \in 1 .. (place - 1) : ~Skipped(plan[j]) =>
        \A t \in Range(Tools(plan[j])) :
            /\ host.tools[t] # "absent"
            /\ CheckVersion(t, host.tools[t]) \/ SkippedFor(t, j)

AllocationHolds ==
    /\ version \in [Tool -> {"none", "good", "old", "unknown", "silent"}]
    /\ stage \in Opening \cup {"restore", "order", "setup"} => \A t \in Tool : version[t] = "none"
    /\ stage = "alloc" => VersionsHold(i) /\ ToolsHold(i)
    /\ stage = "execute" => ToolsHold(Len(plan) + 1)

FromFile == GetConvUserConfig(FileEntries, NoSettings, CompleteList(Wanted), Names)

FromBoth == GetConvUserConfig(UpdateConfig(Cmd), FromFile, CompleteList(Wanted), Names)

\* Settings of recipes that have them, with values they may have.
SettingsFit(settings) ==
    \A k \in DOMAIN settings :
        /\ k \in RecipeNames \X DOMAIN USER_CFG_FIELDS
        /\ k[2] \in Recipe[k[1]].fields /\ IsSetting(k[2], settings[k])

\* A source gives each setting once, and all it gives can be converted, if not successfully.
SourceFits(source) == OneOfEach(source) /\ \A e \in source : IsRaw(e.raw)

\* The settings are those of the sources read so far, and none of these stalls.
SettingsHold ==
    /\ SourceFits(disk.entries)
    /\ SettingsFit(user)
    /\ stage \in {"start", "select", "file", "save", "check"} => user = NoSettings
    /\ stage = "update" => user = FromFile
    /\ stage \in {"update", "plan"} \cup Planned => ~SourceStalls(FileEntries, CompleteList(Wanted), Names)
    /\ stage \in {"plan"} \cup Planned =>
           user = FromBoth /\ ~SourceStalls(UpdateConfig(Cmd), CompleteList(Wanted), Names)
    /\ stage \in Planned => \A n \in DOMAIN cfgs : cfgs[n] = InitializeConfig(n, user, Cmd.quick)
    /\ ConversionEnds

\* The recipes config save chooses from.
SaveNames == GetRecipeMetadata("save", host.hidden)

SavedSettings(c) == GetConvUserConfig(c.update, NoSettings, SavedRecipes(c), SaveNames)

\* If this command saved the settings, the file still holds them.
DiskSaved(l) ==
    session[l].name = "save" /\ exits[l] = 0 =>
        /\ disk.exists
        /\ disk.entries = SavedEntries(SavedRecipes(session[l]), SavedSettings(session[l]))
        /\ ~SourceStalls(session[l].update, SavedRecipes(session[l]), SaveNames)

\* The stages of the commands that run recipes.
Running == {"select", "file", "update", "plan"} \cup Planned

\* The file holds what was saved last.
FilesHold ==
    /\ stage = "save" => Cmd.name = "save"
    /\ stage = "check" => Cmd.name = "check"
    /\ stage \in Running => Cmd.name \notin {"save", "check"}
    /\ at > 1 /\ (stage # "end" \/ Cmd.name # "save") => DiskSaved(at - 1)
    /\ stage = "end" => DiskSaved(at)
    /\ SavedFileAccepted

RequestIInv ==
    /\ CommandHolds /\ SelectionHolds /\ PlanHolds /\ PlaceHolds
    /\ OutcomesHold /\ BarHolds /\ AllocationHolds /\ SettingsHold /\ FilesHold

\* A session is a list of commands.
LEMMA SessionIsAList ==
    ASSUME CommandHolds
    PROVE  /\ session \in Seq(Range(session)) /\ Len(session) \in Nat \ {0}
           /\ Cmd \in Range(session)
           /\ at \in Nat
<1>1. session \in Seq(Range(session)) /\ session # <<>>
  BY RequestAssumption DEF RequestAssumption, CommandHolds
<1>2. Len(session) \in Nat /\ DOMAIN session = 1 .. Len(session)
  BY <1>1, LenProperties
<1>3. Len(session) # 0
  BY <1>1, EmptySeq
<1> QED
  BY <1>1, <1>2, <1>3 DEF CommandHolds, Cmd, Range

LEMMA CommandInit == RequestInit => CommandHolds
<1> SUFFICES ASSUME RequestInit PROVE CommandHolds
  OBVIOUS
<1>1. session \in Seq(Range(session)) /\ session # <<>>
  BY RequestAssumption DEF RequestAssumption, RequestInit
<1>2. Len(session) \in Nat /\ Len(session) # 0
  BY <1>1, EmptySeq, LenProperties
<1> QED
  BY <1>2 DEF RequestInit, CommandHolds, Opening

\* A command ends with one exit code, and the next one follows.
LEMMA CommandStep == CommandHolds /\ [RequestNext]_requestVars => CommandHolds'
<1> SUFFICES ASSUME CommandHolds, [RequestNext]_requestVars PROVE CommandHolds'
  OBVIOUS
<1> USE DEF CommandHolds, Opening, Planned, fixed
<1>0. at \in Nat /\ Len(session) \in Nat /\ exits \in Seq({0, 1}) /\ Len(exits) \in Nat
  BY SessionIsAList, LenProperties
<1>1. ASSUME NEW code \in {0, 1}, Exit(code), stage # "end", UNCHANGED <<session, host, at>> PROVE CommandHolds'
  BY <1>0, <1>1, AppendProperties DEF Exit
<1>2. ASSUME stage # "end", stage' \in Opening \cup Planned, UNCHANGED <<session, host, at, exits>> PROVE CommandHolds'
  BY <1>0, <1>2
<1>3. CASE UNCHANGED requestVars
  BY <1>3 DEF requestVars
<1>4. CASE Start
  BY <1>2, <1>4 DEF Start
<1>5. CASE NextCommand
  BY <1>0, <1>5 DEF NextCommand
<1>6. CASE Select
  BY <1>1, <1>2, <1>6 DEF Select
<1>7. CASE ReadConfigFile
  BY <1>2, <1>7 DEF ReadConfigFile, ReadSource
<1>8. CASE ReadUpdateConfig
  BY <1>2, <1>8 DEF ReadUpdateConfig, ReadSource
<1>9. CASE DryRun
  BY <1>1, <1>9 DEF DryRun
<1>10. CASE Resolve
  BY <1>2, <1>10 DEF Resolve
<1>11. CASE RestoreCached
  BY <1>2, <1>11 DEF RestoreCached
<1>12. CASE Order
  BY <1>2, <1>12 DEF Order
<1>13. CASE SetupBenchmarks
  BY <1>2, <1>13 DEF SetupBenchmarks, Advance
<1>14. CASE AllocateResources
  BY <1>2, <1>14 DEF AllocateResources, Advance
<1>15. CASE ExecuteReports
  BY <1>1, <1>15 DEF ExecuteReports
<1>16. CASE BeginExecution
  BY <1>1, <1>2, <1>16 DEF BeginExecution
<1>17. CASE NextRecipe
  BY <1>1, <1>2, <1>17 DEF NextRecipe
<1>18. CASE RunRecipe
  BY <1>1, <1>2, <1>18 DEF RunRecipe, Crash, progress
<1>19. CASE OneStep
  BY <1>1, <1>2, <1>19 DEF OneStep, Crash
<1>20. CASE StepSetupFails
  BY <1>1, <1>2, <1>20 DEF StepSetupFails, Crash
<1>21. CASE FinishSteps
  BY <1>1, <1>2, <1>21 DEF FinishSteps, Crash
<1>22. CASE WriteDefault
  BY <1>1, <1>2, <1>22 DEF WriteDefault
<1>23. CASE Check
  <2>1. CASE SourceStalls(disk.entries, Names, Names)
    BY <1>2, <1>23, <2>1 DEF Check
  <2>2. CASE ~SourceStalls(disk.entries, Names, Names)
    <3>1. PICK code \in {0, 1} : Exit(code)
      BY <1>23, <2>2 DEF Check
    <3> QED
      BY <1>1, <1>23, <3>1 DEF Check
  <2> QED
    BY <2>1, <2>2
<1> QED
  BY <1>3, <1>4, <1>5, <1>6, <1>7, <1>8, <1>9, <1>10, <1>11, <1>12, <1>13, <1>14, <1>15, <1>16, <1>17, <1>18,
     <1>19, <1>20, <1>21, <1>22, <1>23 DEF RequestNext, RequestStep, Done

\* What is selected for a command: nothing deselected, every dependency.
LEMMA WantedRecipes ==
    /\ Wanted.filtered \subseteq Names /\ Names \subseteq RecipeNames
    /\ Wanted \in [filtered : SUBSET RecipeNames, added : SUBSET RecipeNames, restored : SUBSET RecipeNames]
    /\ Wanted.restored = {} /\ Wanted.added \cap Wanted.filtered = {}
    /\ \A d \in Wanted.added : \E n \in Wanted.filtered : d \in Recipe[n].depends_on
    /\ CompleteList(Wanted) # {} => Wanted.filtered # {}
    /\ \A n \in CompleteList(Wanted) :
           /\ ~Matches(n, Cmd.negative)
           /\ Recipe[n].depends_on \subseteq CompleteList(Wanted)
<1>1. Names \subseteq RecipeNames
  BY DEF Names, GetRecipeMetadata
<1> DEFINE filtered == Wanted.filtered
           added == Wanted.added
<1>2. /\ Wanted = [filtered |-> filtered, restored |-> {}, added |-> added]
      /\ filtered \subseteq Names
      /\ \A n \in filtered : ~Removed(n, Cmd.negative)
      /\ added = (UNION {Recipe[n].depends_on : n \in filtered}) \ filtered
  BY DEF Wanted, GetFilteredRecipes
<1> HIDE DEF filtered, added
<1>3. \A n \in filtered : n \in RecipeNames
  BY <1>1, <1>2
<1>4. \A d : d \in added <=> d \notin filtered /\ \E n \in filtered : d \in Recipe[n].depends_on
  <2> DEFINE dependencies == {Recipe[n].depends_on : n \in filtered}
  <2>1. added = (UNION dependencies) \ filtered
    BY <1>2
  <2>2. \A s : s \in dependencies <=> \E n \in filtered : s = Recipe[n].depends_on
    OBVIOUS
  <2> HIDE DEF dependencies
  <2>3. \A d : d \in UNION dependencies <=> \E n \in filtered : d \in Recipe[n].depends_on
    BY <2>2
  <2> QED
    BY <2>1, <2>3
<1>5. added \subseteq RecipeNames /\ added \cap filtered = {}
  <2>1. \A d \in added : d \in RecipeNames
    BY <1>3, <1>4, Dependencies
  <2>2. \A d \in added : d \notin filtered
    BY <1>4
  <2> QED
    BY <2>1, <2>2
<1>6. ASSUME NEW n \in filtered \cup added
      PROVE  /\ ~Matches(n, Cmd.negative)
             /\ Recipe[n].depends_on \subseteq filtered \cup added
  <2>1. CASE n \in filtered
    <3>1. ~Removed(n, Cmd.negative)
      BY <1>2, <2>1
    <3>2. Recipe[n].depends_on \subseteq filtered \cup added
      BY <1>4, <2>1
    <3> QED
      BY <3>1, <3>2 DEF Removed
  <2>2. CASE n \in added
    <3>1. PICK m \in filtered : n \in Recipe[m].depends_on
      BY <1>4, <2>2
    <3>2. Recipe[n].depends_on = {}
      BY <1>3, <3>1, Dependencies DEF Leaf
    <3> QED
      BY <1>2, <3>1, <3>2 DEF Removed
  <2> QED
    BY <1>6, <2>1, <2>2
<1>7. CompleteList(Wanted) = filtered \cup added
  BY <1>2 DEF CompleteList
<1> QED
  BY <1>1, <1>2, <1>3, <1>4, <1>5, <1>6, <1>7 DEF filtered, added

LEMMA SelectionInit == RequestInit => SelectionHolds
BY DEF RequestInit, SelectionHolds, NoSelection, CompleteList, Opening, Planned

LEMMA SelectionStep == CommandHolds /\ SelectionHolds /\ [RequestNext]_requestVars => SelectionHolds'
<1> SUFFICES ASSUME CommandHolds, SelectionHolds, [RequestNext]_requestVars PROVE SelectionHolds'
  OBVIOUS
<1> DEFINE Early == {"start", "select", "save", "check"}
           Sought == {"file", "update", "plan", "restore"}
           Later == Planned \ {"restore"}
<1>1. ASSUME UNCHANGED <<session, host, at, selection>>,
             stage' \in Early => stage \in Early,
             stage' \in Sought => stage \in Sought,
             stage' \in Later => stage \in Planned
      PROVE  SelectionHolds'
  <2>1. Wanted' = Wanted /\ Cmd' = Cmd /\ selection' = selection
    BY <1>1 DEF Wanted, Cmd, Names
  <2>2. CompleteList(selection)' = CompleteList(selection)
    BY <2>1
  <2> QED
    BY <1>1, <2>1, <2>2 DEF SelectionHolds, Planned, CompleteList
<1>2. ASSUME selection' = NoSelection, stage' \in Early PROVE SelectionHolds'
  BY <1>2 DEF SelectionHolds, NoSelection, CompleteList, Planned
<1> USE DEF fixed, Planned, Advance, Exit, ReadSource
<1>3. CASE UNCHANGED requestVars
  BY <1>1, <1>3 DEF requestVars
<1>4. CASE Start
  BY <1>2, <1>4 DEF Start, Fresh
<1>5. CASE NextCommand
  BY <1>2, <1>5 DEF NextCommand, Fresh
<1>6. CASE Select
  <2>1. /\ selection' = Wanted
        /\ Wanted' = Wanted /\ Cmd' = Cmd
        /\ stage' = "end" \/ (stage' = "file" /\ CompleteList(Wanted) # {})
    BY <1>6 DEF Select, Wanted, Names, Cmd
  <2> QED
    BY <2>1, WantedRecipes DEF SelectionHolds
<1>7. CASE ReadConfigFile
  BY <1>1, <1>7 DEF ReadConfigFile
<1>8. CASE ReadUpdateConfig
  BY <1>1, <1>8 DEF ReadUpdateConfig
<1>9. CASE DryRun
  BY <1>1, <1>9 DEF DryRun
<1>10. CASE Resolve
  BY <1>1, <1>10 DEF Resolve
<1>11. CASE RestoreCached
  <2> DEFINE cached == host.cached
  <2>1. /\ selection = Wanted /\ stage' = "order"
        /\ Wanted' = Wanted /\ Cmd' = Cmd
        /\ selection' = RemoveCachedDependencies(Wanted, cached)
    BY <1>11 DEF RestoreCached, SelectionHolds, Wanted, Names, Cmd
  <2> HIDE DEF cached
  <2>2. /\ selection'.filtered = Wanted.filtered
        /\ selection'.restored = Wanted.added \cap cached
        /\ selection'.added = Wanted.added \ cached
        /\ selection' \in [filtered : SUBSET RecipeNames, added : SUBSET RecipeNames, restored : SUBSET RecipeNames]
    BY <2>1, WantedRecipes DEF RemoveCachedDependencies
  <2>3. CompleteList(selection') \cup selection'.restored = CompleteList(Wanted)
    BY <2>2 DEF CompleteList
  <2>4. CompleteList(selection') \subseteq CompleteList(Wanted)
    BY <2>3
  <2>5. Wanted.filtered # {}
    BY <1>11, <2>1 DEF RestoreCached, SelectionHolds
  <2> QED
    BY <2>1, <2>2, <2>3, <2>4, <2>5, WantedRecipes DEF SelectionHolds
<1>12. CASE Order
  BY <1>1, <1>12 DEF Order
<1>13. CASE SetupBenchmarks
  BY <1>1, <1>13 DEF SetupBenchmarks
<1>14. CASE AllocateResources
  BY <1>1, <1>14 DEF AllocateResources
<1>15. CASE ExecuteReports
  BY <1>1, <1>15 DEF ExecuteReports
<1>16. CASE BeginExecution
  BY <1>1, <1>16 DEF BeginExecution
<1>17. CASE NextRecipe
  BY <1>1, <1>17 DEF NextRecipe
<1>18. CASE RunRecipe
  BY <1>1, <1>18 DEF RunRecipe, Crash
<1>19. CASE OneStep
  BY <1>1, <1>19 DEF OneStep, Crash
<1>20. CASE StepSetupFails
  BY <1>1, <1>20 DEF StepSetupFails, Crash
<1>21. CASE FinishSteps
  BY <1>1, <1>21 DEF FinishSteps, Crash
<1>22. CASE WriteDefault
  BY <1>1, <1>22 DEF WriteDefault
<1>23. CASE Check
  BY <1>1, <1>23 DEF Check
<1> QED
  BY <1>3, <1>4, <1>5, <1>6, <1>7, <1>8, <1>9, <1>10, <1>11, <1>12, <1>13, <1>14, <1>15, <1>16, <1>17, <1>18,
     <1>19, <1>20, <1>21, <1>22, <1>23 DEF RequestNext, RequestStep, Done

\* When recipes without dependencies lead, dependencies do.
LEMMA LeavesLead ==
    ASSUME NEW list \in Seq(RecipeNames), NEW restored,
           \A j, l \in DOMAIN list : Leaf(list[j]) /\ ~Leaf(list[l]) => j < l,
           \A n \in Range(list) : Recipe[n].depends_on \subseteq Range(list) \cup restored
    PROVE  \A j \in DOMAIN list : \A d \in Recipe[list[j]].depends_on :
               d \in restored \/ \E l \in 1 .. (j - 1) : list[l] = d
<1> SUFFICES ASSUME NEW j \in DOMAIN list, NEW d \in Recipe[list[j]].depends_on, d \notin restored
             PROVE  \E l \in 1 .. (j - 1) : list[l] = d
  OBVIOUS
<1>1. Len(list) \in Nat /\ DOMAIN list = 1 .. Len(list) /\ list[j] \in RecipeNames
  BY LenProperties
<1>2. list[j] \in Range(list)
  BY DEF Range
<1>3. d \in Range(list)
  BY <1>2
<1>4. PICK l \in DOMAIN list : list[l] = d
  BY <1>3 DEF Range
<1>5. Leaf(d) /\ ~Leaf(list[j])
  BY <1>1, Dependencies DEF Leaf
<1>6. l < j
  BY <1>4, <1>5
<1> QED
  BY <1>1, <1>4, <1>6

\* A list with members is not empty.
LEMMA MembersOfAList ==
    ASSUME NEW X, NEW list \in Seq(X)
    PROVE  list = <<>> <=> Range(list) = {}
<1>1. list = <<>> <=> Len(list) = 0
  BY EmptySeq
<1>2. Len(list) \in Nat /\ DOMAIN list = 1 .. Len(list)
  BY LenProperties
<1>3. Range(list) = {} <=> DOMAIN list = {}
  BY DEF Range
<1>4. 1 .. Len(list) = {} <=> Len(list) = 0
  <2>1. Len(list) # 0 => 1 \in 1 .. Len(list)
    BY <1>2
  <2> QED
    BY <1>2, <2>1
<1> QED
  BY <1>1, <1>2, <1>3, <1>4

LEMMA PlanInit == RequestInit => PlanHolds
BY DEF RequestInit, PlanHolds, DependenciesFirst, Opening, Planned

\* The three steps that make the plan keep what is selected, dependencies first.
LEMMA PlanStep == CommandHolds /\ SelectionHolds /\ PlanHolds /\ [RequestNext]_requestVars => PlanHolds'
<1> SUFFICES ASSUME CommandHolds, SelectionHolds, PlanHolds, [RequestNext]_requestVars PROVE PlanHolds'
  OBVIOUS
<1>0. SelectionHolds'
  BY SelectionStep
<1>1. ASSUME UNCHANGED <<selection, plan>>,
             stage' \in Opening => stage \in Opening,
             stage' \in Planned => stage \in Planned,
             stage' \in {"restore", "order"} => stage \in {"restore", "order"}
      PROVE  PlanHolds'
  <2>1. DependenciesFirst'
    BY <1>1 DEF PlanHolds, DependenciesFirst
  <2>2. CompleteList(selection)' = CompleteList(selection)
    BY <1>1 DEF CompleteList
  <2> QED
    BY <1>1, <2>1, <2>2 DEF PlanHolds
<1>2. ASSUME plan' = <<>>, stage' \notin Planned PROVE PlanHolds'
  BY <1>2 DEF PlanHolds, DependenciesFirst, Planned
<1>3. ASSUME plan' \in Seq(RecipeNames), Range(plan') = CompleteList(selection)', selection'.filtered # {},
             stage' \in {"restore", "order"},
             \A j, l \in DOMAIN plan' : plan'[j] = plan'[l] => j = l,
             \A j, l \in DOMAIN plan' : Leaf(plan'[j]) /\ ~Leaf(plan'[l]) => j < l
      PROVE  PlanHolds'
  <2>1. plan' # <<>>
    <3>1. Range(plan') # {}
      BY <1>3 DEF CompleteList
    <3> QED
      BY <1>3, <3>1, MembersOfAList
  <2>2. \A n \in Range(plan') : Recipe[n].depends_on \subseteq Range(plan') \cup selection'.restored
    BY <1>0, <1>3 DEF SelectionHolds
  <2>3. DependenciesFirst'
    <3>1. plan' \in Seq(RecipeNames) /\ \A j, l \in DOMAIN plan' : Leaf(plan'[j]) /\ ~Leaf(plan'[l]) => j < l
      BY <1>3
    <3> QED
      BY <2>2, <3>1, LeavesLead DEF DependenciesFirst
  <2> QED
    BY <1>3, <2>1, <2>3 DEF PlanHolds, Opening
<1> USE DEF fixed, Opening, Planned, Advance, Exit, ReadSource
<1>4. CASE UNCHANGED requestVars
  BY <1>1, <1>4 DEF requestVars
<1>5. CASE Start
  BY <1>2, <1>5 DEF Start, Fresh
<1>6. CASE NextCommand
  BY <1>2, <1>6 DEF NextCommand, Fresh
<1>7. CASE Select
  BY <1>2, <1>7 DEF Select, PlanHolds
<1>8. CASE ReadConfigFile
  BY <1>1, <1>8 DEF ReadConfigFile
<1>9. CASE ReadUpdateConfig
  BY <1>1, <1>9 DEF ReadUpdateConfig
<1>10. CASE DryRun
  BY <1>1, <1>10 DEF DryRun
<1>11. CASE Resolve
  <2> DEFINE names == CompleteList(selection)
  <2>1. names \subseteq RecipeNames
    BY DEF SelectionHolds, CompleteList
  <2>2. plan' = ResolveDependencies(names) /\ selection' = selection /\ stage' = "restore" /\ selection.filtered # {}
    BY <1>11 DEF Resolve, SelectionHolds
  <2>3. /\ plan' \in Seq(names) /\ Range(plan') = names
        /\ \A j, l \in DOMAIN plan' : plan'[j] = plan'[l] => j = l
        /\ \A j, l \in DOMAIN plan' : Leaf(plan'[j]) /\ ~Leaf(plan'[l]) => j < l
    <3> HIDE DEF names
    <3> QED
      BY <2>1, <2>2, ResolvedOrder
  <2>4. plan' \in Seq(RecipeNames)
    <3> HIDE DEF names
    <3>1. \A j \in DOMAIN plan' : plan'[j] \in RecipeNames
      BY <2>1, <2>3, LenProperties
    <3>2. plan' \in [1 .. Len(plan') -> RecipeNames] /\ Len(plan') \in Nat
      BY <2>3, <3>1, LenProperties
    <3> QED
      BY <3>2, SeqDef
  <2>5. CompleteList(selection)' = names
    BY <2>2
  <2> QED
    BY <1>3, <2>2, <2>3, <2>4, <2>5
<1>12. CASE RestoreCached
  <2> DEFINE names == CompleteList(selection')
  <2>1. /\ plan' = Listed(names, plan) /\ stage = "restore" /\ stage' = "order"
        /\ selection' = RemoveCachedDependencies(selection, host.cached)
    BY <1>12 DEF RestoreCached
  <2>2. names \subseteq CompleteList(selection) /\ selection'.filtered = selection.filtered /\ selection.filtered # {}
    BY <2>1 DEF RemoveCachedDependencies, CompleteList, SelectionHolds
  <2>3. /\ plan \in Seq(RecipeNames) /\ Range(plan) = CompleteList(selection)
        /\ \A j, l \in DOMAIN plan : plan[j] = plan[l] => j = l
    BY <2>1 DEF PlanHolds
  <2> HIDE DEF names
  <2>4. /\ plan' \in Seq(RecipeNames)
        /\ Range(plan') = Range(plan) \cap names
        /\ \A a, b \in DOMAIN plan' : a < b => \E j, l \in DOMAIN plan : j < l /\ plan'[a] = plan[j] /\ plan'[b] = plan[l]
        /\ \A a, b \in DOMAIN plan' : plan'[a] = plan'[b] => a = b
    BY <2>1, <2>3, ListedSorts
  <2>5. ASSUME NEW a \in DOMAIN plan', NEW b \in DOMAIN plan', Leaf(plan'[a]), ~Leaf(plan'[b]) PROVE a < b
    <3>1. a \in Nat /\ b \in Nat /\ a # b
      BY <2>4, <2>5, LenProperties
    <3>2. ASSUME b < a PROVE FALSE
      <4>1. PICK j \in DOMAIN plan, l \in DOMAIN plan : j < l /\ plan'[b] = plan[j] /\ plan'[a] = plan[l]
        BY <2>4, <3>2
      <4>2. l < j
        BY <2>1, <2>5, <4>1 DEF PlanHolds
      <4>3. j \in Nat /\ l \in Nat
        BY <2>3, LenProperties
      <4> QED
        BY <4>1, <4>2, <4>3
    <3> QED
      BY <3>1, <3>2
  <2>6. Range(plan') = names
    BY <2>2, <2>3, <2>4
  <2>7. CompleteList(selection)' = names
    BY DEF names
  <2> QED
    BY <1>3, <2>1, <2>2, <2>4, <2>5, <2>6, <2>7
<1>13. CASE Order
  <2>1. plan' = GetRecipes(plan) /\ stage = "order" /\ stage' = "setup" /\ selection' = selection
    BY <1>13 DEF Order
  <2>2. /\ plan \in Seq(RecipeNames) /\ plan # <<>> /\ Range(plan) = CompleteList(selection)
        /\ \A j, l \in DOMAIN plan : plan[j] = plan[l] => j = l
        /\ \A j, l \in DOMAIN plan : Leaf(plan[j]) /\ ~Leaf(plan[l]) => j < l
    BY <2>1 DEF PlanHolds
  <2>3. /\ plan' \in Seq(RecipeNames) /\ Range(plan') = Range(plan)
        /\ \A j, l \in DOMAIN plan' : plan'[j] = plan'[l] => j = l
        /\ \A j \in DOMAIN plan' : \A d \in Recipe[plan'[j]].depends_on :
               d \in Range(plan) => \E l \in 1 .. (j - 1) : plan'[l] = d
    BY <2>1, <2>2, GroupedOrder
  <2>4. plan' # <<>>
    BY <2>2, <2>3, MembersOfAList
  <2>5. DependenciesFirst'
    <3>1. \A j \in DOMAIN plan' : plan'[j] \in Range(plan)
      BY <2>3 DEF Range
    <3>2. \A n \in Range(plan) : Recipe[n].depends_on \subseteq Range(plan) \cup selection.restored
      BY <2>2 DEF SelectionHolds
    <3> QED
      BY <2>1, <2>3, <3>1, <3>2 DEF DependenciesFirst
  <2>6. CompleteList(selection)' = CompleteList(selection)
    BY <2>1
  <2> QED
    BY <2>1, <2>2, <2>3, <2>4, <2>5, <2>6 DEF PlanHolds
<1>14. CASE SetupBenchmarks
  BY <1>1, <1>14 DEF SetupBenchmarks
<1>15. CASE AllocateResources
  BY <1>1, <1>15 DEF AllocateResources
<1>16. CASE ExecuteReports
  BY <1>1, <1>16 DEF ExecuteReports
<1>17. CASE BeginExecution
  BY <1>1, <1>17 DEF BeginExecution
<1>18. CASE NextRecipe
  BY <1>1, <1>18 DEF NextRecipe
<1>19. CASE RunRecipe
  BY <1>1, <1>19 DEF RunRecipe, Crash
<1>20. CASE OneStep
  BY <1>1, <1>20 DEF OneStep, Crash
<1>21. CASE StepSetupFails
  BY <1>1, <1>21 DEF StepSetupFails, Crash
<1>22. CASE FinishSteps
  BY <1>1, <1>22 DEF FinishSteps, Crash
<1>23. CASE WriteDefault
  BY <1>1, <1>23 DEF WriteDefault
<1>24. CASE Check
  BY <1>1, <1>24 DEF Check
<1> QED
  BY <1>4, <1>5, <1>6, <1>7, <1>8, <1>9, <1>10, <1>11, <1>12, <1>13, <1>14, <1>15, <1>16, <1>17, <1>18,
     <1>19, <1>20, <1>21, <1>22, <1>23, <1>24 DEF RequestNext, RequestStep, Done

\* The recipes that are ready are those of the plan that were not skipped.
LEMMA ReadyRecipes ==
    ASSUME PlanHolds
    PROVE  /\ Len(plan) \in Nat /\ DOMAIN plan = 1 .. Len(plan)
           /\ Len(ReadyList) \in 0 .. Len(plan)
           /\ DOMAIN ReadyList = 1 .. Len(ReadyList)
           /\ \A j \in 1 .. Len(ReadyList) : ReadyList[j] \in Range(plan) /\ ~Skipped(ReadyList[j])
           /\ \A n \in Range(plan) : ~Skipped(n) => \E j \in 1 .. Len(ReadyList) : ReadyList[j] = n
           /\ \A j, l \in 1 .. Len(ReadyList) : ReadyList[j] = ReadyList[l] => j = l
<1>1. plan \in Seq(RecipeNames)
  BY DEF PlanHolds
<1>2. Len(plan) \in Nat /\ DOMAIN plan = 1 .. Len(plan)
  BY <1>1, LenProperties
<1> DEFINE ready == {n \in Range(plan) : ~Skipped(n)}
<1>3. ReadyList = Listed(ready, plan)
  BY DEF ReadyList
<1> HIDE DEF ready
<1>4. /\ ReadyList \in Seq(RecipeNames)
      /\ Len(ReadyList) <= Len(plan)
      /\ Range(ReadyList) = Range(plan) \cap ready
      /\ DOMAIN ReadyList = 1 .. Len(ReadyList)
      /\ \A j, l \in DOMAIN ReadyList : ReadyList[j] = ReadyList[l] => j = l
  BY <1>1, <1>3, ListedSorts DEF PlanHolds
<1>5. Len(ReadyList) \in Nat
  BY <1>4, LenProperties
<1>6. \A j \in 1 .. Len(ReadyList) : ReadyList[j] \in ready
  BY <1>4 DEF Range
<1>7. \A n \in ready : \E j \in 1 .. Len(ReadyList) : ReadyList[j] = n
  <2>1. ready \subseteq Range(plan)
    BY DEF ready
  <2> QED
    BY <1>4, <2>1 DEF Range
<1> QED
  BY <1>2, <1>4, <1>5, <1>6, <1>7 DEF ready

\* The outcome of a recipe that ran leaves the list as it is.
LEMMA OutcomeKeepsReady ==
    ASSUME NEW n, NEW o, ~Skipped(n), o # "skipped", status' = Outcome(n, o), plan' = plan
    PROVE  ReadyList' = ReadyList
<1>1. \A m : Skipped(m)' <=> Skipped(m)
  <2>1. DOMAIN status' = {n} \cup DOMAIN status
    BY DEF Outcome, Assigned
  <2>2. \A m \in DOMAIN status' : status'[m] = IF m = n THEN o ELSE status[m]
    BY DEF Outcome, Assigned
  <2> QED
    BY <2>1, <2>2 DEF Skipped
<1>2. {m \in Range(plan) : ~Skipped(m)}' = {m \in Range(plan) : ~Skipped(m)}
  BY <1>1
<1> QED
  BY <1>2 DEF ReadyList

LEMMA PlaceInit == RequestInit => PlaceHolds
BY DEF RequestInit, PlaceHolds, Opening

\* The loops stay within the plan and the list of recipes that are ready.
LEMMA PlaceStep ==
    CommandHolds /\ PlanHolds /\ PlanHolds' /\ PlaceHolds /\ [RequestNext]_requestVars => PlaceHolds'
<1> SUFFICES ASSUME CommandHolds, PlanHolds, PlanHolds', PlaceHolds, [RequestNext]_requestVars PROVE PlaceHolds'
  OBVIOUS
<1> DEFINE Early == Opening \cup {"restore", "order", "execute"}
<1>0. /\ Len(plan) \in Nat /\ DOMAIN plan = 1 .. Len(plan) /\ Len(ReadyList) \in 0 .. Len(plan)
      /\ plan # <<>> => Len(plan) >= 1
  <2>1. plan \in Seq(RecipeNames)
    BY DEF PlanHolds
  <2> QED
    BY <2>1, ReadyRecipes, EmptySeq
<1>1. Len(plan') \in Nat /\ DOMAIN plan' = 1 .. Len(plan') /\ (plan' # <<>> => Len(plan') >= 1)
  <2>1. plan' \in Seq(RecipeNames)
    BY DEF PlanHolds
  <2> QED
    BY <2>1, LenProperties, EmptySeq
<1>2. ASSUME i' = 1, stage' \in Early \cup {"setup", "alloc", "end"}, stage' \in {"setup", "alloc"} => plan' # <<>>
      PROVE  PlaceHolds'
  BY <1>1, <1>2 DEF PlaceHolds, Opening
<1>3. ASSUME i' = i, plan' = plan, stage' = "end" PROVE PlaceHolds'
  BY <1>3 DEF PlaceHolds, Opening
<1>4. ASSUME NEW next \in {"alloc", "execute"}, plan' = plan, stage \in {"setup", "alloc"}, Advance(next) PROVE PlaceHolds'
  <2>1. plan # <<>> /\ i \in 1 .. Len(plan)
    BY <1>0, <1>4 DEF PlanHolds, PlaceHolds, Planned
  <2>2. CASE i = Len(plan)
    BY <1>2, <1>4, <2>1, <2>2 DEF Advance
  <2>3. CASE i # Len(plan)
    <3>0. i' = i + 1 /\ stage' = stage
      BY <1>4, <2>3 DEF Advance
    <3>1. i' \in 1 .. Len(plan)
      <4>1. i \in Nat /\ 1 <= i /\ i <= Len(plan) /\ Len(plan) \in Nat
        BY <1>0, <2>1
      <4>2. i < Len(plan)
        BY <2>3, <4>1
      <4>3. i + 1 \in 1 .. Len(plan)
        BY <4>1, <4>2
      <4> QED
        BY <3>0, <4>3
    <3> QED
      BY <1>0, <1>4, <3>0, <3>1 DEF PlaceHolds, Opening
  <2> QED
    BY <2>2, <2>3
<1>5. ASSUME stage \in {"run", "step"}, stage' \in {"recipe", "run", "step"}, plan' = plan, i' = i,
             status' = status \/ (\E o : o # "skipped" /\ status' = Outcome(Current, o))
      PROVE  PlaceHolds'
  <2>1. i \in 1 .. Len(ReadyList) /\ ~Skipped(Current)
    BY <1>5, ReadyRecipes DEF PlaceHolds, Current
  <2>2. ReadyList' = ReadyList
    <3>1. CASE status' = status
      BY <1>5, <3>1 DEF ReadyList, Skipped
    <3>2. CASE \E o : o # "skipped" /\ status' = Outcome(Current, o)
      BY <1>5, <2>1, <3>2, OutcomeKeepsReady
    <3> QED
      BY <1>5, <3>1, <3>2
  <2> QED
    BY <1>0, <1>5, <2>1, <2>2 DEF PlaceHolds, Opening
<1> USE DEF fixed, Opening, Planned, Exit, ReadSource
<1>6. CASE UNCHANGED requestVars
  <2>1. UNCHANGED <<plan, i, stage, status>>
    BY <1>6 DEF requestVars
  <2>2. ReadyList' = ReadyList
    BY <2>1 DEF ReadyList, Skipped
  <2> QED
    BY <2>1, <2>2 DEF PlaceHolds
<1>7. CASE Start
  BY <1>2, <1>7 DEF Start, Fresh
<1>8. CASE NextCommand
  BY <1>2, <1>8 DEF NextCommand, Fresh
<1>9. CASE Select
  BY <1>2, <1>9 DEF Select, PlaceHolds
<1>10. CASE ReadConfigFile
  BY <1>2, <1>10 DEF ReadConfigFile, PlaceHolds
<1>11. CASE ReadUpdateConfig
  BY <1>2, <1>11 DEF ReadUpdateConfig, PlaceHolds
<1>12. CASE DryRun
  BY <1>2, <1>12 DEF DryRun, PlaceHolds
<1>13. CASE Resolve
  BY <1>2, <1>13 DEF Resolve, PlaceHolds
<1>14. CASE RestoreCached
  BY <1>2, <1>14 DEF RestoreCached, PlaceHolds
<1>15. CASE Order
  BY <1>2, <1>15 DEF Order, PlaceHolds, PlanHolds
<1>16. CASE SetupBenchmarks
  BY <1>4, <1>16 DEF SetupBenchmarks
<1>17. CASE AllocateResources
  BY <1>4, <1>17 DEF AllocateResources
<1>18. CASE ExecuteReports
  BY <1>3, <1>18 DEF ExecuteReports
<1>19. CASE BeginExecution
  <2>1. CASE ReadyList = <<>>
    BY <1>3, <1>19, <2>1 DEF BeginExecution
  <2>2. CASE ReadyList # <<>>
    <3>1. ReadyList' = ReadyList /\ i' = 0 /\ stage' = "recipe" /\ plan' = plan
      BY <1>19, <2>2 DEF BeginExecution, ReadyList, Skipped
    <3> QED
      BY <1>0, <3>1 DEF PlaceHolds
  <2> QED
    BY <2>1, <2>2
<1>20. CASE NextRecipe
  <2>1. i \in 0 .. Len(ReadyList) /\ ReadyList' = ReadyList /\ plan' = plan
    BY <1>20 DEF NextRecipe, PlaceHolds, ReadyList, Skipped
  <2>2. CASE i < Len(ReadyList)
    <3>1. i' = i + 1 /\ stage' = "run"
      BY <1>20, <2>2 DEF NextRecipe
    <3> QED
      BY <1>0, <2>1, <2>2, <3>1 DEF PlaceHolds
  <2>3. CASE ~(i < Len(ReadyList))
    BY <1>3, <1>20, <2>3 DEF NextRecipe
  <2> QED
    BY <2>2, <2>3
<1>21. CASE RunRecipe
  <2>1. stage' = "end" \/ stage' \in {"recipe", "run", "step"}
    BY <1>21 DEF RunRecipe, Crash
  <2>2. status' = status \/ (\E o : o # "skipped" /\ status' = Outcome(Current, o))
    <3>1. status' = status \/ status' = Outcome(Current, IF Failure(Current) = "none" THEN "completed" ELSE "failed")
      BY <1>21 DEF RunRecipe, Crash
    <3> QED
      BY <3>1
  <2> QED
    BY <1>3, <1>5, <1>21, <2>1, <2>2 DEF RunRecipe
<1>22. CASE OneStep
  <2>1. stage' = "end" \/ stage' \in {"recipe", "run", "step"}
    BY <1>22 DEF OneStep, Crash
  <2>2. status' = status \/ (\E o : o # "skipped" /\ status' = Outcome(Current, o))
    <3>1. status' = status \/ status' = Outcome(Current, IF BreakRaises(bar) THEN "unexplained" ELSE "failed")
      BY <1>22 DEF OneStep, Crash
    <3> QED
      BY <3>1
  <2> QED
    BY <1>3, <1>5, <1>22, <2>1, <2>2 DEF OneStep
<1>23. CASE StepSetupFails
  <2>1. stage' = "end" \/ stage' \in {"recipe", "run", "step"}
    BY <1>23 DEF StepSetupFails, Crash
  <2>2. status' = status \/ (\E o : o # "skipped" /\ status' = Outcome(Current, o))
    BY <1>23 DEF StepSetupFails, Crash
  <2> QED
    BY <1>3, <1>5, <1>23, <2>1, <2>2 DEF StepSetupFails
<1>24. CASE FinishSteps
  <2>1. stage' = "end" \/ stage' \in {"recipe", "run", "step"}
    BY <1>24 DEF FinishSteps, Crash
  <2>2. status' = status \/ (\E o : o # "skipped" /\ status' = Outcome(Current, o))
    <3>1. \A o \in ResultsOf(Current) : o # "skipped"
      BY DEF ResultsOf
    <3> QED
      BY <1>24, <3>1 DEF FinishSteps, Crash
  <2> QED
    BY <1>3, <1>5, <1>24, <2>1, <2>2 DEF FinishSteps
<1>25. CASE WriteDefault
  BY <1>2, <1>25 DEF WriteDefault, PlaceHolds
<1>26. CASE Check
  BY <1>2, <1>26 DEF Check, PlaceHolds
<1> QED
  BY <1>6, <1>7, <1>8, <1>9, <1>10, <1>11, <1>12, <1>13, <1>14, <1>15, <1>16, <1>17, <1>18, <1>19, <1>20,
     <1>21, <1>22, <1>23, <1>24, <1>25, <1>26 DEF RequestNext, RequestStep, Done

LEMMA OutcomesInit == RequestInit => OutcomesHold
BY DEF RequestInit, OutcomesHold

\* Only recipes of the plan are set up, run, and have an outcome.
LEMMA OutcomesStep ==
    CommandHolds /\ PlanHolds /\ PlaceHolds /\ OutcomesHold /\ [RequestNext]_requestVars => OutcomesHold'
<1> SUFFICES ASSUME CommandHolds, PlanHolds, PlaceHolds, OutcomesHold, [RequestNext]_requestVars PROVE OutcomesHold'
  OBVIOUS
<1> DEFINE Outcomes == {"ready", "skipped", "completed", "failed", "unexplained"}
           Early == Opening \cup {"restore", "order"}
<1>0. plan \in Seq(RecipeNames) /\ DOMAIN plan = 1 .. Len(plan)
  BY LenProperties DEF PlanHolds
<1>1. ASSUME UNCHANGED <<cfgs, status, ran>>, stage' \in Early => stage \in Early,
             stage' \in Early \/ plan' = plan
      PROVE  OutcomesHold'
  BY <1>1 DEF OutcomesHold
<1>2. ASSUME DOMAIN cfgs' = {}, DOMAIN status' = {}, DOMAIN ran' = {} PROVE OutcomesHold'
  BY <1>2 DEF OutcomesHold
<1>3. ASSUME NEW n \in Range(plan), NEW o \in Outcomes, status' = Assigned(status, n, o)
      PROVE  /\ DOMAIN status' \subseteq Range(plan)
             /\ \A m \in DOMAIN status' : status'[m] \in Outcomes
  BY <1>3 DEF OutcomesHold, Assigned
<1>4. ASSUME NEW n \in Range(plan), status' = Skip(n)
      PROVE  /\ DOMAIN status' \subseteq Range(plan)
             /\ \A m \in DOMAIN status' : status'[m] \in Outcomes
  BY <1>4 DEF OutcomesHold, Skip
<1>5. ASSUME status' = status
      PROVE  /\ DOMAIN status' \subseteq Range(plan)
             /\ \A m \in DOMAIN status' : status'[m] \in Outcomes
  BY <1>5 DEF OutcomesHold
<1>6. ASSUME stage' \notin Early, plan' = plan,
             DOMAIN cfgs' \subseteq Range(plan), DOMAIN ran' \subseteq Range(plan), DOMAIN status' \subseteq Range(plan),
             \A m \in DOMAIN status' : status'[m] \in Outcomes
      PROVE  OutcomesHold'
  BY <1>6 DEF OutcomesHold
<1>7. ASSUME stage \in {"run", "step"} PROVE Current \in Range(plan)
  BY <1>7, ReadyRecipes DEF PlaceHolds, Current
<1>8. ASSUME stage \in {"setup", "alloc"} PROVE plan[i] \in Range(plan)
  BY <1>8 DEF PlaceHolds, Range
<1>9. DOMAIN cfgs \subseteq Range(plan) /\ DOMAIN ran \subseteq Range(plan)
  BY DEF OutcomesHold
<1> USE DEF fixed, Opening, Planned, Exit, ReadSource, progress
<1>10. CASE UNCHANGED requestVars
  BY <1>1, <1>10 DEF requestVars
<1>11. CASE Start
  BY <1>2, <1>11 DEF Start, Fresh
<1>12. CASE NextCommand
  BY <1>2, <1>12 DEF NextCommand, Fresh
<1>13. CASE Select
  BY <1>1, <1>13 DEF Select
<1>14. CASE ReadConfigFile
  BY <1>1, <1>14 DEF ReadConfigFile
<1>15. CASE ReadUpdateConfig
  BY <1>1, <1>15 DEF ReadUpdateConfig
<1>16. CASE DryRun
  BY <1>1, <1>16 DEF DryRun
<1>17. CASE Resolve
  BY <1>1, <1>17 DEF Resolve
<1>18. CASE RestoreCached
  BY <1>1, <1>18 DEF RestoreCached
<1>19. CASE Order
  BY <1>2, <1>19 DEF Order, OutcomesHold
<1>20. CASE SetupBenchmarks
  <2>1. stage' \in {"setup", "alloc"} /\ plan' = plan /\ ran' = ran
    BY <1>20 DEF SetupBenchmarks, Advance
  <2>2. CASE Skipped(plan[i])
    BY <1>5, <1>6, <1>9, <1>20, <2>1, <2>2 DEF SetupBenchmarks
  <2>3. CASE ~Skipped(plan[i])
    <3> DEFINE n == plan[i]
               config == InitializeConfig(n, user, Cmd.quick)
    <3>1. /\ cfgs' = Assigned(cfgs, n, config)
          /\ status' = Skip(n) \/ status' = Assigned(status, n, "ready")
      BY <1>20, <2>3 DEF SetupBenchmarks, Ready
    <3>2. n \in Range(plan)
      BY <1>8, <1>20 DEF SetupBenchmarks
    <3> HIDE DEF n, config
    <3>3. DOMAIN cfgs' \subseteq Range(plan)
      BY <1>9, <3>1, <3>2 DEF Assigned
    <3> QED
      BY <1>3, <1>4, <1>6, <1>9, <2>1, <3>1, <3>2, <3>3
  <2> QED
    BY <2>2, <2>3
<1>21. CASE AllocateResources
  <2>1. stage' \in {"alloc", "execute"} /\ plan' = plan /\ ran' = ran /\ cfgs' = cfgs
    BY <1>21 DEF AllocateResources, Advance
  <2>2. status' = status \/ status' = Skip(plan[i])
    BY <1>21 DEF AllocateResources
  <2>3. plan[i] \in Range(plan)
    BY <1>8, <1>21 DEF AllocateResources
  <2> QED
    BY <1>4, <1>5, <1>6, <1>9, <2>1, <2>2, <2>3
<1>22. CASE ExecuteReports
  <2>1. /\ stage' = "end" /\ plan' = plan /\ ran' = ran /\ cfgs' = cfgs
        /\ DOMAIN status' = DOMAIN status
        /\ \A m \in DOMAIN status : status'[m] \in Outcomes
    BY <1>22 DEF ExecuteReports
  <2> QED
    BY <1>5, <1>6, <1>9, <2>1 DEF OutcomesHold
<1>23. CASE BeginExecution
  BY <1>1, <1>23 DEF BeginExecution
<1>24. CASE NextRecipe
  BY <1>1, <1>24 DEF NextRecipe
<1>25. CASE RunRecipe
  <2>1. Current \in Range(plan)
    BY <1>7, <1>25 DEF RunRecipe
  <2>2. stage' \notin Early /\ plan' = plan /\ cfgs' = cfgs
    BY <1>25 DEF RunRecipe, Crash
  <2>3. ran' = ran \/ ran' = Assigned(ran, Current, 0)
    BY <1>25 DEF RunRecipe, Crash
  <2>4. status' = status \/ \E o \in Outcomes : status' = Assigned(status, Current, o)
    <3>1. status' = status \/ status' = Outcome(Current, IF Failure(Current) = "none" THEN "completed" ELSE "failed")
      BY <1>25 DEF RunRecipe, Crash
    <3> QED
      BY <3>1 DEF Outcome
  <2>5. DOMAIN ran' \subseteq Range(plan)
    BY <1>9, <2>1, <2>3 DEF Assigned
  <2> QED
    BY <1>3, <1>5, <1>6, <1>9, <2>1, <2>2, <2>4, <2>5
<1>26. CASE OneStep
  <2>1. Current \in Range(plan)
    BY <1>7, <1>26 DEF OneStep
  <2>2. stage' \notin Early /\ plan' = plan /\ cfgs' = cfgs
    BY <1>26 DEF OneStep, Crash
  <2>3. ran' = ran \/ ran' = [ran EXCEPT ![Current] = @ + 1]
    BY <1>26 DEF OneStep, Crash
  <2>4. status' = status \/ \E o \in Outcomes : status' = Assigned(status, Current, o)
    <3>1. status' = status \/ status' = Outcome(Current, IF BreakRaises(bar) THEN "unexplained" ELSE "failed")
      BY <1>26 DEF OneStep, Crash
    <3> QED
      BY <3>1 DEF Outcome
  <2>5. DOMAIN ran' \subseteq Range(plan)
    BY <1>9, <2>1, <2>3
  <2> QED
    BY <1>3, <1>5, <1>6, <1>9, <2>1, <2>2, <2>4, <2>5
<1>27. CASE StepSetupFails
  <2>1. Current \in Range(plan)
    BY <1>7, <1>27 DEF StepSetupFails
  <2>2. stage' \notin Early /\ plan' = plan /\ cfgs' = cfgs /\ ran' = ran
    BY <1>27 DEF StepSetupFails, Crash
  <2>3. status' = status \/ \E o \in Outcomes : status' = Assigned(status, Current, o)
    BY <1>27 DEF StepSetupFails, Crash, Outcome
  <2> QED
    BY <1>3, <1>5, <1>6, <1>9, <2>1, <2>2, <2>3
<1>28. CASE FinishSteps
  <2>1. Current \in Range(plan)
    BY <1>7, <1>28 DEF FinishSteps
  <2>2. stage' \notin Early /\ plan' = plan /\ cfgs' = cfgs /\ ran' = ran
    BY <1>28 DEF FinishSteps, Crash
  <2>3. status' = status \/ \E o \in Outcomes : status' = Assigned(status, Current, o)
    <3>1. \A o \in ResultsOf(Current) : o \in Outcomes
      BY DEF ResultsOf
    <3> QED
      BY <1>28, <3>1 DEF FinishSteps, Crash, Outcome
  <2> QED
    BY <1>3, <1>5, <1>6, <1>9, <2>1, <2>2, <2>3
<1>29. CASE WriteDefault
  BY <1>1, <1>29 DEF WriteDefault
<1>30. CASE Check
  BY <1>1, <1>30 DEF Check
<1> QED
  BY <1>10, <1>11, <1>12, <1>13, <1>14, <1>15, <1>16, <1>17, <1>18, <1>19, <1>20, <1>21, <1>22, <1>23, <1>24,
     <1>25, <1>26, <1>27, <1>28, <1>29, <1>30 DEF RequestNext, RequestStep, Done

BarFields == {"trackers", "depth", "stack", "global", "avg", "shown"}

\* Entering a block goes one deeper, leaving it one back; the other calls stay.
LEMMA BarCalls ==
    ASSUME NEW b, DOMAIN b = BarFields, NEW d, NEW sized, NEW count
    PROVE  /\ DOMAIN Announce(b, d) = BarFields
           /\ Announce(b, d).depth = b.depth /\ Announce(b, d).trackers = b.trackers
           /\ DOMAIN Resume(b) = BarFields
           /\ Resume(b).depth = b.depth /\ Resume(b).trackers = b.trackers
           /\ DOMAIN OnEnterIterationBlock(b, sized, count) = BarFields
           /\ OnEnterIterationBlock(b, sized, count).depth = b.depth + 1
           /\ DOMAIN OnExitIterationBlock(b) = BarFields
           /\ OnExitIterationBlock(b).depth = b.depth - 1
           /\ DOMAIN Complete(b, d) = BarFields
           /\ Complete(b, d).depth = b.depth - 1
<1> USE DEF BarFields
<1>1. DOMAIN Resume(b) = BarFields /\ Resume(b).depth = b.depth /\ Resume(b).trackers = b.trackers
  BY DEF Resume
<1>2. /\ DOMAIN OnEnterIterationBlock(b, sized, count) = BarFields
      /\ OnEnterIterationBlock(b, sized, count).depth = b.depth + 1
  BY DEF OnEnterIterationBlock
<1>3. ASSUME NEW c, DOMAIN c = BarFields
      PROVE  DOMAIN OnExitIterationBlock(c) = BarFields /\ OnExitIterationBlock(c).depth = c.depth - 1
  BY <1>3 DEF OnExitIterationBlock
<1>4. ASSUME NEW t, NEW p, NEW idx, NEW max, NEW c, c = UpdateStatus(b, t, p, idx, max)
      PROVE  DOMAIN c = BarFields /\ c.depth = b.depth /\ c.trackers = b.trackers
  BY <1>4 DEF UpdateStatus
<1>5. DOMAIN Announce(b, d) = BarFields /\ Announce(b, d).depth = b.depth /\ Announce(b, d).trackers = b.trackers
  <2> DEFINE idx == b.stack[d].idx
             max == IF b.stack[d].sized THEN b.stack[d].count ELSE b.stack[d].idx + 1
             c == UpdateStatus(b, b.trackers, b.depth, idx, max)
  <2>1. DOMAIN c = BarFields /\ c.depth = b.depth /\ c.trackers = b.trackers
    BY <1>4
  <2>2. Announce(b, d) = [c EXCEPT !.stack[d].count = max, !.stack[d].idx = idx + 1]
    BY DEF Announce
  <2> HIDE DEF c, max, idx
  <2> QED
    BY <2>1, <2>2
<1>6. DOMAIN Complete(b, d) = BarFields /\ Complete(b, d).depth = b.depth - 1
  <2> DEFINE c == IF ShowsCompletion(b, d)
                  THEN UpdateStatus(b, {"async"}, b.depth, b.stack[d].idx, b.stack[d].count) ELSE b
  <2>1. DOMAIN c = BarFields /\ c.depth = b.depth
    BY <1>4
  <2>2. Complete(b, d) = OnExitIterationBlock(c)
    BY DEF Complete
  <2> HIDE DEF c
  <2> QED
    BY <1>3, <2>1, <2>2
<1> QED
  BY <1>1, <1>2, <1>3, <1>5, <1>6

LEMMA FreshBar ==
    ASSUME NEW trackers
    PROVE  /\ DOMAIN Container(trackers) = BarFields
           /\ Container(trackers).depth = -1 /\ Container(trackers).trackers = trackers
BY DEF Container, BarFields

LEMMA BarInit == RequestInit => BarHolds
BY FreshBar DEF RequestInit, BarHolds, BarFields

\* The bar is at the depth of the loop the program is in.
LEMMA BarStep == BarHolds /\ [RequestNext]_requestVars => BarHolds'
<1> SUFFICES ASSUME BarHolds, [RequestNext]_requestVars PROVE BarHolds'
  OBVIOUS
<1>0. /\ DOMAIN bar = BarFields /\ bar.depth \in -1 .. 1
      /\ stage \in {"recipe", "run"} /\ Active(bar) => bar.depth = 0
      /\ stage = "step" /\ Active(bar) => bar.depth = 1
  BY DEF BarHolds, BarFields
<1>1. ASSUME UNCHANGED bar, stage' \notin {"recipe", "run", "step"} PROVE BarHolds'
  BY <1>0, <1>1 DEF BarHolds, BarFields
<1>2. ASSUME DOMAIN bar' = BarFields, bar'.depth \in -1 .. 1,
             stage' \in {"recipe", "run"} /\ Active(bar') => bar'.depth = 0,
             stage' = "step" /\ Active(bar') => bar'.depth = 1
      PROVE  BarHolds'
  BY <1>2 DEF BarHolds, BarFields
<1>3. ASSUME bar' = Container({}) PROVE BarHolds'
  BY <1>2, <1>3, FreshBar DEF Active
<1> USE DEF fixed, Exit, ReadSource, progress
<1>4. CASE UNCHANGED requestVars
  BY <1>0, <1>2, <1>4 DEF requestVars
<1>5. CASE Start
  BY <1>3, <1>5 DEF Start, Fresh
<1>6. CASE NextCommand
  BY <1>3, <1>6 DEF NextCommand, Fresh
<1>7. CASE Select
  BY <1>1, <1>7 DEF Select
<1>8. CASE ReadConfigFile
  BY <1>1, <1>8 DEF ReadConfigFile
<1>9. CASE ReadUpdateConfig
  BY <1>1, <1>9 DEF ReadUpdateConfig
<1>10. CASE DryRun
  BY <1>1, <1>10 DEF DryRun
<1>11. CASE Resolve
  BY <1>1, <1>11 DEF Resolve
<1>12. CASE RestoreCached
  BY <1>1, <1>12 DEF RestoreCached
<1>13. CASE Order
  BY <1>1, <1>13 DEF Order
<1>14. CASE SetupBenchmarks
  BY <1>1, <1>14 DEF SetupBenchmarks, Advance
<1>15. CASE AllocateResources
  BY <1>1, <1>15 DEF AllocateResources, Advance
<1>16. CASE ExecuteReports
  BY <1>1, <1>16 DEF ExecuteReports
<1>17. CASE BeginExecution
  <2>1. CASE ReadyList = <<>>
    BY <1>1, <1>17, <2>1 DEF BeginExecution
  <2>2. CASE ReadyList # <<>>
    <3> DEFINE container == Container(Trackers(Cmd.quiet, Cmd.nobar, Cmd.logfile))
               sized == TRUE
    <3>1. /\ stage' = "recipe"
          /\ bar' = IF Active(container) THEN OnEnterIterationBlock(container, sized, Len(ReadyList)) ELSE container
      BY <1>17, <2>2 DEF BeginExecution
    <3>2. DOMAIN container = BarFields /\ container.depth = -1
      BY FreshBar
    <3> HIDE DEF container, sized
    <3>3. CASE Active(container)
      <4>1. DOMAIN bar' = BarFields /\ bar'.depth = container.depth + 1
        BY <3>1, <3>2, <3>3, BarCalls
      <4>2. bar'.depth = 0
        BY <3>2, <4>1
      <4> QED
        BY <1>2, <3>1, <4>1, <4>2
    <3>4. CASE ~Active(container)
      BY <1>2, <3>1, <3>2, <3>4
    <3> QED
      BY <3>3, <3>4
  <2> QED
    BY <2>1, <2>2
<1>18. CASE NextRecipe
  <2> DEFINE resumed == IF Active(bar) /\ i > 0 THEN Resume(bar) ELSE bar
  <2>1. DOMAIN resumed = BarFields /\ resumed.depth = bar.depth /\ resumed.trackers = bar.trackers
    BY <1>0, BarCalls
  <2>2. stage = "recipe"
    BY <1>18 DEF NextRecipe
  <2>3. CASE i < Len(ReadyList)
    <3>1. stage' = "run" /\ bar' = IF Active(bar) THEN Announce(resumed, 0) ELSE bar
      BY <1>18, <2>3 DEF NextRecipe
    <3> HIDE DEF resumed
    <3> QED
      BY <1>0, <1>2, <2>1, <2>2, <3>1, BarCalls
  <2>4. CASE ~(i < Len(ReadyList))
    <3>1. stage' = "end" /\ bar' = IF Active(bar) THEN Complete(resumed, 0) ELSE bar
      BY <1>18, <2>4 DEF NextRecipe
    <3> HIDE DEF resumed
    <3>2. CASE Active(bar)
      <4>1. DOMAIN bar' = BarFields /\ bar'.depth = 0 - 1
        BY <1>0, <2>1, <2>2, <3>1, <3>2, BarCalls
      <4> QED
        BY <1>2, <3>1, <4>1
    <3> QED
      BY <1>0, <1>2, <3>1, <3>2
  <2> QED
    BY <2>3, <2>4
<1>19. CASE RunRecipe
  <2>1. stage = "run"
    BY <1>19 DEF RunRecipe
  <2>2. \/ stage' = "end" /\ bar' = bar
        \/ stage' = "recipe" /\ bar' = bar
        \/ /\ stage' = "step"
           /\ bar' = IF Active(bar) THEN OnEnterIterationBlock(bar, Sized(Current), Steps) ELSE bar
    BY <1>19 DEF RunRecipe, Crash
  <2>3. CASE stage' = "step"
    <3>1. bar' = IF Active(bar) THEN OnEnterIterationBlock(bar, Sized(Current), Steps) ELSE bar
      BY <2>2, <2>3
    <3>2. CASE Active(bar)
      <4>1. DOMAIN bar' = BarFields /\ bar'.depth = 0 + 1
        BY <1>0, <2>1, <3>1, <3>2, BarCalls
      <4> QED
        BY <1>2, <2>3, <4>1
    <3>3. CASE ~Active(bar)
      BY <1>0, <1>2, <2>3, <3>1, <3>3
    <3> QED
      BY <3>2, <3>3
  <2> QED
    BY <1>0, <1>2, <2>1, <2>2, <2>3
<1>20. CASE OneStep
  <2> DEFINE announced == IF Active(bar) THEN Announce(bar, 1) ELSE bar
  <2>1. DOMAIN announced = BarFields /\ announced.depth = bar.depth /\ announced.trackers = bar.trackers
    BY <1>0, BarCalls
  <2>2. /\ stage = "step"
        /\ \/ stage' = stage /\ bar' = IF Active(bar) THEN Resume(announced) ELSE bar
           \/ stage' = "recipe" /\ bar' = IF BreakRaises(bar) THEN bar ELSE BreakFromIteration(announced)
           \/ stage' = "end" /\ bar' = announced
    BY <1>20 DEF OneStep, Crash
  <2> HIDE DEF announced
  <2>3. ASSUME stage' = stage, bar' = IF Active(bar) THEN Resume(announced) ELSE bar PROVE BarHolds'
    BY <1>0, <1>2, <2>1, <2>2, <2>3, BarCalls
  <2>4. ASSUME stage' = "recipe", bar' = IF BreakRaises(bar) THEN bar ELSE BreakFromIteration(announced)
        PROVE  BarHolds'
    <3>1. CASE Active(bar)
      <4>1. DOMAIN bar' = BarFields /\ bar'.depth = 1 - 1
        BY <1>0, <2>1, <2>2, <2>4, <3>1, BarCalls DEF BreakRaises, BreakFromIteration
      <4> QED
        BY <1>2, <2>4, <4>1
    <3>2. CASE ~Active(bar)
      BY <1>0, <1>2, <2>4, <3>2 DEF BreakRaises
    <3> QED
      BY <3>1, <3>2
  <2>5. ASSUME stage' = "end", bar' = announced PROVE BarHolds'
    BY <1>0, <1>2, <2>1, <2>5
  <2> QED
    BY <2>2, <2>3, <2>4, <2>5
<1>21. CASE StepSetupFails
  <2>1. CASE Active(bar)
    <3>1. stage = "step" /\ stage' = "recipe" /\ bar' = OnExitIterationBlock(bar)
      BY <1>21, <2>1 DEF StepSetupFails
    <3>2. DOMAIN bar' = BarFields /\ bar'.depth = 1 - 1
      BY <1>0, <2>1, <3>1, BarCalls
    <3> QED
      BY <1>2, <3>1, <3>2
  <2>2. CASE ~Active(bar)
    BY <1>1, <1>21, <2>2 DEF StepSetupFails, Crash
  <2> QED
    BY <2>1, <2>2
<1>22. CASE FinishSteps
  <2>1. CASE Active(bar) /\ CompletionRaises(bar, 1)
    BY <1>1, <1>22, <2>1 DEF FinishSteps, Crash
  <2>2. CASE ~(Active(bar) /\ CompletionRaises(bar, 1))
    <3>1. stage = "step" /\ stage' = "recipe" /\ bar' = IF Active(bar) THEN Complete(bar, 1) ELSE bar
      BY <1>22, <2>2 DEF FinishSteps
    <3>2. CASE Active(bar)
      <4>1. DOMAIN bar' = BarFields /\ bar'.depth = 1 - 1
        BY <1>0, <3>1, <3>2, BarCalls
      <4> QED
        BY <1>2, <3>1, <4>1
    <3>3. CASE ~Active(bar)
      BY <1>0, <1>2, <3>1, <3>3
    <3> QED
      BY <3>2, <3>3
  <2> QED
    BY <2>1, <2>2
<1>23. CASE WriteDefault
  BY <1>1, <1>23 DEF WriteDefault
<1>24. CASE Check
  BY <1>1, <1>24 DEF Check
<1> QED
  BY <1>4, <1>5, <1>6, <1>7, <1>8, <1>9, <1>10, <1>11, <1>12, <1>13, <1>14, <1>15, <1>16, <1>17, <1>18,
     <1>19, <1>20, <1>21, <1>22, <1>23, <1>24 DEF RequestNext, RequestStep, Done

\* The tools of a recipe are a list of tools; those that are tried begin it.
LEMMA ToolsOfARecipe ==
    ASSUME NEW n
    PROVE  /\ Tools(n) \in Seq(Tool)
           /\ \A t : Contains(Tools(n), t) <=> t \in Range(Tools(n))
           /\ \A t : Contains(Tried(n), t) => t \in Range(Tools(n))
<1> DEFINE tools == Tools(n)
           fails == {j \in DOMAIN tools : ~ToolPasses(tools[j], version[tools[j]])}
           last == CHOOSE j \in fails : \A l \in fails : j <= l
<1>1. tools \in Seq(Tool)
  <2>1. tools \in {<<"numactl">>, <<"iperf3">>, <<"fio", "mpstat", "numactl">>, <<>>}
    BY DEF Tools
  <2>2. <<"numactl">> \in Seq(Tool) /\ <<"iperf3">> \in Seq(Tool) /\ <<>> \in Seq(Tool)
    BY DEF Tool
  <2>3. <<"fio", "mpstat", "numactl">> \in Seq(Tool)
    BY DEF Tool
  <2> HIDE DEF tools
  <2> QED
    BY <2>1, <2>2, <2>3
<1>2. Len(tools) \in Nat /\ DOMAIN tools = 1 .. Len(tools)
  BY <1>1, LenProperties
<1>3. \A t : Contains(tools, t) <=> t \in Range(tools)
  BY <1>2 DEF Contains, Range
<1>4. Tried(n) = IF fails = {} THEN tools ELSE SubSeq(tools, 1, last)
  BY DEF Tried
<1> HIDE DEF tools
<1>5. ASSUME NEW t, Contains(Tried(n), t) PROVE t \in Range(tools)
  <2>1. CASE fails = {}
    <3>1. Tried(n) = tools
      BY <1>4, <2>1
    <3> QED
      BY <1>3, <1>5, <3>1
  <2>2. CASE fails # {}
    <3>1. fails \subseteq Nat /\ fails \subseteq 1 .. Len(tools)
      BY <1>2
    <3>2. \E j \in fails : \A l \in fails : j <= l
      <4> HIDE DEF fails
      <4> QED
        BY <2>2, <3>1, FirstNumber
    <3>3. last \in fails
      <4> HIDE DEF fails
      <4> QED
        BY <3>2
    <3>4. last \in 1 .. Len(tools)
      BY <3>1, <3>3
    <3> HIDE DEF last, fails
    <3>5. /\ Len(SubSeq(tools, 1, last)) = last
          /\ \A j \in 1 .. last : SubSeq(tools, 1, last)[j] = tools[j]
      BY <1>1, <1>2, <3>4, SubSeqProperties
    <3>6. PICK j \in 1 .. last : tools[j] = t
      BY <1>4, <1>5, <2>2, <3>5 DEF Contains
    <3>7. j \in DOMAIN tools
      BY <1>2, <3>4
    <3> QED
      BY <3>6, <3>7 DEF Range
  <2> QED
    BY <2>1, <2>2
<1> QED
  BY <1>1, <1>3, <1>5 DEF tools

LEMMA AllocationInit == RequestInit => AllocationHolds
BY DEF RequestInit, AllocationHolds, Opening

\* A tool that passes leaves its recipe's claim; one that fails skips the recipe.
LEMMA AllocateStep ==
    ASSUME CommandHolds, PlanHolds, PlaceHolds, AllocationHolds, AllocateResources
    PROVE  AllocationHolds'
<1>1. PICK k \in 1 .. Len(plan) : i = k
  BY ReadyRecipes DEF PlaceHolds, AllocateResources
<1> DEFINE n == plan[k]
           tools == Range(Tools(n))
<1>2. k \in Nat /\ Len(plan) \in Nat /\ 1 <= k /\ k <= Len(plan)
  BY <1>1, ReadyRecipes
<1>3. host' = host /\ plan' = plan
  BY DEF AllocateResources, fixed
<1>4. host.tools \in [Tool -> {"absent", "good", "old", "unknown", "silent"}]
  BY RequestAssumption DEF RequestAssumption, CommandHolds
<1>5. /\ version \in [Tool -> {"none", "good", "old", "unknown", "silent"}]
      /\ VersionsHold(k) /\ ToolsHold(k)
  BY <1>1 DEF AllocateResources, AllocationHolds
<1>6. \/ Skipped(n) /\ status' = status /\ version' = version
      \/ /\ ~Skipped(n)
         /\ version' = [t \in Tool |-> IF Contains(Tried(n), t) /\ StoresVersion(t)
                                       THEN host.tools[t] ELSE version[t]]
         /\ status' = IF \A t \in tools : ToolPasses(t, version[t]) THEN status ELSE Skip(n)
  BY <1>1 DEF AllocateResources
<1> HIDE DEF n
<1>7. version' \in [Tool -> {"none", "good", "old", "unknown", "silent"}]
  <2>1. CASE Skipped(n)
    BY <1>5, <1>6, <2>1
  <2>2. CASE ~Skipped(n)
    <3>1. \A t \in Tool : StoresVersion(t) => host.tools[t] \in {"good", "old", "unknown", "silent"}
      BY <1>4 DEF StoresVersion
    <3>2. version' = [t \in Tool |-> IF Contains(Tried(n), t) /\ StoresVersion(t)
                                     THEN host.tools[t] ELSE version[t]]
      BY <1>6, <2>2
    <3> QED
      BY <1>5, <3>1, <3>2
  <2> QED
    BY <2>1, <2>2
<1>8. ASSUME NEW m, Skipped(m) PROVE Skipped(m)'
  <2>1. CASE status' = status
    BY <1>8, <2>1 DEF Skipped
  <2>2. CASE status' = Skip(n)
    BY <1>8, <2>2 DEF Skipped, Skip
  <2> QED
    BY <1>6, <2>1, <2>2
<1>9. ASSUME ~Skipped(n), NEW t \in tools, ~ToolPasses(t, version[t]) PROVE Skipped(n)'
  <2>1. status' = Skip(n)
    BY <1>6, <1>9
  <2>2. n' = n
    BY <1>3 DEF n
  <2> QED
    BY <2>1, <2>2 DEF Skipped, Skip
<1>10. ASSUME NEW t, NEW p \in Nat, SkippedFor(t, p) PROVE SkippedFor(t, p)' /\ SkippedFor(t, p + 1)'
  <2>1. PICK l \in 1 .. (p - 1) : Skipped(plan[l]) /\ Contains(Tools(plan[l]), t)
    BY <1>10 DEF SkippedFor
  <2>2. Skipped(plan[l])'
    BY <1>3, <1>8, <2>1
  <2>3. l \in 1 .. ((p + 1) - 1)
    BY <2>1
  <2>4. Contains(Tools(plan[l]), t)'
    BY <1>3, <2>1
  <2> QED
    BY <2>1, <2>2, <2>3, <2>4 DEF SkippedFor
<1>11. ASSUME NEW t \in tools, Skipped(n)' PROVE SkippedFor(t, k + 1)'
  <2>1. Contains(Tools(n), t)
    BY ToolsOfARecipe
  <2>2. Skipped(plan[k])' /\ Contains(Tools(plan[k]), t)'
    BY <1>3, <1>11, <2>1 DEF n
  <2>3. k \in 1 .. ((k + 1) - 1)
    BY <1>2
  <2> QED
    BY <2>2, <2>3 DEF SkippedFor
<1>12. ASSUME NEW t \in Tool, version'[t] # "none"
       PROVE  /\ version'[t] = host.tools[t]
              /\ CheckVersion(t, version'[t]) \/ SkippedFor(t, k + 1)'
  <2>1. CASE version'[t] = version[t]
    <3>1. version[t] = host.tools[t] /\ (CheckVersion(t, version[t]) \/ SkippedFor(t, k))
      BY <1>5, <1>12, <2>1 DEF VersionsHold
    <3>2. SkippedFor(t, k) => SkippedFor(t, k + 1)'
      BY <1>2, <1>10
    <3> QED
      BY <2>1, <3>1, <3>2
  <2>2. CASE version'[t] # version[t]
    <3>1. ~Skipped(n) /\ Contains(Tried(n), t) /\ StoresVersion(t) /\ version'[t] = host.tools[t]
      BY <1>6, <2>2
    <3>2. t \in tools
      BY <3>1, ToolsOfARecipe
    <3>3. version[t] = "none"
      BY <1>5, <2>2, <3>1 DEF VersionsHold
    <3>4. CASE CheckVersion(t, host.tools[t])
      BY <3>1, <3>4
    <3>5. CASE ~CheckVersion(t, host.tools[t])
      <4>1. ~ToolPasses(t, version[t])
        BY <3>3, <3>5 DEF ToolPasses
      <4>2. Skipped(n)'
        BY <1>9, <3>1, <3>2, <4>1
      <4> QED
        BY <1>11, <3>1, <3>2, <4>2
    <3> QED
      BY <3>4, <3>5
  <2> QED
    BY <2>1, <2>2
<1>13. ASSUME NEW j \in 1 .. k, ~Skipped(plan[j])', NEW t \in Range(Tools(plan[j]))
       PROVE  /\ host.tools[t] # "absent"
              /\ CheckVersion(t, host.tools[t]) \/ SkippedFor(t, j)'
  <2>0. j \in Nat
    BY <1>2
  <2>1. ~Skipped(plan[j])
    BY <1>3, <1>8, <1>13
  <2>2. CASE j # k
    <3>1. j \in 1 .. (k - 1)
      BY <1>2, <2>2
    <3>2. host.tools[t] # "absent" /\ (CheckVersion(t, host.tools[t]) \/ SkippedFor(t, j))
      BY <1>5, <2>1, <3>1 DEF ToolsHold
    <3> QED
      BY <1>10, <2>0, <3>2
  <2>3. CASE j = k
    <3>1. plan[j] = n /\ t \in tools /\ ~Skipped(n)
      BY <2>1, <2>3 DEF n
    <3>2. ToolPasses(t, version[t])
      <4>1. ~Skipped(n)'
        BY <1>3, <1>13, <2>3 DEF n
      <4> QED
        BY <1>9, <3>1, <4>1
    <3>3. t \in Tool
      <4>1. Tools(n) \in Seq(Tool)
        BY ToolsOfARecipe
      <4> QED
        BY <3>1, <4>1, LenProperties DEF Range
    <3>4. CASE version[t] = "none"
      BY <3>2, <3>4 DEF ToolPasses
    <3>5. CASE version[t] # "none"
      <4>1. version[t] = host.tools[t] /\ (CheckVersion(t, version[t]) \/ SkippedFor(t, k))
        BY <1>5, <3>3, <3>5 DEF VersionsHold
      <4>2. version[t] # "absent"
        BY <1>5, <3>3
      <4> QED
        BY <1>2, <1>10, <2>3, <4>1, <4>2
    <3> QED
      BY <3>4, <3>5
  <2> QED
    BY <2>2, <2>3
<1>14. ASSUME NEW p, p = k + 1 PROVE VersionsHold(p)' /\ ToolsHold(p)'
  <2>1. VersionsHold(p)'
    BY <1>3, <1>12, <1>14 DEF VersionsHold
  <2>2. ToolsHold(p)'
    <3>1. p - 1 = k
      BY <1>2, <1>14
    <3> QED
      BY <1>3, <1>13, <3>1 DEF ToolsHold
  <2> QED
    BY <2>1, <2>2
<1>15. CASE i = Len(plan)
  <2>1. stage' = "execute" /\ Len(plan)' + 1 = k + 1
    BY <1>1, <1>3, <1>15 DEF AllocateResources, Advance
  <2>2. ToolsHold(Len(plan) + 1)'
    BY <1>14, <2>1 DEF ToolsHold
  <2> QED
    BY <1>7, <2>1, <2>2 DEF AllocationHolds, Opening
<1>16. CASE i # Len(plan)
  <2>1. stage' = "alloc" /\ i' = k + 1
    BY <1>1, <1>16 DEF AllocateResources, Advance
  <2>2. VersionsHold(i)' /\ ToolsHold(i)'
    BY <1>14, <2>1 DEF ToolsHold, VersionsHold, SkippedFor
  <2> QED
    BY <1>7, <2>1, <2>2 DEF AllocationHolds, Opening
<1> QED
  BY <1>15, <1>16

\* Versions are stored while the tools of the plan are looked for, and only then.
LEMMA AllocationStep ==
    CommandHolds /\ PlanHolds /\ PlaceHolds /\ AllocationHolds /\ [RequestNext]_requestVars => AllocationHolds'
<1> SUFFICES ASSUME CommandHolds, PlanHolds, PlaceHolds, AllocationHolds, [RequestNext]_requestVars PROVE AllocationHolds'
  OBVIOUS
<1> DEFINE Early == Opening \cup {"restore", "order", "setup"}
<1>1. ASSUME UNCHANGED version, stage' \in Early => stage \in Early, stage' \notin {"alloc", "execute"}
      PROVE  AllocationHolds'
  BY <1>1 DEF AllocationHolds
<1>2. ASSUME version' = [t \in Tool |-> "none"], stage' \notin {"alloc", "execute"} PROVE AllocationHolds'
  BY <1>2 DEF AllocationHolds
<1> USE DEF fixed, Opening, Exit, ReadSource
<1>3. CASE UNCHANGED requestVars
  <2>1. UNCHANGED <<host, plan, i, stage, status, version>>
    BY <1>3 DEF requestVars
  <2> QED
    BY <2>1 DEF AllocationHolds, VersionsHold, ToolsHold, SkippedFor, Skipped
<1>4. CASE Start
  BY <1>2, <1>4 DEF Start, Fresh
<1>5. CASE NextCommand
  BY <1>2, <1>5 DEF NextCommand, Fresh
<1>6. CASE Select
  BY <1>1, <1>6 DEF Select
<1>7. CASE ReadConfigFile
  BY <1>1, <1>7 DEF ReadConfigFile
<1>8. CASE ReadUpdateConfig
  BY <1>1, <1>8 DEF ReadUpdateConfig
<1>9. CASE DryRun
  BY <1>1, <1>9 DEF DryRun
<1>10. CASE Resolve
  BY <1>1, <1>10 DEF Resolve
<1>11. CASE RestoreCached
  BY <1>1, <1>11 DEF RestoreCached
<1>12. CASE Order
  BY <1>1, <1>12 DEF Order
<1>13. CASE SetupBenchmarks
  <2>1. version' = version /\ stage = "setup"
    BY <1>13 DEF SetupBenchmarks
  <2>2. CASE i = Len(plan)
    <3>1. stage' = "alloc" /\ i' = 1
      BY <1>13, <2>2 DEF SetupBenchmarks, Advance
    <3>2. VersionsHold(i)'
      BY <2>1, <3>1 DEF VersionsHold, AllocationHolds
    <3>3. ToolsHold(i)'
      BY <3>1 DEF ToolsHold
    <3> QED
      BY <2>1, <3>1, <3>2, <3>3 DEF AllocationHolds
  <2>3. CASE i # Len(plan)
    BY <1>1, <1>13, <2>3 DEF SetupBenchmarks, Advance
  <2> QED
    BY <2>2, <2>3
<1>14. CASE AllocateResources
  BY <1>14, AllocateStep
<1>15. CASE ExecuteReports
  BY <1>1, <1>15 DEF ExecuteReports
<1>16. CASE BeginExecution
  BY <1>1, <1>16 DEF BeginExecution
<1>17. CASE NextRecipe
  BY <1>1, <1>17 DEF NextRecipe
<1>18. CASE RunRecipe
  BY <1>1, <1>18 DEF RunRecipe, Crash
<1>19. CASE OneStep
  BY <1>1, <1>19 DEF OneStep, Crash
<1>20. CASE StepSetupFails
  BY <1>1, <1>20 DEF StepSetupFails, Crash
<1>21. CASE FinishSteps
  BY <1>1, <1>21 DEF FinishSteps, Crash
<1>22. CASE WriteDefault
  BY <1>1, <1>22 DEF WriteDefault
<1>23. CASE Check
  BY <1>1, <1>23 DEF Check
<1> QED
  BY <1>3, <1>4, <1>5, <1>6, <1>7, <1>8, <1>9, <1>10, <1>11, <1>12, <1>13, <1>14, <1>15, <1>16, <1>17, <1>18,
     <1>19, <1>20, <1>21, <1>22, <1>23 DEF RequestNext, RequestStep, Done

----------------------------------------------------------------------------
(* RunRequest: settings *)

\* The kinds of values differ by their tags.
LEMMA TagsDiffer ==
    \A x : /\ Num(x) \notin {Stalls, None, Error} /\ Text(x) \notin {Stalls, None, Error}
           /\ List(x) \notin {Stalls, None, Error} /\ <<"bool", x>> \notin {Stalls, None, Error}
           /\ Error \notin {Stalls, None} /\ Stalls # None
<1>1. ASSUME NEW x PROVE /\ Num(x)[1] = "int" /\ Text(x)[1] = "text" /\ List(x)[1] = "list" /\ <<"bool", x>>[1] = "bool"
                        /\ Error[1] = "error" /\ Stalls[1] = "stalls" /\ None[1] = "none"
  BY DEF Num, Text, List, Error, Stalls, None
<1> QED
  BY <1>1

LEMMA KindOfField ==
    ASSUME NEW f \in DOMAIN USER_CFG_FIELDS
    PROVE  USER_CFG_FIELDS[f] \in {"int", "optional_int", "size", "duration", "bool", "text", "texts", "ints",
                                   "naturals", "optional_items", "optional_ints"}
BY DEF USER_CFG_FIELDS

\* The items that decide that a list cannot be converted.
WrongItems(items, optional) == {j \in DOMAIN items : NumItem(items[j], optional) \in {<<Error>>, <<Stalls>>}}

\* A list is converted number by number, unless an item is wrong; the first of these decides.
LEMMA NumListCases ==
    ASSUME NEW items, items \in Seq(Range(items)), NEW min, NEW optional
    PROVE  LET value == NumListConv(items, min, optional)
               numbers == [j \in DOMAIN items |-> NumItem(items[j], optional)]
               all == FlattenSeq(numbers)
           IN \/ /\ WrongItems(items, optional) = {}
                 /\ value = List(Listed({x \in Range(all) : x = None \/ x[2] >= min}, all))
              \/ \E j \in WrongItems(items, optional) : value = NumItem(items[j], optional)[1]
<1> DEFINE wrong == WrongItems(items, optional)
           numbers == [j \in DOMAIN items |-> NumItem(items[j], optional)]
           all == FlattenSeq(numbers)
           result == List(Listed({x \in Range(all) : x = None \/ x[2] >= min}, all))
           first == CHOOSE j \in wrong : \A l \in wrong : j <= l
           value == NumListConv(items, min, optional)
<1>1. value = IF wrong = {} THEN result ELSE numbers[first][1]
  <2>1. wrong = {j \in DOMAIN items : numbers[j] \in {<<Error>>, <<Stalls>>}}
    BY DEF WrongItems
  <2> QED
    BY <2>1 DEF NumListConv
<1>2. CASE wrong # {}
  <2>1. wrong \subseteq DOMAIN items /\ DOMAIN items \subseteq Nat
    BY LenProperties DEF WrongItems
  <2>2. \E j \in wrong : \A l \in wrong : j <= l
    BY <1>2, <2>1, FirstNumber
  <2>3. first \in wrong
    <3> HIDE DEF wrong
    <3> QED
      BY <2>2
  <2>4. numbers[first] = NumItem(items[first], optional)
    BY <2>1, <2>3
  <2> HIDE DEF first, numbers, result, value, wrong
  <2>5. value = NumItem(items[first], optional)[1]
    BY <1>1, <1>2, <2>4
  <2> QED
    BY <2>3, <2>5 DEF value, wrong
<1> QED
  BY <1>1, <1>2

\* A list of numbers is no null, and stalls only for a range.
LEMMA NumListValue ==
    ASSUME NEW items, items \in Seq(Range(items)), NEW min, NEW optional, NEW value, value = NumListConv(items, min, optional)
    PROVE  /\ value # None
           /\ value = Stalls => \E item \in Range(items) : item.k = "range" /\ item.step <= 0
<1>1. CASE \E s : value = List(s)
  BY <1>1, TagsDiffer
<1>2. ASSUME NEW j \in WrongItems(items, optional), value = NumItem(items[j], optional)[1]
      PROVE  /\ value # None
             /\ value = Stalls => \E item \in Range(items) : item.k = "range" /\ item.step <= 0
  <2> DEFINE item == items[j]
  <2>1. /\ item \in Range(items) /\ NumItem(item, optional) \in {<<Error>>, <<Stalls>>}
        /\ value = NumItem(item, optional)[1]
    BY <1>2 DEF WrongItems, Range
  <2> HIDE DEF item
  <2>2. value \in {Error, Stalls} /\ NumItem(item, optional) = <<value>>
    BY <2>1
  <2>3. ASSUME value = Stalls PROVE item.k = "range" /\ item.step <= 0
    <3>1. CASE item.k # "range"
      <4>1. \/ NumItem(item, optional) = <<Num(item.n)>>
            \/ NumItem(item, optional) = <<None>>
            \/ NumItem(item, optional) = <<Error>>
        BY <3>1 DEF NumItem
      <4> QED
        BY <2>2, <2>3, <4>1, TagsDiffer
    <3>2. CASE item.k = "range" /\ ~(item.step <= 0)
      <4> DEFINE n == ((item.hi - item.lo) \div item.step) + 1
                 list == [l \in 1 .. n |-> Num(item.lo + (l - 1) * item.step)]
      <4>1. NumItem(item, optional) = <<>> \/ NumItem(item, optional) = list
        BY <3>2 DEF NumItem, RangeConv
      <4>2. \A l \in DOMAIN list : list[l] # Stalls
        BY TagsDiffer
      <4>3. 1 \in DOMAIN <<value>> /\ <<value>>[1] = value /\ DOMAIN <<>> = {}
        OBVIOUS
      <4> HIDE DEF list
      <4>4. NumItem(item, optional) = list
        BY <2>2, <4>1, <4>3
      <4> QED
        BY <2>2, <2>3, <4>2, <4>3, <4>4
    <3> QED
      BY <3>1, <3>2
  <2> QED
    BY <2>1, <2>2, <2>3, TagsDiffer
<1> QED
  BY <1>1, <1>2, NumListCases

\* Only null is converted to None, and only a range stalls.
LEMMA ConvertedValue ==
    ASSUME NEW f \in DOMAIN USER_CFG_FIELDS, NEW raw, IsRaw(raw)
    PROVE  /\ Conv(f, raw) = None => raw.k = "null"
           /\ Conv(f, raw) = Stalls => \E item \in Range(Items(raw)) : item.k = "range" /\ item.step <= 0
<1> DEFINE kind == USER_CFG_FIELDS[f]
           value == Conv(f, raw)
           Fine(v) == /\ v = None => raw.k = "null"
                      /\ v = Stalls => \E item \in Range(Items(raw)) : item.k = "range" /\ item.step <= 0
<1>1. kind \in {"int", "optional_int", "size", "duration", "bool", "text", "texts", "ints",
                "naturals", "optional_items", "optional_ints"}
  BY KindOfField
<1>2. /\ kind = "int" => value = IntConv(raw)
      /\ kind = "optional_int" => value = OptionalIntConv(raw)
      /\ kind = "size" => value = MemSizeConv(raw)
      /\ kind = "duration" => value = DurationConv(raw)
      /\ kind = "bool" => value = BooleanConv(raw)
      /\ kind = "text" => value = TextConv(raw)
      /\ kind = "texts" => value = StrListConv(raw)
      /\ kind = "ints" => value = NumListConv(Items(raw), MinValue, FALSE)
      /\ kind = "naturals" => value = NumListConv(Items(raw), 1, FALSE)
      /\ kind = "optional_items" => value = NumListConv(Items(raw), 0, TRUE)
      /\ kind = "optional_ints" => value = OptionalIntListConv(raw)
  BY DEF Conv
<1> HIDE DEF kind, value
<1>3. ASSUME NEW min, NEW optional PROVE Fine(NumListConv(Items(raw), min, optional))
  BY NumListValue DEF IsRaw
<1>4. IntConv(raw) \notin {None, Stalls}
  BY TagsDiffer DEF IntConv
<1>5. Fine(OptionalIntConv(raw))
  BY <1>4, TagsDiffer DEF OptionalIntConv
<1>6. Fine(MemSizeConv(raw))
  BY <1>4, TagsDiffer DEF MemSizeConv, StrMemsize
<1>7. DurationConv(raw) \notin {None, Stalls}
  BY TagsDiffer DEF DurationConv, StrTime
<1>8. BooleanConv(raw) \notin {None, Stalls}
  BY TagsDiffer DEF BooleanConv
<1>9. TextConv(raw) \notin {None, Stalls} /\ StrListConv(raw) \notin {None, Stalls}
  BY TagsDiffer DEF TextConv, StrListConv
<1>10. Fine(OptionalIntListConv(raw))
  <2>1. CASE raw.k = "null"
    BY <2>1, TagsDiffer DEF OptionalIntListConv
  <2>2. CASE raw.k # "null"
    BY <1>3, <2>2 DEF OptionalIntListConv
  <2> QED
    BY <2>1, <2>2
<1>11. Fine(NumListConv(Items(raw), MinValue, FALSE)) /\ Fine(NumListConv(Items(raw), 1, FALSE))
  BY <1>3
<1>12. Fine(NumListConv(Items(raw), 0, TRUE))
  BY <1>3
<1>13. Fine(value)
  BY <1>1, <1>2, <1>4, <1>5, <1>6, <1>7, <1>8, <1>9, <1>10, <1>11, <1>12
<1> QED
  BY <1>13 DEF value

LEMMA CountingUp ==
    ASSUME NEW S \in SUBSET Nat, 0 \in S, \A n \in S : n + 1 \in S
    PROVE  S = Nat
<1> SUFFICES ASSUME Nat \ S # {} PROVE FALSE
  OBVIOUS
<1>1. PICK p \in Nat \ S : \A q \in Nat \ S : p <= q
  BY FirstNumber
<1>2. p # 0 /\ p - 1 \in Nat /\ (p - 1) + 1 = p /\ ~(p <= p - 1)
  BY <1>1
<1> QED
  BY <1>1, <1>2

\* The list FlattenSeq builds exists up to each place.
LEMMA Flattened ==
    ASSUME NEW X, NEW seqs \in Seq(Seq(X)), NEW m \in 1 .. Len(seqs)
    PROVE  \E f \in [1 .. m -> Seq(X)] :
               \A j \in 1 .. m : f[j] = IF j = 1 THEN seqs[j] ELSE f[j - 1] \o seqs[j]
<1> DEFINE T == Seq(X)
           Built(f, k) == \A j \in 1 .. k : f[j] = IF j = 1 THEN seqs[j] ELSE f[j - 1] \o seqs[j]
           I == {k \in Nat : k + 1 <= Len(seqs) => \E f \in [1 .. (k + 1) -> T] : Built(f, k + 1)}
<1>1. Len(seqs) \in Nat /\ \A k \in 1 .. Len(seqs) : seqs[k] \in T
  BY LenProperties
<1>2. \A s, t \in T : s \o t \in T
  OBVIOUS
<1> HIDE DEF T
<1>3. 0 \in I
  <2>1. CASE 1 <= Len(seqs)
    <3> DEFINE f == [j \in 1 .. 1 |-> seqs[1]]
    <3>1. f \in [1 .. (0 + 1) -> T] /\ Built(f, 0 + 1)
      BY <1>1, <2>1
    <3> HIDE DEF f, Built
    <3> QED
      BY <3>1
  <2>2. CASE ~(1 <= Len(seqs))
    BY <2>2
  <2> QED
    BY <2>1, <2>2
<1>4. ASSUME NEW k \in I PROVE k + 1 \in I
  <2>1. CASE ~((k + 1) + 1 <= Len(seqs))
    BY <2>1
  <2>2. CASE (k + 1) + 1 <= Len(seqs)
    <3>1. PICK f \in [1 .. (k + 1) -> T] : Built(f, k + 1)
      <4>1. k \in Nat /\ k + 1 <= Len(seqs)
        BY <1>1, <2>2
      <4> HIDE DEF Built
      <4> QED
        BY <4>1
    <3> DEFINE n == (k + 1) + 1
               g == [j \in 1 .. n |-> IF j = n THEN f[k + 1] \o seqs[j] ELSE f[j]]
    <3>2. f[k + 1] \in T /\ seqs[n] \in T /\ n \in Nat /\ n # 1 /\ n - 1 = k + 1
      BY <1>1, <2>2
    <3>3. g \in [1 .. n -> T]
      BY <1>2, <3>2
    <3>4. ASSUME NEW j \in 1 .. n PROVE g[j] = IF j = 1 THEN seqs[j] ELSE g[j - 1] \o seqs[j]
      <4>1. CASE j = n
        <5>1. j - 1 = k + 1 /\ j - 1 \in 1 .. n /\ j - 1 # n
          BY <4>1
        <5>2. g[j - 1] = f[k + 1] /\ g[j] = f[k + 1] \o seqs[j]
          BY <4>1, <5>1
        <5> QED
          BY <3>2, <4>1, <5>2
      <4>2. CASE j # n
        <5>1. j \in 1 .. (k + 1) /\ (j # 1 => j - 1 \in 1 .. n /\ j - 1 # n)
          BY <4>2
        <5>2. g[j] = f[j] /\ (j # 1 => g[j - 1] = f[j - 1])
          BY <4>2, <5>1
        <5>3. f[j] = IF j = 1 THEN seqs[j] ELSE f[j - 1] \o seqs[j]
          BY <3>1, <5>1
        <5> HIDE DEF g
        <5> QED
          BY <5>2, <5>3
      <4> QED
        BY <4>1, <4>2
    <3> HIDE DEF g
    <3>5. Built(g, n)
      BY <3>4
    <3> HIDE DEF Built
    <3> QED
      BY <3>3, <3>5
  <2> QED
    BY <2>1, <2>2
<1>5. I = Nat
  <2> HIDE DEF I
  <2>1. I \in SUBSET Nat
    BY DEF I
  <2> QED
    BY <1>3, <1>4, <2>1, CountingUp
<1>6. m - 1 \in Nat /\ (m - 1) + 1 = m /\ m <= Len(seqs)
  BY <1>1
<1> HIDE DEF Built
<1>7. \E f \in [1 .. m -> T] : Built(f, m)
  <2>1. m - 1 \in I
    BY <1>5, <1>6
  <2>2. (m - 1) + 1 <= Len(seqs) => \E f \in [1 .. ((m - 1) + 1) -> T] : Built(f, (m - 1) + 1)
    BY <2>1
  <2> QED
    BY <1>6, <2>2
<1> QED
  BY <1>7 DEF Built, T

\* The lists FlattenSeq builds, one after the other.
LEMMA Flattening ==
    ASSUME NEW X, NEW seqs \in Seq(Seq(X)), Len(seqs) # 0
    PROVE  \E f \in [1 .. Len(seqs) -> Seq(X)] :
               /\ FlattenSeq(seqs) = f[Len(seqs)]
               /\ \A j \in 1 .. Len(seqs) : f[j] = IF j = 1 THEN seqs[j] ELSE f[j - 1] \o seqs[j]
<1> DEFINE N == Len(seqs)
           T == Seq(X)
           Body(b) == [j \in 1 .. N |-> IF j = 1 THEN seqs[j] ELSE b[j - 1] \o seqs[j]]
           flat == CHOOSE b : b = Body(b)
<1>1. FlattenSeq(seqs) = flat[N]
  BY DEF FlattenSeq
<1>2. N \in Nat \ {0} /\ N \in 1 .. N
  BY LenProperties
<1>3. PICK f \in [1 .. N -> T] : \A j \in 1 .. N : f[j] = IF j = 1 THEN seqs[j] ELSE f[j - 1] \o seqs[j]
  <2>1. \A m \in 1 .. Len(seqs) : \E f \in [1 .. m -> Seq(X)] :
            \A j \in 1 .. m : f[j] = IF j = 1 THEN seqs[j] ELSE f[j - 1] \o seqs[j]
    BY Flattened
  <2> QED
    BY <1>2, <2>1
<1>4. f = Body(f)
  <2> DEFINE H == Body(f)
  <2>1. DOMAIN H = 1 .. N /\ \A j \in 1 .. N : H[j] = f[j]
    BY <1>3
  <2>2. H = [j \in 1 .. N |-> H[j]]
    OBVIOUS
  <2>3. f = [j \in 1 .. N |-> f[j]]
    BY <1>3
  <2> HIDE DEF H
  <2>4. f = H
    BY <2>1, <2>2, <2>3
  <2> QED
    BY <2>4 DEF H
<1>5. flat = Body(flat)
  <2> HIDE DEF Body
  <2> QED
    BY <1>4, Zenon
<1> HIDE DEF flat, N
<1>6. /\ DOMAIN flat = 1 .. N
      /\ \A j \in 1 .. N : flat[j] = IF j = 1 THEN seqs[j] ELSE flat[j - 1] \o seqs[j]
  <2> DEFINE H == Body(flat)
  <2>1. DOMAIN H = 1 .. N /\ \A j \in 1 .. N : H[j] = IF j = 1 THEN seqs[j] ELSE flat[j - 1] \o seqs[j]
    OBVIOUS
  <2>2. flat = H
    BY <1>5
  <2> HIDE DEF H
  <2> QED
    BY <2>1, <2>2
<1>7. flat[N] = f[N]
  <2> DEFINE I == {k \in Nat : k + 1 <= N => flat[k + 1] = f[k + 1]}
  <2>1. 0 \in I
    <3>1. 0 + 1 = 1 /\ 1 \in 1 .. N
      BY <1>2
    <3>2. flat[1] = f[1]
      BY <1>3, <1>6, <3>1
    <3> QED
      BY <3>1, <3>2
  <2>2. ASSUME NEW k \in I PROVE k + 1 \in I
    <3>1. CASE (k + 1) + 1 <= N
      <4> DEFINE j == (k + 1) + 1
      <4>1. k \in Nat /\ j \in 1 .. N /\ j # 1 /\ j - 1 = k + 1 /\ k + 1 <= N
        BY <1>2, <3>1
      <4>2. flat[k + 1] = f[k + 1]
        BY <4>1
      <4> HIDE DEF j
      <4>3. flat[j] = flat[k + 1] \o seqs[j]
        BY <1>6, <4>1
      <4>4. f[j] = f[k + 1] \o seqs[j]
        BY <1>3, <4>1
      <4>5. flat[j] = f[j]
        BY <4>2, <4>3, <4>4
      <4> QED
        BY <4>1, <4>5 DEF j
    <3>2. CASE ~((k + 1) + 1 <= N)
      BY <3>2
    <3> QED
      BY <3>1, <3>2
  <2>3. I = Nat
    <3> HIDE DEF I
    <3>1. I \in SUBSET Nat
      BY DEF I
    <3> QED
      BY <2>1, <2>2, <3>1, CountingUp
  <2>4. N - 1 \in Nat /\ (N - 1) + 1 = N
    BY <1>2
  <2>5. N - 1 \in I
    BY <2>3, <2>4
  <2>6. (N - 1) + 1 <= N => flat[(N - 1) + 1] = f[(N - 1) + 1]
    BY <2>5
  <2> QED
    BY <1>2, <2>4, <2>6
<1> QED
  BY <1>1, <1>3, <1>7 DEF N

\* A list of lists of such things flattens to a list of such things.
LEMMA FlattenKeeps ==
    ASSUME NEW X, NEW seqs \in Seq(Seq(X))
    PROVE  FlattenSeq(seqs) \in Seq(X)
<1>1. CASE Len(seqs) = 0
  <2>1. seqs = <<>> /\ FlattenSeq(seqs) = seqs
    BY <1>1, EmptySeq DEF FlattenSeq
  <2> HIDE DEF FlattenSeq
  <2>2. <<>> \in Seq(X)
    OBVIOUS
  <2> QED
    BY <2>1, <2>2, Zenon
<1>2. CASE Len(seqs) # 0
  <2>1. PICK f \in [1 .. Len(seqs) -> Seq(X)] : FlattenSeq(seqs) = f[Len(seqs)]
    BY <1>2, Flattening
  <2>2. Len(seqs) \in 1 .. Len(seqs)
    BY <1>2, LenProperties
  <2> HIDE DEF FlattenSeq
  <2> QED
    BY <2>1, <2>2, Zenon
<1> QED
  BY <1>1, <1>2

\* What a field's values are made of.
LEMMA SettingKinds ==
    \A x : /\ IsNumber(Num(x)) /\ Num(x)[2] = x
           /\ IsText(Text(x)) /\ Text(x)[2] = x
           /\ List(x)[1] = "list" /\ List(x)[2] = x
           /\ ~IsNumber(None) /\ ~IsNumber(Error) /\ ~IsNumber(Stalls) /\ ~IsText(None)
BY DEF IsNumber, IsText, Num, Text, List, None, Error, Stalls

\* A range has as many numbers as it has room for.
LEMMA RangeNumbers ==
    ASSUME NEW lo \in Int, NEW hi \in Int, NEW step \in Int
    PROVE  LET list == RangeConv(lo, hi, step)
           IN /\ list \in Seq(Range(list))
              /\ list = <<Stalls>> \/ \A x \in Range(list) : IsNumber(x)
<1> DEFINE list == RangeConv(lo, hi, step)
           n == ((hi - lo) \div step) + 1
           numbers == [j \in 1 .. n |-> Num(lo + (j - 1) * step)]
           Fine(s) == s \in Seq(Range(s)) /\ (s = <<Stalls>> \/ \A x \in Range(s) : IsNumber(x))
<1>1. /\ lo > hi => list = <<>>
      /\ ~(lo > hi) /\ step <= 0 => list = <<Stalls>>
      /\ ~(lo > hi) /\ ~(step <= 0) => list = numbers
  <2> HIDE DEF numbers
  <2>1. list = CASE lo > hi -> <<>>
                 [] lo <= hi /\ step <= 0 -> <<Stalls>>
                 [] OTHER -> numbers
    BY DEF RangeConv, numbers
  <2> HIDE DEF list
  <2> QED
    BY <2>1
<1> HIDE DEF list
<1>2. ASSUME lo > hi PROVE Fine(list)
  <2>1. list = <<>> /\ Range(list) = {}
    BY <1>1, <1>2 DEF Range
  <2>2. <<>> \in Seq({})
    OBVIOUS
  <2>3. Fine(list)
    BY <2>1, <2>2
  <2> QED
    BY <2>3
<1>3. ASSUME ~(lo > hi), step <= 0 PROVE Fine(list)
  <2>1. list = <<Stalls>> /\ Range(list) = {Stalls}
    BY <1>1, <1>3 DEF Range
  <2>2. <<Stalls>> \in Seq({Stalls})
    OBVIOUS
  <2>3. Fine(list)
    BY <2>1, <2>2
  <2> QED
    BY <2>3
<1>4. ASSUME ~(lo > hi), ~(step <= 0) PROVE Fine(list)
  <2>1. n \in Nat
    BY <1>4
  <2>2. list = numbers
    BY <1>1, <1>4
  <2>3. DOMAIN numbers = 1 .. n /\ \A j \in 1 .. n : IsNumber(numbers[j])
    BY SettingKinds
  <2> HIDE DEF numbers, n
  <2>4. numbers \in [1 .. n -> Range(numbers)]
    <3>1. numbers = [j \in 1 .. n |-> numbers[j]]
      BY <2>3 DEF numbers
    <3>2. \A j \in 1 .. n : numbers[j] \in Range(numbers)
      BY <2>3 DEF Range
    <3> QED
      BY <3>1, <3>2
  <2>5. numbers \in Seq(Range(numbers))
    BY <2>1, <2>4, SeqDef
  <2>6. \A x \in Range(numbers) : IsNumber(x)
    BY <2>3 DEF Range
  <2>7. Fine(list)
    BY <2>2, <2>5, <2>6
  <2> QED
    BY <2>7
<1> QED
  BY <1>2, <1>3, <1>4 DEF list

\* The numbers of an item.
LEMMA ItemNumbers ==
    ASSUME NEW item, item.k = "range" => {item.lo, item.hi, item.step} \subseteq Int, NEW optional \in BOOLEAN
    PROVE  LET list == NumItem(item, optional)
           IN /\ list \in Seq(Range(list))
              /\ \/ list \in {<<Error>>, <<Stalls>>}
                 \/ \A x \in Range(list) : IsNumber(x) \/ (x = None /\ optional)
<1>1. CASE item.k = "range"
  <2>1. NumItem(item, optional) = RangeConv(item.lo, item.hi, item.step)
    BY <1>1 DEF NumItem
  <2>2. item.lo \in Int /\ item.hi \in Int /\ item.step \in Int
    BY <1>1
  <2> QED
    BY <2>1, <2>2, RangeNumbers
<1>2. CASE item.k # "range"
  <2>1. PICK x : NumItem(item, optional) = <<x>> /\ (IsNumber(x) \/ x = Error \/ (x = None /\ optional))
    BY <1>2, SettingKinds DEF NumItem
  <2>2. Range(<<x>>) = {x}
    BY DEF Range
  <2>3. <<x>> \in Seq({x})
    OBVIOUS
  <2> QED
    BY <2>1, <2>2, <2>3
<1> QED
  BY <1>1, <1>2

\* The numbers of all items, in the order they appear.
NumbersOf(items, optional) == [j \in DOMAIN items |-> NumItem(items[j], optional)]

\* They are lists of numbers, unless an item is wrong.
LEMMA ListedItems ==
    ASSUME NEW items, items \in Seq(Range(items)),
           \A item \in Range(items) : item.k = "range" => {item.lo, item.hi, item.step} \subseteq Int,
           NEW optional \in BOOLEAN, WrongItems(items, optional) = {}
    PROVE  \E X : /\ NumbersOf(items, optional) \in Seq(Seq(X))
                  /\ \A x \in X : IsNumber(x) \/ (x = None /\ optional)
<1> DEFINE numbers == [j \in DOMAIN items |-> NumItem(items[j], optional)]
           X == UNION {Range(numbers[j]) : j \in DOMAIN items}
<1>1. Len(items) \in Nat /\ DOMAIN items = 1 .. Len(items)
  BY LenProperties
<1>2. \A j \in DOMAIN items :
          /\ numbers[j] \in Seq(Range(numbers[j]))
          /\ \A x \in Range(numbers[j]) : IsNumber(x) \/ (x = None /\ optional)
  <2> SUFFICES ASSUME NEW j \in DOMAIN items
               PROVE  /\ numbers[j] \in Seq(Range(numbers[j]))
                      /\ \A x \in Range(numbers[j]) : IsNumber(x) \/ (x = None /\ optional)
    OBVIOUS
  <2>1. items[j] \in Range(items) /\ numbers[j] = NumItem(items[j], optional)
    BY DEF Range
  <2>2. NumItem(items[j], optional) \notin {<<Error>>, <<Stalls>>}
    BY DEF WrongItems
  <2>3. items[j].k = "range" => {items[j].lo, items[j].hi, items[j].step} \subseteq Int
    BY <2>1
  <2>4. LET list == NumItem(items[j], optional)
        IN /\ list \in Seq(Range(list))
           /\ \/ list \in {<<Error>>, <<Stalls>>}
              \/ \A x \in Range(list) : IsNumber(x) \/ (x = None /\ optional)
    BY <2>3, ItemNumbers
  <2> QED
    BY <2>1, <2>2, <2>4
<1>3. numbers = [j \in DOMAIN items |-> numbers[j]]
  OBVIOUS
<1> HIDE DEF numbers
<1>4. \A j \in DOMAIN items : numbers[j] \in Seq(X)
  <2> SUFFICES ASSUME NEW j \in DOMAIN items PROVE numbers[j] \in Seq(X)
    OBVIOUS
  <2>1. numbers[j] \in Seq(Range(numbers[j]))
    BY <1>2
  <2>2. Len(numbers[j]) \in Nat /\ numbers[j] \in [1 .. Len(numbers[j]) -> Range(numbers[j])]
    BY <2>1, LenProperties
  <2>3. Range(numbers[j]) \subseteq X
    OBVIOUS
  <2> HIDE DEF X
  <2>4. numbers[j] \in [1 .. Len(numbers[j]) -> X]
    BY <2>2, <2>3
  <2> QED
    BY <2>2, <2>4, SeqDef
<1>5. numbers \in Seq(Seq(X)) /\ Len(numbers) = Len(items)
  <2> HIDE DEF X
  <2>1. numbers \in [1 .. Len(items) -> Seq(X)]
    BY <1>1, <1>3, <1>4
  <2>2. numbers \in Seq(Seq(X))
    BY <1>1, <2>1, SeqDef
  <2> QED
    BY <1>1, <2>1, <2>2, LenProperties
<1>6. \A x \in X : IsNumber(x) \/ (x = None /\ optional)
  BY <1>2
<1> QED
  BY <1>5, <1>6 DEF numbers, X, NumbersOf

\* A list of numbers that can be converted is one, of numbers that are allowed.
LEMMA NumListSetting ==
    ASSUME NEW items, items \in Seq(Range(items)),
           \A item \in Range(items) : item.k = "range" => {item.lo, item.hi, item.step} \subseteq Int,
           NEW min, NEW optional \in BOOLEAN,
           NumListConv(items, min, optional) \notin {Error, Stalls}
    PROVE  LET value == NumListConv(items, min, optional)
           IN /\ IsList(value)
              /\ \A x \in Range(value[2]) : (x = None /\ optional) \/ (IsNumber(x) /\ x[2] >= min)
<1> DEFINE numbers == NumbersOf(items, optional)
           all == FlattenSeq(numbers)
           allowed == {x \in Range(all) : x = None \/ x[2] >= min}
           value == NumListConv(items, min, optional)
           part == Listed(allowed, all)
<1>1. value = List(part) /\ WrongItems(items, optional) = {}
  <2>1. \/ WrongItems(items, optional) = {} /\ value = List(part)
        \/ \E j \in WrongItems(items, optional) : value = NumItem(items[j], optional)[1]
    BY NumListCases DEF NumbersOf
  <2>2. ASSUME NEW j \in WrongItems(items, optional), value = NumItem(items[j], optional)[1] PROVE FALSE
    BY <2>2 DEF WrongItems
  <2> HIDE DEF value, part
  <2> QED
    BY <2>1, <2>2
<1> HIDE DEF value, allowed, all
<1>2. PICK X : numbers \in Seq(Seq(X)) /\ \A x \in X : IsNumber(x) \/ (x = None /\ optional)
  BY <1>1, ListedItems
<1>3. all \in Seq(X)
  BY <1>2, FlattenKeeps DEF all
<1>4. part \in Seq(X) /\ Range(part) = Range(all) \cap allowed
  BY <1>3, ListedSorts
<1>5. part \in Seq(Range(part))
  <2> HIDE DEF part
  <2>1. Len(part) \in Nat /\ DOMAIN part = 1 .. Len(part) /\ part \in [1 .. Len(part) -> X]
    BY <1>4, LenProperties
  <2>2. part \in [1 .. Len(part) -> Range(part)]
    BY <2>1 DEF Range
  <2> QED
    BY <2>1, <2>2, SeqDef
<1>6. \A x \in Range(part) : (x = None /\ optional) \/ (IsNumber(x) /\ x[2] >= min)
  <2> SUFFICES ASSUME NEW x \in Range(part) PROVE (x = None /\ optional) \/ (IsNumber(x) /\ x[2] >= min)
    OBVIOUS
  <2>1. x \in Range(all) /\ (x = None \/ x[2] >= min)
    BY <1>4 DEF allowed
  <2>2. x \in X
    BY <1>3, <2>1, LenProperties DEF Range
  <2>3. IsNumber(x) \/ (x = None /\ optional)
    BY <1>2, <2>2
  <2> QED
    BY <2>1, <2>3, SettingKinds
<1> HIDE DEF part
<1>7. IsList(value) /\ value[2] = part
  BY <1>1, <1>5, SettingKinds DEF IsList
<1> QED
  BY <1>6, <1>7 DEF value

\* What can be converted becomes a setting of its field.
LEMMA ConvertedSetting ==
    ASSUME NEW f \in DOMAIN USER_CFG_FIELDS, NEW raw, IsRaw(raw), Conv(f, raw) \notin {Error, Stalls}
    PROVE  IsSetting(f, Conv(f, raw))
<1> DEFINE kind == USER_CFG_FIELDS[f]
           value == Conv(f, raw)
           Numbers(v, min) == IsList(v) /\ \A x \in Range(v[2]) : IsNumber(x) /\ x[2] >= min
<1>1. kind \in {"int", "optional_int", "size", "duration", "bool", "text", "texts", "ints",
                "naturals", "optional_items", "optional_ints"}
  BY KindOfField
<1>2. /\ kind = "int" => value = IntConv(raw)
      /\ kind = "optional_int" => value = OptionalIntConv(raw)
      /\ kind = "size" => value = MemSizeConv(raw)
      /\ kind = "duration" => value = DurationConv(raw)
      /\ kind = "bool" => value = BooleanConv(raw)
      /\ kind = "text" => value = TextConv(raw)
      /\ kind = "texts" => value = StrListConv(raw)
      /\ kind = "ints" => value = NumListConv(Items(raw), MinValue, FALSE)
      /\ kind = "naturals" => value = NumListConv(Items(raw), 1, FALSE)
      /\ kind = "optional_items" => value = NumListConv(Items(raw), 0, TRUE)
      /\ kind = "optional_ints" => value = OptionalIntListConv(raw)
  BY DEF Conv
<1>3. value \notin {Error, Stalls}
  OBVIOUS
<1>4. /\ kind \in {"int", "duration"} /\ IsNumber(value) => IsSetting(f, value)
      /\ kind \in {"optional_int", "size"} /\ (value = None \/ IsNumber(value)) => IsSetting(f, value)
      /\ kind = "bool" /\ value \in {<<"bool", TRUE>>, <<"bool", FALSE>>} => IsSetting(f, value)
      /\ kind = "text" /\ IsText(value) => IsSetting(f, value)
      /\ kind = "texts" /\ IsList(value) /\ (\A x \in Range(value[2]) : IsText(x)) => IsSetting(f, value)
      /\ kind \in {"ints", "optional_ints"} /\ Numbers(value, MinValue) => IsSetting(f, value)
      /\ kind = "naturals" /\ Numbers(value, 1) => IsSetting(f, value)
      /\ kind = "optional_items" /\ IsList(value)
         /\ (\A x \in Range(value[2]) : x = None \/ (IsNumber(x) /\ x[2] >= 0)) => IsSetting(f, value)
  <2> HIDE DEF value
  <2> QED
    BY DEF IsSetting, IsListOfNumbers
<1> HIDE DEF kind, value
<1>5. IntConv(raw) \notin {Error} => IsNumber(IntConv(raw))
  BY SettingKinds DEF IntConv
<1>6. OptionalIntConv(raw) \notin {Error} => OptionalIntConv(raw) = None \/ IsNumber(OptionalIntConv(raw))
  BY <1>5 DEF OptionalIntConv
<1>7. MemSizeConv(raw) \notin {Error} => MemSizeConv(raw) = None \/ IsNumber(MemSizeConv(raw))
  BY <1>5, SettingKinds DEF MemSizeConv, StrMemsize
<1>8. DurationConv(raw) \notin {Error} => IsNumber(DurationConv(raw))
  BY SettingKinds DEF DurationConv, StrTime
<1>9. BooleanConv(raw) \notin {Error} => BooleanConv(raw) \in {<<"bool", TRUE>>, <<"bool", FALSE>>}
  BY DEF BooleanConv
<1>10. \A r : IsText(TextConv(r))
  BY SettingKinds DEF TextConv
<1>11. IsList(StrListConv(raw)) /\ \A x \in Range(StrListConv(raw)[2]) : IsText(x)
  <2> DEFINE texts == [j \in DOMAIN Items(raw) |-> TextConv(Items(raw)[j])]
  <2>1. StrListConv(raw) = List(texts)
    BY DEF StrListConv
  <2>2. Len(Items(raw)) \in Nat /\ DOMAIN Items(raw) = 1 .. Len(Items(raw))
    BY LenProperties DEF IsRaw
  <2>3. texts \in Seq(Range(texts))
    <3>1. texts \in [1 .. Len(Items(raw)) -> Range(texts)]
      BY <2>2 DEF Range
    <3> HIDE DEF texts
    <3> QED
      BY <2>2, <3>1, SeqDef
  <2>4. \A x \in Range(texts) : IsText(x)
    BY <1>10 DEF Range
  <2> HIDE DEF texts
  <2> QED
    BY <2>1, <2>3, <2>4, SettingKinds DEF IsList
<1>12. ASSUME NEW min, NEW optional \in BOOLEAN, NumListConv(Items(raw), min, optional) \notin {Error, Stalls}
       PROVE  LET v == NumListConv(Items(raw), min, optional)
              IN /\ IsList(v)
                 /\ \A x \in Range(v[2]) : (x = None /\ optional) \/ (IsNumber(x) /\ x[2] >= min)
  BY <1>12, NumListSetting DEF IsRaw
<1>13. ASSUME NEW min, NumListConv(Items(raw), min, FALSE) \notin {Error, Stalls}
       PROVE  Numbers(NumListConv(Items(raw), min, FALSE), min)
  BY <1>12, <1>13
<1>14. OptionalIntListConv(raw) \notin {Error, Stalls} => Numbers(OptionalIntListConv(raw), MinValue)
  <2>1. CASE raw.k = "null"
    <3>1. OptionalIntListConv(raw) = List(<<>>)
      BY <2>1 DEF OptionalIntListConv
    <3>2. <<>> \in Seq({}) /\ Range(<<>>) = {}
      BY DEF Range
    <3> QED
      BY <3>1, <3>2, SettingKinds DEF IsList
  <2>2. CASE raw.k # "null"
    BY <1>13, <2>2 DEF OptionalIntListConv
  <2> QED
    BY <2>1, <2>2
<1> HIDE DEF Numbers
<1>15. ASSUME kind \in {"int", "optional_int", "size", "duration", "bool", "text", "texts"} PROVE IsSetting(f, value)
  BY <1>2, <1>3, <1>4, <1>5, <1>6, <1>7, <1>8, <1>9, <1>10, <1>11, <1>15
<1>16. ASSUME kind = "ints" PROVE IsSetting(f, value)
  BY <1>2, <1>3, <1>4, <1>13, <1>16
<1>17. ASSUME kind = "naturals" PROVE IsSetting(f, value)
  BY <1>2, <1>3, <1>4, <1>13, <1>17
<1>18. ASSUME kind = "optional_items" PROVE IsSetting(f, value)
  BY <1>2, <1>3, <1>4, <1>12, <1>18
<1>19. ASSUME kind = "optional_ints" PROVE IsSetting(f, value)
  BY <1>2, <1>3, <1>4, <1>14, <1>19
<1>20. IsSetting(f, value)
  BY <1>1, <1>15, <1>16, <1>17, <1>18, <1>19
<1> QED
  BY <1>20 DEF value

\* What is written of a setting can be read as a raw value.
LEMMA WrittenRaw ==
    ASSUME NEW f \in DOMAIN USER_CFG_FIELDS, NEW v, IsSetting(f, v)
    PROVE  IsRaw(Json(f, v))
<1> DEFINE Scalar(x) == x = None \/ IsNumber(x) \/ IsText(x) \/ x \in {<<"bool", TRUE>>, <<"bool", FALSE>>}
<1>1. Scalar(v) \/ (IsList(v) /\ \A x \in Range(v[2]) : Scalar(x))
  <2>1. USER_CFG_FIELDS[f] \in {"int", "optional_int", "size", "duration", "bool", "text", "texts", "ints",
                               "naturals", "optional_items", "optional_ints"}
    BY KindOfField
  <2> QED
    BY <2>1 DEF IsSetting, IsListOfNumbers
<1>2. \A x : Scalar(x) => RawOfScalar(x).k \in {"null", "num", "text"}
  <2> SUFFICES ASSUME NEW x, Scalar(x) PROVE RawOfScalar(x).k \in {"null", "num", "text"}
    OBVIOUS
  <2>1. /\ x = None => RawOfScalar(x) = [k |-> "null"]
        /\ x # None /\ x[1] = "int" => RawOfScalar(x) = [k |-> "num", n |-> x[2]]
        /\ x # None /\ x[1] = "text" => RawOfScalar(x) = [k |-> "text", t |-> x[2]]
        /\ x # None /\ x[1] = "bool" => RawOfScalar(x) = [k |-> "num", n |-> IF x[2] THEN 1 ELSE 0]
    <3>1. x = None => x[1] = "none"
      BY DEF None
    <3> QED
      BY <3>1 DEF RawOfScalar
  <2>2. <<"bool", TRUE>>[1] = "bool" /\ <<"bool", FALSE>>[1] = "bool"
    OBVIOUS
  <2>3. x = None \/ x[1] \in {"int", "text", "bool"}
    BY <2>2 DEF IsNumber, IsText
  <2>4. /\ [k |-> "null"].k = "null" /\ [k |-> "num", n |-> x[2]].k = "num"
        /\ [k |-> "text", t |-> x[2]].k = "text" /\ [k |-> "num", n |-> IF x[2] THEN 1 ELSE 0].k = "num"
    OBVIOUS
  <2> QED
    BY <2>1, <2>3, <2>4
<1>3. \A raw : raw.k \in {"null", "num", "text", "unit"} => IsRaw(raw)
  <2> SUFFICES ASSUME NEW raw, raw.k \in {"null", "num", "text", "unit"} PROVE IsRaw(raw)
    OBVIOUS
  <2>1. Items(raw) = <<raw>> /\ Range(<<raw>>) = {raw} /\ <<raw>> \in Seq({raw})
    BY DEF Items, Range
  <2> QED
    BY <2>1 DEF IsRaw
<1>4. CASE Scalar(v)
  <2>1. v[1] # "list"
    <3>1. None[1] = "none" /\ <<"bool", TRUE>>[1] = "bool" /\ <<"bool", FALSE>>[1] = "bool"
      BY DEF None
    <3> QED
      BY <1>4, <3>1 DEF IsNumber, IsText
  <2>2. Json(f, v).k \in {"null", "num", "text", "unit"}
    <3>1. \/ Json(f, v) = [k |-> "unit", n |-> v[2], u |-> "tick"]
          \/ Json(f, v) = RawOfScalar(v)
      BY <2>1 DEF Json
    <3>2. [k |-> "unit", n |-> v[2], u |-> "tick"].k = "unit"
      OBVIOUS
    <3> QED
      BY <1>2, <1>4, <3>1, <3>2
  <2> QED
    BY <1>3, <2>2
<1>5. CASE IsList(v) /\ \A x \in Range(v[2]) : Scalar(x)
  <2> DEFINE items == [j \in DOMAIN v[2] |-> RawOfScalar(v[2][j])]
  <2>1. v[1] = "list" /\ Len(v[2]) \in Nat /\ DOMAIN v[2] = 1 .. Len(v[2])
    BY <1>5, LenProperties DEF IsList
  <2>2. Json(f, v) = [k |-> "items", s |-> items]
    BY <2>1 DEF Json
  <2>3. \A item \in Range(items) : item.k # "range"
    BY <1>2, <1>5 DEF Range
  <2>4. items \in [1 .. Len(v[2]) -> Range(items)]
    BY <2>1 DEF Range
  <2> HIDE DEF items
  <2>5. items \in Seq(Range(items))
    BY <2>1, <2>4, SeqDef
  <2>6. Items(Json(f, v)) = items
    BY <2>2 DEF Items
  <2> QED
    BY <2>3, <2>5, <2>6 DEF IsRaw
<1> QED
  BY <1>1, <1>4, <1>5

\* An entry that is accepted names one recipe, and one of its settings.
LEMMA AcceptedEntry ==
    ASSUME NEW source, NEW requested, NEW names, names \subseteq RecipeNames,
           NEW e \in Accepted(source, requested, names)
    PROVE  \E n \in names \cap requested :
               /\ e \in source /\ Key(e) = <<n, e.field>> /\ e.recipe \in Called(n)
               /\ e.field \in Recipe[n].fields /\ e.field \in DOMAIN USER_CFG_FIELDS
<1>1. PICK n \in names \cap requested : e \in source /\ e.recipe \in Called(n) /\ e.field \in Recipe[n].fields
  BY DEF Accepted, GetRecipe
<1>2. n \in RecipeNames /\ \A m \in RecipeNames : e.recipe \in Called(m) => m = n
  BY <1>1, RecipeAssumption DEF RecipeAssumption, RecipeNames
<1>3. GetRecipe(e.recipe, RecipeNames) = {n}
  BY <1>1, <1>2 DEF GetRecipe
<1>4. Key(e) = <<n, e.field>>
  <2>1. (CHOOSE m \in {n} : TRUE) = n
    OBVIOUS
  <2> QED
    BY <1>3, <2>1 DEF Key
<1>5. e.field \in DOMAIN USER_CFG_FIELDS
  BY <1>1, <1>2, RecipeAssumption DEF RecipeAssumption, RecipeNames
<1> QED
  BY <1>1, <1>4, <1>5

\* What reading a source does to one setting of a requested recipe: the value it gives
\* replaces the earlier one, unless it is unreadable or the default.
LEMMA SettingAfterSource ==
    ASSUME NEW source, OneOfEach(source), NEW settings, NEW requested, NEW names, names \subseteq RecipeNames,
           ~SourceStalls(source, requested, names),
           NEW n \in names \cap requested, NEW f \in Recipe[n].fields
    PROVE  LET value == Given(source, n, f)
               result == GetConvUserConfig(source, settings, requested, names)
               kept == value # Error /\ (f \in DOMAIN Recipe[n].default_config => Recipe[n].default_config[f] # value)
           IN /\ value # Stalls
              /\ value # Error => \E e \in source : e.field = f /\ value = Conv(f, e.raw)
              /\ <<n, f>> \in DOMAIN result <=> kept \/ <<n, f>> \in DOMAIN settings
              /\ kept => result[<<n, f>>] = value
              /\ ~kept /\ <<n, f>> \in DOMAIN settings => result[<<n, f>>] = settings[<<n, f>>]
<1> DEFINE value == Given(source, n, f)
           result == GetConvUserConfig(source, settings, requested, names)
           defaults == Recipe[n].default_config
           kept == value # Error /\ (f \in DOMAIN defaults => defaults[f] # value)
           fits == {e \in source : e.field = f /\ n \in GetRecipe(e.recipe, RecipeNames)}
           recorded == {e \in Accepted(source, requested, names) : Recorded(e)}
           keys == {Key(e) : e \in recorded}
           entry(k) == CHOOSE e \in recorded : Key(e) = k
           new == [k \in keys |-> Conv(k[2], entry(k).raw)]
<1>0. n \in RecipeNames /\ f \in DOMAIN USER_CFG_FIELDS
  BY RecipeAssumption DEF RecipeAssumption, RecipeNames
<1>1. result = Merge(settings, new)
  BY DEF GetConvUserConfig
<1> HIDE DEF result, new
<1>2. \A e, d \in fits : e = d
  <2>1. \A e \in fits : e \in source /\ e.field = f /\ e.recipe \in Called(n)
    BY DEF GetRecipe
  <2> QED
    BY <1>0, <2>1 DEF OneOfEach, RecipeNames
<1>3. ASSUME NEW e \in fits
      PROVE  /\ e \in Accepted(source, requested, names) /\ Key(e) = <<n, f>>
             /\ value = Conv(f, e.raw) /\ value # Stalls /\ e \in source /\ e.field = f
  <2>1. e \in source /\ e.field = f /\ e.recipe \in Called(n)
    BY DEF GetRecipe
  <2>2. e \in Accepted(source, requested, names)
    BY <2>1 DEF Accepted, GetRecipe
  <2>3. PICK m \in names \cap requested : Key(e) = <<m, f>> /\ e.recipe \in Called(m)
    BY <2>1, <2>2, AcceptedEntry
  <2>4. m = n
    BY <1>0, <2>1, <2>3, RecipeAssumption DEF RecipeAssumption, RecipeNames
  <2>5. value = Conv(f, e.raw)
    <3>1. fits # {} /\ (CHOOSE d \in fits : TRUE) = e
      <4> HIDE DEF fits
      <4> QED
        BY <1>2
    <3>2. value = IF fits = {} THEN Error ELSE Conv(f, (CHOOSE d \in fits : TRUE).raw)
      BY DEF Given
    <3> HIDE DEF fits, value
    <3> QED
      BY <3>1, <3>2
  <2>6. value # Stalls
    BY <2>1, <2>2, <2>5 DEF SourceStalls
  <2> QED
    BY <2>1, <2>2, <2>3, <2>4, <2>5, <2>6
<1>4. fits = {} => value = Error
  BY DEF Given
<1>5. ASSUME NEW e \in fits PROVE Recorded(e) <=> kept
  <2>1. Recorded(e) <=> /\ value \notin {Error, Stalls}
                        /\ e.field \in DOMAIN GetDefaultUserConfig(n) => GetDefaultUserConfig(n)[e.field] # value
    <3>1. Key(e)[1] = n /\ Conv(e.field, e.raw) = value
      BY <1>3
    <3> HIDE DEF value, fits
    <3> QED
      BY <3>1 DEF Recorded
  <2>2. /\ e.field = f /\ value # Stalls
        /\ f \in DOMAIN GetDefaultUserConfig(n) <=> f \in DOMAIN defaults
        /\ f \in DOMAIN defaults => GetDefaultUserConfig(n)[f] = defaults[f]
    BY <1>3 DEF GetDefaultUserConfig
  <2> HIDE DEF value, fits
  <2> QED
    BY <2>1, <2>2
<1>6. ASSUME NEW e \in recorded, Key(e) = <<n, f>> PROVE e \in fits
  <2>1. PICK m \in names \cap requested : e \in source /\ Key(e) = <<m, e.field>> /\ e.recipe \in Called(m)
    BY AcceptedEntry
  <2>2. m = n /\ e.field = f
    BY <1>6, <2>1
  <2> QED
    BY <1>0, <2>1, <2>2 DEF GetRecipe
<1> HIDE DEF value, fits
<1>7. DOMAIN new = keys /\ \A k \in keys : new[k] = Conv(k[2], entry(k).raw)
  BY DEF new
<1>8. \A k : k \in keys <=> \E e \in recorded : Key(e) = k
  BY Zenon
<1>9. \A e : e \in recorded <=> e \in Accepted(source, requested, names) /\ Recorded(e)
  OBVIOUS
<1> HIDE DEF keys, recorded
<1>10. <<n, f>> \in keys <=> kept
  <2>1. ASSUME kept PROVE <<n, f>> \in keys
    <3>1. PICK e \in fits : TRUE
      BY <1>4, <2>1
    <3> QED
      BY <1>3, <1>5, <1>8, <1>9, <2>1, <3>1
  <2>2. ASSUME <<n, f>> \in keys PROVE kept
    <3>1. PICK e \in recorded : Key(e) = <<n, f>>
      BY <1>8, <2>2
    <3> QED
      BY <1>5, <1>6, <1>9, <3>1
  <2> QED
    BY <2>1, <2>2
<1>11. ASSUME kept PROVE new[<<n, f>>] = value
  <2>1. <<n, f>> \in keys
    BY <1>10, <1>11
  <2>2. \E e \in recorded : Key(e) = <<n, f>>
    BY <1>8, <2>1
  <2>3. entry(<<n, f>>) \in recorded /\ Key(entry(<<n, f>>)) = <<n, f>>
    BY <2>2
  <2>4. entry(<<n, f>>) \in fits
    BY <1>6, <2>3
  <2>5. value = Conv(f, entry(<<n, f>>).raw)
    BY <1>3, <2>4
  <2> HIDE DEF entry
  <2>6. <<n, f>>[2] = f
    OBVIOUS
  <2> QED
    BY <1>7, <2>1, <2>5, <2>6
<1>12. value # Stalls /\ (value # Error => \E e \in source : e.field = f /\ value = Conv(f, e.raw))
  BY <1>3, <1>4, TagsDiffer
<1> HIDE DEF kept
<1>13. /\ <<n, f>> \in DOMAIN result <=> kept \/ <<n, f>> \in DOMAIN settings
       /\ kept => result[<<n, f>>] = value
       /\ ~kept /\ <<n, f>> \in DOMAIN settings => result[<<n, f>>] = settings[<<n, f>>]
  BY <1>1, <1>7, <1>10, <1>11 DEF Merge
<1> QED
  BY <1>12, <1>13 DEF value, result, kept

\* Settings are kept for recipes that have them, with values they may have.
LEMMA SettingsKeepFit ==
    ASSUME NEW source, SourceFits(source), NEW settings, NEW requested, NEW names, names \subseteq RecipeNames,
           SettingsFit(settings)
    PROVE  SettingsFit(GetConvUserConfig(source, settings, requested, names))
<1> DEFINE recorded == {e \in Accepted(source, requested, names) : Recorded(e)}
           keys == {Key(e) : e \in recorded}
           entry(k) == CHOOSE e \in recorded : Key(e) = k
           new == [k \in keys |-> Conv(k[2], entry(k).raw)]
           result == GetConvUserConfig(source, settings, requested, names)
<1>1. result = Merge(settings, new)
  BY DEF GetConvUserConfig
<1>2. DOMAIN new = keys /\ \A k \in keys : new[k] = Conv(k[2], entry(k).raw)
  OBVIOUS
<1>3. \A k \in keys : entry(k) \in recorded /\ Key(entry(k)) = k
  <2> SUFFICES ASSUME NEW k \in keys PROVE entry(k) \in recorded /\ Key(entry(k)) = k
    OBVIOUS
  <2>1. \E e \in recorded : Key(e) = k
    BY Zenon
  <2> HIDE DEF recorded
  <2> QED
    BY <2>1
<1>4. ASSUME NEW e \in recorded
      PROVE  /\ Key(e) \in RecipeNames \X DOMAIN USER_CFG_FIELDS
             /\ Key(e)[2] = e.field /\ e.field \in Recipe[Key(e)[1]].fields
             /\ IsSetting(e.field, Conv(e.field, e.raw))
  <2>1. PICK n \in names \cap requested :
            /\ e \in source /\ Key(e) = <<n, e.field>> /\ e.field \in Recipe[n].fields
            /\ e.field \in DOMAIN USER_CFG_FIELDS
    BY AcceptedEntry
  <2>2. Conv(e.field, e.raw) \notin {Error, Stalls}
    BY DEF Recorded
  <2>3. IsRaw(e.raw)
    BY <2>1 DEF SourceFits
  <2>4. IsSetting(e.field, Conv(e.field, e.raw))
    BY <2>1, <2>2, <2>3, ConvertedSetting
  <2> QED
    BY <2>1, <2>4
<1> HIDE DEF new, keys, recorded, entry
<1>5. ASSUME NEW k \in keys
      PROVE  /\ k \in RecipeNames \X DOMAIN USER_CFG_FIELDS
             /\ k[2] \in Recipe[k[1]].fields /\ IsSetting(k[2], new[k])
  <2>1. entry(k) \in recorded /\ Key(entry(k)) = k
    BY <1>3
  <2>2. k[2] = entry(k).field
    BY <1>4, <2>1
  <2>3. new[k] = Conv(entry(k).field, entry(k).raw)
    BY <1>2, <2>2
  <2> QED
    BY <1>4, <2>1, <2>2, <2>3
<1> HIDE DEF result
<1>6. DOMAIN result = DOMAIN settings \cup keys /\ \A k \in DOMAIN result : result[k] = IF k \in keys THEN new[k] ELSE settings[k]
  BY <1>1, <1>2 DEF Merge
<1> QED
  BY <1>5, <1>6 DEF SettingsFit, result

\* What is written for a recipe.
SavedFields(n, settings) == DOMAIN GetDefaultUserConfig(n) \cup {k[2] : k \in {x \in DOMAIN settings : x[1] = n}}

SavedValue(n, f, settings) == IF <<n, f>> \in DOMAIN settings THEN settings[<<n, f>>] ELSE GetDefaultUserConfig(n)[f]

Written(n, f, settings) == [recipe |-> n, field |-> f, raw |-> Json(f, SavedValue(n, f, settings))]

\* The entries of a file that is written.
LEMMA SavedEntry ==
    ASSUME NEW names, NEW settings
    PROVE  /\ \A e \in SavedEntries(names, settings) :
                  \E n \in names : \E f \in SavedFields(n, settings) : e = Written(n, f, settings)
           /\ \A n \in names : \A f \in SavedFields(n, settings) :
                  Written(n, f, settings) \in SavedEntries(names, settings)
<1> DEFINE values(n) == [f \in SavedFields(n, settings) |->
                            IF <<n, f>> \in DOMAIN settings THEN settings[<<n, f>>] ELSE GetDefaultUserConfig(n)[f]]
           entries(n) == {[recipe |-> n, field |-> f, raw |-> Json(f, values(n)[f])] : f \in DOMAIN values(n)}
           all == {entries(n) : n \in names}
<1>1. SavedEntries(names, settings) = UNION all
  BY DEF SavedEntries, SavedFields
<1>2. \A n : DOMAIN values(n) = SavedFields(n, settings)
  OBVIOUS
<1>3. \A n : \A f \in SavedFields(n, settings) : values(n)[f] = SavedValue(n, f, settings)
  BY DEF SavedValue
<1> HIDE DEF values
<1>4. ASSUME NEW e \in UNION all
      PROVE  \E n \in names : \E f \in SavedFields(n, settings) : e = Written(n, f, settings)
  <2>1. PICK n \in names : e \in entries(n)
    OBVIOUS
  <2>2. PICK f \in SavedFields(n, settings) : e = [recipe |-> n, field |-> f, raw |-> Json(f, values(n)[f])]
    BY <1>2, <2>1
  <2>3. e = Written(n, f, settings)
    BY <1>3, <2>2 DEF Written
  <2> QED
    BY <2>1, <2>2, <2>3
<1>5. ASSUME NEW n \in names, NEW f \in SavedFields(n, settings)
      PROVE  Written(n, f, settings) \in UNION all
  <2>1. Written(n, f, settings) = [recipe |-> n, field |-> f, raw |-> Json(f, values(n)[f])]
    BY <1>3 DEF Written
  <2>2. Written(n, f, settings) \in entries(n)
    BY <1>2, <2>1
  <2> QED
    BY <2>2
<1> QED
  BY <1>1, <1>4, <1>5

\* What is written are settings the recipe has, with values they may have.
LEMMA SavedSetting ==
    ASSUME NEW settings, SettingsFit(settings), NEW n \in RecipeNames, NEW f \in SavedFields(n, settings)
    PROVE  f \in Recipe[n].fields /\ f \in DOMAIN USER_CFG_FIELDS /\ IsSetting(f, SavedValue(n, f, settings))
<1>1. CASE <<n, f>> \in DOMAIN settings
  <2>1. <<n, f>>[1] = n /\ <<n, f>>[2] = f /\ SavedValue(n, f, settings) = settings[<<n, f>>]
    BY <1>1 DEF SavedValue
  <2>2. <<n, f>>[2] \in Recipe[<<n, f>>[1]].fields /\ IsSetting(<<n, f>>[2], settings[<<n, f>>])
    BY <1>1 DEF SettingsFit
  <2> QED
    BY <2>1, <2>2, RecipeAssumption DEF RecipeAssumption, RecipeNames
<1>2. CASE <<n, f>> \notin DOMAIN settings
  <2>1. f \in DOMAIN GetDefaultUserConfig(n)
    <3>1. SUFFICES ASSUME f \notin DOMAIN GetDefaultUserConfig(n) PROVE FALSE
      OBVIOUS
    <3>2. PICK k \in DOMAIN settings : k[1] = n /\ k[2] = f
      BY <3>1 DEF SavedFields
    <3>3. k \in RecipeNames \X DOMAIN USER_CFG_FIELDS
      BY DEF SettingsFit
    <3>4. k = <<n, f>>
      BY <3>2, <3>3
    <3> QED
      BY <1>2, <3>4
  <2>2. f \in Recipe[n].fields \cap DOMAIN Recipe[n].default_config
        /\ SavedValue(n, f, settings) = Recipe[n].default_config[f]
    BY <1>2, <2>1 DEF GetDefaultUserConfig, SavedValue
  <2> QED
    BY <2>2, RecipeAssumption DEF RecipeAssumption, RecipeNames
<1> QED
  BY <1>1, <1>2

\* A file that is written can be read.
LEMMA SavedFits ==
    ASSUME NEW names, names \subseteq RecipeNames, NEW settings, SettingsFit(settings)
    PROVE  SourceFits(SavedEntries(names, settings))
<1> DEFINE all == SavedEntries(names, settings)
<1>1. ASSUME NEW e \in all
      PROVE  \E n \in names : \E f \in SavedFields(n, settings) : e = Written(n, f, settings)
  BY SavedEntry
<1> HIDE DEF all
<1>2. ASSUME NEW e \in all, NEW d \in all, e.field = d.field,
             NEW m \in RecipeNames, {e.recipe, d.recipe} \subseteq Called(m)
      PROVE  e = d
  <2>1. PICK n \in names : \E f : e = Written(n, f, settings)
    BY <1>1
  <2>2. PICK f : e = Written(n, f, settings)
    BY <2>1
  <2>3. PICK p \in names : \E g : d = Written(p, g, settings)
    BY <1>1
  <2>4. PICK g : d = Written(p, g, settings)
    BY <2>3
  <2>5. f = g /\ n \in Called(m) /\ p \in Called(m) /\ n \in Called(n) /\ p \in Called(p)
    BY <1>2, <2>2, <2>4 DEF Called, Written
  <2>6. n = m /\ p = m
    BY <2>5, RecipeAssumption DEF RecipeAssumption, RecipeNames
  <2> QED
    BY <2>2, <2>4, <2>5, <2>6
<1>3. ASSUME NEW e \in all PROVE IsRaw(e.raw)
  <2>1. PICK n \in names : \E f \in SavedFields(n, settings) : e = Written(n, f, settings)
    BY <1>1
  <2>2. PICK f \in SavedFields(n, settings) : e = Written(n, f, settings)
    BY <2>1
  <2>3. f \in DOMAIN USER_CFG_FIELDS /\ IsSetting(f, SavedValue(n, f, settings))
    BY SavedSetting
  <2>4. e.raw = Json(f, SavedValue(n, f, settings))
    BY <2>2 DEF Written
  <2> QED
    BY <2>3, <2>4, WrittenRaw
<1> QED
  BY <1>2, <1>3 DEF SourceFits, OneOfEach, RecipeNames, all

\* The command line gives each setting once, and nothing it gives is null; --detect
\* stands for what the user says of it.
LEMMA UpdateOnce ==
    ASSUME CommandHolds
    PROVE  /\ SourceFits(UpdateConfig(Cmd)) /\ SourceFits(Cmd.update)
           /\ \A e \in UpdateConfig(Cmd) : e.raw.k # "null"
           /\ \A e \in UpdateConfig(Cmd) : e \in Cmd.update \/ Conv(e.field, e.raw) # Stalls
<1> DEFINE c == Cmd
           detect == [recipe |-> "cmn", field |-> "detect", raw |-> [k |-> "text", t |-> "true"]]
           others == {e \in c.update : e.recipe # "cmn" \/ e.field # "detect"}
<1>1. OneOfEach(c.update) /\ \A e \in c.update : IsRaw(e.raw) /\ e.raw.k # "null"
  BY SessionIsAList, RequestAssumption DEF RequestAssumption, CommandHolds
<1>2. Conv(detect.field, detect.raw) # Stalls
  <2>1. "detect" \in DOMAIN USER_CFG_FIELDS /\ USER_CFG_FIELDS["detect"] = "bool"
    BY DEF USER_CFG_FIELDS
  <2>2. Conv("detect", detect.raw) = BooleanConv(detect.raw)
    BY <2>1 DEF Conv
  <2>3. BooleanConv(detect.raw) # Stalls
    BY TagsDiffer DEF BooleanConv
  <2> QED
    BY <2>2, <2>3
<1>7. IsRaw(detect.raw)
  <2>1. Items(detect.raw) = <<detect.raw>> /\ Range(<<detect.raw>>) = {detect.raw}
    BY DEF Items, Range
  <2>2. <<detect.raw>> \in Seq({detect.raw}) /\ detect.raw.k = "text"
    OBVIOUS
  <2> HIDE DEF detect
  <2> QED
    BY <2>1, <2>2 DEF IsRaw
<1>3. UpdateConfig(c) = IF c.detect THEN others \cup {detect} ELSE c.update
  BY DEF UpdateConfig
<1>4. /\ detect.recipe = "cmn" /\ detect.field = "detect" /\ detect.raw.k = "text"
      /\ \A e \in others : e \in c.update /\ (e.recipe # "cmn" \/ e.field # "detect")
  OBVIOUS
<1> HIDE DEF detect, others, c
<1>5. CASE c.detect
  <2>1. ASSUME NEW e \in others, NEW n \in RecipeNames, {e.recipe, "cmn"} \subseteq Called(n), e.field = "detect" PROVE FALSE
    <3>1. Called(n) = {"cmn"}
      BY <2>1, RequestAssumption DEF RequestAssumption, RecipeNames
    <3> QED
      BY <1>4, <2>1, <3>1
  <2>2. ASSUME NEW e \in others \cup {detect}, NEW d \in others \cup {detect}, e.field = d.field,
               NEW n \in RecipeNames, {e.recipe, d.recipe} \subseteq Called(n)
        PROVE  e = d
    <3>1. CASE e \in others /\ d \in others
      BY <1>1, <1>4, <2>2, <3>1 DEF OneOfEach, RecipeNames
    <3>2. CASE e \in others /\ d = detect
      BY <1>4, <2>1, <2>2, <3>2
    <3>3. CASE e = detect /\ d \in others
      BY <1>4, <2>1, <2>2, <3>3
    <3> QED
      BY <2>2, <3>1, <3>2, <3>3
  <2>3. OneOfEach(UpdateConfig(c))
    BY <1>3, <1>5, <2>2 DEF OneOfEach, RecipeNames
  <2> QED
    BY <1>1, <1>2, <1>3, <1>4, <1>5, <1>7, <2>3 DEF c, SourceFits
<1>6. CASE ~c.detect
  <2>1. UpdateConfig(c) = c.update
    BY <1>3, <1>6
  <2> QED
    BY <1>1, <2>1 DEF c, SourceFits
<1> QED
  BY <1>5, <1>6

\* What a source stalls on is a range that does not grow.
LEMMA StallIsEndless ==
    ASSUME CommandHolds, NEW source, NEW requested, NEW names, names \subseteq RecipeNames,
           SourceFits(source), SourceStalls(source, requested, names),
           \A e \in source : e \in Cmd.update \cup disk.entries \/ Conv(e.field, e.raw) # Stalls
    PROVE  EndlessRange
<1>1. PICK e \in Accepted(source, requested, names) : Conv(e.field, e.raw) = Stalls
  BY DEF SourceStalls
<1>2. e \in source /\ e.field \in DOMAIN USER_CFG_FIELDS
  BY AcceptedEntry
<1>3. e \in Cmd.update \cup disk.entries
  BY <1>1, <1>2
<1>4. \E item \in Range(Items(e.raw)) : item.k = "range" /\ item.step <= 0
  BY <1>1, <1>2, ConvertedValue DEF SourceFits
<1>5. Cmd \in Range(session)
  BY SessionIsAList
<1> QED
  BY <1>3, <1>4, <1>5 DEF EndlessRange

LEMMA SettingsInit == RequestInit => SettingsHold
<1> SUFFICES ASSUME RequestInit PROVE SettingsHold
  OBVIOUS
<1>1. SourceFits(disk.entries)
  BY RequestAssumption DEF RequestAssumption, RequestInit, SourceFits
<1> QED
  BY <1>1 DEF RequestInit, SettingsHold, SettingsFit, NoSettings, Planned, ConversionEnds

\* The settings follow the sources as they are read.
LEMMA SettingsStep ==
    CommandHolds /\ SelectionHolds /\ OutcomesHold /\ SettingsHold /\ [RequestNext]_requestVars => SettingsHold'
<1> SUFFICES ASSUME CommandHolds, SelectionHolds, OutcomesHold, SettingsHold, [RequestNext]_requestVars PROVE SettingsHold'
  OBVIOUS
<1> DEFINE requested == CompleteList(Wanted)
           Unread == {"start", "select", "file", "save", "check"}
           FileStalls == SourceStalls(FileEntries, requested, Names)
           UpdateStalls == SourceStalls(UpdateConfig(Cmd), requested, Names)
<1>0. /\ Names \subseteq RecipeNames
      /\ SettingsFit(NoSettings)
      /\ SourceFits(disk.entries) /\ SourceFits(FileEntries) /\ SettingsFit(user)
  BY WantedRecipes DEF SettingsHold, SettingsFit, SourceFits, OneOfEach, FileEntries, NoSettings
<1>1. ASSUME UNCHANGED <<session, host, at, disk>>
      PROVE  /\ Wanted' = Wanted /\ Cmd' = Cmd /\ Names' = Names /\ FileEntries' = FileEntries
             /\ requested' = requested /\ FromFile' = FromFile /\ FromBoth' = FromBoth
             /\ FileStalls' = FileStalls /\ UpdateStalls' = UpdateStalls
             /\ EndlessRange' = EndlessRange
  BY <1>1 DEF Wanted, Cmd, Names, FileEntries, FromFile, FromBoth, EndlessRange
<1> HIDE DEF requested, FileStalls, UpdateStalls
<1>2. /\ stage \in Unread => user = NoSettings
      /\ stage = "update" => user = FromFile
      /\ stage \in {"update", "plan"} \cup Planned => ~FileStalls
      /\ stage \in {"plan"} \cup Planned => user = FromBoth /\ ~UpdateStalls
      /\ stage \in Planned => \A n \in DOMAIN cfgs : cfgs[n] = InitializeConfig(n, user, Cmd.quick)
      /\ stage = "stalled" => EndlessRange
  BY DEF SettingsHold, ConversionEnds, requested, FileStalls, UpdateStalls
<1>3. ASSUME UNCHANGED <<session, host, at, disk>>,
             SettingsFit(user'),
             stage' \in Unread => user' = NoSettings,
             stage' = "update" => user' = FromFile,
             stage' \in {"update", "plan"} \cup Planned => ~FileStalls,
             stage' \in {"plan"} \cup Planned => user' = FromBoth /\ ~UpdateStalls,
             stage' \in Planned => \A n \in DOMAIN cfgs' : cfgs'[n] = InitializeConfig(n, user', Cmd.quick),
             stage' = "stalled" => EndlessRange
      PROVE  SettingsHold'
  BY <1>0, <1>1, <1>3 DEF SettingsHold, ConversionEnds, requested, FileStalls, UpdateStalls
<1>4. ASSUME user' = NoSettings, disk' = disk, stage' \in Unread PROVE SettingsHold'
  BY <1>0, <1>4 DEF SettingsHold, ConversionEnds, Planned
<1>5. ASSUME UNCHANGED <<session, host, at, disk, user, cfgs>>,
             \/ stage \in Planned /\ stage' \in Planned \cup {"end"}
             \/ stage \in Opening /\ stage' = "end"
      PROVE  SettingsHold'
  BY <1>0, <1>2, <1>3, <1>5 DEF Planned
<1> USE DEF fixed, Exit, progress
<1>6. CASE UNCHANGED requestVars
  <2>1. UNCHANGED <<session, host, at, disk, user, stage, cfgs>>
    BY <1>6 DEF requestVars
  <2> QED
    BY <1>0, <1>2, <1>3, <2>1
<1>7. CASE Start
  BY <1>4, <1>7 DEF Start, Fresh
<1>8. CASE NextCommand
  BY <1>4, <1>8 DEF NextCommand, Fresh
<1>9. CASE Select
  <2>1. stage' = "end" \/ stage' = "file"
    BY <1>9 DEF Select
  <2>2. user' = NoSettings /\ UNCHANGED <<session, host, at, disk>>
    BY <1>2, <1>9 DEF Select
  <2> QED
    BY <1>0, <1>3, <2>1, <2>2 DEF Planned
<1>10. CASE ReadConfigFile
  <2>1. /\ selection = Wanted /\ user = NoSettings /\ UNCHANGED <<session, host, at, disk>>
        /\ IF FileStalls THEN stage' = "stalled" /\ user' = user ELSE user' = FromFile /\ stage' = "update"
    BY <1>2, <1>10 DEF ReadConfigFile, ReadSource, SelectionHolds, FromFile, FileStalls, requested
  <2>2. CASE FileStalls
    <3>1. \A e \in FileEntries : e \in disk.entries
      BY DEF FileEntries
    <3>2. EndlessRange
      BY <1>0, <2>2, <3>1, StallIsEndless DEF FileStalls
    <3> QED
      BY <1>0, <1>3, <2>1, <2>2, <3>2 DEF Planned
  <2>3. CASE ~FileStalls
    <3>1. SettingsFit(FromFile)
      BY <1>0, SettingsKeepFit DEF FromFile
    <3> QED
      BY <1>3, <2>1, <2>3, <3>1 DEF Planned
  <2> QED
    BY <2>2, <2>3
<1>11. CASE ReadUpdateConfig
  <2>1. /\ selection = Wanted /\ user = FromFile /\ ~FileStalls /\ UNCHANGED <<session, host, at, disk>>
        /\ IF UpdateStalls THEN stage' = "stalled" /\ user' = user ELSE user' = FromBoth /\ stage' = "plan"
    BY <1>2, <1>11 DEF ReadUpdateConfig, ReadSource, SelectionHolds, FromBoth, UpdateStalls, requested
  <2>2. CASE UpdateStalls
    <3>1. EndlessRange
      BY <1>0, <2>2, UpdateOnce, StallIsEndless DEF UpdateStalls
    <3> QED
      BY <1>0, <1>3, <2>1, <2>2, <3>1 DEF Planned
  <2>3. CASE ~UpdateStalls
    <3>1. SettingsFit(FromBoth)
      BY <1>0, <2>1, UpdateOnce, SettingsKeepFit DEF FromBoth
    <3> QED
      BY <1>3, <2>1, <2>3, <3>1 DEF Planned
  <2> QED
    BY <2>2, <2>3
<1>12. CASE DryRun
  BY <1>5, <1>12 DEF DryRun, Opening
<1>13. CASE Resolve
  <2>1. stage = "plan" /\ stage' = "restore" /\ UNCHANGED <<session, host, at, disk, user, cfgs>>
    BY <1>13 DEF Resolve
  <2>2. DOMAIN cfgs' = {}
    BY <2>1 DEF OutcomesHold, Opening
  <2> QED
    BY <1>0, <1>2, <1>3, <2>1, <2>2 DEF Planned
<1>14. CASE RestoreCached
  BY <1>5, <1>14 DEF RestoreCached, Planned
<1>15. CASE Order
  BY <1>5, <1>15 DEF Order, Planned
<1>16. CASE SetupBenchmarks
  <2>1. /\ stage = "setup" /\ stage' \in {"setup", "alloc"} /\ UNCHANGED <<session, host, at, disk, user>>
        /\ \/ cfgs' = cfgs
           \/ cfgs' = Assigned(cfgs, plan[i], InitializeConfig(plan[i], user, Cmd.quick))
    BY <1>16 DEF SetupBenchmarks, Advance
  <2>2. \A n \in DOMAIN cfgs : cfgs[n] = InitializeConfig(n, user, Cmd.quick)
    BY <1>2, <2>1 DEF Planned
  <2>3. \A n \in DOMAIN cfgs' : cfgs'[n] = InitializeConfig(n, user', Cmd.quick)
    BY <2>1, <2>2 DEF Assigned
  <2> QED
    BY <1>0, <1>2, <1>3, <2>1, <2>3 DEF Planned
<1>17. CASE AllocateResources
  BY <1>5, <1>17 DEF AllocateResources, Advance, Planned
<1>18. CASE ExecuteReports
  BY <1>5, <1>18 DEF ExecuteReports, Planned
<1>19. CASE BeginExecution
  BY <1>5, <1>19 DEF BeginExecution, Planned
<1>20. CASE NextRecipe
  BY <1>5, <1>20 DEF NextRecipe, Planned
<1>21. CASE RunRecipe
  BY <1>5, <1>21 DEF RunRecipe, Crash, Planned
<1>22. CASE OneStep
  BY <1>5, <1>22 DEF OneStep, Crash, Planned
<1>23. CASE StepSetupFails
  BY <1>5, <1>23 DEF StepSetupFails, Crash, Planned
<1>24. CASE FinishSteps
  BY <1>5, <1>24 DEF FinishSteps, Crash, Planned
<1>25. CASE WriteDefault
  <2> DEFINE chosen == GetFilteredRecipes(Names, Cmd.positive, Cmd.negative, FALSE).filtered
  <2>1. chosen \subseteq Names
    BY DEF GetFilteredRecipes
  <2>2. /\ stage = "save" /\ UNCHANGED <<session, host, at>>
        /\ \/ stage' = "end" /\ UNCHANGED <<disk, user>>
           \/ stage' = "stalled" /\ UNCHANGED <<disk, user>> /\ SourceStalls(Cmd.update, chosen, Names)
           \/ /\ stage' = "end"
              /\ user' = GetConvUserConfig(Cmd.update, NoSettings, chosen, Names)
              /\ disk'.entries = SavedEntries(chosen, user')
    <3>1. stage = "save" /\ UNCHANGED <<session, host, at>>
      BY <1>25 DEF WriteDefault
    <3>2. CASE disk.exists /\ ~Cmd.force
      BY <1>25, <3>1, <3>2 DEF WriteDefault
    <3>3. CASE ~(disk.exists /\ ~Cmd.force) /\ SourceStalls(Cmd.update, chosen, Names)
      BY <1>25, <3>1, <3>3 DEF WriteDefault
    <3>4. CASE ~(disk.exists /\ ~Cmd.force) /\ ~SourceStalls(Cmd.update, chosen, Names)
      <4>1. /\ user' = GetConvUserConfig(Cmd.update, NoSettings, chosen, Names)
            /\ disk' = [exists |-> TRUE, entries |-> SavedEntries(chosen, user')]
            /\ stage' = "end"
        BY <1>25, <3>4 DEF WriteDefault
      <4>2. disk'.entries = SavedEntries(chosen, user')
        BY <4>1, Zenon
      <4> QED
        BY <3>1, <4>1, <4>2
    <3> QED
      BY <3>2, <3>3, <3>4
  <2> HIDE DEF chosen
  <2>3. CASE stage' = "end" /\ UNCHANGED <<disk, user>>
    BY <1>0, <1>3, <2>2, <2>3 DEF Planned
  <2>4. CASE stage' = "stalled" /\ UNCHANGED <<disk, user>> /\ SourceStalls(Cmd.update, chosen, Names)
    <3>1. EndlessRange
      BY <1>0, <2>4, UpdateOnce, StallIsEndless
    <3> QED
      BY <1>0, <1>3, <2>2, <2>4, <3>1 DEF Planned
  <2>5. CASE /\ stage' = "end"
             /\ user' = GetConvUserConfig(Cmd.update, NoSettings, chosen, Names)
             /\ disk'.entries = SavedEntries(chosen, user')
    <3>1. SettingsFit(user')
      BY <1>0, <2>5, UpdateOnce, SettingsKeepFit
    <3>2. SourceFits(disk'.entries)
      BY <1>0, <2>1, <2>5, <3>1, SavedFits
    <3> QED
      BY <2>5, <3>1, <3>2 DEF SettingsHold, ConversionEnds, Planned
  <2> QED
    BY <2>2, <2>3, <2>4, <2>5
<1>26. CASE Check
  <2>1. /\ stage = "check" /\ UNCHANGED <<session, host, at, disk, user>>
        /\ \/ stage' = "end"
           \/ stage' = "stalled" /\ SourceStalls(disk.entries, Names, Names)
    BY <1>26 DEF Check
  <2>2. SourceStalls(disk.entries, Names, Names) => EndlessRange
    BY <1>0, StallIsEndless
  <2> QED
    BY <1>0, <1>3, <2>1, <2>2 DEF Planned
<1> QED
  BY <1>6, <1>7, <1>8, <1>9, <1>10, <1>11, <1>12, <1>13, <1>14, <1>15, <1>16, <1>17, <1>18, <1>19, <1>20,
     <1>21, <1>22, <1>23, <1>24, <1>25, <1>26 DEF RequestNext, RequestStep, Done

----------------------------------------------------------------------------
(* RunRequest: what was written is read again *)

\* Lists of one member each are flattened to the list of the members.
LEMMA FlattenSingles ==
    ASSUME NEW X, NEW list \in Seq(X), NEW seqs \in Seq(Seq(X)), Len(seqs) = Len(list),
           \A j \in 1 .. Len(list) : seqs[j] = <<list[j]>>
    PROVE  FlattenSeq(seqs) = list
<1>1. Len(list) \in Nat /\ \A j \in 1 .. Len(list) : list[j] \in X
  BY LenProperties
<1>2. CASE Len(list) = 0
  <2>1. list = <<>> /\ seqs = <<>> /\ FlattenSeq(seqs) = seqs
    BY <1>2, EmptySeq DEF FlattenSeq
  <2> QED
    BY <2>1
<1>4. \A j \in 1 .. Len(list) : seqs[j] = <<list[j]>>
  OBVIOUS
<1>5. Len(seqs) = Len(list)
  OBVIOUS
<1>3. CASE Len(list) # 0
  <2>1. PICK f \in [1 .. Len(seqs) -> Seq(X)] :
            /\ FlattenSeq(seqs) = f[Len(seqs)]
            /\ \A j \in 1 .. Len(seqs) : f[j] = IF j = 1 THEN seqs[j] ELSE f[j - 1] \o seqs[j]
    BY <1>3, Flattening
  <2> DEFINE n == Len(list)
             Same(k) == Len(f[k]) = k /\ \A l \in 1 .. k : f[k][l] = list[l]
             I == {k \in Nat : k + 1 <= n => Same(k + 1)}
  <2>2. 0 \in I
    <3>1. 1 \in 1 .. n
      BY <1>1, <1>3
    <3>2. f[1] = seqs[1] /\ seqs[1] = <<list[1]>>
      BY <1>4, <1>5, <2>1, <3>1
    <3>3. Len(<<list[1]>>) = 1 /\ \A l \in 1 .. 1 : <<list[1]>>[l] = list[l]
      OBVIOUS
    <3>4. f[1] = <<list[1]>>
      BY <3>2
    <3>5. Same(1)
      BY <3>3, <3>4
    <3> HIDE DEF Same
    <3> QED
      BY <3>5
  <2>3. ASSUME NEW k \in I PROVE k + 1 \in I
    <3>1. CASE (k + 1) + 1 <= n
      <4>1. /\ k \in Nat /\ k + 1 <= n /\ k + 2 \in 1 .. n /\ k + 2 # 1 /\ (k + 2) - 1 = k + 1
            /\ k + 1 \in 1 .. n
        BY <1>1, <3>1
      <4>2. Same(k + 1)
        BY <4>1
      <4>3. f[k + 2] = f[k + 1] \o <<list[k + 2]>>
        <5>1. f[k + 2] = f[(k + 2) - 1] \o seqs[k + 2]
          BY <1>5, <2>1, <4>1
        <5>2. seqs[k + 2] = <<list[k + 2]>>
          BY <1>4, <4>1
        <5> QED
          BY <4>1, <5>1, <5>2
      <4>4. f[k + 1] \in Seq(X) /\ <<list[k + 2]>> \in Seq(X)
        <5>1. f[k + 1] \in Seq(X)
          BY <1>5, <2>1, <4>1
        <5>2. list[k + 2] \in X
          BY <1>1, <4>1
        <5> QED
          BY <5>1, <5>2
      <4>5. /\ Len(f[k + 2]) = k + 2
            /\ \A l \in 1 .. (k + 2) : f[k + 2][l] = IF l <= k + 1 THEN f[k + 1][l] ELSE <<list[k + 2]>>[l - (k + 1)]
        <5>1. Len(<<list[k + 2]>>) = 1 /\ Len(f[k + 1]) = k + 1
          BY <4>2
        <5> QED
          BY <4>1, <4>3, <4>4, <5>1, ConcatProperties
      <4>6. \A l \in 1 .. (k + 2) : l <= k + 1 \/ (l = k + 2 /\ l - (k + 1) = 1)
        BY <4>1
      <4>7. Same(k + 2)
        <5> SUFFICES ASSUME NEW l \in 1 .. (k + 2) PROVE f[k + 2][l] = list[l]
          BY <4>5
        <5>1. CASE l <= k + 1
          <6>1. l \in 1 .. (k + 1)
            BY <4>1, <5>1
          <6> QED
            BY <4>2, <4>5, <5>1, <6>1
        <5>2. CASE l = k + 2
          <6>1. ~(l <= k + 1) /\ l - (k + 1) = 1
            BY <4>1, <5>2
          <6>2. f[k + 2][l] = <<list[k + 2]>>[1]
            BY <4>5, <6>1
          <6> QED
            BY <5>2, <6>2
        <5> QED
          BY <4>6, <5>1, <5>2
      <4>8. k + 2 = (k + 1) + 1
        BY <4>1
      <4> HIDE DEF Same
      <4> QED
        BY <4>1, <4>7, <4>8
    <3>2. CASE ~((k + 1) + 1 <= n)
      BY <3>2
    <3> QED
      BY <3>1, <3>2
  <2>4. I = Nat
    <3> HIDE DEF I
    <3>1. I \in SUBSET Nat
      BY DEF I
    <3> QED
      BY <2>2, <2>3, <3>1, CountingUp
  <2>5. n - 1 \in I /\ (n - 1) + 1 = n
    <3>1. n - 1 \in Nat /\ (n - 1) + 1 = n
      BY <1>1, <1>3
    <3> HIDE DEF I
    <3> QED
      BY <2>4, <3>1
  <2>6. Same(n)
    <3> HIDE DEF Same
    <3>1. (n - 1) + 1 <= n => Same((n - 1) + 1)
      BY <2>5
    <3> QED
      BY <1>1, <2>5, <3>1
  <2>7. f[n] \in Seq(X) /\ FlattenSeq(seqs) = f[n]
    BY <1>1, <1>3, <2>1
  <2>8. Len(f[n]) = n /\ \A l \in 1 .. n : f[n][l] = list[l]
    BY <2>6
  <2> HIDE DEF I, Same
  <2>9. f[n] = list
    BY <2>7, <2>8, SeqEqual
  <2> QED
    BY <2>7, <2>9
<1> QED
  BY <1>2, <1>3

\* All of a list is the list.
LEMMA ListedAll ==
    ASSUME NEW X, NEW list \in Seq(X), NEW names, \A j \in DOMAIN list : list[j] \in names
    PROVE  Listed(names, list) = list
<1> DEFINE n == Len(list)
           places == InOrder(1 .. n, Less)
<1>1. n \in Nat /\ DOMAIN list = 1 .. n
  BY LenProperties
<1>2. {j \in DOMAIN list : list[j] \in names} = 1 .. n
  BY <1>1
<1>3. Listed(names, list) = [j \in DOMAIN places |-> list[places[j]]]
  BY <1>2 DEF Listed
<1>4. Cardinality(1 .. n) = n
  BY <1>1, FirstNumbers
<1>5. ASSUME NEW m \in 1 .. n PROVE Cardinality({l \in 1 .. n : Less(l, m)}) = m - 1
  <2>1. {l \in 1 .. n : Less(l, m)} = 1 .. (m - 1) /\ m - 1 \in Nat
    BY <1>1 DEF Less
  <2> QED
    BY <2>1, FirstNumbers
<1>6. DOMAIN places = 1 .. n /\ \A j \in 1 .. n : places[j] = j
  <2>1. places = [j \in 1 .. n |-> CHOOSE m \in 1 .. n : Cardinality({l \in 1 .. n : Less(l, m)}) = j - 1]
    BY <1>4 DEF InOrder
  <2> SUFFICES ASSUME NEW j \in 1 .. n
               PROVE  (CHOOSE m \in 1 .. n : Cardinality({l \in 1 .. n : Less(l, m)}) = j - 1) = j
    BY <2>1
  <2>2. \A m \in 1 .. n : Cardinality({l \in 1 .. n : Less(l, m)}) = j - 1 <=> m = j
    BY <1>1, <1>5
  <2> QED
    BY <2>2
<1> HIDE DEF places
<1>7. [j \in DOMAIN places |-> list[places[j]]] = [j \in 1 .. n |-> list[j]]
  BY <1>6
<1>8. list = [j \in 1 .. n |-> list[j]]
  <2>1. list \in [1 .. n -> X]
    BY <1>1, LenProperties
  <2> QED
    BY <2>1
<1> QED
  BY <1>3, <1>7, <1>8

\* A list of numbers is written as a list of numbers, which is converted to the same.
LEMMA NumListReread ==
    ASSUME NEW list, list \in Seq(Range(list)), NEW min \in Int, NEW optional \in BOOLEAN,
           \A x \in Range(list) : (x = None /\ optional) \/ (IsNumber(x) /\ x[2] >= min)
    PROVE  NumListConv([j \in DOMAIN list |-> RawOfScalar(list[j])], min, optional) = List(list)
<1> DEFINE items == [j \in DOMAIN list |-> RawOfScalar(list[j])]
           numbers == [j \in DOMAIN items |-> NumItem(items[j], optional)]
           all == FlattenSeq(numbers)
           X == Range(list)
<1>1. Len(list) \in Nat /\ DOMAIN list = 1 .. Len(list) /\ list \in [1 .. Len(list) -> X]
  BY LenProperties
<1>2. ASSUME NEW x, (x = None /\ optional) \/ IsNumber(x)
      PROVE  NumItem(RawOfScalar(x), optional) = <<x>> /\ <<x>> \notin {<<Error>>, <<Stalls>>}
  <2>1. CASE x = None /\ optional
    <3>1. RawOfScalar(x) = [k |-> "null"]
      <4>1. x[1] = "none"
        BY <2>1 DEF None
      <4> QED
        BY <2>1, <4>1 DEF RawOfScalar
    <3>2. RawOfScalar(x).k = "null"
      BY <3>1
    <3>3. NumItem(RawOfScalar(x), optional) = <<None>>
      BY <2>1, <3>2 DEF NumItem
    <3> QED
      BY <2>1, <3>3, TagsDiffer
  <2>2. CASE IsNumber(x)
    <3>1. x = Num(x[2]) /\ x[1] = "int" /\ x # None
      BY <2>2, TagsDiffer DEF IsNumber
    <3>2. RawOfScalar(x) = [k |-> "num", n |-> x[2]]
      BY <3>1 DEF RawOfScalar
    <3>3. RawOfScalar(x).k = "num" /\ RawOfScalar(x).n = x[2]
      BY <3>2
    <3>4. NumItem(RawOfScalar(x), optional) = <<Num(x[2])>>
      BY <3>3 DEF NumItem
    <3> QED
      BY <3>1, <3>4, TagsDiffer
  <2> QED
    BY <1>2, <2>1, <2>2
<1>3. \A j \in 1 .. Len(list) : list[j] \in X /\ ((list[j] = None /\ optional) \/ (IsNumber(list[j]) /\ list[j][2] >= min))
  BY <1>1 DEF Range
<1>4. \A j \in 1 .. Len(list) : numbers[j] = <<list[j]>> /\ numbers[j] \notin {<<Error>>, <<Stalls>>}
  BY <1>1, <1>2, <1>3
<1>5. numbers \in [1 .. Len(list) -> Seq(X)]
  <2>1. DOMAIN numbers = 1 .. Len(list) /\ numbers = [j \in 1 .. Len(list) |-> numbers[j]]
    BY <1>1
  <2> HIDE DEF numbers
  <2>2. \A j \in 1 .. Len(list) : numbers[j] \in Seq(X)
    <3> SUFFICES ASSUME NEW j \in 1 .. Len(list) PROVE numbers[j] \in Seq(X)
      OBVIOUS
    <3>1. list[j] \in X /\ numbers[j] = <<list[j]>>
      BY <1>3, <1>4
    <3> HIDE DEF X
    <3> QED
      BY <3>1
  <2> QED
    BY <2>1, <2>2
<1>6. items \in Seq(Range(items)) /\ DOMAIN items = 1 .. Len(list)
  <2>1. items \in [1 .. Len(list) -> Range(items)]
    BY <1>1 DEF Range
  <2> HIDE DEF items
  <2> QED
    BY <1>1, <2>1, SeqDef
<1>7. WrongItems(items, optional) = {}
  <2>1. \A j \in DOMAIN items : NumItem(items[j], optional) = numbers[j] /\ j \in 1 .. Len(list)
    BY <1>6
  <2> HIDE DEF items, numbers
  <2> QED
    BY <1>4, <2>1 DEF WrongItems
<1>8. NumListConv(items, min, optional) = List(Listed({x \in Range(all) : x = None \/ x[2] >= min}, all))
  <2> HIDE DEF items
  <2> QED
    BY <1>6, <1>7, NumListCases
<1> HIDE DEF numbers, X, all, items
<1>9. all = list
  <2>1. numbers \in Seq(Seq(X)) /\ Len(numbers) = Len(list)
    <3>1. numbers \in Seq(Seq(X))
      BY <1>1, <1>5, SeqDef
    <3> QED
      BY <1>1, <1>5, <3>1, LenProperties
  <2>2. list \in Seq(X)
    BY DEF X
  <2> QED
    BY <1>4, <2>1, <2>2, FlattenSingles DEF all
<1>10. Listed({x \in Range(list) : x = None \/ x[2] >= min}, list) = list
  <2>1. \A j \in DOMAIN list : list[j] \in {x \in Range(list) : x = None \/ x[2] >= min}
    BY <1>1, <1>3 DEF X
  <2> QED
    BY <2>1, ListedAll
<1> QED
  BY <1>8, <1>9, <1>10 DEF items

\* What is read again of a value that was written: the same, but None is the text
\* "None" for a field of texts.
Named(x) == IF x = None THEN Text("None") ELSE x

Reread(field, v) ==
    IF USER_CFG_FIELDS[field] = "text" THEN Named(v)
    ELSE IF USER_CFG_FIELDS[field] = "texts" THEN List([j \in DOMAIN v[2] |-> Named(v[2][j])])
    ELSE v

LEMMA ScalarKinds ==
    ASSUME NEW x
    PROVE  /\ IsNumber(x) => RawOfScalar(x) = [k |-> "num", n |-> x[2]] /\ x = Num(x[2]) /\ x[1] = "int"
           /\ IsText(x) => RawOfScalar(x) = [k |-> "text", t |-> x[2]] /\ x = Text(x[2]) /\ x[1] = "text"
           /\ x = None => RawOfScalar(x) = [k |-> "null"] /\ x[1] = "none"
           /\ x = <<"bool", TRUE>> => RawOfScalar(x) = [k |-> "num", n |-> 1] /\ x[1] = "bool"
           /\ x = <<"bool", FALSE>> => RawOfScalar(x) = [k |-> "num", n |-> 0] /\ x[1] = "bool"
<1>1. x = None => x[1] = "none"
  BY DEF None
<1>2. /\ x[1] = "int" => x # None /\ RawOfScalar(x) = [k |-> "num", n |-> x[2]]
      /\ x[1] = "text" => x # None /\ RawOfScalar(x) = [k |-> "text", t |-> x[2]]
      /\ x[1] = "bool" => x # None /\ RawOfScalar(x) = [k |-> "num", n |-> IF x[2] THEN 1 ELSE 0]
      /\ x = None => RawOfScalar(x) = [k |-> "null"]
  BY <1>1 DEF RawOfScalar
<1>3. <<"bool", TRUE>>[1] = "bool" /\ <<"bool", FALSE>>[1] = "bool" /\ <<"bool", TRUE>>[2] = TRUE /\ <<"bool", FALSE>>[2] = FALSE
  OBVIOUS
<1>4. (IF TRUE THEN 1 ELSE 0) = 1 /\ (IF FALSE THEN 1 ELSE 0) = 0
  OBVIOUS
<1>5. /\ x = <<"bool", TRUE>> => RawOfScalar(x) = [k |-> "num", n |-> 1] /\ x[1] = "bool"
      /\ x = <<"bool", FALSE>> => RawOfScalar(x) = [k |-> "num", n |-> 0] /\ x[1] = "bool"
  BY <1>2, <1>3, <1>4
<1> QED
  BY <1>1, <1>2, <1>5 DEF IsNumber, IsText

\* What is written of a value of a field.
LEMMA JsonOf ==
    ASSUME NEW f, NEW v
    PROVE  /\ v[1] = "list" => Json(f, v) = [k |-> "items", s |-> [j \in DOMAIN v[2] |-> RawOfScalar(v[2][j])]]
           /\ v[1] = "int" /\ USER_CFG_FIELDS[f] = "duration" => Json(f, v) = [k |-> "unit", n |-> v[2], u |-> "tick"]
           /\ v[1] # "list" /\ (v[1] # "int" \/ USER_CFG_FIELDS[f] # "duration") => Json(f, v) = RawOfScalar(v)
BY DEF Json

\* A value of a field, written and converted again.
LEMMA ConvertedAgain ==
    ASSUME NEW f \in DOMAIN USER_CFG_FIELDS, NEW v, IsSetting(f, v)
    PROVE  Conv(f, Json(f, v)) = Reread(f, v)
<1> DEFINE kind == USER_CFG_FIELDS[f]
           raw == Json(f, v)
           value == Conv(f, raw)
           again == Reread(f, v)
           listed == [j \in DOMAIN v[2] |-> RawOfScalar(v[2][j])]
<1>1. kind \in {"int", "optional_int", "size", "duration", "bool", "text", "texts", "ints",
                "naturals", "optional_items", "optional_ints"}
  BY KindOfField
<1>2. /\ kind = "int" => value = IntConv(raw)
      /\ kind = "optional_int" => value = OptionalIntConv(raw)
      /\ kind = "size" => value = MemSizeConv(raw)
      /\ kind = "duration" => value = DurationConv(raw)
      /\ kind = "bool" => value = BooleanConv(raw)
      /\ kind = "text" => value = TextConv(raw)
      /\ kind = "texts" => value = StrListConv(raw)
      /\ kind = "ints" => value = NumListConv(Items(raw), MinValue, FALSE)
      /\ kind = "naturals" => value = NumListConv(Items(raw), 1, FALSE)
      /\ kind = "optional_items" => value = NumListConv(Items(raw), 0, TRUE)
      /\ kind = "optional_ints" => value = OptionalIntListConv(raw)
  BY DEF Conv
<1>3. /\ kind = "text" => again = Named(v)
      /\ kind = "texts" => again = List([j \in DOMAIN v[2] |-> Named(v[2][j])])
      /\ kind \notin {"text", "texts"} => again = v
  BY DEF Reread
<1>4. /\ kind \in {"int", "duration"} => IsNumber(v)
      /\ kind \in {"optional_int", "size"} => v = None \/ IsNumber(v)
      /\ kind = "bool" => v \in {<<"bool", TRUE>>, <<"bool", FALSE>>}
      /\ kind = "text" => v = None \/ IsText(v)
      /\ kind = "texts" => IsList(v) /\ \A x \in Range(v[2]) : x = None \/ IsText(x)
      /\ kind \in {"ints", "optional_ints"} => IsListOfNumbers(v, MinValue)
      /\ kind = "naturals" => IsListOfNumbers(v, 1)
      /\ kind = "optional_items" => IsList(v) /\ \A x \in Range(v[2]) : x = None \/ (IsNumber(x) /\ x[2] >= 0)
  BY DEF IsSetting
<1>5. /\ v[1] = "list" => raw = [k |-> "items", s |-> listed]
      /\ v[1] = "int" /\ kind = "duration" => raw = [k |-> "unit", n |-> v[2], u |-> "tick"]
      /\ v[1] # "list" /\ (v[1] # "int" \/ kind # "duration") => raw = RawOfScalar(v)
  BY JsonOf
<1> HIDE DEF kind, raw, value, again
<1>6. ASSUME IsList(v)
      PROVE  raw.k = "items" /\ Items(raw) = listed /\ v = List(v[2]) /\ v[2] \in Seq(Range(v[2]))
  <2>1. raw = [k |-> "items", s |-> listed]
    BY <1>5, <1>6 DEF IsList
  <2> HIDE DEF listed
  <2>2. raw.k = "items" /\ raw.s = listed
    BY <2>1
  <2> QED
    BY <1>6, <2>2 DEF Items, IsList
<1> HIDE DEF listed
<1>7. ASSUME kind = "int" PROVE value = again
  <2>1. raw = [k |-> "num", n |-> v[2]] /\ v = Num(v[2])
    BY <1>4, <1>5, <1>7, ScalarKinds
  <2>2. raw.k = "num" /\ raw.n = v[2]
    BY <2>1
  <2> QED
    BY <1>2, <1>3, <1>7, <2>1, <2>2 DEF IntConv
<1>8. ASSUME kind \in {"optional_int", "size"} PROVE value = again
  <2>1. CASE v = None
    <3>1. raw = [k |-> "null"]
      BY <1>5, <1>8, <2>1, ScalarKinds
    <3>2. raw.k = "null"
      BY <3>1
    <3> QED
      BY <1>2, <1>3, <1>8, <2>1, <3>2 DEF OptionalIntConv, MemSizeConv
  <2>2. CASE IsNumber(v)
    <3>1. raw = [k |-> "num", n |-> v[2]] /\ v = Num(v[2])
      BY <1>5, <1>8, <2>2, ScalarKinds
    <3>2. raw.k = "num" /\ raw.n = v[2]
      BY <3>1
    <3> QED
      BY <1>2, <1>3, <1>8, <3>1, <3>2 DEF OptionalIntConv, MemSizeConv, IntConv
  <2> QED
    BY <1>4, <1>8, <2>1, <2>2
<1>9. ASSUME kind = "duration" PROVE value = again
  <2>1. raw = [k |-> "unit", n |-> v[2], u |-> "tick"] /\ v = Num(v[2])
    BY <1>4, <1>5, <1>9, ScalarKinds
  <2>2. raw.k = "unit" /\ raw.n = v[2] /\ raw.u = "tick"
    BY <2>1
  <2> QED
    BY <1>2, <1>3, <1>9, <2>1, <2>2 DEF DurationConv, StrTime
<1>10. ASSUME kind = "bool" PROVE value = again
  <2>1. \/ v = <<"bool", TRUE>> /\ raw = [k |-> "num", n |-> 1]
        \/ v = <<"bool", FALSE>> /\ raw = [k |-> "num", n |-> 0]
    BY <1>4, <1>5, <1>10, ScalarKinds
  <2>2. CASE v = <<"bool", TRUE>> /\ raw = [k |-> "num", n |-> 1]
    <3>1. raw.k = "num" /\ raw.n = 1
      BY <2>2
    <3>2. (raw.n = 1) = TRUE
      BY <3>1
    <3>3. BooleanConv(raw) = <<"bool", raw.n = 1>>
      BY <3>1 DEF BooleanConv
    <3> QED
      BY <1>2, <1>3, <1>10, <2>2, <3>2, <3>3
  <2>3. CASE v = <<"bool", FALSE>> /\ raw = [k |-> "num", n |-> 0]
    <3>1. raw.k = "num" /\ raw.n = 0
      BY <2>3
    <3>2. (raw.n = 1) = FALSE
      BY <3>1
    <3>3. BooleanConv(raw) = <<"bool", raw.n = 1>>
      BY <3>1 DEF BooleanConv
    <3> QED
      BY <1>2, <1>3, <1>10, <2>3, <3>2, <3>3
  <2> QED
    BY <2>1, <2>2, <2>3
<1>11. ASSUME kind = "text" PROVE value = again
  <2>1. CASE v = None
    <3>1. raw = [k |-> "null"]
      BY <1>5, <1>11, <2>1, ScalarKinds
    <3>2. raw.k = "null"
      BY <3>1
    <3> QED
      BY <1>2, <1>3, <1>11, <2>1, <3>2 DEF TextConv, Named
  <2>2. CASE IsText(v)
    <3>1. raw = [k |-> "text", t |-> v[2]] /\ v = Text(v[2]) /\ v # None
      BY <1>5, <1>11, <2>2, ScalarKinds
    <3>2. raw.k = "text" /\ raw.t = v[2]
      BY <3>1
    <3> QED
      BY <1>2, <1>3, <1>11, <3>1, <3>2 DEF TextConv, Named
  <2> QED
    BY <1>4, <1>11, <2>1, <2>2
<1>12. ASSUME kind = "texts" PROVE value = again
  <2>1. Items(raw) = listed /\ IsList(v)
    BY <1>4, <1>6, <1>12
  <2>2. ASSUME NEW j \in DOMAIN v[2] PROVE TextConv(listed[j]) = Named(v[2][j])
    <3> DEFINE x == v[2][j]
    <3>1. x = None \/ IsText(x)
      BY <1>4, <1>12 DEF Range
    <3>2. listed[j] = RawOfScalar(x)
      BY DEF listed
    <3> HIDE DEF x
    <3>3. CASE x = None
      <4>1. RawOfScalar(x) = [k |-> "null"]
        BY <3>3, ScalarKinds
      <4>2. RawOfScalar(x).k = "null"
        BY <4>1
      <4> QED
        BY <3>2, <3>3, <4>2 DEF TextConv, Named, x
    <3>4. CASE IsText(x)
      <4>1. RawOfScalar(x) = [k |-> "text", t |-> x[2]] /\ x = Text(x[2]) /\ x # None
        BY <3>4, ScalarKinds
      <4>2. RawOfScalar(x).k = "text" /\ RawOfScalar(x).t = x[2]
        BY <4>1
      <4>3. TextConv(RawOfScalar(x)) = x
        BY <4>1, <4>2 DEF TextConv
      <4> QED
        BY <3>2, <4>1, <4>3 DEF Named, x
    <3> QED
      BY <3>1, <3>3, <3>4
  <2>3. DOMAIN listed = DOMAIN v[2]
    BY DEF listed
  <2>4. StrListConv(raw) = List([j \in DOMAIN listed |-> TextConv(listed[j])])
    BY <2>1 DEF StrListConv
  <2>5. [j \in DOMAIN listed |-> TextConv(listed[j])] = [j \in DOMAIN v[2] |-> Named(v[2][j])]
    BY <2>2, <2>3
  <2> QED
    BY <1>2, <1>3, <1>12, <2>4, <2>5
<1>13. ASSUME NEW min \in Int, NEW optional \in BOOLEAN, IsList(v),
              \A x \in Range(v[2]) : (x = None /\ optional) \/ (IsNumber(x) /\ x[2] >= min)
       PROVE  NumListConv(Items(raw), min, optional) = v
  BY <1>6, <1>13, NumListReread DEF listed
<1>14. MinValue \in Int
  BY DEF MinValue
<1>15. ASSUME kind = "ints" PROVE value = again
  BY <1>2, <1>3, <1>4, <1>13, <1>14, <1>15 DEF IsListOfNumbers
<1>16. ASSUME kind = "naturals" PROVE value = again
  <2> DEFINE one == 1
  <2>1. one \in Int /\ IsListOfNumbers(v, one) /\ value = NumListConv(Items(raw), one, FALSE)
    BY <1>2, <1>4, <1>16
  <2> HIDE DEF one
  <2> QED
    BY <1>3, <1>13, <1>16, <2>1 DEF IsListOfNumbers
<1>17. ASSUME kind = "optional_items" PROVE value = again
  <2> DEFINE zero == 0
  <2>1. /\ zero \in Int /\ value = NumListConv(Items(raw), zero, TRUE)
        /\ IsList(v) /\ \A x \in Range(v[2]) : x = None \/ (IsNumber(x) /\ x[2] >= zero)
    BY <1>2, <1>4, <1>17
  <2> HIDE DEF zero
  <2> QED
    BY <1>3, <1>13, <1>17, <2>1
<1>18. ASSUME kind = "optional_ints" PROVE value = again
  <2>1. IsListOfNumbers(v, MinValue)
    BY <1>4, <1>18
  <2>2. raw.k # "null"
    BY <1>6, <2>1 DEF IsListOfNumbers
  <2>3. OptionalIntListConv(raw) = NumListConv(Items(raw), MinValue, FALSE)
    BY <2>2 DEF OptionalIntListConv
  <2> QED
    BY <1>2, <1>3, <1>13, <1>14, <1>18, <2>1, <2>3 DEF IsListOfNumbers
<1>19. value = again
  BY <1>1, <1>7, <1>8, <1>9, <1>10, <1>11, <1>12, <1>15, <1>16, <1>17, <1>18
<1> QED
  BY <1>19 DEF value, again, raw

----------------------------------------------------------------------------
(* RunRequest: the file that config save wrote *)

LEMMA CommandsOfASession ==
    ASSUME CommandHolds, NEW l \in 1 .. Len(session)
    PROVE  /\ SourceFits(session[l].update) /\ \A e \in session[l].update : e.raw.k # "null"
           /\ SavedRecipes(session[l]) \subseteq SaveNames /\ SaveNames \subseteq RecipeNames
           /\ SettingsFit(SavedSettings(session[l]))
<1>1. session[l] \in Range(session)
  BY SessionIsAList, LenProperties DEF Range
<1>2. SourceFits(session[l].update) /\ \A e \in session[l].update : e.raw.k # "null"
  BY <1>1, RequestAssumption DEF RequestAssumption, CommandHolds, SourceFits
<1>3. SavedRecipes(session[l]) \subseteq SaveNames
  BY DEF SavedRecipes, GetFilteredRecipes, SaveNames
<1>4. SaveNames \subseteq RecipeNames
  BY DEF SaveNames, GetRecipeMetadata
<1>5. SettingsFit(NoSettings)
  BY DEF SettingsFit, NoSettings
<1> QED
  BY <1>2, <1>3, <1>4, <1>5, SettingsKeepFit DEF SavedSettings

\* What is read again is a value.
LEMMA RereadConverts ==
    ASSUME NEW f \in DOMAIN USER_CFG_FIELDS, NEW v, IsSetting(f, v)
    PROVE  Reread(f, v) \notin {Error, Stalls}
<1>1. USER_CFG_FIELDS[f] \in {"int", "optional_int", "size", "duration", "bool", "text", "texts", "ints",
                             "naturals", "optional_items", "optional_ints"}
  BY KindOfField
<1>2. \/ v = None \/ IsNumber(v) \/ IsText(v) \/ IsList(v) \/ v \in {<<"bool", TRUE>>, <<"bool", FALSE>>}
  BY <1>1 DEF IsSetting, IsListOfNumbers
<1>3. v \notin {Error, Stalls}
  BY <1>2, TagsDiffer DEF IsNumber, IsText, IsList
<1>4. Named(v) \notin {Error, Stalls}
  BY <1>3, TagsDiffer DEF Named
<1> QED
  BY <1>3, <1>4, TagsDiffer DEF Reread

\* The name of a recipe finds only this recipe.
LEMMA FullName ==
    ASSUME NEW names, names \subseteq RecipeNames, NEW n \in names
    PROVE  GetRecipe(n, names) = {n}
<1>1. n \in Called(n) /\ \A m \in names : n \in Called(m) => m = n
  BY RecipeAssumption DEF RecipeAssumption, RecipeNames, Called
<1> QED
  BY <1>1 DEF GetRecipe

\* What config save wrote passes config check.
LEMMA SavedPasses ==
    ASSUME NEW names, names \subseteq RecipeNames, NEW chosen, chosen \subseteq names,
           NEW settings, SettingsFit(settings)
    PROVE  LET entries == SavedEntries(chosen, settings)
           IN /\ ~SourceStalls(entries, names, names) /\ ~CheckFails(entries, names)
              /\ (\E n \in chosen : GetDefaultUserConfig(n) # NoConfig) => entries # {}
<1> DEFINE entries == SavedEntries(chosen, settings)
<1>1. ASSUME NEW e \in entries
      PROVE  \E n \in chosen : /\ e.recipe = n /\ e.field \in Recipe[n].fields
                              /\ Conv(e.field, e.raw) \notin {Error, Stalls}
  <2>1. PICK n \in chosen : \E f \in SavedFields(n, settings) : e = Written(n, f, settings)
    BY SavedEntry
  <2>2. PICK f \in SavedFields(n, settings) : e = Written(n, f, settings)
    BY <2>1
  <2>3. f \in Recipe[n].fields /\ f \in DOMAIN USER_CFG_FIELDS /\ IsSetting(f, SavedValue(n, f, settings))
    <3>1. n \in RecipeNames
      OBVIOUS
    <3> QED
      BY <3>1, SavedSetting
  <2>4. e.recipe = n /\ e.field = f /\ e.raw = Json(f, SavedValue(n, f, settings))
    BY <2>2 DEF Written
  <2> QED
    BY <2>3, <2>4, ConvertedAgain, RereadConverts
<1>2. ASSUME NEW n \in chosen, GetDefaultUserConfig(n) # NoConfig PROVE entries # {}
  <2>1. DOMAIN GetDefaultUserConfig(n) # {}
    <3>1. SUFFICES ASSUME DOMAIN GetDefaultUserConfig(n) = {} PROVE FALSE
      OBVIOUS
    <3>2. Recipe[n].fields \cap DOMAIN Recipe[n].default_config = {}
      BY <3>1 DEF GetDefaultUserConfig
    <3>3. GetDefaultUserConfig(n) = [f \in {} |-> Recipe[n].default_config[f]]
      BY <3>2 DEF GetDefaultUserConfig
    <3>4. [f \in {} |-> Recipe[n].default_config[f]] = [f \in {} |-> None]
      OBVIOUS
    <3> QED
      BY <1>2, <3>3, <3>4 DEF NoConfig
  <2>2. PICK f \in SavedFields(n, settings) : TRUE
    BY <2>1 DEF SavedFields
  <2>3. Written(n, f, settings) \in entries
    BY SavedEntry
  <2> QED
    BY <2>3
<1> HIDE DEF entries
<1>3. ~SourceStalls(entries, names, names)
  BY <1>1 DEF SourceStalls, Accepted
<1>4. ~CheckFails(entries, names)
  <2> SUFFICES ASSUME NEW e \in entries
               PROVE  LET found == GetRecipe(e.recipe, names)
                      IN /\ found # {}
                         /\ \A n \in found : ~(/\ Recipe[n].fields # {}
                                              /\ e.field \in Recipe[n].fields => Conv(e.field, e.raw) = Error)
    BY DEF CheckFails
  <2>1. PICK n \in chosen : /\ e.recipe = n /\ e.field \in Recipe[n].fields
                            /\ Conv(e.field, e.raw) \notin {Error, Stalls}
    BY <1>1
  <2>2. GetRecipe(e.recipe, names) = {n}
    BY <2>1, FullName
  <2> QED
    BY <2>1, <2>2
<1> QED
  BY <1>2, <1>3, <1>4 DEF entries

LEMMA FilesInit == RequestInit => FilesHold
<1> SUFFICES ASSUME RequestInit PROVE FilesHold
  OBVIOUS
<1>1. at = 1 /\ stage = "start" /\ exits = <<>>
  BY DEF RequestInit
<1>2. SavedFileAccepted
  <2>1. Len(exits) = 0
    BY <1>1
  <2> QED
    BY <2>1 DEF SavedFileAccepted
<1> QED
  BY <1>1, <1>2 DEF FilesHold, Running, Planned

\* The file stays as it was saved until it is saved again.
LEMMA FilesStep == CommandHolds /\ FilesHold /\ [RequestNext]_requestVars => FilesHold'
<1> SUFFICES ASSUME CommandHolds, FilesHold, [RequestNext]_requestVars PROVE FilesHold'
  OBVIOUS
<1>0. /\ at \in Nat /\ at \in 1 .. Len(session) /\ Len(session) \in Nat
      /\ exits \in Seq({0, 1}) /\ Len(exits) = IF stage = "end" THEN at ELSE at - 1
  BY SessionIsAList DEF CommandHolds
<1>1. ASSUME UNCHANGED <<session, host>>
      PROVE  /\ \A c : SavedRecipes(c)' = SavedRecipes(c) /\ SavedSettings(c)' = SavedSettings(c)
             /\ SaveNames' = SaveNames
             /\ at' = at => Cmd' = Cmd
  BY <1>1 DEF SavedRecipes, SavedSettings, SaveNames, Cmd
<1>2. ASSUME UNCHANGED <<session, host, disk>>, NEW l \in 1 .. Len(session), exits'[l] = exits[l], DiskSaved(l)
      PROVE  DiskSaved(l)'
  BY <1>1, <1>2 DEF DiskSaved
<1>3. ASSUME UNCHANGED <<session, host, exits>>
      PROVE  SavedFileAccepted'
  BY <1>1, <1>3 DEF FilesHold, SavedFileAccepted
<1>4. ASSUME UNCHANGED <<session, host, at>>, stage \notin {"end"}, NEW code \in {0, 1}, Exit(code),
             Cmd.name = "check" /\ at > 1 /\ session[at - 1].name = "save" /\ exits[at - 1] = 0
             /\ (\E n \in SavedRecipes(session[at - 1]) : GetDefaultUserConfig(n) # NoConfig)
             => code = 0
      PROVE  /\ SavedFileAccepted' /\ stage' = "end" /\ exits'[at] = code
             /\ at > 1 => exits'[at - 1] = exits[at - 1]
  <2>1. /\ Len(exits) = at - 1 /\ exits' = Append(exits, code) /\ stage' = "end"
    BY <1>0, <1>4 DEF Exit
  <2>2. /\ Len(exits') = at /\ exits'[at] = code /\ \A l \in 1 .. (at - 1) : exits'[l] = exits[l]
    BY <1>0, <2>1, AppendProperties
  <2>3. at > 1 => at - 1 \in 1 .. (at - 1) /\ exits'[at - 1] = exits[at - 1]
    BY <1>0, <2>2
  <2>4. SavedFileAccepted'
    <3> SUFFICES ASSUME NEW c \in 1 .. (Len(exits') - 1),
                        /\ session[c].name = "save" /\ exits'[c] = 0 /\ session[c + 1].name = "check"
                        /\ \E n \in SavedRecipes(session[c]) : GetDefaultUserConfig(n) # NoConfig
                 PROVE  exits'[c + 1] = 0
      BY <1>1, <1>4 DEF SavedFileAccepted
    <3>1. c \in 1 .. (at - 1) /\ exits'[c] = exits[c]
      BY <2>2
    <3>2. CASE c + 1 = at
      <4>1. c = at - 1 /\ at > 1 /\ session[at].name = "check"
        BY <1>0, <3>1, <3>2
      <4> QED
        BY <1>4, <2>2, <3>1, <3>2, <4>1 DEF Cmd
    <3>3. CASE c + 1 # at
      <4>1. c \in 1 .. (Len(exits) - 1) /\ c + 1 \in 1 .. (at - 1)
        BY <1>0, <2>1, <3>1, <3>3
      <4>2. exits[c + 1] = 0
        BY <3>1, <4>1 DEF FilesHold, SavedFileAccepted
      <4> QED
        BY <2>2, <4>1, <4>2
    <3> QED
      BY <3>2, <3>3
  <2> QED
    BY <2>1, <2>2, <2>3, <2>4
<1>5. ASSUME UNCHANGED <<session, host, at, disk, exits>>, stage \in Running, stage' \in Running \cup {"stalled"}
      PROVE  FilesHold'
  <2>1. Cmd' = Cmd /\ SavedFileAccepted'
    BY <1>1, <1>3, <1>5
  <2>2. stage # "end" /\ stage' \notin {"end", "save", "check"}
    BY <1>5 DEF Running, Planned
  <2>3. at > 1 => DiskSaved(at - 1)'
    <3> SUFFICES ASSUME at > 1 PROVE DiskSaved(at - 1)'
      OBVIOUS
    <3>1. at - 1 \in 1 .. Len(session)
      BY <1>0
    <3> QED
      BY <1>2, <1>5, <2>2, <3>1 DEF FilesHold
  <2> QED
    BY <1>5, <2>1, <2>2, <2>3 DEF FilesHold
<1>6. ASSUME UNCHANGED <<session, host, at, disk>>, stage \in Running, NEW code \in {0, 1}, Exit(code)
      PROVE  FilesHold'
  <2>1. Cmd.name \notin {"save", "check"} /\ stage # "end"
    BY <1>6 DEF FilesHold, Running, Planned
  <2>2. /\ SavedFileAccepted' /\ stage' = "end" /\ exits'[at] = code
        /\ at > 1 => exits'[at - 1] = exits[at - 1]
    BY <1>4, <1>6, <2>1
  <2>3. Cmd' = Cmd
    BY <1>1, <1>6
  <2>4. at > 1 => DiskSaved(at - 1)'
    <3> SUFFICES ASSUME at > 1 PROVE DiskSaved(at - 1)'
      OBVIOUS
    <3>1. at - 1 \in 1 .. Len(session)
      BY <1>0
    <3> QED
      BY <1>2, <1>6, <2>1, <2>2, <3>1 DEF FilesHold
  <2>5. DiskSaved(at)'
    BY <1>6, <2>1 DEF DiskSaved, Cmd
  <2> QED
    BY <1>6, <2>2, <2>3, <2>4, <2>5 DEF FilesHold, Running, Planned
<1> USE DEF fixed
<1>7. CASE UNCHANGED requestVars
  <2>1. UNCHANGED <<session, host, at, stage, disk, exits>>
    BY <1>7 DEF requestVars
  <2>2. Cmd' = Cmd /\ SavedFileAccepted'
    BY <1>1, <1>3, <2>1
  <2>3. \A l \in 1 .. Len(session) : DiskSaved(l) => DiskSaved(l)'
    BY <1>2, <2>1
  <2>4. at > 1 => at - 1 \in 1 .. Len(session)
    BY <1>0
  <2> QED
    BY <1>0, <2>1, <2>2, <2>3, <2>4 DEF FilesHold
<1>8. CASE Start
  <2>1. /\ UNCHANGED <<session, host, at, disk, exits>> /\ stage = "start"
        /\ \/ stage' = "save" /\ Cmd.name = "save"
           \/ stage' = "check" /\ Cmd.name = "check"
           \/ stage' = "select" /\ Cmd.name \notin {"save", "check"}
    BY <1>8 DEF Start
  <2>2. Cmd' = Cmd /\ SavedFileAccepted'
    BY <1>1, <1>3, <2>1
  <2>3. at > 1 => DiskSaved(at - 1)'
    <3> SUFFICES ASSUME at > 1 PROVE DiskSaved(at - 1)'
      OBVIOUS
    <3>1. at - 1 \in 1 .. Len(session)
      BY <1>0
    <3> QED
      BY <1>2, <2>1, <3>1 DEF FilesHold
  <2> QED
    BY <2>1, <2>2, <2>3 DEF FilesHold, Running, Planned
<1>9. CASE NextCommand
  <2>1. UNCHANGED <<session, host, disk, exits>> /\ stage = "end" /\ at' = at + 1 /\ stage' = "start"
    BY <1>9 DEF NextCommand
  <2>2. SavedFileAccepted'
    BY <1>3, <2>1
  <2>3. PICK l \in 1 .. Len(session) : l = at /\ l = at' - 1
    BY <1>0, <2>1
  <2>4. DiskSaved(l)'
    <3>1. DiskSaved(l)
      BY <2>1, <2>3 DEF FilesHold
    <3> QED
      BY <1>2, <2>1, <3>1
  <2>5. DiskSaved(at - 1)'
    BY <2>3, <2>4 DEF DiskSaved
  <2> QED
    BY <2>1, <2>2, <2>5 DEF FilesHold, Running, Planned
<1>10. CASE Select
  <2>1. UNCHANGED <<session, host, at, disk>> /\ stage \in Running
    BY <1>10 DEF Select, Running
  <2>2. \/ \E code \in {0, 1} : Exit(code)
        \/ stage' = "file" /\ exits' = exits
    BY <1>10 DEF Select
  <2> QED
    BY <1>5, <1>6, <2>1, <2>2 DEF Running
<1>11. CASE ReadConfigFile
  BY <1>5, <1>11 DEF ReadConfigFile, ReadSource, Running
<1>12. CASE ReadUpdateConfig
  BY <1>5, <1>12 DEF ReadUpdateConfig, ReadSource, Running
<1>13. CASE DryRun
  BY <1>6, <1>13 DEF DryRun, Running
<1>14. CASE Resolve
  BY <1>5, <1>14 DEF Resolve, Running, Planned
<1>15. CASE RestoreCached
  BY <1>5, <1>15 DEF RestoreCached, Running, Planned
<1>16. CASE Order
  BY <1>5, <1>16 DEF Order, Running, Planned
<1>17. CASE SetupBenchmarks
  BY <1>5, <1>17 DEF SetupBenchmarks, Advance, Running, Planned
<1>18. CASE AllocateResources
  BY <1>5, <1>18 DEF AllocateResources, Advance, Running, Planned
<1>19. CASE ExecuteReports
  BY <1>6, <1>19 DEF ExecuteReports, Running, Planned
<1>20. CASE BeginExecution
  BY <1>5, <1>6, <1>20 DEF BeginExecution, Running, Planned
<1>21. CASE NextRecipe
  BY <1>5, <1>6, <1>21 DEF NextRecipe, Running, Planned
<1>22. CASE RunRecipe
  BY <1>5, <1>6, <1>22 DEF RunRecipe, Crash, progress, Running, Planned
<1>23. CASE OneStep
  BY <1>5, <1>6, <1>23 DEF OneStep, Crash, Running, Planned
<1>24. CASE StepSetupFails
  BY <1>5, <1>6, <1>24 DEF StepSetupFails, Crash, Running, Planned
<1>25. CASE FinishSteps
  BY <1>5, <1>6, <1>25 DEF FinishSteps, Crash, Running, Planned
<1>26. CASE WriteDefault
  <2> DEFINE chosen == SavedRecipes(Cmd)
  <2>1. /\ UNCHANGED <<session, host, at>> /\ stage = "save" /\ Cmd.name = "save" /\ Cmd' = Cmd
        /\ Names = SaveNames /\ session[at] = Cmd /\ stage # "end"
    <3>1. UNCHANGED <<session, host, at>> /\ stage = "save"
      BY <1>26 DEF WriteDefault
    <3> QED
      BY <1>1, <3>1 DEF FilesHold, Names, SaveNames, Cmd
  <2>2. GetFilteredRecipes(Names, Cmd.positive, Cmd.negative, FALSE).filtered = chosen
    BY <2>1 DEF SavedRecipes, SaveNames
  <2> HIDE DEF chosen
  <2>3. at > 1 => at - 1 \in 1 .. Len(session)
    BY <1>0
  <2>4. CASE disk.exists /\ ~Cmd.force
    <3>1. Exit(1) /\ disk' = disk
      BY <1>26, <2>4 DEF WriteDefault
    <3>2. SavedFileAccepted' /\ stage' = "end" /\ exits'[at] = 1
      BY <1>4, <2>1, <3>1
    <3>3. DiskSaved(at)'
      BY <2>1, <3>2 DEF DiskSaved
    <3> QED
      BY <2>1, <3>2, <3>3 DEF FilesHold, Running, Planned
  <2>5. CASE ~(disk.exists /\ ~Cmd.force) /\ SourceStalls(Cmd.update, chosen, Names)
    <3>1. stage' = "stalled" /\ UNCHANGED <<disk, exits>>
      BY <1>26, <2>2, <2>5 DEF WriteDefault
    <3>2. SavedFileAccepted'
      BY <1>3, <2>1, <3>1
    <3>3. at > 1 => DiskSaved(at - 1)'
      <4> SUFFICES ASSUME at > 1 PROVE DiskSaved(at - 1)'
        OBVIOUS
      <4> QED
        BY <1>2, <2>1, <2>3, <3>1 DEF FilesHold
    <3> QED
      BY <2>1, <3>1, <3>2, <3>3 DEF FilesHold, Running, Planned
  <2>6. CASE ~(disk.exists /\ ~Cmd.force) /\ ~SourceStalls(Cmd.update, chosen, Names)
    <3>1. /\ user' = GetConvUserConfig(Cmd.update, NoSettings, chosen, Names)
          /\ disk' = [exists |-> TRUE, entries |-> SavedEntries(chosen, user')]
          /\ Exit(0)
      BY <1>26, <2>2, <2>6 DEF WriteDefault
    <3>2. SavedFileAccepted' /\ stage' = "end"
      BY <1>4, <2>1, <3>1
    <3>3. disk'.exists /\ disk'.entries = SavedEntries(chosen, user')
      BY <3>1, Zenon
    <3>4. user' = SavedSettings(Cmd)
      BY <2>1, <3>1 DEF SavedSettings, chosen
    <3>5. DiskSaved(at)'
      BY <1>1, <2>1, <2>6, <3>3, <3>4 DEF DiskSaved, chosen
    <3> QED
      BY <2>1, <3>2, <3>5 DEF FilesHold, Running, Planned
  <2> QED
    BY <2>4, <2>5, <2>6
<1>27. CASE Check
  <2>1. /\ UNCHANGED <<session, host, at, disk>> /\ stage = "check" /\ Cmd.name = "check" /\ Cmd' = Cmd
        /\ Names = SaveNames /\ session[at] = Cmd /\ stage # "end"
    <3>1. UNCHANGED <<session, host, at, disk>> /\ stage = "check"
      BY <1>27 DEF Check
    <3> QED
      BY <1>1, <3>1 DEF FilesHold, Names, SaveNames, GetRecipeMetadata, Cmd
  <2>2. at > 1 => at - 1 \in 1 .. Len(session) /\ DiskSaved(at - 1)
    BY <1>0, <2>1 DEF FilesHold
  <2>3. at > 1 => (exits'[at - 1] = exits[at - 1] => DiskSaved(at - 1)')
    BY <1>2, <2>1, <2>2
  <2>4. CASE SourceStalls(disk.entries, Names, Names)
    <3>1. stage' = "stalled" /\ exits' = exits
      BY <1>27, <2>4 DEF Check
    <3>2. SavedFileAccepted'
      BY <1>3, <2>1, <3>1
    <3> QED
      BY <2>1, <2>3, <3>1, <3>2 DEF FilesHold, Running, Planned
  <2>5. CASE ~SourceStalls(disk.entries, Names, Names)
    <3> DEFINE code == IF disk.entries = {} \/ CheckFails(disk.entries, Names) THEN 1 ELSE 0
    <3>1. Exit(code) /\ code \in {0, 1}
      BY <1>27, <2>5 DEF Check
    <3>2. ASSUME at > 1, session[at - 1].name = "save", exits[at - 1] = 0,
                 \E n \in SavedRecipes(session[at - 1]) : GetDefaultUserConfig(n) # NoConfig
          PROVE  code = 0
      <4>1. /\ at - 1 \in 1 .. Len(session)
            /\ disk.entries = SavedEntries(SavedRecipes(session[at - 1]), SavedSettings(session[at - 1]))
        BY <2>2, <3>2 DEF DiskSaved
      <4>2. /\ SavedRecipes(session[at - 1]) \subseteq SaveNames /\ SaveNames \subseteq RecipeNames
            /\ SettingsFit(SavedSettings(session[at - 1]))
        BY <4>1, CommandsOfASession
      <4>3. ~CheckFails(disk.entries, Names) /\ disk.entries # {}
        BY <2>1, <3>2, <4>1, <4>2, SavedPasses
      <4> QED
        BY <4>3
    <3> HIDE DEF code
    <3>3. /\ SavedFileAccepted' /\ stage' = "end"
          /\ at > 1 => exits'[at - 1] = exits[at - 1]
      BY <1>4, <2>1, <3>1, <3>2
    <3>4. DiskSaved(at)'
      BY <2>1 DEF DiskSaved
    <3> QED
      BY <2>1, <2>3, <3>3, <3>4 DEF FilesHold, Running, Planned
  <2> QED
    BY <2>4, <2>5
<1> QED
  BY <1>7, <1>8, <1>9, <1>10, <1>11, <1>12, <1>13, <1>14, <1>15, <1>16, <1>17, <1>18, <1>19, <1>20, <1>21,
     <1>22, <1>23, <1>24, <1>25, <1>26, <1>27 DEF RequestNext, RequestStep, Done

\* A converted value has no None among its texts.
LEMMA ConvertedTexts ==
    ASSUME NEW f \in DOMAIN USER_CFG_FIELDS, NEW raw, IsRaw(raw)
    PROVE  Reread(f, Conv(f, raw)) = Conv(f, raw)
<1> DEFINE kind == USER_CFG_FIELDS[f]
           texts == [j \in DOMAIN Items(raw) |-> TextConv(Items(raw)[j])]
<1>1. \A r : TextConv(r) # None /\ Named(TextConv(r)) = TextConv(r)
  BY TagsDiffer DEF TextConv, Named
<1>2. CASE kind = "text"
  <2>1. Conv(f, raw) = TextConv(raw)
    BY <1>2 DEF Conv
  <2> QED
    BY <1>1, <1>2, <2>1 DEF Reread
<1>3. CASE kind = "texts"
  <2>1. Conv(f, raw) = List(texts)
    BY <1>3 DEF Conv, StrListConv
  <2>2. List(texts)[2] = texts
    BY SettingKinds
  <2>3. [j \in DOMAIN texts |-> Named(texts[j])] = texts
    BY <1>1
  <2>4. Reread(f, Conv(f, raw)) = List([j \in DOMAIN texts |-> Named(texts[j])])
    <3>1. Reread(f, List(texts)) = List([j \in DOMAIN List(texts)[2] |-> Named(List(texts)[2][j])])
      BY <1>3 DEF Reread
    <3> HIDE DEF texts
    <3> QED
      BY <2>1, <2>2, <3>1
  <2> QED
    BY <2>1, <2>3, <2>4
<1>4. CASE kind \notin {"text", "texts"}
  BY <1>4 DEF Reread
<1> QED
  BY <1>2, <1>3, <1>4

\* What a file that was written gives for a setting.
LEMMA GivenSaved ==
    ASSUME NEW names, names \subseteq RecipeNames, NEW settings, NEW n \in names, NEW f
    PROVE  Given(SavedEntries(names, settings), n, f) =
               IF f \in SavedFields(n, settings) THEN Conv(f, Json(f, SavedValue(n, f, settings))) ELSE Error
<1> DEFINE entries == SavedEntries(names, settings)
           fits == {e \in entries : e.field = f /\ n \in GetRecipe(e.recipe, RecipeNames)}
           mine == Written(n, f, settings)
<1>1. ASSUME NEW e \in fits PROVE e = mine /\ f \in SavedFields(n, settings)
  <2>1. PICK m \in names : \E g \in SavedFields(m, settings) : e = Written(m, g, settings)
    BY SavedEntry
  <2>2. PICK g \in SavedFields(m, settings) : e = Written(m, g, settings)
    BY <2>1
  <2>3. e.recipe = m /\ e.field = g
    BY <2>2 DEF Written
  <2>4. GetRecipe(m, RecipeNames) = {m}
    BY FullName
  <2>5. m = n /\ g = f
    BY <2>3, <2>4
  <2> QED
    BY <2>2, <2>5
<1>2. ASSUME f \in SavedFields(n, settings) PROVE fits = {mine}
  <2>1. mine \in entries
    BY <1>2, SavedEntry
  <2>2. mine.field = f /\ mine.recipe = n
    BY DEF Written
  <2>3. n \in GetRecipe(n, RecipeNames)
    BY FullName
  <2>4. mine \in fits
    BY <2>1, <2>2, <2>3
  <2> QED
    BY <1>1, <2>4
<1>3. Given(entries, n, f) = IF fits = {} THEN Error ELSE Conv(f, (CHOOSE e \in fits : TRUE).raw)
  BY DEF Given
<1> HIDE DEF fits, entries
<1>4. CASE f \in SavedFields(n, settings)
  <2>1. fits = {mine} /\ (CHOOSE e \in {mine} : TRUE) = mine
    BY <1>2, <1>4
  <2>2. mine.raw = Json(f, SavedValue(n, f, settings))
    BY DEF Written
  <2> HIDE DEF mine
  <2>3. fits # {} /\ (CHOOSE e \in fits : TRUE) = mine
    BY <2>1
  <2> QED
    BY <1>3, <1>4, <2>2, <2>3 DEF entries
<1>5. CASE f \notin SavedFields(n, settings)
  <2>1. fits = {}
    BY <1>1, <1>5
  <2> QED
    BY <1>3, <1>5, <2>1 DEF entries
<1> QED
  BY <1>4, <1>5

\* A setting with a value becomes the value, unless it is None.
SettingOr(f, key, settings, defaults) ==
    IF key \in DOMAIN settings /\ settings[key] # None THEN settings[key]
    ELSE IF f \in DOMAIN defaults THEN defaults[f] ELSE None

\* The texts "None" of the file mean None to the recipes, as their defaults did.
LEMMA MeaningOfDefault ==
    ASSUME NEW n \in RecipeNames, NEW f \in Recipe[n].fields \cap DOMAIN Recipe[n].default_config, NEW quick
    PROVE  LET d == Recipe[n].default_config[f]
               Quick(v) == IF quick /\ v # None THEN GetAdjustedValue(f, v) ELSE v
           IN /\ Normalized(f, Quick(Reread(f, d))) = Normalized(f, Quick(d))
              /\ Reread(f, d) # d => Reread(f, d) # None
<1> DEFINE d == Recipe[n].default_config[f]
           Quick(v) == IF quick /\ v # None THEN GetAdjustedValue(f, v) ELSE v
           kind == USER_CFG_FIELDS[f]
<1>1. f \in DOMAIN USER_CFG_FIELDS /\ IsSetting(f, d)
  BY RecipeAssumption DEF RecipeAssumption, RecipeNames
<1>2. /\ kind = "text" /\ d = None => f = "server_host"
      /\ kind = "texts" /\ f # "window_sweep_steps" => None \notin Range(d[2])
  BY DefaultsAssumption DEF DefaultsAssumption, RecipeNames
<1>3. /\ kind = "text" => Reread(f, d) = Named(d)
      /\ kind = "texts" => Reread(f, d) = List([j \in DOMAIN d[2] |-> Named(d[2][j])])
      /\ kind \notin {"text", "texts"} => Reread(f, d) = d
  BY DEF Reread
<1>4. kind = "texts" => IsList(d)
  BY <1>1 DEF IsSetting
<1>5. f \in {"server_host", "window_sweep_steps"} => \A v : Quick(v) = v
  BY DEF GetAdjustedValue
<1> HIDE DEF d, Quick, kind
<1>6. Named(d) # None /\ \A x : List(x) # None
  BY TagsDiffer DEF Named
<1>7. CASE kind \notin {"text", "texts"}
  BY <1>3, <1>7 DEF d, Quick
<1>8. CASE kind = "text"
  <2>1. CASE d = None
    <3>1. f = "server_host" /\ Reread(f, d) = Text("None")
      BY <1>2, <1>3, <1>8, <2>1 DEF Named
    <3>2. Normalized(f, Text("None")) = None /\ Normalized(f, None) = None
      BY <3>1 DEF Normalized
    <3> QED
      BY <1>3, <1>5, <1>6, <1>8, <2>1, <3>1, <3>2 DEF d, Quick
  <2>2. CASE d # None
    <3>1. Reread(f, d) = d
      BY <1>3, <1>8, <2>2 DEF Named
    <3> QED
      BY <3>1 DEF d, Quick
  <2> QED
    BY <2>1, <2>2
<1>9. CASE kind = "texts"
  <2> DEFINE list == d[2]
             named == [j \in DOMAIN list |-> Named(list[j])]
  <2>1. d = List(list) /\ list \in Seq(Range(list)) /\ Reread(f, d) = List(named)
    BY <1>3, <1>4, <1>9 DEF IsList
  <2>2. List(list)[2] = list /\ List(named)[2] = named
    BY SettingKinds
  <2>3. Reread(f, d) # None
    BY <1>6, <2>1
  <2>4. CASE f = "window_sweep_steps"
    <3>1. \A v : Normalized(f, v) = List([j \in DOMAIN v[2] |-> IF v[2][j] = Text("None") THEN None ELSE v[2][j]])
      BY <2>4 DEF Normalized
    <3>2. [j \in DOMAIN named |-> IF named[j] = Text("None") THEN None ELSE named[j]]
          = [j \in DOMAIN list |-> IF list[j] = Text("None") THEN None ELSE list[j]]
      <4>1. \A x : (IF Named(x) = Text("None") THEN None ELSE Named(x)) = (IF x = Text("None") THEN None ELSE x)
        BY DEF Named
      <4> HIDE DEF list
      <4> QED
        BY <4>1
    <3>3. Normalized(f, Reread(f, d)) = List([j \in DOMAIN named |-> IF named[j] = Text("None") THEN None ELSE named[j]])
      <4> HIDE DEF list, named
      <4> QED
        BY <2>1, <2>2, <3>1
    <3>4. Normalized(f, d) = List([j \in DOMAIN list |-> IF list[j] = Text("None") THEN None ELSE list[j]])
      BY <3>1
    <3> HIDE DEF list, named
    <3>5. Normalized(f, Reread(f, d)) = Normalized(f, d)
      BY <3>2, <3>3, <3>4
    <3>6. Quick(Reread(f, d)) = Reread(f, d) /\ Quick(d) = d
      BY <1>5, <2>4
    <3>7. Normalized(f, Quick(Reread(f, d))) = Normalized(f, Quick(d))
      BY <3>5, <3>6
    <3> QED
      BY <2>3, <3>7 DEF d, Quick
  <2>5. CASE f # "window_sweep_steps"
    <3>1. None \notin Range(list)
      BY <1>2, <1>9, <2>5
    <3>2. \A j \in DOMAIN list : Named(list[j]) = list[j]
      BY <3>1 DEF Named, Range
    <3>3. list = [j \in DOMAIN list |-> list[j]]
      <4>1. list \in [1 .. Len(list) -> Range(list)]
        BY <2>1, LenProperties
      <4> HIDE DEF list
      <4> QED
        BY <4>1
    <3>4. named = [j \in DOMAIN list |-> list[j]]
      BY <3>2
    <3> HIDE DEF list, named
    <3>5. Reread(f, d) = d
      BY <2>1, <3>3, <3>4
    <3> QED
      BY <3>5 DEF d, Quick
  <2> QED
    BY <2>4, <2>5
<1> QED
  BY <1>7, <1>8, <1>9

\* A setting that went through the file means what was given.
LEMMA SavedMeaning ==
    ASSUME NEW all, all \subseteq RecipeNames, NEW chosen, chosen \subseteq all,
           NEW update, SourceFits(update), \A e \in update : e.raw.k # "null", ~SourceStalls(update, chosen, all),
           NEW requested, NEW names, names \subseteq RecipeNames,
           NEW direct, direct = GetConvUserConfig(update, NoSettings, chosen, all),
           NEW kept, kept = SavedEntries(chosen, direct), ~SourceStalls(kept, requested, names),
           NEW settings, settings = GetConvUserConfig(kept, NoSettings, requested, names),
           NEW n \in chosen, NEW quick,
           NEW f \in Recipe[n].fields \cup DOMAIN Recipe[n].default_config,
           f \in Recipe[n].fields => n \in requested \cap names
    PROVE  Normalized(f, InitializeConfig(n, settings, quick)[f]) = Normalized(f, InitializeConfig(n, direct, quick)[f])
<1> DEFINE key == <<n, f>>
           defaults == Recipe[n].default_config
           Quick(v) == IF quick /\ v # None THEN GetAdjustedValue(f, v) ELSE v
           Value(s) == SettingOr(f, key, s, defaults)
<1>1. n \in RecipeNames /\ n \in chosen /\ n \in all
  OBVIOUS
<1>2. /\ InitializeConfig(n, settings, quick)[f] = Quick(Value(settings))
      /\ InitializeConfig(n, direct, quick)[f] = Quick(Value(direct))
  BY DEF InitializeConfig, SettingOr
<1>3. SettingsFit(NoSettings) /\ SettingsFit(direct) /\ SourceFits(kept) /\ SettingsFit(settings)
  <2>1. SettingsFit(NoSettings)
    BY DEF SettingsFit, NoSettings
  <2>2. SettingsFit(direct)
    BY <2>1, SettingsKeepFit
  <2>3. SourceFits(kept)
    BY <2>2, SavedFits
  <2> QED
    BY <2>1, <2>2, <2>3, SettingsKeepFit
<1>4. key \notin DOMAIN NoSettings
  BY DEF NoSettings
<1> HIDE DEF Quick
<1>5. CASE f \notin Recipe[n].fields
  <2>1. \A s : SettingsFit(s) => key \notin DOMAIN s
    <3> SUFFICES ASSUME NEW s, SettingsFit(s), key \in DOMAIN s PROVE FALSE
      OBVIOUS
    <3>1. key[2] \in Recipe[key[1]].fields /\ key[1] = n /\ key[2] = f
      BY DEF SettingsFit
    <3> QED
      BY <1>5, <3>1
  <2>2. Value(settings) = Value(direct)
    BY <1>3, <2>1 DEF SettingOr
  <2> QED
    BY <1>2, <2>2
<1>6. CASE f \in Recipe[n].fields
  <2> DEFINE given == Given(update, n, f)
             again == Given(kept, n, f)
             default == defaults[f]
             keptGiven == given # Error /\ (f \in DOMAIN defaults => default # given)
             keptAgain == again # Error /\ (f \in DOMAIN defaults => default # again)
             sv == SavedValue(n, f, direct)
  <2>1. f \in DOMAIN USER_CFG_FIELDS
    BY <1>1, <1>6, RecipeAssumption DEF RecipeAssumption, RecipeNames
  <2>2. /\ given # Stalls
        /\ given # Error => \E e \in update : e.field = f /\ given = Conv(f, e.raw)
        /\ key \in DOMAIN direct <=> keptGiven
        /\ keptGiven => direct[key] = given
    BY <1>1, <1>4, <1>6, SettingAfterSource DEF SourceFits
  <2>3. /\ key \in DOMAIN settings <=> keptAgain
        /\ keptAgain => settings[key] = again
    <3>1. OneOfEach(kept)
      BY <1>3 DEF SourceFits
    <3> QED
      BY <1>4, <1>6, <3>1, SettingAfterSource
  <2>4. again = IF f \in SavedFields(n, direct) THEN Conv(f, Json(f, sv)) ELSE Error
    BY GivenSaved
  <2>5. f \in SavedFields(n, direct) => Conv(f, Json(f, sv)) = Reread(f, sv) /\ Reread(f, sv) \notin {Error, Stalls}
    BY <1>1, <1>3, <2>1, SavedSetting, ConvertedAgain, RereadConverts
  <2>6. f \in SavedFields(n, direct) <=> key \in DOMAIN direct \/ f \in DOMAIN defaults
    <3>1. f \in DOMAIN GetDefaultUserConfig(n) <=> f \in DOMAIN defaults
      BY <1>6 DEF GetDefaultUserConfig
    <3>2. f \in {k[2] : k \in {x \in DOMAIN direct : x[1] = n}} <=> key \in DOMAIN direct
      <4>1. ASSUME NEW k \in DOMAIN direct, k[1] = n, k[2] = f PROVE k = key
        <5>1. k \in RecipeNames \X DOMAIN USER_CFG_FIELDS
          BY <1>3 DEF SettingsFit
        <5> QED
          BY <4>1, <5>1
      <4>2. key[1] = n /\ key[2] = f
        OBVIOUS
      <4> HIDE DEF key
      <4> QED
        BY <4>1, <4>2
    <3> QED
      BY <3>1, <3>2 DEF SavedFields
  <2>7. sv = IF key \in DOMAIN direct THEN direct[key] ELSE GetDefaultUserConfig(n)[f]
    BY DEF SavedValue
  <2>8. f \in DOMAIN defaults => GetDefaultUserConfig(n)[f] = default
    BY <1>6 DEF GetDefaultUserConfig
  <2>9. given # None
    <3>1. Error # None
      BY TagsDiffer
    <3>2. \A e \in update : IsRaw(e.raw) /\ e.raw.k # "null"
      BY DEF SourceFits
    <3> QED
      BY <2>1, <2>2, <3>1, <3>2, ConvertedValue
  <2>10. Value(settings) = IF key \in DOMAIN settings /\ settings[key] # None THEN settings[key]
                           ELSE IF f \in DOMAIN defaults THEN default ELSE None
    BY DEF SettingOr
  <2>11. Value(direct) = IF key \in DOMAIN direct /\ direct[key] # None THEN direct[key]
                         ELSE IF f \in DOMAIN defaults THEN default ELSE None
    BY DEF SettingOr
  <2>12. given # Error => Reread(f, given) = given
    <3>1. \A e \in update : IsRaw(e.raw)
      BY DEF SourceFits
    <3> QED
      BY <2>1, <2>2, <3>1, ConvertedTexts
  <2>13. f \in DOMAIN defaults =>
             /\ Normalized(f, Quick(Reread(f, default))) = Normalized(f, Quick(default))
             /\ Reread(f, default) # default => Reread(f, default) # None
    BY <1>1, <1>6, MeaningOfDefault DEF Quick
  <2> HIDE DEF given, again, default, sv, key, Value, defaults
  <2>14. CASE key \in DOMAIN direct
    <3>1. keptGiven /\ direct[key] = given /\ sv = given
      BY <2>2, <2>7, <2>14
    <3>2. again = given
      BY <2>4, <2>5, <2>6, <2>12, <2>14, <3>1
    <3>3. Value(settings) = given /\ Value(direct) = given
      BY <2>3, <2>9, <2>10, <2>11, <2>14, <3>1, <3>2
    <3> QED
      BY <1>2, <3>3 DEF Value, key, defaults
  <2>15. CASE key \notin DOMAIN direct /\ f \in DOMAIN defaults
    <3>1. sv = default /\ again = Reread(f, default) /\ again # Error
      BY <2>4, <2>5, <2>6, <2>7, <2>8, <2>15
    <3>2. Value(direct) = default
      BY <2>11, <2>15
    <3>3. Value(settings) = Reread(f, default)
      BY <2>3, <2>10, <2>13, <2>15, <3>1
    <3> QED
      BY <1>2, <2>13, <2>15, <3>2, <3>3 DEF Value, key, defaults
  <2>16. CASE key \notin DOMAIN direct /\ f \notin DOMAIN defaults
    <3>1. again = Error
      BY <2>4, <2>6, <2>16
    <3>2. Value(settings) = None /\ Value(direct) = None
      BY <2>3, <2>10, <2>11, <2>16, <3>1
    <3> QED
      BY <1>2, <3>2 DEF Value, key, defaults
  <2> QED
    BY <2>14, <2>15, <2>16
<1> QED
  BY <1>5, <1>6

\* An empty source changes no settings.
LEMMA NoSource ==
    ASSUME NEW source, NEW settings, NEW requested, NEW names
    PROVE  LET result == GetConvUserConfig(source, settings, requested, names)
           IN GetConvUserConfig({}, result, requested, names) = result
<1> DEFINE result == GetConvUserConfig(source, settings, requested, names)
           empty == {e \in Accepted({}, requested, names) : Recorded(e)}
           entry(k) == CHOOSE e \in empty : Key(e) = k
           new == [k \in {Key(e) : e \in empty} |-> Conv(k[2], entry(k).raw)]
<1>1. GetConvUserConfig({}, result, requested, names) = Merge(result, new)
  BY DEF GetConvUserConfig
<1>2. DOMAIN new = {}
  BY DEF Accepted
<1>3. result = [k \in DOMAIN result |-> result[k]]
  <2> DEFINE read == {e \in Accepted(source, requested, names) : Recorded(e)}
             first(k) == CHOOSE e \in read : Key(e) = k
             given == [k \in {Key(e) : e \in read} |-> Conv(k[2], first(k).raw)]
  <2>1. result = Merge(settings, given)
    BY DEF GetConvUserConfig
  <2> HIDE DEF given, result
  <2> QED
    BY <2>1 DEF Merge
<1> HIDE DEF result, new
<1>4. Merge(result, new) = [k \in DOMAIN result |-> result[k]]
  BY <1>2 DEF Merge
<1> QED
  BY <1>1, <1>3, <1>4 DEF result

----------------------------------------------------------------------------
(* RunRequest: what follows from the invariant *)

LEMMA RequestTypes == RequestIInv => RequestTypeOK
<1> SUFFICES ASSUME RequestIInv PROVE RequestTypeOK
  OBVIOUS
<1> USE DEF RequestIInv
<1>1. at \in 1 .. Len(session) /\ Len(exits) \in {at - 1, at}
  BY SessionIsAList DEF CommandHolds
<1>2. stage \in {"start", "select", "file", "update", "plan", "restore", "order", "setup", "alloc", "execute", "recipe",
                 "run", "step", "save", "check", "stalled", "end"}
  BY DEF CommandHolds, Opening, Planned
<1>3. selection \in [filtered : SUBSET RecipeNames, added : SUBSET RecipeNames, restored : SUBSET RecipeNames]
  BY DEF SelectionHolds
<1>4. Range(plan) \subseteq RecipeNames
  BY LenProperties DEF PlanHolds, Range
<1>5. plan # <<>> => i \in DOMAIN plan \cup {0}
  BY ReadyRecipes DEF PlaceHolds
<1>6. /\ DOMAIN cfgs \subseteq Range(plan) /\ DOMAIN status \subseteq Range(plan) /\ DOMAIN ran \subseteq Range(plan)
      /\ Range(status) \subseteq {"ready", "skipped", "completed", "failed", "unexplained"}
  BY DEF OutcomesHold, Range
<1>7. bar.depth \in -1 .. (MaxDepth - 1)
  BY DEF BarHolds, MaxDepth
<1> QED
  BY <1>1, <1>2, <1>3, <1>4, <1>5, <1>6, <1>7 DEF RequestTypeOK, AllocationHolds, SettingsHold, SettingsFit

LEMMA RequestPlans == RequestIInv => PlanIsSound
<1> SUFFICES ASSUME RequestIInv PROVE PlanIsSound
  OBVIOUS
<1> USE DEF RequestIInv
<1>1. DeselectedNotPlanned
  <2>1. Range(<<>>) = {}
    BY DEF Range
  <2>2. Range(plan) \subseteq CompleteList(selection)
    BY <2>1 DEF PlanHolds
  <2> QED
    BY <2>2 DEF DeselectedNotPlanned, SelectionHolds
<1>2. ToolsChecked
  <2> SUFFICES ASSUME stage = "execute", NEW j \in DOMAIN plan, ~Skipped(plan[j]), NEW t \in Range(Tools(plan[j]))
               PROVE  \/ host.tools[t] = "good"
                      \/ host.tools[t] \in {"old", "unknown"} /\ t # "fio"
                      \/ /\ host.tools[t] # "absent"
                         /\ \E l \in 1..(j - 1) : Skipped(plan[l]) /\ Contains(Tools(plan[l]), t)
    BY DEF ToolsChecked
  <2>1. j \in 1 .. ((Len(plan) + 1) - 1)
    BY ReadyRecipes
  <2>2. host.tools[t] # "absent" /\ (CheckVersion(t, host.tools[t]) \/ SkippedFor(t, j))
    BY <2>1 DEF AllocationHolds, ToolsHold
  <2>3. t \in Tool
    BY ToolsOfARecipe, LenProperties DEF Range
  <2>4. host.tools[t] \in {"good", "old", "unknown", "silent"}
    BY <2>2, <2>3, RequestAssumption DEF RequestAssumption, CommandHolds
  <2>5. CASE CheckVersion(t, host.tools[t])
    BY <2>4, <2>5 DEF CheckVersion
  <2>6. CASE SkippedFor(t, j)
    BY <2>2, <2>6 DEF SkippedFor
  <2> QED
    BY <2>2, <2>5, <2>6
<1> QED
  BY <1>1, <1>2, RequestTypes DEF PlanIsSound, PlanHolds

\* A recipe that was set up with settings was requested, and is in the table of the command.
LEMMA SetUpRequested ==
    ASSUME CommandHolds, SelectionHolds, PlanHolds, OutcomesHold, stage = "execute", NEW n \in DOMAIN cfgs
    PROVE  n \in RecipeNames /\ (Recipe[n].fields # {} => n \in Names \cap CompleteList(Wanted))
<1> DEFINE requested == CompleteList(Wanted)
<1>1. n \in requested /\ n \in RecipeNames
  <2>1. n \in Range(plan) /\ plan # <<>> /\ Range(plan) = CompleteList(selection)
    BY DEF OutcomesHold, PlanHolds, Planned
  <2>2. CompleteList(selection) \subseteq requested
    BY DEF SelectionHolds, Planned
  <2> QED
    BY <2>1, <2>2, WantedRecipes DEF CompleteList
<1>2. CASE n \in Wanted.filtered
  BY <1>1, <1>2, WantedRecipes
<1>3. CASE n \in Wanted.added
  <2> SUFFICES ASSUME Recipe[n].fields # {} PROVE n \in Names
    BY <1>1
  <2>1. PICK m \in Wanted.filtered : n \in Recipe[m].depends_on
    BY <1>3, WantedRecipes
  <2>2. m \in Names /\ m \in RecipeNames
    BY WantedRecipes
  <2>3. Recipe[n].category = Recipe[m].category /\ n \notin host.hidden
    <3>1. host \in Machines
      BY DEF CommandHolds
    <3> QED
      BY <2>1, <2>2, <3>1, RequestAssumption DEF RequestAssumption, RecipeNames
  <2> QED
    BY <1>1, <2>2, <2>3 DEF Names, GetRecipeMetadata
<1> QED
  BY <1>1, <1>2, <1>3 DEF CompleteList

LEMMA RequestSettings == RequestIInv => SettingsReachRecipes
<1> SUFFICES ASSUME RequestIInv PROVE SettingsReachRecipes
  OBVIOUS
<1> USE DEF RequestIInv
<1>1. ASSUME stage = "execute", NEW n \in DOMAIN cfgs, NEW f \in Recipe[n].fields
      PROVE  LET update == Given(UpdateConfig(Cmd), n, f)
                 file == Given(FileEntries, n, f)
             IN cfgs[n][f] = Adjusted(f,
                    IF update \notin {Error, None, DefaultOf(n, f)} THEN update
                    ELSE IF file \notin {Error, None} THEN file
                    ELSE DefaultOf(n, f))
  <2> DEFINE update == Given(UpdateConfig(Cmd), n, f)
             file == Given(FileEntries, n, f)
             requested == CompleteList(Wanted)
             key == <<n, f>>
             defaults == Recipe[n].default_config
             fromFile == file # Error /\ (f \in DOMAIN defaults => defaults[f] # file)
             fromUpdate == update # Error /\ (f \in DOMAIN defaults => defaults[f] # update)
             value == IF key \in DOMAIN user /\ user[key] # None THEN user[key]
                      ELSE IF f \in DOMAIN defaults THEN defaults[f] ELSE None
  <2>1. /\ user = FromBoth /\ cfgs[n] = InitializeConfig(n, user, Cmd.quick)
        /\ ~SourceStalls(FileEntries, requested, Names) /\ ~SourceStalls(UpdateConfig(Cmd), requested, Names)
    BY <1>1 DEF SettingsHold, Planned
  <2>2. n \in RecipeNames
    BY <1>1, SetUpRequested
  <2>4. OneOfEach(FileEntries) /\ Names \subseteq RecipeNames
    <3>1. OneOfEach(disk.entries)
      BY DEF SettingsHold, SourceFits
    <3>2. OneOfEach({})
      BY DEF OneOfEach
    <3> QED
      BY <3>1, <3>2, WantedRecipes DEF FileEntries
  <2>5. n \in Names \cap requested
    BY <1>1, SetUpRequested
  <2>6. key \notin DOMAIN NoSettings
    BY DEF NoSettings
  <2>7. /\ file # Stalls
        /\ key \in DOMAIN FromFile <=> fromFile
        /\ fromFile => FromFile[key] = file
    BY <2>1, <2>4, <2>5, <2>6, SettingAfterSource DEF FromFile
  <2>8. /\ update # Stalls
        /\ update # Error => \E e \in UpdateConfig(Cmd) : e.field = f /\ update = Conv(f, e.raw)
        /\ key \in DOMAIN user <=> fromUpdate \/ key \in DOMAIN FromFile
        /\ fromUpdate => user[key] = update
        /\ ~fromUpdate /\ key \in DOMAIN FromFile => user[key] = FromFile[key]
    BY <2>1, <2>4, <2>5, UpdateOnce, SettingAfterSource DEF FromBoth, SourceFits
  <2>9. update # None
    <3>1. f \in DOMAIN USER_CFG_FIELDS
      BY <2>2, RecipeAssumption DEF RecipeAssumption, RecipeNames
    <3>2. Error # None
      BY TagsDiffer
    <3> QED
      BY <2>8, <3>1, <3>2, UpdateOnce, ConvertedValue DEF SourceFits
  <2>10. cfgs[n][f] = IF Cmd.quick /\ value # None THEN GetAdjustedValue(f, value) ELSE value
    BY <2>1 DEF InitializeConfig
  <2>11. DefaultOf(n, f) = IF f \in DOMAIN defaults THEN defaults[f] ELSE None
    BY DEF DefaultOf
  <2> HIDE DEF update, file, key, defaults
  <2>12. value = IF update \notin {Error, None, DefaultOf(n, f)} THEN update
                 ELSE IF file \notin {Error, None} THEN file
                 ELSE DefaultOf(n, f)
    BY <2>7, <2>8, <2>9, <2>11
  <2> HIDE DEF value
  <2>13. cfgs[n][f] = Adjusted(f, value)
    BY <2>10 DEF Adjusted
  <2> QED
    BY <2>12, <2>13 DEF update, file
<1> QED
  BY <1>1 DEF SettingsReachRecipes, SettingsPrecedence, SettingsHold

LEMMA RequestFiles ==
    CommandHolds /\ SelectionHolds /\ PlanHolds /\ OutcomesHold /\ SettingsHold /\ FilesHold => SavedFileRoundTrips
<1> SUFFICES ASSUME CommandHolds, SelectionHolds, PlanHolds, OutcomesHold, SettingsHold, FilesHold,
                    stage = "execute", at = 2, session[1].name = "save", exits[1] = 0, Cmd.usefile,
                    UpdateConfig(Cmd) = {},
                    NEW n \in DOMAIN cfgs \cap SavedRecipes(session[1])
             PROVE  Meaning(cfgs[n]) = Meaning(InitializeConfig(n, SavedSettings(session[1]), Cmd.quick))
  BY DEF SavedFileRoundTrips, SavedFileMeansTheSame, FilesHold, SavedSettings, SaveNames
<1> DEFINE kept == disk.entries
           direct == SavedSettings(session[1])
           chosen == SavedRecipes(session[1])
           requested == CompleteList(Wanted)
<1>1. /\ disk.exists /\ kept = SavedEntries(chosen, direct)
      /\ ~SourceStalls(session[1].update, chosen, SaveNames)
  BY DEF FilesHold, DiskSaved
<1>2. 1 \in 1 .. Len(session)
  BY SessionIsAList DEF CommandHolds
<1>3. /\ SourceFits(session[1].update) /\ \A e \in session[1].update : e.raw.k # "null"
      /\ chosen \subseteq SaveNames /\ SaveNames \subseteq RecipeNames
  BY <1>2, CommandsOfASession
<1>4. FileEntries = kept
  BY <1>1 DEF FileEntries
<1>5. /\ user = FromBoth /\ cfgs[n] = InitializeConfig(n, user, Cmd.quick)
      /\ ~SourceStalls(kept, requested, Names)
  BY <1>4 DEF SettingsHold, Planned
<1>6. user = GetConvUserConfig(kept, NoSettings, requested, Names)
  <2>1. FromBoth = FromFile
    BY NoSource DEF FromBoth, FromFile
  <2> QED
    BY <1>4, <1>5, <2>1 DEF FromFile
<1>7. n \in RecipeNames /\ (Recipe[n].fields # {} => n \in Names \cap requested)
  BY SetUpRequested
<1>8. direct = GetConvUserConfig(session[1].update, NoSettings, chosen, SaveNames)
  BY DEF SavedSettings
<1>9. Names \subseteq RecipeNames
  BY WantedRecipes
<1> HIDE DEF kept, direct, chosen, requested
<1>10. ASSUME NEW f \in Recipe[n].fields \cup DOMAIN Recipe[n].default_config
       PROVE  Normalized(f, cfgs[n][f]) = Normalized(f, InitializeConfig(n, direct, Cmd.quick)[f])
  <2>1. n \in chosen
    BY DEF chosen
  <2>2. f \in Recipe[n].fields => n \in requested \cap Names
    BY <1>7
  <2>3. Normalized(f, InitializeConfig(n, user, Cmd.quick)[f])
        = Normalized(f, InitializeConfig(n, direct, Cmd.quick)[f])
    BY <1>1, <1>3, <1>5, <1>6, <1>8, <1>9, <2>1, <2>2, SavedMeaning
  <2> QED
    BY <1>5, <2>3
<1>11. /\ DOMAIN cfgs[n] = Recipe[n].fields \cup DOMAIN Recipe[n].default_config
       /\ DOMAIN InitializeConfig(n, direct, Cmd.quick) = Recipe[n].fields \cup DOMAIN Recipe[n].default_config
  BY <1>5 DEF InitializeConfig
<1> QED
  BY <1>10, <1>11 DEF Meaning, direct

LEMMA RequestInvariant == RequestSpec => []RequestIInv
<1>1. RequestInit => RequestIInv
  BY CommandInit, SelectionInit, PlanInit, PlaceInit, OutcomesInit, BarInit, AllocationInit, SettingsInit, FilesInit DEF RequestIInv
<1>2. RequestIInv /\ [RequestNext]_requestVars => RequestIInv'
  BY CommandStep, SelectionStep, PlanStep, PlaceStep, OutcomesStep, BarStep, AllocationStep, SettingsStep, FilesStep
     DEF RequestIInv
<1> QED
  BY <1>1, <1>2, PTL DEF RequestSpec

(* The plan is what the keywords ask for, for every table of recipes, session  *)
(* and machine: types hold, dependencies run first or were restored, nothing   *)
(* that was deselected is planned, and what goes on to run has its tools.      *)
THEOREM RequestPlan == RequestSpec => []PlanIsSound
BY RequestInvariant, RequestPlans, PTL

(* For every table, session, file and machine, a recipe runs with the setting  *)
(* of the command line, else of the file, else the default, and reading the    *)
(* settings ends unless a range does not grow.                                 *)
THEOREM RequestPrecedence == RequestSpec => []SettingsReachRecipes
BY RequestInvariant, RequestSettings, PTL

(* For every session and file, what `config save` wrote passes `config check`, *)
(* unless the recipes saved have no settings, and a run with it means what the *)
(* settings given to `config save` mean.                                       *)
THEOREM RequestFile == RequestSpec => []SavedFileRoundTrips
BY RequestInvariant, RequestFiles, PTL DEF RequestIInv
=============================================================================
