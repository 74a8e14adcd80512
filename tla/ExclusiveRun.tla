---------------------------- MODULE ExclusiveRun ----------------------------
(***************************************************************************)
(* Several invocations of asct on one machine, from initialize_asct to the *)
(* exit handlers: the output folder, which some of them may share, the     *)
(* cache directory that --clear-cache removes before the mutex is asked    *)
(* for, the process mutex with its retries, and the counters of the        *)
(* machine a recipe changes and restores.                                  *)
(*                                                                         *)
(* A recipe that is set up but then skipped is not torn down inside the    *)
(* mutex: its resources are left to the exit handler, which runs after the *)
(* mutex is released.  A process can be killed at any step; the kernel     *)
(* then drops its lock and nothing else.                                   *)
(***************************************************************************)
EXTENDS Integers, FiniteSets

CONSTANTS Process,
          Free,        \* nobody holds the lock
          RetryCount,  \* retry_count of get_execution_context
          MayClear,    \* processes that may be given --clear-cache
          Sharing,     \* processes given the same output folder
          Forced,      \* processes given --force
          MayLackStdin,\* processes that may be started without stdin
          MaxKills     \* bound: processes killed

ASSUME ExclusiveAssumption ==
    /\ Free \notin Process
    /\ RetryCount \in Nat
    /\ MaxKills \in Nat

VARIABLES pc,
          clears,     \* option --clear-cache
          fd,         \* what os.open returns for the lock: 0 if stdin is closed
          lockPath,   \* what /var/lock/_asct_.lock is
          holder,     \* who holds the flock on /var/lock/_asct_.lock
          tries,      \* failed attempts
          machine,    \* who changed the machine's counters last, Free: nobody
          saved,      \* the value each process will restore
          leftover,   \* resources of a skipped recipe, restored at exit
          cache,      \* the cached result: "none", "data", "printed"
          aborted,    \* an exception ended the run
          disturbed,  \* history: the cache was cleared while p was inside, or its write failed
          overlap,    \* history: a process began with changed counters
          existed,    \* history: the output folder was there before
          folder,     \* the output folder: "none", "empty", "files"
          created,    \* fs_resource_path is set: p takes the folder for its own
          kills

output == <<existed, folder, created>>
shared == <<lockPath, holder, machine, cache, overlap>>
own == <<clears, fd, tries, saved, leftover, aborted, disturbed>>
vars == <<pc, shared, own, output, kills>>

\* The body of `with ctx as global_lock`.
Inside == {"write", "lookup", "stat", "setup", "run", "save", "print", "teardown", "release"}

Init ==
    /\ pc = [p \in Process |-> "off"]
    /\ clears \in [Process -> BOOLEAN]
    /\ \A p \in Process : clears[p] => p \in MayClear
    /\ fd \in [Process -> {0, 3}]
    /\ \A p \in Process : fd[p] = 0 => p \in MayLackStdin
    /\ lockPath \in {"missing", "directory", "file"}
    /\ holder = Free
    /\ tries = [p \in Process |-> 0]
    /\ machine = Free
    /\ saved = [p \in Process |-> Free]
    /\ leftover = [p \in Process |-> FALSE]
    /\ cache \in {"none", "printed"}
    /\ aborted = [p \in Process |-> FALSE]
    /\ disturbed = [p \in Process |-> FALSE]
    /\ overlap = FALSE
    /\ existed \in BOOLEAN
    /\ folder \in IF existed THEN {"empty", "files"} ELSE {"none"}
    /\ created = [p \in Process |-> FALSE]
    /\ kills = 0

Goto(p, l) == pc' = [pc EXCEPT ![p] = l]

At(p, l) == pc[p] = l

AfterOutput(p) == IF clears[p] THEN "clear" ELSE "prepare"

InitializeAsct(p) ==
    /\ At(p, "off")
    /\ Goto(p, IF p \in Sharing THEN "output" ELSE AfterOutput(p))
    /\ UNCHANGED <<shared, own, output, kills>>

----------------------------------------------------------------------------
(* OutputFolder *)

\* A folder that is there is an error without --force.
CheckResourceCreatable(p) ==
    /\ At(p, "output")
    /\ Goto(p, IF folder # "none" /\ p \notin Forced THEN "exit" ELSE "create")
    /\ UNCHANGED <<shared, own, output, kills>>

\* Fault: a folder that is there is taken for one that was made.
CreateResourceAnyway(p) ==
    /\ At(p, "create")
    /\ Goto(p, "makedirs")
    /\ UNCHANGED <<shared, own, output, kills>>

\* os.path.exists is asked again: whoever does not make the folder does not delete it.
CreateResource(p) ==
    /\ At(p, "create")
    /\ Goto(p, IF folder = "none" THEN "makedirs" ELSE "log")
    /\ UNCHANGED <<shared, own, output, kills>>

\* makedirs with exist_ok
MakeDirs(p) ==
    /\ At(p, "makedirs")
    /\ folder' = IF folder = "none" THEN "empty" ELSE folder
    /\ created' = [created EXCEPT ![p] = TRUE]
    /\ Goto(p, "log")
    /\ UNCHANGED <<shared, own, existed, kills>>

\* asct.log, unless --quiet; nothing catches that the folder has gone.
OpenLog(p) ==
    /\ At(p, "log")
    /\ \E quiet \in BOOLEAN : folder' = IF quiet \/ folder = "none" THEN folder ELSE "files"
    /\ Goto(p, IF folder = "none" THEN "exit" ELSE AfterOutput(p))
    /\ UNCHANGED <<shared, own, existed, created, kills>>

\* The result of system-info, the first file; if the folder is gone the run ends.
WriteResult(p) ==
    /\ At(p, "write")
    /\ folder' = IF p \in Sharing /\ folder # "none" THEN "files" ELSE folder
    /\ Goto(p, IF p \in Sharing /\ folder = "none" THEN "release" ELSE "lookup")
    /\ UNCHANGED <<shared, own, existed, created, kills>>

\* _check_resource_deletable and _resource_is_empty
Deletable(p) == created[p] /\ folder = "empty"

\* The exit handler begins with the global resources.
TeardownFolder(p) ==
    /\ At(p, "exit")
    /\ Goto(p, IF Deletable(p) THEN "rmtree" ELSE "restore")
    /\ UNCHANGED <<shared, own, output, kills>>

DeleteResource(p) ==
    /\ At(p, "rmtree")
    /\ folder' = "none"
    /\ created' = [created EXCEPT ![p] = FALSE]
    /\ Goto(p, "restore")
    /\ UNCHANGED <<shared, own, existed, kills>>

----------------------------------------------------------------------------

ClearAsctCache(p) ==
    /\ At(p, "clear")
    /\ cache' = "none"
    /\ disturbed' = [q \in Process |-> disturbed[q] \/ pc[q] \in Inside]
    /\ Goto(p, "prepare")
    /\ UNCHANGED <<lockPath, holder, machine, overlap, clears, fd, tries, saved, leftover, aborted, output, kills>>

----------------------------------------------------------------------------
(* ProcessMutex *)

\* Fault: the test for a directory is the wrong way round.
LockPathOKInverted == lockPath # "directory"

LockPathOK == lockPath # "file"

PrepareLock(p) ==
    /\ At(p, "prepare")
    /\ lockPath' = IF lockPath = "missing" THEN "directory" ELSE lockPath
    /\ Goto(p, IF LockPathOK THEN "lock" ELSE "exit")
    /\ UNCHANGED <<holder, machine, cache, overlap, own, output, kills>>

\* Fault: the attempts are not counted off.
AfterLastAttemptAgain(p) == "lock"

\* lock_successful() is FALSE: the command exits with an error.
AfterLastAttempt(p) == "exit"

\* Fault: flock without LOCK_EX.
LockFreeShared(p) == TRUE

LockFree(p) == holder = Free

\* Fault: the lock is waited for.
AttemptLockForever(p) ==
    /\ At(p, "lock")
    /\ holder' = IF LockFree(p) THEN p ELSE holder
    /\ IF LockFree(p) /\ fd[p] # 0 THEN Goto(p, "write") ELSE UNCHANGED pc
    /\ UNCHANGED <<lockPath, machine, cache, overlap, own, output, kills>>

\* retry() takes the return value 0 of a successful attempt for a failure, and
\* that open file keeps the lock: the next ones are refused whatever their number.
AttemptLock(p) ==
    /\ At(p, "lock")
    /\ holder' = IF LockFree(p) THEN p ELSE holder
    /\ IF LockFree(p) /\ fd[p] # 0
       THEN /\ Goto(p, "write")
            /\ UNCHANGED tries
       ELSE /\ tries' = [tries EXCEPT ![p] = @ + 1]
            /\ Goto(p, IF tries[p] = RetryCount THEN AfterLastAttempt(p) ELSE "lock")
    /\ UNCHANGED <<lockPath, machine, cache, overlap, clears, fd, saved, leftover, aborted, disturbed, output, kills>>

Release(p) ==
    /\ At(p, "release")
    /\ holder' = Free
    /\ Goto(p, "exit")
    /\ UNCHANGED <<lockPath, machine, cache, overlap, own, output, kills>>

----------------------------------------------------------------------------
(* The run *)

Abort(p, l) ==
    /\ aborted' = [aborted EXCEPT ![p] = TRUE]
    /\ Goto(p, l)

\* is_cache_available: the file exists ...
Lookup(p) ==
    /\ At(p, "lookup")
    /\ Goto(p, IF cache = "none" THEN "setup" ELSE "stat")
    /\ UNCHANGED <<shared, own, output, kills>>

\* ... then it is looked at again, and nothing catches that it has gone.
Stat(p) ==
    /\ At(p, "stat")
    /\ IF cache = "none"
       THEN Abort(p, "release")
       ELSE Goto(p, "setup") /\ UNCHANGED aborted
    /\ UNCHANGED <<shared, clears, fd, tries, saved, leftover, disturbed, output, kills>>

\* The counters are read and changed; the recipe is then run, or skipped
\* because another of its resources fails or Ctrl+C ends the setup.
Setup(p) ==
    /\ At(p, "setup")
    /\ saved' = [saved EXCEPT ![p] = machine]
    /\ overlap' = (overlap \/ machine # Free)
    /\ machine' = p
    /\ \E skipped \in BOOLEAN :
           /\ leftover' = [leftover EXCEPT ![p] = skipped]
           /\ Goto(p, IF skipped THEN "release" ELSE "run")
    /\ UNCHANGED <<lockPath, holder, cache, clears, fd, tries, aborted, disturbed, output, kills>>

\* The recipe completes and is saved, or fails or is not saved (the cache is not
\* in use or cannot be written); Ctrl+C counts as a failure.
Run(p) ==
    /\ At(p, "run")
    /\ pc' \in {[pc EXCEPT ![p] = l] : l \in {"save", "teardown"}}
    /\ UNCHANGED <<shared, own, output, kills>>

\* Fault: the entry is only removed.
WriteToCacheNothing(p) ==
    /\ At(p, "save")
    /\ cache' = "none"
    /\ Goto(p, "print")
    /\ UNCHANGED <<lockPath, holder, machine, overlap, own, output, kills>>

\* The old entry is removed, the new one written; write_to_file ends the program
\* when it cannot write.
WriteToCache(p) ==
    /\ At(p, "save")
    /\ \/ /\ cache' = "data"
          /\ Goto(p, "print")
          /\ UNCHANGED <<aborted, disturbed>>
       \/ /\ cache' = "none"
          /\ disturbed' = [disturbed EXCEPT ![p] = TRUE]
          /\ Abort(p, "teardown")
    /\ UNCHANGED <<lockPath, holder, machine, overlap, clears, fd, tries, saved, leftover, output, kills>>

\* The fingerprint is taken of the file just written.
WriteFingerprint(p) ==
    /\ At(p, "print")
    /\ IF cache = "none"
       THEN Abort(p, "teardown") /\ UNCHANGED cache
       ELSE /\ cache' = "printed"
            /\ Goto(p, "teardown")
            /\ UNCHANGED aborted
    /\ UNCHANGED <<lockPath, holder, machine, overlap, clears, fd, tries, saved, leftover, disturbed, output, kills>>

\* Fault: the resources of the recipe are left to the exit handler.
TeardownNot(p) ==
    /\ At(p, "teardown")
    /\ Goto(p, "release")
    /\ UNCHANGED <<shared, own, output, kills>>

Teardown(p) ==
    /\ At(p, "teardown")
    /\ machine' = saved[p]
    /\ Goto(p, "release")
    /\ UNCHANGED <<lockPath, holder, cache, overlap, own, output, kills>>

\* The exit handler, outside the mutex; the descriptors are closed last.
AtExit(p) ==
    /\ At(p, "restore")
    /\ machine' = IF leftover[p] THEN saved[p] ELSE machine
    /\ holder' = IF holder = p THEN Free ELSE holder
    /\ Goto(p, "done")
    /\ UNCHANGED <<lockPath, cache, overlap, own, output, kills>>

Kill(p) ==
    /\ pc[p] \notin {"off", "done", "dead"}
    /\ kills < MaxKills
    /\ kills' = kills + 1
    /\ holder' = IF holder = p THEN Free ELSE holder
    /\ Goto(p, "dead")
    /\ UNCHANGED <<lockPath, machine, cache, overlap, own, output>>

Step(p) ==
    \/ InitializeAsct(p) \/ CheckResourceCreatable(p) \/ CreateResource(p) \/ MakeDirs(p) \/ OpenLog(p) \/ WriteResult(p)
    \/ TeardownFolder(p) \/ DeleteResource(p) \/ ClearAsctCache(p) \/ PrepareLock(p) \/ AttemptLock(p) \/ Lookup(p) \/ Stat(p)
    \/ Setup(p) \/ Run(p) \/ WriteToCache(p) \/ WriteFingerprint(p)
    \/ Teardown(p) \/ Release(p) \/ AtExit(p)

Next == \E p \in Process : Step(p) \/ Kill(p)

Spec == Init /\ [][Next]_vars /\ \A p \in Process : WF_vars(Step(p))

----------------------------------------------------------------------------
(* Properties *)

TypeOK ==
    /\ pc \in [Process -> Inside \cup {"off", "output", "create", "makedirs", "log", "clear", "prepare", "lock",
                                    "exit", "rmtree", "restore", "done", "dead"}]
    /\ clears \in [Process -> BOOLEAN]
    /\ fd \in [Process -> {0, 3}]
    /\ lockPath \in {"missing", "directory", "file"}
    /\ holder \in Process \cup {Free}
    /\ tries \in [Process -> 0..(RetryCount + 1)]
    /\ machine \in Process \cup {Free}
    /\ saved \in [Process -> Process \cup {Free}]
    /\ leftover \in [Process -> BOOLEAN]
    /\ cache \in {"none", "data", "printed"}
    /\ aborted \in [Process -> BOOLEAN]
    /\ disturbed \in [Process -> BOOLEAN]
    /\ overlap \in BOOLEAN
    /\ existed \in BOOLEAN
    /\ folder \in {"none", "empty", "files"}
    /\ created \in [Process -> BOOLEAN]
    /\ kills \in 0..MaxKills

(* The invocations implement the lock they rely on: one asks, is let in only   *)
(* when nobody is inside, or is refused for good, and leaves.                  *)
Lock == INSTANCE RunLock WITH
    owner <- IF holder # Free /\ pc[holder] \in Inside THEN holder ELSE Free,
    where <- [p \in Process |->
                 CASE pc[p] \in {"off", "output", "create", "makedirs", "log", "clear", "prepare"} -> "out"
                   [] pc[p] = "lock"    -> "asking"
                   [] pc[p] \in Inside  -> "inside"
                   [] OTHER             -> "gone"]

ImplementsLock == Lock!Spec

(* When every invocation has ended and none was killed, the counters are what  *)
(* they were before the first.  The exception is the hazard of the exit        *)
(* handler: a recipe was skipped after its setup, the mutex was released, and  *)
(* another invocation took the counters, before the exit handler restored      *)
(* them, for the original ones.                                                *)
CountersRestored ==
    (kills = 0 /\ \A p \in Process : pc[p] \in {"off", "done"})
    => machine = Free \/ (overlap /\ \E p \in Process : leftover[p])

(* An output folder that was there before is never deleted, whoever shares it, *)
(* with --force or by being just in time; and when every invocation has ended  *)
(* and none was killed, an empty folder that asct made is gone again.          *)
FolderAsBefore ==
    /\ existed => folder # "none"
    /\ (kills = 0 /\ \A p \in Process : pc[p] \in {"off", "done"}) => (folder = "empty" => existed)

(* A run is ended by a missing cache file only if its own write to the cache   *)
(* failed or another invocation cleared the cache while it was inside the      *)
(* mutex.                                                                      *)
AbortsOnlyIfDisturbed == \A p \in Process : aborted[p] => disturbed[p]

(* An invocation that gives up on the mutex does so because another one has it *)
(* at its last attempt, or because the path of the lock is a file.  The        *)
(* exception is a process whose lock got descriptor 0: it does not take this   *)
(* for a success, and then waits for itself.                                   *)
RefusedIfBusy ==
    [][\A p \in Process : (pc[p] \in {"prepare", "lock"} /\ pc'[p] = "exit")
          => holder # Free \/ fd[p] = 0 \/ lockPath = "file"]_vars

(* Every invocation comes to an end: the number of attempts is bounded, and    *)
(* nobody waits for the lock of a process that was killed.                     *)
EveryoneEnds ==
    \A p \in Process : (pc[p] # "off") ~> (pc[p] \in {"done", "dead"})

(* What several invocations leave behind: the counters of the machine and an   *)
(* output folder that was there before are as if no invocation had been.       *)
MachineAsBefore == TypeOK /\ CountersRestored /\ FolderAsBefore

(* Whoever asks for the mutex gets an answer in time, and is refused only with *)
(* a reason.                                                                   *)
MutexAnswers == RefusedIfBusy /\ EveryoneEnds

----------------------------------------------------------------------------
(* The inductive invariant *)

\* Where an invocation is before it has its answer from the mutex.
Before == {"off", "output", "create", "makedirs", "log", "clear", "prepare", "lock"}

(* Whoever is in the body of the with statement has the flock.                 *)
InsideHolds == \A p \in Process : pc[p] \in Inside => holder = p

(* retry() never counts past its limit while it may try again.                 *)
TriesLeft == \A p \in Process : pc[p] \in Before => tries[p] <= RetryCount

(* p has changed the counters and has yet to restore them: inside the mutex,   *)
(* or in the exit handler if the recipe was skipped.                           *)
Changed(p) ==
    \/ pc[p] \in {"run", "save", "print", "teardown"}
    \/ leftover[p] /\ pc[p] \in {"release", "exit", "rmtree", "restore"}

(* A recipe is left to the exit handler on the way out only.                   *)
LeftOnExit ==
    \A p \in Process : leftover[p] => pc[p] \in {"release", "exit", "rmtree", "restore", "done", "dead"}

(* Unless somebody began with changed counters, who changed them last is the   *)
(* only one that has to restore them, and will restore the original ones; and  *)
(* as long as nobody was killed they are the original ones otherwise.          *)
OneChange ==
    ~overlap => /\ \A p \in Process : Changed(p) => machine = p /\ saved[p] = Free
                /\ (kills = 0 /\ machine # Free) => Changed(machine)

(* Counters are changed when the mutex is taken only if an exit handler has    *)
(* yet to restore them, or a process was killed.                               *)
OverlapLeft == (overlap /\ kills = 0) => \E p \in Process : leftover[p]

(* Nobody takes a folder that was there before for its own.                    *)
NotOurs == existed => /\ folder # "none"
                      /\ \A p \in Process : ~created[p] /\ pc[p] \notin {"makedirs", "rmtree"}

(* Whoever made a folder that is still empty has yet to look at it on exit.    *)
SomeoneWillDelete ==
    (kills = 0 /\ folder = "empty" /\ ~existed)
    => \E p \in Process : created[p] /\ pc[p] \notin {"off", "restore", "done", "dead"}

(* The file a run is about to look at again is missing only if it was          *)
(* disturbed, and only such a run was ended.                                   *)
GoneIfDisturbed ==
    \A p \in Process : (cache = "none" /\ pc[p] \in {"stat", "print"}) => disturbed[p]

IInv ==
    /\ TypeOK /\ InsideHolds /\ TriesLeft
    /\ LeftOnExit /\ OneChange /\ OverlapLeft
    /\ NotOurs /\ SomeoneWillDelete
    /\ GoneIfDisturbed /\ AbortsOnlyIfDisturbed
=============================================================================
