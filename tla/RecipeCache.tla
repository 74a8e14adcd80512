---------------------------- MODULE RecipeCache ----------------------------
(***************************************************************************)
(* The cache of recipe results in the user's home directory (ASCTCache,    *)
(* core/cache.py), as `asct run` and `asct resume` use it: the validators  *)
(* of the system, the cached result of latency-sweep, the recipe other     *)
(* recipes depend on, and its fingerprint file.                            *)
(*                                                                         *)
(* Everything is a file in one directory, written and removed one at a     *)
(* time, and a process can be killed between any two of these steps.  The  *)
(* directory outlives the processes and the system they ran on: hardware   *)
(* is changed, or the home directory is shared between machines.  Runs do  *)
(* not overlap (ProcessMutex).  The cache is in use (no --no-cache).       *)
(***************************************************************************)
EXTENDS Integers, Sequences

CONSTANTS System,      \* configurations of the machine
          Hw,          \* values of asdict(system_info.sys_hw), of their hashes
          Mem,         \* values of asdict(system_info.memory) that root can read
          NoMem,       \* the one an ordinary user gets
          HwOf, MemOf, \* the hardware and the memory of a system
          MaxStarts    \* bound: number of commands started

ASSUME CacheAssumption ==
    /\ HwOf \in [System -> Hw]
    /\ MemOf \in [System -> Mem]
    /\ NoMem \notin Mem
    /\ MaxStarts \in Nat

VARIABLES pc,          \* where the process is, "off" when there is none
          cmd,         \* "run" or "resume"
          sys,         \* the system it runs on
          root,        \* it runs as root
          writeable,   \* ASCTCache.is_cache_writeable, found out once per process
          valid,       \* ASCTCache.valid
          entry,       \* the cache file: number of a measurement, Absent or Torn
          prints,      \* fingerprint files, by the file they were taken of
          mems, hws,   \* validator files
          measured,    \* measured[n]: the system of the n-th measurement
          restored,    \* the measurement this process restored, or Absent
          seen,        \* systems with an output folder that can be resumed
          unvalidated, \* history: measurements saved under another system's validators
          starts

dir == <<entry, prints, mems, hws>>
vars == <<pc, cmd, sys, root, writeable, valid, dir, measured, restored, seen, unvalidated,
          starts>>

Absent == 0
Torn == -1

Stage == {"off", "clear", "check", "save_mem", "save_hw", "lookup", "drop", "drop_prints",
          "measure", "save", "save_prints", "write", "write_print"}

Init ==
    /\ pc = "off"
    /\ cmd = "run"
    /\ sys \in System
    /\ root = FALSE
    /\ writeable = TRUE
    /\ valid = TRUE
    /\ entry = Absent
    /\ prints = {}
    /\ mems = {}
    /\ hws = {}
    /\ measured = <<>>
    /\ restored = Absent
    /\ seen = {}
    /\ unvalidated = {}
    /\ starts = 0

\* A process starts; clear is its option --clear-cache.  What it is to remove or
\* to write is left out when it cannot write the directory (_cache_write_enabled).
Start(c, s, clear, next) ==
    /\ pc = "off"
    /\ starts < MaxStarts
    /\ starts' = starts + 1
    /\ cmd' = c
    /\ sys' = s
    /\ root' \in BOOLEAN
    /\ writeable' \in BOOLEAN
    /\ valid' = TRUE
    /\ restored' = Absent
    /\ pc' = IF clear /\ writeable' THEN "clear" ELSE next
    /\ UNCHANGED <<dir, measured, seen, unvalidated>>

Run == \E s \in System, clear \in BOOLEAN : Start("run", s, clear, "check")

\* check_hw_match: only on the hardware of the interrupted run.  The cache is
\* not validated; the recipe runs unless the run had it from the cache.
Resume == \E s \in System, clear \in BOOLEAN :
             /\ \E t \in seen : HwOf[t] = HwOf[s]
             /\ Start("resume", s, clear, "measure")

\* clear_asct_cache: shutil.rmtree, one file after the other.
ClearStep ==
    /\ pc = "clear"
    /\ \/ entry # Absent /\ entry' = Absent /\ UNCHANGED <<prints, mems, hws>>
       \/ \E p \in prints : prints' = prints \ {p} /\ UNCHANGED <<entry, mems, hws>>
       \/ \E m \in mems : mems' = mems \ {m} /\ UNCHANGED <<entry, prints, hws>>
       \/ \E h \in hws : hws' = hws \ {h} /\ UNCHANGED <<entry, prints, mems>>
    /\ UNCHANGED <<pc, cmd, sys, root, writeable, valid, measured, restored, seen,
                   unvalidated, starts>>

ClearEnd ==
    /\ pc = "clear"
    /\ dir = <<Absent, {}, {}, {}>>
    /\ pc' = CASE cmd = "resume" -> "measure"
               [] cmd = "run" /\ valid -> "check"
               [] OTHER -> "save_mem"
    /\ UNCHANGED <<cmd, sys, root, writeable, valid, dir, measured, restored, seen,
                   unvalidated, starts>>

\* Fault: only the memory is compared.
ValidatorsOfMemory == root => MemOf[sys] \in mems

\* is_asct_cache_valid: the names of the files are all that is looked at.
Validators == /\ root => MemOf[sys] \in mems
              /\ HwOf[sys] \in hws

\* Fault: the validators of a new system are added to those of the old one.
CheckKeeps ==
    /\ pc = "check"
    /\ pc' = IF Validators \/ ~writeable THEN "lookup" ELSE "save_mem"
    /\ valid' = Validators
    /\ UNCHANGED <<cmd, sys, root, writeable, dir, measured, restored, seen, unvalidated, starts>>

\* refresh_cache, and save_cache_validator when there is nothing to save.  An
\* invalid cache that cannot be written is neither cleared nor refused.
Check ==
    /\ pc = "check"
    /\ pc' = IF Validators \/ ~writeable THEN "lookup" ELSE "clear"
    /\ valid' = Validators
    /\ UNCHANGED <<cmd, sys, root, writeable, dir, measured, restored, seen, unvalidated, starts>>

\* save_cache_validator.
SaveMem ==
    /\ pc = "save_mem"
    /\ mems' = mems \cup {IF root THEN MemOf[sys] ELSE NoMem}
    /\ pc' = "save_hw"
    /\ UNCHANGED <<cmd, sys, root, writeable, valid, entry, prints, hws, measured, restored, seen,
                   unvalidated, starts>>

SaveHw ==
    /\ pc = "save_hw"
    /\ hws' = hws \cup {HwOf[sys]}
    /\ pc' = "lookup"
    /\ UNCHANGED <<cmd, sys, root, writeable, valid, entry, prints, mems, measured,
                   restored, seen,
                   unvalidated, starts>>

\* is_cache_available: the fingerprint is that of the file.
Available == entry # Absent /\ entry \in prints

\* remove_cached_dependencies: the recipe was asked for and runs, or it was
\* only added as a dependency and its cached result is restored if there is one.
Lookup ==
    /\ pc = "lookup"
    /\ seen' = seen \cup {sys}
    /\ \/ pc' = "measure" /\ UNCHANGED restored
       \/ Available /\ restored' = entry /\ pc' = "off"
       \/ entry = Absent /\ pc' = "measure" /\ UNCHANGED restored
       \/ /\ entry # Absent
          /\ ~Available
          /\ pc' = IF writeable THEN "drop" ELSE "measure"
          /\ UNCHANGED restored
    /\ UNCHANGED <<cmd, sys, root, writeable, valid, dir, measured, unvalidated, starts>>

\* clear_recipe_cache: first the file, then its fingerprints.
RemoveEntry(from, to) ==
    /\ pc = from
    /\ entry' = Absent
    /\ pc' = to
    /\ UNCHANGED <<cmd, sys, root, writeable, valid, prints, mems, hws, measured, restored, seen,
                   unvalidated, starts>>

RemovePrints(from, to) ==
    /\ pc = from
    /\ prints' = {}
    /\ pc' = to
    /\ UNCHANGED <<cmd, sys, root, writeable, valid, entry, mems, hws, measured, restored, seen,
                   unvalidated, starts>>

Drop == RemoveEntry("drop", "drop_prints") \/ RemovePrints("drop_prints", "measure")

\* The recipe runs: it fails or its result cannot be kept, or save() takes it.
Measure ==
    /\ pc = "measure"
    /\ \/ pc' = "off" /\ UNCHANGED measured
       \/ writeable /\ pc' = "save" /\ measured' = Append(measured, sys)
    /\ UNCHANGED <<cmd, sys, root, writeable, valid, dir, restored, seen, unvalidated, starts>>

Save == RemoveEntry("save", "save_prints") \/ RemovePrints("save_prints", "write")

\* The validators on the disk are those of the system the process runs on.
OwnValidators == hws \subseteq {HwOf[sys]} /\ mems \subseteq {MemOf[sys], NoMem}

Write ==
    /\ pc = "write"
    /\ entry' = Len(measured)
    /\ unvalidated' = IF OwnValidators THEN unvalidated ELSE unvalidated \cup {Len(measured)}
    /\ pc' = "write_print"
    /\ UNCHANGED <<cmd, sys, root, writeable, valid, prints, mems, hws, measured, restored,
                   seen, starts>>

WritePrint ==
    /\ pc = "write_print"
    /\ prints' = prints \cup {entry}
    /\ pc' = "off"
    /\ UNCHANGED <<cmd, sys, root, writeable, valid, entry, mems, hws, measured, restored, seen,
                   unvalidated, starts>>

\* The process is killed; a file it is writing is left incomplete.
Crash ==
    /\ pc # "off"
    /\ pc' = "off"
    /\ entry' \in IF pc = "write" THEN {entry, Torn} ELSE {entry}
    /\ UNCHANGED <<cmd, sys, root, writeable, valid, prints, mems, hws, measured, restored, seen,
                   unvalidated, starts>>

Next == \/ Run \/ Resume \/ ClearStep \/ ClearEnd \/ Check \/ SaveMem \/ SaveHw
        \/ Lookup \/ Drop \/ Measure \/ Save \/ Write \/ WritePrint \/ Crash

Spec == Init /\ [][Next]_vars

-----------------------------------------------------------------------------
\* Every variable keeps its type.
TypeOK ==
    /\ pc \in Stage
    /\ cmd \in {"run", "resume"}
    /\ sys \in System
    /\ root \in BOOLEAN
    /\ writeable \in BOOLEAN
    /\ valid \in BOOLEAN
    /\ measured \in Seq(System)
    /\ entry \in Torn .. Len(measured)
    /\ prints \subseteq 1 .. Len(measured)
    /\ mems \subseteq Mem \cup {NoMem}
    /\ hws \subseteq Hw
    /\ restored \in 0 .. Len(measured)
    /\ seen \subseteq System
    /\ unvalidated \subseteq 1 .. Len(measured)
    /\ starts \in 0 .. MaxStarts

\* The cache was found to be of another system, but this process cannot write
\* it: it is left as it is, and what is in it is still available.
LeftInPlace == ~valid /\ ~writeable

\* A result taken from the cache was measured on this hardware and, for root,
\* with this memory, whatever was interrupted before, with two exceptions: a
\* result that resume saved under the validators of another system, and anything
\* taken from a cache found invalid (is_asct_cache_valid) that could not be
\* cleared because the process cannot write it (LeftInPlace); such a result may
\* be of any system.
RestoredFits ==
    (restored # Absent /\ restored \notin unvalidated /\ ~LeftInPlace) =>
        /\ HwOf[measured[restored]] = HwOf[sys]
        /\ root => MemOf[measured[restored]] = MemOf[sys]

\* A run as root never saves a result under another system's validators: what
\* refresh_cache leaves in place is its own.
RootRunsValidated ==
    [][(cmd = "run" /\ root) => unvalidated' = unvalidated]_vars

\* What makes it inductive.  A result that is in place was validated or the
\* validators that are left are those of its system:
EntryValidated ==
    (entry > 0 /\ entry \notin unvalidated) =>
        /\ hws \subseteq {HwOf[measured[entry]]}
        /\ mems \subseteq {MemOf[measured[entry]], NoMem}

\* past refresh_cache a run finds, or has written, its own validators unless
\* it could neither accept nor clear what it found,
RunValidated ==
    (/\ cmd = "run"
     /\ pc \in {"lookup", "drop", "drop_prints", "measure", "save", "save_prints",
                "write", "write_print"}
     /\ ~LeftInPlace) =>
        Validators

\* and validators are of one system at a time, apart from the memory of root
\* and of an ordinary user.
OneSystem ==
    /\ \A h, g \in hws : h = g
    /\ \A m, n \in mems \ {NoMem} : m = n
    /\ pc = "save_mem" => entry = Absent /\ prints = {} /\ mems = {} /\ hws = {}
    /\ pc = "save_hw" => /\ entry = Absent
                         /\ prints = {}
                         /\ hws = {}
                         /\ mems = {IF root THEN MemOf[sys] ELSE NoMem}

SavingLatest ==
    /\ pc \in {"save", "save_prints", "write", "write_print"} =>
          Len(measured) > 0 /\ measured[Len(measured)] = sys
    /\ pc = "write_print" => entry = Len(measured)

RunStages ==
    /\ pc \in {"check", "save_mem", "save_hw", "lookup", "drop", "drop_prints"} => cmd = "run"
    /\ pc \in {"clear", "save_mem", "save_hw", "drop", "drop_prints", "save", "save_prints",
               "write", "write_print"} => writeable
    /\ restored # Absent => pc = "off"

IInv == TypeOK /\ RunStages /\ RestoredFits /\ EntryValidated /\ RunValidated /\ OneSystem
        /\ SavingLatest
=============================================================================
