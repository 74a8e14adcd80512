------------------------- MODULE RecipeCache_proofs -------------------------
(***************************************************************************)
(* What is taken from the cache fits the system, for any number of         *)
(* systems, runs, resumes and crashes.                                     *)
(*                                                                         *)
(* The argument: rmtree leaves nothing behind before new validators are    *)
(* written (OneSystem), so the validators beside a result are those of the *)
(* system it was measured on (EntryValidated) unless it was saved under    *)
(* others, and a run that gets past refresh_cache found or wrote its own   *)
(* (RunValidated), unless it could not write the directory (LeftInPlace).  *)
(***************************************************************************)
EXTENDS RecipeCache, TLAPS

Systems == /\ HwOf \in [System -> Hw]
           /\ MemOf \in [System -> Mem]
           /\ NoMem \notin Mem
           /\ MaxStarts \in Nat

LEMMA SystemFacts == Systems
  BY CacheAssumption DEF Systems

\* A sequence that grows keeps what it has.
LEMMA Grown ==
    ASSUME NEW S, NEW q \in Seq(S), NEW e \in S
    PROVE  /\ Append(q, e) \in Seq(S)
           /\ Len(q) \in Nat
           /\ Len(Append(q, e)) = Len(q) + 1
           /\ Append(q, e)[Len(q) + 1] = e
           /\ \A n \in 1 .. Len(q) : Append(q, e)[n] = q[n]
  OBVIOUS

LEMMA InitEstablishes == Init => IInv
<1> SUFFICES ASSUME Init PROVE IInv
  OBVIOUS
<1> USE DEF Init, Absent, Torn
<1>1. measured \in Seq(System) /\ Len(measured) = 0
  OBVIOUS
<1>2. root \in BOOLEAN /\ writeable \in BOOLEAN /\ valid \in BOOLEAN
  OBVIOUS
<1>3. TypeOK
  BY <1>1, <1>2, SystemFacts DEF TypeOK, Stage, Systems
<1>4. RunStages /\ RestoredFits /\ EntryValidated /\ RunValidated /\ OneSystem /\ SavingLatest
  BY DEF RunStages, RestoredFits, EntryValidated, RunValidated, OneSystem, SavingLatest
<1> QED
  BY <1>3, <1>4 DEF IInv

\* Flags are only ever given Boolean values.
LEMMA FlagsKept ==
    ASSUME IInv, [Next]_vars
    PROVE  root' \in BOOLEAN /\ writeable' \in BOOLEAN /\ valid' \in BOOLEAN
<1>0. root \in BOOLEAN /\ writeable \in BOOLEAN /\ valid \in BOOLEAN
  BY DEF IInv, TypeOK
<1>1. CASE Run \/ Resume
  BY <1>1, Zenon DEF Run, Resume, Start
<1>2. CASE Check
  <2>1. Validators \in BOOLEAN
    BY Zenon DEF Validators
  <2> QED
    BY <1>0, <1>2, <2>1, Zenon DEF Check
<1>3. CASE ClearStep \/ ClearEnd \/ SaveMem \/ SaveHw \/ Lookup
  BY <1>0, <1>3, Zenon DEF ClearStep, ClearEnd, SaveMem, SaveHw, Lookup
<1>4. CASE Drop \/ Measure \/ Save \/ Write \/ WritePrint \/ Crash
  BY <1>0, <1>4, Zenon DEF Drop, Measure, Save, RemoveEntry, RemovePrints, Write, WritePrint, Crash
<1>5. CASE UNCHANGED vars
  BY <1>0, <1>5, Zenon DEF vars
<1> QED
  BY <1>1, <1>2, <1>3, <1>4, <1>5 DEF Next

LEMMA TypeKept == ASSUME IInv, [Next]_vars PROVE TypeOK'
<1> DEFINE Plain ==
      /\ pc \in Stage
      /\ cmd \in {"run", "resume"}
      /\ sys \in System
      /\ measured \in Seq(System)
      /\ Len(measured) \in Nat
      /\ entry \in Torn .. Len(measured)
      /\ prints \subseteq 1 .. Len(measured)
      /\ mems \subseteq Mem \cup {NoMem}
      /\ hws \subseteq Hw
      /\ restored \in 0 .. Len(measured)
      /\ seen \subseteq System
      /\ unvalidated \subseteq 1 .. Len(measured)
      /\ starts \in 0 .. MaxStarts
<1>0. Plain /\ SavingLatest
  BY DEF IInv, TypeOK
<1>1. Plain'
  <2> USE <1>0, SystemFacts DEF Systems, Stage, Absent, Torn, SavingLatest
  <2>1. CASE Run \/ Resume
    <3>1. PICK c \in {"run", "resume"}, s \in System, clear \in BOOLEAN,
               next \in {"check", "measure"} : Start(c, s, clear, next)
      BY <2>1, Zenon DEF Run, Resume
    <3>2. pc' \in Stage
      BY <3>1, Zenon DEF Start
    <3>3. starts' \in 0 .. MaxStarts
      BY <3>1 DEF Start
    <3>4. /\ cmd' = c
          /\ sys' = s
          /\ restored' = 0
          /\ measured' = measured
          /\ entry' = entry
          /\ prints' = prints
          /\ mems' = mems
          /\ hws' = hws
          /\ seen' = seen
          /\ unvalidated' = unvalidated
      BY <3>1, Zenon DEF Start, dir
    <3> QED
      BY <3>2, <3>3, <3>4
  <2>2. CASE ClearStep \/ ClearEnd
    BY <2>2 DEF ClearStep, ClearEnd, dir
  <2>3. CASE Check
    BY <2>3 DEF Check, dir
  <2>4. CASE SaveMem \/ SaveHw
    BY <2>4 DEF SaveMem, SaveHw
  <2>5. CASE Lookup
    BY <2>5 DEF Lookup, Available, dir
  <2>6. CASE Drop \/ Save
    <3>1. CASE RemoveEntry("drop", "drop_prints")
      BY <3>1 DEF RemoveEntry
    <3>2. CASE RemoveEntry("save", "save_prints")
      BY <3>2 DEF RemoveEntry
    <3>3. CASE RemovePrints("drop_prints", "measure")
      BY <3>3 DEF RemovePrints
    <3>4. CASE RemovePrints("save_prints", "write")
      BY <3>4 DEF RemovePrints
    <3> QED
      BY <2>6, <3>1, <3>2, <3>3, <3>4 DEF Drop, Save
  <2>7. CASE Measure
    <3>1. CASE measured' = measured
      BY <2>7, <3>1 DEF Measure, dir
    <3>2. CASE measured' = Append(measured, sys) /\ pc' = "save"
      <4>1. measured' \in Seq(System) /\ Len(measured') = Len(measured) + 1
        BY <3>2, Grown
      <4> QED
        BY <2>7, <3>2, <4>1 DEF Measure, dir
    <3> QED
      BY <2>7, <3>1, <3>2 DEF Measure
  <2>8. CASE Write \/ WritePrint
    <3>1. CASE Write
      <4>1. Len(measured) \in 1 .. Len(measured)
        BY <3>1 DEF Write
      <4>2. unvalidated' \subseteq 1 .. Len(measured)
        BY <3>1, <4>1 DEF Write
      <4> HIDE DEF SavingLatest
      <4> QED
        BY <3>1, <4>1, <4>2 DEF Write
    <3>2. CASE WritePrint
      BY <3>2 DEF WritePrint
    <3> QED
      BY <2>8, <3>1, <3>2
  <2>9. CASE Crash
    BY <2>9 DEF Crash
  <2>10. CASE UNCHANGED vars
    BY <2>10 DEF vars, dir
  <2> QED
    BY <2>1, <2>2, <2>3, <2>4, <2>5, <2>6, <2>7, <2>8, <2>9, <2>10 DEF Next
<1> QED
  BY <1>1, FlagsKept, Zenon DEF TypeOK

LEMMA StagesKept == ASSUME IInv, [Next]_vars PROVE RunStages'
<1> USE DEF IInv, RunStages
<1>1. CASE Run \/ Resume
  BY <1>1 DEF Run, Resume, Start
<1>2. CASE ClearStep \/ ClearEnd \/ Check
  BY <1>2 DEF ClearStep, ClearEnd, Check, TypeOK
<1>3. CASE SaveMem \/ SaveHw \/ Lookup
  BY <1>3 DEF SaveMem, SaveHw, Lookup
<1>4. CASE Drop \/ Save
  BY <1>4 DEF Drop, Save, RemoveEntry, RemovePrints
<1>5. CASE Measure \/ Write \/ WritePrint \/ Crash \/ UNCHANGED vars
  BY <1>5 DEF Measure, Write, WritePrint, Crash, vars
<1> QED
  BY <1>1, <1>2, <1>3, <1>4, <1>5 DEF Next

\* The last measurement is the one being saved.
LEMMA SavingKept == ASSUME IInv, [Next]_vars PROVE SavingLatest'
<1> USE DEF IInv, SavingLatest
<1>1. CASE Run \/ Resume
  BY <1>1 DEF Run, Resume, Start
<1>2. CASE ClearStep \/ ClearEnd \/ Check
  BY <1>2 DEF ClearStep, ClearEnd, Check
<1>3. CASE SaveMem \/ SaveHw \/ Lookup
  BY <1>3 DEF SaveMem, SaveHw, Lookup
<1>4. CASE Drop \/ Save
  BY <1>4 DEF Drop, Save, RemoveEntry, RemovePrints
<1>5. CASE Measure
  <2>1. measured \in Seq(System) /\ sys \in System
    BY DEF TypeOK
  <2> QED
    BY <1>5, <2>1, Grown DEF Measure
<1>6. CASE Write \/ WritePrint \/ Crash \/ UNCHANGED vars
  BY <1>6 DEF Write, WritePrint, Crash, vars, dir
<1> QED
  BY <1>1, <1>2, <1>3, <1>4, <1>5, <1>6 DEF Next

\* Validators are removed one by one and written only into an empty directory.
LEMMA OneSystemKept == ASSUME IInv, [Next]_vars PROVE OneSystem'
<1> USE DEF IInv, OneSystem
<1>1. CASE Run \/ Resume
  BY <1>1 DEF Run, Resume, Start, dir
<1>2. CASE ClearStep
  BY <1>2 DEF ClearStep
<1>3. CASE ClearEnd
  BY <1>3 DEF ClearEnd, dir
<1>4. CASE Check \/ Lookup
  BY <1>4 DEF Check, Lookup, dir
<1>5. CASE SaveMem
  BY <1>5 DEF SaveMem
<1>6. CASE SaveHw
  BY <1>6 DEF SaveHw
<1>7. CASE Drop \/ Save
  BY <1>7 DEF Drop, Save, RemoveEntry, RemovePrints
<1>8. CASE Measure \/ Write \/ WritePrint
  BY <1>8 DEF Measure, Write, WritePrint, dir
<1>9. CASE Crash \/ UNCHANGED vars
  BY <1>9 DEF Crash, vars, dir
<1> QED
  BY <1>1, <1>2, <1>3, <1>4, <1>5, <1>6, <1>7, <1>8, <1>9 DEF Next

LEMMA RunValidatedKept == ASSUME IInv, [Next]_vars PROVE RunValidated'
<1> USE DEF IInv, RunValidated, LeftInPlace, Validators
<1>1. CASE Run \/ Resume
  BY <1>1 DEF Run, Resume, Start, dir
<1>2. CASE ClearStep \/ ClearEnd
  BY <1>2 DEF ClearStep, ClearEnd, dir, TypeOK
<1>3. CASE Check \/ Lookup
  <2>0. sys' = sys /\ root' = root /\ mems' = mems /\ hws' = hws
    <3> HIDE DEF Validators
    <3> QED
      BY <1>3, Zenon DEF Check, Lookup, dir
  <2>1. Validators' = Validators
    BY <2>0, Zenon
  <2> HIDE DEF Validators
  <2>2. CASE Check
    <3>1. pc' = "lookup" => Validators \/ LeftInPlace'
      BY <2>2 DEF Check
    <3>2. pc' \in {"lookup", "clear"}
      BY <2>2 DEF Check
    <3> QED
      BY <2>1, <3>1, <3>2
  <2>3. CASE Lookup
    BY <2>1, <2>3 DEF Lookup
  <2> QED
    BY <1>3, <2>2, <2>3
<1>4. CASE SaveMem \/ SaveHw
  BY <1>4 DEF SaveMem, SaveHw, OneSystem
<1>5. CASE Drop \/ Save
  BY <1>5 DEF Drop, Save, RemoveEntry, RemovePrints
<1>6. CASE Measure \/ Write \/ WritePrint
  BY <1>6 DEF Measure, Write, WritePrint, dir
<1>7. CASE Crash \/ UNCHANGED vars
  BY <1>7 DEF Crash, vars, dir
<1> QED
  BY <1>1, <1>2, <1>3, <1>4, <1>5, <1>6, <1>7 DEF Next

LEMMA EntryValidatedKept == ASSUME IInv, [Next]_vars PROVE EntryValidated'
<1> USE DEF IInv, EntryValidated, Absent, Torn
<1>0. /\ measured \in Seq(System)
      /\ sys \in System
      /\ Len(measured) \in Nat
      /\ entry \in -1 .. Len(measured)
      /\ unvalidated \subseteq 1 .. Len(measured)
  BY DEF TypeOK
<1>1. CASE Run \/ Resume
  BY <1>1 DEF Run, Resume, Start, dir
<1>2. CASE ClearStep \/ ClearEnd
  BY <1>2 DEF ClearStep, ClearEnd, dir
<1>3. CASE Check \/ Lookup
  BY <1>3 DEF Check, Lookup, dir
<1>4. CASE SaveMem \/ SaveHw
  BY <1>4 DEF SaveMem, SaveHw, OneSystem
<1>5. CASE Drop \/ Save
  BY <1>5 DEF Drop, Save, RemoveEntry, RemovePrints
<1>6. CASE Measure
  <2>1. entry > 0 => measured'[entry] = measured[entry]
    BY <1>0, <1>6, Grown DEF Measure
  <2> QED
    BY <1>6, <2>1 DEF Measure, dir
<1>7. CASE Write
  BY <1>0, <1>7 DEF Write, OwnValidators, SavingLatest
<1>8. CASE WritePrint \/ Crash \/ UNCHANGED vars
  BY <1>8 DEF WritePrint, Crash, vars, dir
<1> QED
  BY <1>1, <1>2, <1>3, <1>4, <1>5, <1>6, <1>7, <1>8 DEF Next

LEMMA RestoredFitsKept == ASSUME IInv, [Next]_vars PROVE RestoredFits'
<1> USE DEF IInv, RestoredFits, LeftInPlace, Absent, Torn
<1>0. /\ measured \in Seq(System)
      /\ sys \in System
      /\ Len(measured) \in Nat
      /\ restored \in 0 .. Len(measured)
      /\ prints \subseteq 1 .. Len(measured)
  BY DEF TypeOK
<1>1. CASE Run \/ Resume
  BY <1>1 DEF Run, Resume, Start
<1>2. CASE ClearStep \/ ClearEnd \/ Check
  BY <1>2 DEF ClearStep, ClearEnd, Check, RunStages
<1>3. CASE SaveMem \/ SaveHw
  BY <1>3 DEF SaveMem, SaveHw
<1>4. CASE Lookup
  <2>1. CASE UNCHANGED restored
    BY <1>4, <2>1 DEF Lookup
  <2>2. CASE Available /\ restored' = entry
    <3>1. entry > 0
      BY <1>0, <2>2 DEF Available
    <3>2. ~LeftInPlace => HwOf[sys] \in hws /\ (root => MemOf[sys] \in mems)
      BY <1>4 DEF Lookup, RunStages, RunValidated, Validators
    <3>3. MemOf[sys] # NoMem
      BY <1>0, SystemFacts DEF Systems
    <3> QED
      BY <1>4, <2>2, <3>1, <3>2, <3>3 DEF Lookup, EntryValidated
  <2> QED
    BY <1>4, <2>1, <2>2 DEF Lookup
<1>5. CASE Drop \/ Save
  BY <1>5 DEF Drop, Save, RemoveEntry, RemovePrints
<1>6. CASE Measure
  <2>1. restored # 0 => measured'[restored] = measured[restored]
    BY <1>0, <1>6, Grown DEF Measure
  <2> QED
    BY <1>6, <2>1 DEF Measure
<1>7. CASE Write \/ WritePrint
  BY <1>7 DEF Write, WritePrint
<1>8. CASE Crash \/ UNCHANGED vars
  BY <1>8 DEF Crash, vars
<1> QED
  BY <1>1, <1>2, <1>3, <1>4, <1>5, <1>6, <1>7, <1>8 DEF Next

\* The invariant: types, the stages of a run, and what the validators beside a
\* cached result say.
THEOREM Invariance == Spec => []IInv
<1>1. Init => IInv
  BY InitEstablishes
<1>2. IInv /\ [Next]_vars => IInv'
  BY TypeKept, StagesKept, SavingKept, OneSystemKept, RunValidatedKept, EntryValidatedKept,
     RestoredFitsKept DEF IInv
<1> QED
  BY <1>1, <1>2, PTL DEF Spec

\* Every variable keeps its type: in particular no torn file is ever restored.
THEOREM TypeCorrect == Spec => []TypeOK
<1>1. IInv => TypeOK
  BY DEF IInv
<1> QED
  BY <1>1, Invariance, PTL

\* restore_to_output_folder gives a run a result measured on its own hardware,
\* and root one measured with its own memory, except a result that resume saved
\* beside other validators, and except from a cache found invalid that the run
\* cannot write and so cannot clear.
THEOREM CacheFits == Spec => []RestoredFits
<1>1. IInv => RestoredFits
  BY DEF IInv
<1> QED
  BY <1>1, Invariance, PTL

\* What a run as root saves, it saves beside its own validators.
THEOREM RootSaves == Spec => RootRunsValidated
<1>1. IInv /\ [Next]_vars => [(cmd = "run" /\ root) => unvalidated' = unvalidated]_vars
  <2> SUFFICES ASSUME IInv, [Next]_vars, cmd = "run", root
               PROVE  unvalidated' = unvalidated
    OBVIOUS
  <2>1. CASE Write
    <3>1. Validators
      BY <2>1 DEF Write, IInv, RunStages, RunValidated, LeftInPlace
    <3>2. MemOf[sys] # NoMem
      BY SystemFacts DEF Systems, IInv, TypeOK
    <3>3. HwOf[sys] \in hws /\ MemOf[sys] \in mems \ {NoMem}
      BY <3>1, <3>2 DEF Validators
    <3>4. OwnValidators
      BY <3>3 DEF OwnValidators, IInv, OneSystem
    <3> QED
      BY <2>1, <3>4 DEF Write
  <2>2. CASE Run \/ Resume
    BY <2>2 DEF Run, Resume, Start
  <2>3. CASE ClearStep \/ ClearEnd \/ Check \/ SaveMem \/ SaveHw
    BY <2>3 DEF ClearStep, ClearEnd, Check, SaveMem, SaveHw
  <2>4. CASE Lookup \/ Drop \/ Measure \/ Save \/ WritePrint \/ Crash
    BY <2>4 DEF Lookup, Drop, Measure, Save, RemoveEntry, RemovePrints, WritePrint, Crash
  <2>5. CASE UNCHANGED vars
    BY <2>5 DEF vars
  <2> QED
    BY <2>1, <2>2, <2>3, <2>4, <2>5 DEF Next
<1> QED
  BY <1>1, Invariance, PTL DEF Spec, RootRunsValidated
=============================================================================
