------------------------ MODULE BenchmarkRun_proofs ------------------------
(***************************************************************************)
(* Proofs about BenchmarkRun: IInv is inductive, and the properties follow *)
(* from it.  One lemma per action, one step per conjunct of IInv.          *)
(***************************************************************************)
EXTENDS BenchmarkRun, TLAPS

\* The types of the constants, in the form the steps below use them.
LEMMA ConstFacts ==
    /\ N \in Nat
    /\ MaxInterrupts \in Nat
    /\ \A k \in 1 .. N : Order[k] \in Recipe
    /\ \A b \in Recipe : \E k \in 1 .. N : Order[k] = b
    /\ \A k, l \in 1 .. N : Order[k] = Order[l] => k = l
    /\ \A b \in Recipe : Len(Local[b]) \in Nat
    /\ \A b \in Recipe : \A l \in 1 .. Len(Local[b]) : Local[b][l] \in Resource
    /\ \A b \in Recipe : Local[b] # <<>> <=> Len(Local[b]) > 0
    /\ Len(Global) \in Nat
    /\ \A k \in 1 .. Len(Global) : Global[k] \in Resource
  BY RunAssumption DEF N, Recipe

\* The two halves of TypeOK: flags, and everything else.
TypeFlags ==
    /\ busy \in BOOLEAN
    /\ unmarked \in BOOLEAN
    /\ aborted \in BOOLEAN

TypeRest ==
    /\ command \in Command
    /\ phase \in Phase
    /\ idx \in 1 .. N + 1
    /\ pos \in Nat
    /\ registered \subseteq Recipe
    /\ applied \subseteq Resource
    /\ held \subseteq Resource
    /\ skipped \subseteq Recipe
    /\ failed \subseteq Recipe
    /\ completed \subseteq Recipe
    /\ interrupts \in 0 .. MaxInterrupts
    /\ orphan \subseteq Resource
    /\ refused \subseteq Resource

LEMMA TypeHalves ==
    /\ TypeOK => TypeFlags /\ TypeRest
    /\ TypeFlags' /\ TypeRest' => TypeOK'
  BY DEF TypeOK, TypeFlags, TypeRest

\* What a jump of the main thread does, with the flag as a Boolean.
LEMMA GotoFacts ==
    ASSUME NEW p \in Phase, Goto(p)
    PROVE  /\ phase' = p
           /\ idx' = 1
           /\ pos' = 1
           /\ busy' \in BOOLEAN
           /\ busy' <=> p \in {"init", "cleanup_global"}
<1>1. phase' = p /\ idx' = 1 /\ pos' = 1
  BY DEF Goto
<1>2. busy' = (p \in {"init", "cleanup_global"})
  BY DEF Goto
<1>3. CASE p \in {"init", "cleanup_global"}
  <2>1. busy' = TRUE
    BY <1>2, <1>3
  <2> QED
    BY <1>1, <1>3, <2>1
<1>4. CASE p \notin {"init", "cleanup_global"}
  <2>0. (p \in {"init", "cleanup_global"}) = FALSE
    BY <1>4
  <2>1. busy' = FALSE
    BY <1>2, <2>0, Zenon
  <2> QED
    BY <1>1, <1>4, <2>1
<1> QED
  BY <1>3, <1>4

\* Skipping a recipe with its dependents leaves no dependent behind, because
\* nothing depends on a recipe that has dependencies.
LEMMA SkipClosed ==
    ASSUME SkippedClosed, NEW b \in Recipe, Skip(b), skipped \subseteq Recipe
    PROVE  SkippedClosed'
<1>1. SUFFICES ASSUME NEW a \in skipped', NEW c \in Dependents(a) PROVE c \in skipped'
  BY DEF SkippedClosed, Dependents
<1>2. skipped' = skipped \cup {b} \cup Dependents(b)
  BY DEF Skip
<1>3. CASE a \in skipped \cup {b}
  BY <1>1, <1>2, <1>3 DEF SkippedClosed
<1>4. CASE a \in Dependents(b)
  <2>1. a \in DependsOn[c] /\ c \in Recipe /\ b \in DependsOn[a]
    BY <1>1, <1>4 DEF Dependents
  <2>2. DependsOn[a] = {}
    BY <2>1, FlatDependencies
  <2> QED
    BY <2>1, <2>2
<1> QED
  BY <1>1, <1>2, <1>3, <1>4


LEMMA SetupRecipeKeeps ==
    ASSUME IInv, SetupRecipe PROVE IInv'
<1> USE ConstFacts DEF IInv, Cur, ResList, Res, Inside, Phase
<1>1. TypeOK'
  <2>1. TypeFlags'
    BY TypeHalves, Zenon DEF TypeFlags, SetupRecipe, Skip, Dependents, NextRecipe
  <2>2. TypeRest'
    BY DEF TypeOK, TypeRest, LoopShape, SetupRecipe, Skip, Dependents, NextRecipe
  <2> QED
    BY <2>1, <2>2, TypeHalves
<1>2. LoopShape'
  BY DEF SetupRecipe, Skip, Dependents, NextRecipe, TypeOK, LoopShape
<1>3. ListsRegistered'
  BY DEF SetupRecipe, Skip, Dependents, NextRecipe, TypeOK, LoopShape, ListsRegistered
<1>4. Tracked'
  BY DEF SetupRecipe, Skip, Dependents, NextRecipe, TypeOK, LoopShape, ListsRegistered,
         Tracked, OnGlobalList, OnLocalList
<1>5. Prepared'
  BY DEF SetupRecipe, Skip, Dependents, NextRecipe, TypeOK, LoopShape, Prepared
<1>6. PassedGone'
  BY DEF SetupRecipe, Skip, Dependents, NextRecipe, TypeOK, LoopShape, Tracked, PassedGone
<1>7. SkippedClosed'
  <2>1. CASE skipped' = skipped
    BY <2>1 DEF SkippedClosed, Dependents
  <2>2. CASE Skip(Cur)
    <3>1. Cur \in Recipe /\ skipped \subseteq Recipe
      BY DEF SetupRecipe, TypeOK
    <3> QED
      BY <2>2, <3>1, SkipClosed
  <2> QED
    BY <2>1, <2>2 DEF SetupRecipe
<1>8. OutcomesSoFar'
  BY DEF SetupRecipe, Skip, Dependents, NextRecipe, TypeOK, LoopShape, OutcomesSoFar
<1>9. OutcomeRecorded'
  BY DEF SetupRecipe, Skip, Dependents, NextRecipe, TypeOK, LoopShape, OutcomesSoFar,
         OutcomeRecorded
<1> QED
  BY <1>1, <1>2, <1>3, <1>4, <1>5, <1>6, <1>7, <1>8, <1>9

LEMMA BeginApplyKeeps ==
    ASSUME IInv, BeginApply PROVE IInv'
<1> USE ConstFacts DEF IInv, Cur, ResList, Res, Inside, Phase
<1>1. TypeOK'
  <2>1. TypeFlags'
    BY TypeHalves, Zenon DEF TypeFlags, BeginApply, NextRecipe
  <2>2. TypeRest'
    BY DEF TypeOK, TypeRest, LoopShape, BeginApply, NextRecipe
  <2> QED
    BY <2>1, <2>2, TypeHalves
<1>2. LoopShape'
  BY DEF BeginApply, NextRecipe, TypeOK, LoopShape
<1>3. ListsRegistered'
  BY DEF BeginApply, NextRecipe, TypeOK, LoopShape, ListsRegistered
<1>4. Tracked'
  BY DEF BeginApply, NextRecipe, TypeOK, LoopShape, ListsRegistered, Tracked, OnGlobalList,
         OnLocalList
<1>5. Prepared'
  BY DEF BeginApply, NextRecipe, TypeOK, LoopShape, Prepared
<1>6. PassedGone'
  BY DEF BeginApply, NextRecipe, TypeOK, LoopShape, Tracked, PassedGone
<1>7. SkippedClosed'
  BY DEF BeginApply, NextRecipe, TypeOK, SkippedClosed, Dependents
<1>8. OutcomesSoFar'
  BY DEF BeginApply, NextRecipe, TypeOK, LoopShape, OutcomesSoFar
<1>9. OutcomeRecorded'
  BY DEF BeginApply, NextRecipe, TypeOK, LoopShape, OutcomesSoFar, OutcomeRecorded
<1> QED
  BY <1>1, <1>2, <1>3, <1>4, <1>5, <1>6, <1>7, <1>8, <1>9

LEMMA SetupResourceKeeps ==
    ASSUME IInv, SetupResource PROVE IInv'
<1> USE ConstFacts DEF IInv, Cur, ResList, Res, Inside, Phase
<1>1. TypeOK'
  <2>1. TypeFlags'
    BY TypeHalves, Zenon DEF TypeFlags, SetupResource
  <2>2. TypeRest'
    BY DEF TypeOK, TypeRest, LoopShape, SetupResource
  <2> QED
    BY <2>1, <2>2, TypeHalves
<1>2. LoopShape'
  BY DEF SetupResource, TypeOK, LoopShape
<1>3. ListsRegistered'
  BY DEF SetupResource, TypeOK, LoopShape, ListsRegistered
<1>4. Tracked'
  BY DEF SetupResource, TypeOK, LoopShape, ListsRegistered, Tracked, OnGlobalList, OnLocalList
<1>5. Prepared'
  BY DEF SetupResource, TypeOK, LoopShape, Prepared
<1>6. PassedGone'
  BY DEF SetupResource, TypeOK, LoopShape, Tracked, PassedGone
<1>7. SkippedClosed'
  BY DEF SetupResource, TypeOK, SkippedClosed, Dependents
<1>8. OutcomesSoFar'
  BY DEF SetupResource, TypeOK, LoopShape, OutcomesSoFar
<1>9. OutcomeRecorded'
  BY DEF SetupResource, TypeOK, LoopShape, OutcomesSoFar, OutcomeRecorded
<1> QED
  BY <1>1, <1>2, <1>3, <1>4, <1>5, <1>6, <1>7, <1>8, <1>9

LEMMA MarkAppliedKeeps ==
    ASSUME IInv, MarkApplied PROVE IInv'
<1> USE ConstFacts DEF IInv, Cur, ResList, Res, Inside, Phase
<1>1. TypeOK'
  <2>1. TypeFlags'
    BY TypeHalves, Zenon DEF TypeFlags, MarkApplied
  <2>2. TypeRest'
    BY DEF TypeOK, TypeRest, LoopShape, MarkApplied
  <2> QED
    BY <2>1, <2>2, TypeHalves
<1>2. LoopShape'
  BY DEF MarkApplied, TypeOK, LoopShape
<1>3. ListsRegistered'
  BY DEF MarkApplied, TypeOK, LoopShape, ListsRegistered
<1>4. Tracked'
  BY DEF MarkApplied, TypeOK, LoopShape, ListsRegistered, Tracked, OnGlobalList, OnLocalList
<1>5. Prepared'
  <2>1. /\ phase \in {"init", "alloc"} /\ Res \in held
        /\ applied \subseteq held
        /\ UNCHANGED <<phase, idx, busy, held, skipped>>
        /\ applied' = applied \cup {Res} /\ pos' = pos + 1
    BY DEF MarkApplied, TypeOK, LoopShape, Prepared
  <2>2. ASSUME NEW k \in 1 .. N, NEW l \in 1 .. Len(Local[Order[k]]),
               Order[k] \notin skipped,
               \/ phase = "alloc" /\ k < idx
               \/ phase = "alloc" /\ k = idx /\ busy /\ l < pos + 1
        PROVE  Local[Order[k]][l] \in applied'
    <3>1. CASE phase = "alloc" /\ k = idx /\ busy /\ l = pos
      BY <2>1, <3>1
    <3>2. CASE ~(phase = "alloc" /\ k = idx /\ busy /\ l = pos)
      <4>1. \/ phase = "alloc" /\ k < idx
            \/ phase = "alloc" /\ k = idx /\ busy /\ l < pos
        BY <2>2, <3>2 DEF TypeOK
      <4>2. Local[Order[k]][l] \in applied
        BY <2>2, <4>1 DEF Prepared
      <4> QED
        BY <4>2, <2>1
    <3> QED
      BY <3>1, <3>2
  <2> QED
    BY <2>1, <2>2 DEF Prepared
<1>6. PassedGone'
  BY DEF MarkApplied, TypeOK, LoopShape, Tracked, PassedGone
<1>7. SkippedClosed'
  BY DEF MarkApplied, TypeOK, SkippedClosed, Dependents
<1>8. OutcomesSoFar'
  BY DEF MarkApplied, TypeOK, LoopShape, OutcomesSoFar
<1>9. OutcomeRecorded'
  BY DEF MarkApplied, TypeOK, LoopShape, OutcomesSoFar, OutcomeRecorded
<1> QED
  BY <1>1, <1>2, <1>3, <1>4, <1>5, <1>6, <1>7, <1>8, <1>9

LEMMA SetupResourceFailsKeeps ==
    ASSUME IInv, SetupResourceFails PROVE IInv'
<1> USE ConstFacts DEF IInv, Cur, ResList, Res, Inside, Phase
<1>0. phase = "init" =>
       /\ phase' = "cleanup_global"
       /\ idx' = 1 /\ pos' = 1
       /\ busy' \in BOOLEAN
       /\ busy' <=> phase' \in {"init", "cleanup_global"}
  BY GotoFacts DEF SetupResourceFails, AfterFailedSetup
<1>1. TypeOK'
  <2>1. TypeFlags'
    BY TypeHalves, Zenon DEF TypeFlags, SetupResourceFails, AfterFailedSetup, Skip,
           Dependents, NextRecipe, Goto
  <2>2. TypeRest'
    BY DEF TypeOK, TypeRest, LoopShape, SetupResourceFails, AfterFailedSetup, Skip,
           Dependents, NextRecipe, Goto
  <2> QED
    BY <2>1, <2>2, TypeHalves
<1>2. LoopShape'
  <2>1. CASE phase = "init"
    BY <1>0, <2>1 DEF SetupResourceFails, LoopShape
  <2>2. CASE phase = "alloc"
    BY <2>2 DEF SetupResourceFails, AfterFailedSetup, NextRecipe, LoopShape
  <2> QED
    BY <2>1, <2>2 DEF SetupResourceFails
<1>3. ListsRegistered'
  BY DEF SetupResourceFails, AfterFailedSetup, Skip, Dependents, NextRecipe, Goto, TypeOK,
         LoopShape, ListsRegistered
<1>4. Tracked'
  BY DEF SetupResourceFails, AfterFailedSetup, Skip, Dependents, NextRecipe, Goto, TypeOK,
         LoopShape, ListsRegistered, Tracked, OnGlobalList, OnLocalList
<1>5. Prepared'
  BY DEF SetupResourceFails, AfterFailedSetup, Skip, Dependents, NextRecipe, Goto, TypeOK,
         LoopShape, Prepared
<1>6. PassedGone'
  BY DEF SetupResourceFails, AfterFailedSetup, Skip, Dependents, NextRecipe, Goto, TypeOK,
         LoopShape, Tracked, PassedGone
<1>7. SkippedClosed'
  <2>1. CASE skipped' = skipped
    BY <2>1 DEF SkippedClosed, Dependents
  <2>2. CASE Skip(Cur) /\ phase # "init"
    <3>1. Cur \in Recipe /\ skipped \subseteq Recipe
      BY <2>2 DEF SetupResourceFails, TypeOK, LoopShape
    <3> QED
      BY <2>2, <3>1, SkipClosed
  <2> QED
    BY <2>1, <2>2 DEF SetupResourceFails, AfterFailedSetup
<1>8. OutcomesSoFar'
  BY DEF SetupResourceFails, AfterFailedSetup, Skip, Dependents, NextRecipe, Goto, TypeOK,
         LoopShape, OutcomesSoFar
<1>9. OutcomeRecorded'
  BY DEF SetupResourceFails, AfterFailedSetup, Skip, Dependents, NextRecipe, Goto, TypeOK,
         LoopShape, OutcomesSoFar, OutcomeRecorded
<1> QED
  BY <1>1, <1>2, <1>3, <1>4, <1>5, <1>6, <1>7, <1>8, <1>9

LEMMA EndApplyKeeps ==
    ASSUME IInv, EndApply PROVE IInv'
<1> USE ConstFacts DEF IInv, Cur, ResList, Res, Inside, Phase
<1>0. phase = "init" =>
       /\ phase' = "setup"
       /\ idx' = 1 /\ pos' = 1
       /\ busy' \in BOOLEAN
       /\ busy' <=> phase' \in {"init", "cleanup_global"}
  BY GotoFacts DEF EndApply
<1>1. TypeOK'
  <2>1. TypeFlags'
    <3>1. CASE phase = "init"
      BY <1>0, <3>1, TypeHalves, Zenon DEF EndApply, TypeFlags
    <3>2. CASE phase # "init"
      BY <3>2, TypeHalves, Zenon DEF EndApply, NextRecipe, TypeFlags
    <3> QED
      BY <3>1, <3>2
  <2>2. TypeRest'
    BY DEF TypeOK, TypeRest, LoopShape, EndApply, NextRecipe, Goto
  <2> QED
    BY <2>1, <2>2, TypeHalves
<1>2. LoopShape'
  BY DEF EndApply, NextRecipe, Goto, TypeOK, LoopShape
<1>3. ListsRegistered'
  BY DEF EndApply, NextRecipe, Goto, TypeOK, LoopShape, ListsRegistered
<1>4. Tracked'
  BY DEF EndApply, NextRecipe, Goto, TypeOK, LoopShape, ListsRegistered, Tracked,
         OnGlobalList, OnLocalList
<1>5. Prepared'
  <2>1. CASE phase = "init"
    BY <1>0, <2>1 DEF EndApply, Prepared
  <2>2. CASE phase = "alloc"
    BY <2>2 DEF EndApply, NextRecipe, TypeOK, LoopShape, Prepared
  <2> QED
    BY <2>1, <2>2 DEF EndApply
<1>6. PassedGone'
  BY DEF EndApply, NextRecipe, Goto, TypeOK, LoopShape, Tracked, PassedGone
<1>7. SkippedClosed'
  BY DEF EndApply, NextRecipe, Goto, TypeOK, SkippedClosed, Dependents
<1>8. OutcomesSoFar'
  BY DEF EndApply, NextRecipe, Goto, TypeOK, LoopShape, OutcomesSoFar
<1>9. OutcomeRecorded'
  BY DEF EndApply, NextRecipe, Goto, TypeOK, LoopShape, OutcomesSoFar, OutcomeRecorded
<1> QED
  BY <1>1, <1>2, <1>3, <1>4, <1>5, <1>6, <1>7, <1>8, <1>9

LEMMA BeginRunKeeps ==
    ASSUME IInv, BeginRun PROVE IInv'
<1> USE ConstFacts DEF IInv, Cur, ResList, Res, Inside, Phase
<1>1. TypeOK'
  <2>1. TypeFlags'
    BY TypeHalves, Zenon DEF TypeFlags, BeginRun, NextRecipe
  <2>2. TypeRest'
    BY DEF TypeOK, TypeRest, LoopShape, BeginRun, NextRecipe
  <2> QED
    BY <2>1, <2>2, TypeHalves
<1>2. LoopShape'
  BY DEF BeginRun, NextRecipe, TypeOK, LoopShape
<1>3. ListsRegistered'
  BY DEF BeginRun, NextRecipe, TypeOK, LoopShape, ListsRegistered
<1>4. Tracked'
  BY DEF BeginRun, NextRecipe, TypeOK, LoopShape, ListsRegistered, Tracked, OnGlobalList,
         OnLocalList
<1>5. Prepared'
  BY DEF BeginRun, NextRecipe, TypeOK, LoopShape, Prepared
<1>6. PassedGone'
  BY DEF BeginRun, NextRecipe, TypeOK, LoopShape, Tracked, PassedGone
<1>7. SkippedClosed'
  BY DEF BeginRun, NextRecipe, TypeOK, SkippedClosed, Dependents
<1>8. OutcomesSoFar'
  BY DEF BeginRun, NextRecipe, TypeOK, LoopShape, OutcomesSoFar
<1>9. OutcomeRecorded'
  BY DEF BeginRun, NextRecipe, TypeOK, LoopShape, OutcomesSoFar, OutcomeRecorded
<1> QED
  BY <1>1, <1>2, <1>3, <1>4, <1>5, <1>6, <1>7, <1>8, <1>9

LEMMA FinishRunKeeps ==
    ASSUME IInv, FinishRun PROVE IInv'
<1> USE ConstFacts DEF IInv, Cur, ResList, Res, Inside, Phase
<1>1. TypeOK'
  <2>1. TypeFlags'
    BY TypeHalves, Zenon DEF TypeFlags, FinishRun, NextRecipe
  <2>2. TypeRest'
    BY DEF TypeOK, TypeRest, LoopShape, FinishRun, NextRecipe
  <2> QED
    BY <2>1, <2>2, TypeHalves
<1>2. LoopShape'
  BY DEF FinishRun, NextRecipe, TypeOK, LoopShape
<1>3. ListsRegistered'
  BY DEF FinishRun, NextRecipe, TypeOK, LoopShape, ListsRegistered
<1>4. Tracked'
  BY DEF FinishRun, NextRecipe, TypeOK, LoopShape, ListsRegistered, Tracked, OnGlobalList,
         OnLocalList
<1>5. Prepared'
  BY DEF FinishRun, NextRecipe, TypeOK, LoopShape, Prepared
<1>6. PassedGone'
  BY DEF FinishRun, NextRecipe, TypeOK, LoopShape, Tracked, PassedGone
<1>7. SkippedClosed'
  BY DEF FinishRun, NextRecipe, TypeOK, SkippedClosed, Dependents
<1>8. OutcomesSoFar'
  BY DEF FinishRun, NextRecipe, TypeOK, LoopShape, OutcomesSoFar
<1>9. OutcomeRecorded'
  BY DEF FinishRun, NextRecipe, TypeOK, LoopShape, OutcomesSoFar, OutcomeRecorded
<1> QED
  BY <1>1, <1>2, <1>3, <1>4, <1>5, <1>6, <1>7, <1>8, <1>9

LEMMA AbortRunKeeps ==
    ASSUME IInv, AbortRun PROVE IInv'
<1> USE ConstFacts DEF IInv, Cur, ResList, Res, Inside, Phase
<1>0. /\ phase' \in {"teardown", "cleanup_global"}
      /\ idx' = 1 /\ pos' = 1
      /\ busy' \in BOOLEAN
      /\ busy' <=> phase' \in {"init", "cleanup_global"}
  BY GotoFacts DEF AbortRun, AfterEscape
<1>1. TypeOK'
  <2>1. TypeFlags'
    BY <1>0, TypeHalves, Zenon DEF AbortRun, TypeFlags
  <2>2. TypeRest'
    BY DEF TypeOK, TypeRest, LoopShape, AbortRun, Goto, AfterEscape
  <2> QED
    BY <2>1, <2>2, TypeHalves
<1>2. LoopShape'
  BY <1>0 DEF AbortRun, TypeOK, LoopShape
<1>3. ListsRegistered'
  BY DEF AbortRun, Goto, AfterEscape, TypeOK, LoopShape, ListsRegistered
<1>4. Tracked'
  BY DEF AbortRun, Goto, AfterEscape, TypeOK, LoopShape, ListsRegistered, Tracked,
         OnGlobalList, OnLocalList
<1>5. Prepared'
  BY DEF AbortRun, Goto, AfterEscape, TypeOK, LoopShape, Prepared
<1>6. PassedGone'
  BY DEF AbortRun, Goto, AfterEscape, TypeOK, LoopShape, Tracked, PassedGone
<1>7. SkippedClosed'
  BY DEF AbortRun, Goto, AfterEscape, TypeOK, SkippedClosed, Dependents
<1>8. OutcomesSoFar'
  BY DEF AbortRun, Goto, AfterEscape, TypeOK, LoopShape, OutcomesSoFar
<1>9. OutcomeRecorded'
  BY DEF AbortRun, Goto, AfterEscape, TypeOK, LoopShape, OutcomesSoFar, OutcomeRecorded
<1> QED
  BY <1>1, <1>2, <1>3, <1>4, <1>5, <1>6, <1>7, <1>8, <1>9

LEMMA BeginRestoreKeeps ==
    ASSUME IInv, BeginRestore PROVE IInv'
<1> USE ConstFacts DEF IInv, Cur, ResList, Res, Inside, Phase
<1>1. TypeOK'
  <2>1. TypeFlags'
    BY TypeHalves, Zenon DEF TypeFlags, BeginRestore, NextRecipe, FirstToRestore
  <2>2. TypeRest'
    BY DEF TypeOK, TypeRest, LoopShape, BeginRestore, NextRecipe, FirstToRestore
  <2> QED
    BY <2>1, <2>2, TypeHalves
<1>2. LoopShape'
  BY DEF BeginRestore, NextRecipe, FirstToRestore, TypeOK, LoopShape
<1>3. ListsRegistered'
  BY DEF BeginRestore, NextRecipe, FirstToRestore, TypeOK, LoopShape, ListsRegistered
<1>4. Tracked'
  BY DEF BeginRestore, NextRecipe, FirstToRestore, TypeOK, LoopShape, ListsRegistered,
         Tracked, OnGlobalList, OnLocalList
<1>5. Prepared'
  BY DEF BeginRestore, NextRecipe, FirstToRestore, TypeOK, LoopShape, Prepared
<1>6. PassedGone'
  BY DEF BeginRestore, NextRecipe, FirstToRestore, TypeOK, LoopShape, Tracked, PassedGone
<1>7. SkippedClosed'
  BY DEF BeginRestore, NextRecipe, FirstToRestore, TypeOK, SkippedClosed, Dependents
<1>8. OutcomesSoFar'
  BY DEF BeginRestore, NextRecipe, FirstToRestore, TypeOK, LoopShape, OutcomesSoFar
<1>9. OutcomeRecorded'
  BY DEF BeginRestore, NextRecipe, FirstToRestore, TypeOK, LoopShape, OutcomesSoFar,
         OutcomeRecorded
<1> QED
  BY <1>1, <1>2, <1>3, <1>4, <1>5, <1>6, <1>7, <1>8, <1>9

LEMMA RestoreResourceKeeps ==
    ASSUME IInv, RestoreResource PROVE IInv'
<1> USE ConstFacts DEF IInv, Cur, ResList, Res, Inside, Phase
<1>1. TypeOK'
  <2>1. TypeFlags'
    BY TypeHalves, Zenon DEF TypeFlags, RestoreResource, NextToRestore
  <2>2. TypeRest'
    BY DEF TypeOK, TypeRest, LoopShape, RestoreResource, NextToRestore
  <2> QED
    BY <2>1, <2>2, TypeHalves
<1>2. LoopShape'
  BY DEF RestoreResource, NextToRestore, TypeOK, LoopShape
<1>3. ListsRegistered'
  BY DEF RestoreResource, NextToRestore, TypeOK, LoopShape, ListsRegistered
<1>4. Tracked'
  BY DEF RestoreResource, NextToRestore, TypeOK, LoopShape, ListsRegistered, Tracked,
         OnGlobalList, OnLocalList
<1>5. Prepared'
  BY DEF RestoreResource, NextToRestore, TypeOK, LoopShape, Prepared
<1>6. PassedGone'
  BY DEF RestoreResource, NextToRestore, TypeOK, LoopShape, Tracked, PassedGone
<1>7. SkippedClosed'
  BY DEF RestoreResource, NextToRestore, TypeOK, SkippedClosed, Dependents
<1>8. OutcomesSoFar'
  BY DEF RestoreResource, NextToRestore, TypeOK, LoopShape, OutcomesSoFar
<1>9. OutcomeRecorded'
  BY DEF RestoreResource, NextToRestore, TypeOK, LoopShape, OutcomesSoFar, OutcomeRecorded
<1> QED
  BY <1>1, <1>2, <1>3, <1>4, <1>5, <1>6, <1>7, <1>8, <1>9

LEMMA RestoreResourceFailsKeeps ==
    ASSUME IInv, RestoreResourceFails PROVE IInv'
<1> USE ConstFacts DEF IInv, Cur, ResList, Res, Inside, Phase
<1>0. ~(phase = "teardown" /\ Res \in held) =>
       /\ phase' = IF phase = "teardown" THEN "cleanup_global" ELSE "cut"
       /\ idx' = 1 /\ pos' = 1
       /\ busy' \in BOOLEAN
       /\ busy' <=> phase' \in {"init", "cleanup_global"}
  BY GotoFacts DEF RestoreResourceFails, AfterFailedTeardown
<1>1. TypeOK'
  <2>1. TypeFlags'
    <3>1. CASE ~(phase = "teardown" /\ Res \in held)
      BY <1>0, <3>1, TypeHalves, Zenon DEF RestoreResourceFails, AfterFailedTeardown, TypeFlags
    <3>2. CASE phase = "teardown" /\ Res \in held
      BY <3>2, TypeHalves, Zenon DEF RestoreResourceFails, AfterFailedTeardown, NextRecipe,
             TypeFlags
    <3> QED
      BY <3>1, <3>2
  <2>2. TypeRest'
    BY DEF TypeOK, TypeRest, LoopShape, RestoreResourceFails, AfterFailedTeardown,
           NextRecipe, Goto
  <2> QED
    BY <2>1, <2>2, TypeHalves
<1>2. LoopShape'
  <2>1. CASE ~(phase = "teardown" /\ Res \in held)
    BY <1>0, <2>1 DEF RestoreResourceFails, TypeOK, LoopShape
  <2>2. CASE phase = "teardown" /\ Res \in held
    BY <2>2 DEF RestoreResourceFails, AfterFailedTeardown, NextRecipe, TypeOK, LoopShape
  <2> QED
    BY <2>1, <2>2
<1>3. ListsRegistered'
  BY DEF RestoreResourceFails, AfterFailedTeardown, NextRecipe, Goto, TypeOK, LoopShape,
         ListsRegistered
<1>4. Tracked'
  BY DEF RestoreResourceFails, AfterFailedTeardown, NextRecipe, Goto, TypeOK, LoopShape,
         ListsRegistered, Tracked, OnGlobalList, OnLocalList
<1>5. Prepared'
  BY DEF RestoreResourceFails, AfterFailedTeardown, NextRecipe, Goto, TypeOK, LoopShape,
         Prepared
<1>6. PassedGone'
  BY DEF RestoreResourceFails, AfterFailedTeardown, NextRecipe, Goto, TypeOK, LoopShape,
         Tracked, PassedGone
<1>7. SkippedClosed'
  BY DEF RestoreResourceFails, AfterFailedTeardown, NextRecipe, Goto, TypeOK, SkippedClosed,
         Dependents
<1>8. OutcomesSoFar'
  BY DEF RestoreResourceFails, AfterFailedTeardown, NextRecipe, Goto, TypeOK, LoopShape,
         OutcomesSoFar
<1>9. OutcomeRecorded'
  BY DEF RestoreResourceFails, AfterFailedTeardown, NextRecipe, Goto, TypeOK, LoopShape,
         OutcomesSoFar, OutcomeRecorded
<1> QED
  BY <1>1, <1>2, <1>3, <1>4, <1>5, <1>6, <1>7, <1>8, <1>9

LEMMA EndRestoreKeeps ==
    ASSUME IInv, EndRestore PROVE IInv'
<1> USE ConstFacts DEF IInv, Cur, ResList, Res, Inside, Phase
<1>1. TypeOK'
  <2>1. TypeFlags'
    BY TypeHalves, Zenon DEF TypeFlags, EndRestore, NextRecipe
  <2>2. TypeRest'
    BY DEF TypeOK, TypeRest, LoopShape, EndRestore, NextRecipe
  <2> QED
    BY <2>1, <2>2, TypeHalves
<1>2. LoopShape'
  BY DEF EndRestore, NextRecipe, TypeOK, LoopShape
<1>3. ListsRegistered'
  BY DEF EndRestore, NextRecipe, TypeOK, LoopShape, ListsRegistered
<1>4. Tracked'
  BY DEF EndRestore, NextRecipe, TypeOK, LoopShape, ListsRegistered, Tracked, OnGlobalList,
         OnLocalList
<1>5. Prepared'
  BY DEF EndRestore, NextRecipe, TypeOK, LoopShape, Prepared
<1>6. PassedGone'
  BY DEF EndRestore, NextRecipe, TypeOK, LoopShape, Tracked, PassedGone
<1>7. SkippedClosed'
  BY DEF EndRestore, NextRecipe, TypeOK, SkippedClosed, Dependents
<1>8. OutcomesSoFar'
  BY DEF EndRestore, NextRecipe, TypeOK, LoopShape, OutcomesSoFar
<1>9. OutcomeRecorded'
  BY DEF EndRestore, NextRecipe, TypeOK, LoopShape, OutcomesSoFar, OutcomeRecorded
<1> QED
  BY <1>1, <1>2, <1>3, <1>4, <1>5, <1>6, <1>7, <1>8, <1>9

LEMMA EndRestoreGlobalKeeps ==
    ASSUME IInv, EndRestoreGlobal PROVE IInv'
<1> USE ConstFacts DEF IInv, Cur, ResList, Res, Inside, Phase
<1>0. /\ phase' = "cleanup"
      /\ idx' = 1 /\ pos' = 1
      /\ busy' \in BOOLEAN
      /\ busy' <=> phase' \in {"init", "cleanup_global"}
  BY GotoFacts DEF EndRestoreGlobal
<1>1. TypeOK'
  <2>1. TypeFlags'
    BY <1>0, TypeHalves, Zenon DEF EndRestoreGlobal, TypeFlags
  <2>2. TypeRest'
    BY DEF TypeOK, TypeRest, LoopShape, EndRestoreGlobal, Goto
  <2> QED
    BY <2>1, <2>2, TypeHalves
<1>2. LoopShape'
  BY DEF EndRestoreGlobal, Goto, TypeOK, LoopShape
<1>3. ListsRegistered'
  BY DEF EndRestoreGlobal, Goto, TypeOK, LoopShape, ListsRegistered
<1>4. Tracked'
  BY DEF EndRestoreGlobal, Goto, TypeOK, LoopShape, ListsRegistered, Tracked, OnGlobalList,
         OnLocalList
<1>5. Prepared'
  BY DEF EndRestoreGlobal, Goto, TypeOK, LoopShape, Prepared
<1>6. PassedGone'
  BY DEF EndRestoreGlobal, Goto, TypeOK, LoopShape, Tracked, PassedGone
<1>7. SkippedClosed'
  BY DEF EndRestoreGlobal, Goto, TypeOK, SkippedClosed, Dependents
<1>8. OutcomesSoFar'
  BY DEF EndRestoreGlobal, Goto, TypeOK, LoopShape, OutcomesSoFar
<1>9. OutcomeRecorded'
  BY DEF EndRestoreGlobal, Goto, TypeOK, LoopShape, OutcomesSoFar, OutcomeRecorded
<1> QED
  BY <1>1, <1>2, <1>3, <1>4, <1>5, <1>6, <1>7, <1>8, <1>9

LEMMA EndLoopKeeps ==
    ASSUME IInv, EndLoop PROVE IInv'
<1> USE ConstFacts DEF IInv, Cur, ResList, Res, Inside, Phase
<1>0. /\ phase' = NextPhase(phase)
      /\ idx' = 1 /\ pos' = 1
      /\ busy' \in BOOLEAN
      /\ busy' <=> phase' \in {"init", "cleanup_global"}
  BY GotoFacts DEF EndLoop, NextPhase
<1>1. TypeOK'
  <2>1. TypeFlags'
    BY <1>0, TypeHalves, Zenon DEF EndLoop, TypeFlags
  <2>2. TypeRest'
    BY DEF TypeOK, TypeRest, LoopShape, EndLoop, Goto, NextPhase
  <2> QED
    BY <2>1, <2>2, TypeHalves
<1>2. LoopShape'
  BY <1>0 DEF EndLoop, NextPhase, TypeOK, LoopShape
<1>3. ListsRegistered'
  BY DEF EndLoop, Goto, NextPhase, TypeOK, LoopShape, ListsRegistered
<1>4. Tracked'
  BY DEF EndLoop, Goto, NextPhase, TypeOK, LoopShape, ListsRegistered, Tracked,
         OnGlobalList, OnLocalList
<1>5. Prepared'
  BY DEF EndLoop, Goto, NextPhase, TypeOK, LoopShape, Prepared
<1>6. PassedGone'
  BY DEF EndLoop, Goto, NextPhase, TypeOK, LoopShape, Tracked, PassedGone
<1>7. SkippedClosed'
  BY DEF EndLoop, Goto, NextPhase, TypeOK, SkippedClosed, Dependents
<1>8. OutcomesSoFar'
  BY DEF EndLoop, Goto, NextPhase, TypeOK, LoopShape, OutcomesSoFar
<1>9. OutcomeRecorded'
  BY DEF EndLoop, Goto, NextPhase, TypeOK, LoopShape, OutcomesSoFar, OutcomeRecorded
<1> QED
  BY <1>1, <1>2, <1>3, <1>4, <1>5, <1>6, <1>7, <1>8, <1>9

LEMMA InterruptSwallowedKeeps ==
    ASSUME IInv, InterruptSwallowed PROVE IInv'
<1> USE ConstFacts DEF IInv, Cur, ResList, Res, Inside, Phase
<1>1. TypeOK'
  <2>1. TypeFlags'
    BY TypeHalves, Zenon DEF InterruptSwallowed, NextRecipe, TypeFlags
  <2>2. TypeRest'
    BY DEF TypeOK, TypeRest, LoopShape, InterruptSwallowed, Swallowed, NextRecipe
  <2> QED
    BY <2>1, <2>2, TypeHalves
<1>2. LoopShape'
  BY DEF InterruptSwallowed, Swallowed, NextRecipe, TypeOK, LoopShape
<1>3. ListsRegistered'
  BY DEF InterruptSwallowed, Swallowed, NextRecipe, TypeOK, LoopShape, ListsRegistered
<1>4. Tracked'
  BY DEF InterruptSwallowed, Swallowed, NextRecipe, TypeOK, LoopShape, Tracked,
         OnGlobalList, OnLocalList
<1>5. Prepared'
  BY DEF InterruptSwallowed, Swallowed, NextRecipe, TypeOK, LoopShape, Prepared
<1>6. PassedGone'
  BY DEF InterruptSwallowed, Swallowed, NextRecipe, TypeOK, LoopShape, PassedGone
<1>7. SkippedClosed'
  BY DEF InterruptSwallowed, Swallowed, NextRecipe, TypeOK, SkippedClosed, Dependents
<1>8. OutcomesSoFar'
  BY DEF InterruptSwallowed, Swallowed, NextRecipe, TypeOK, LoopShape, OutcomesSoFar
<1>9. OutcomeRecorded'
  BY DEF InterruptSwallowed, Swallowed, NextRecipe, TypeOK, LoopShape, OutcomesSoFar,
         OutcomeRecorded
<1> QED
  BY <1>1, <1>2, <1>3, <1>4, <1>5, <1>6, <1>7, <1>8, <1>9

LEMMA InterruptKeeps ==
    ASSUME IInv, Interrupt PROVE IInv'
<1> USE ConstFacts DEF IInv, Cur, ResList, Res, Inside, Phase
<1>0. /\ phase' \in {"teardown", "cleanup_global", "cut"}
      /\ idx' = 1 /\ pos' = 1
      /\ busy' \in BOOLEAN
      /\ busy' <=> phase' \in {"init", "cleanup_global"}
  BY GotoFacts DEF Interrupt, AfterEscape, Over, TypeOK
<1>1. TypeOK'
  <2>1. TypeFlags'
    BY <1>0, TypeHalves, Zenon DEF Interrupt, TypeFlags
  <2>2. TypeRest'
    BY DEF TypeOK, TypeRest, LoopShape, Interrupt, Goto, AfterEscape, Over
  <2> QED
    BY <2>1, <2>2, TypeHalves
<1>2. LoopShape'
  BY <1>0 DEF Interrupt, TypeOK, LoopShape
<1>3. ListsRegistered'
  BY DEF Interrupt, Goto, AfterEscape, Over, TypeOK, LoopShape, ListsRegistered
<1>4. Tracked'
  <2>1. SUFFICES ASSUME phase' # "cut", NEW r \in held' \ orphan'
                 PROVE  r \in applied' /\ (OnGlobalList(r)' \/ OnLocalList(r)')
    BY DEF Tracked
  <2>2. phase \in {"init", "setup", "alloc", "execute", "teardown"}
    BY <2>1, <1>0 DEF Interrupt, Goto, AfterEscape, Over, TypeOK
  <2>3. r \in held \ orphan /\ ~(unmarked /\ r = Res)
    BY <2>1 DEF Interrupt, TypeOK
  <2>4. r \in applied /\ (OnGlobalList(r) \/ OnLocalList(r))
    BY <2>2, <2>3 DEF Tracked
  <2>5. applied' = applied /\ registered' = registered
    BY DEF Interrupt
  <2>6. CASE OnGlobalList(r)
    BY <1>0, <2>1, <2>2, <2>4, <2>5, <2>6 DEF OnGlobalList
  <2>7. CASE OnLocalList(r)
    BY <1>0, <2>1, <2>2, <2>4, <2>5, <2>7 DEF OnLocalList
  <2> QED
    BY <2>4, <2>5, <2>6, <2>7
<1>5. Prepared'
  BY DEF Interrupt, Goto, AfterEscape, Over, TypeOK, LoopShape, Prepared
<1>6. PassedGone'
  BY DEF Interrupt, Goto, AfterEscape, Over, TypeOK, LoopShape, Tracked, PassedGone
<1>7. SkippedClosed'
  BY DEF Interrupt, Goto, AfterEscape, Over, TypeOK, SkippedClosed, Dependents
<1>8. OutcomesSoFar'
  BY DEF Interrupt, Goto, AfterEscape, Over, TypeOK, LoopShape, OutcomesSoFar
<1>9. OutcomeRecorded'
  BY DEF Interrupt, Goto, AfterEscape, Over, TypeOK, LoopShape, OutcomesSoFar, OutcomeRecorded
<1> QED
  BY <1>1, <1>2, <1>3, <1>4, <1>5, <1>6, <1>7, <1>8, <1>9

LEMMA StutterKeeps ==
    ASSUME IInv, UNCHANGED vars PROVE IInv'
  BY DEF IInv, vars, TypeOK, LoopShape, ListsRegistered, Tracked, OnGlobalList, OnLocalList,
         Prepared, PassedGone, SkippedClosed, OutcomesSoFar, OutcomeRecorded, Cur, ResList,
         Res, Inside, Dependents

LEMMA InitEstablishes == Init => IInv
<1> SUFFICES ASSUME Init PROVE IInv
  OBVIOUS
<1> USE ConstFacts DEF Init
<1>1. TypeOK
  <2>1. TypeFlags
    BY Zenon DEF TypeFlags
  <2>2. TypeRest
    BY DEF TypeRest, Phase
  <2> QED
    BY <2>1, <2>2 DEF TypeOK, TypeFlags, TypeRest
<1>2. LoopShape /\ ListsRegistered
  BY DEF LoopShape, ListsRegistered
<1>3. Tracked /\ Prepared /\ PassedGone
  BY DEF Tracked, Prepared, PassedGone
<1>4. SkippedClosed /\ OutcomesSoFar /\ OutcomeRecorded
  BY DEF SkippedClosed, OutcomesSoFar, OutcomeRecorded
<1> QED
  BY <1>1, <1>2, <1>3, <1>4 DEF IInv

\* IInv is an inductive invariant of the specification.
THEOREM Invariance == Spec => []IInv
<1>1. Init => IInv
  BY InitEstablishes
<1>2. IInv /\ [Next]_vars => IInv'
  <2> SUFFICES ASSUME IInv, [Next]_vars PROVE IInv'
    OBVIOUS
  <2> QED
    BY SetupRecipeKeeps, BeginApplyKeeps, SetupResourceKeeps, MarkAppliedKeeps,
       SetupResourceFailsKeeps, EndApplyKeeps, BeginRunKeeps, FinishRunKeeps, AbortRunKeeps,
       BeginRestoreKeeps, RestoreResourceKeeps, RestoreResourceFailsKeeps, EndRestoreKeeps,
       EndRestoreGlobalKeeps, EndLoopKeeps, InterruptKeeps, InterruptSwallowedKeeps,
       StutterKeeps
    DEF Next, Step, Done
<1> QED
  BY <1>1, <1>2, PTL DEF Spec

\* The main thread's state keeps its types, for any recipes and resources.
THEOREM TypeCorrect == Spec => []TypeOK
<1>1. IInv => TypeOK
  BY DEF IInv
<1> QED
  BY <1>1, Invariance, PTL

\* benchmark.run() always finds the recipe's resources in place and no
\* dependency skipped.
THEOREM Preparedness == Spec => []RunsPrepared
<1>1. IInv => RunsPrepared
  <2> SUFFICES ASSUME IInv, phase = "execute", busy
               PROVE  ResourcesOf(Cur) \subseteq held /\ DependsOn[Cur] \cap skipped = {}
    BY DEF RunsPrepared
  <2>1. idx \in 1 .. N /\ Cur \notin skipped /\ Cur \in Recipe
    BY ConstFacts DEF IInv, TypeOK, LoopShape, Cur
  <2>2. ResourcesOf(Cur) \subseteq held
    BY <2>1 DEF IInv, Prepared, ResourcesOf, Cur
  <2>3. ASSUME NEW d \in DependsOn[Cur] \cap skipped PROVE FALSE
    <3>1. Cur \in Dependents(d)
      BY <2>1, <2>3, FlatDependencies DEF Dependents
    <3> QED
      BY <2>1, <2>3, <3>1 DEF IInv, SkippedClosed
  <2> QED
    BY <2>2, <2>3
<1> QED
  BY <1>1, Invariance, PTL

\* An undisturbed run reports every recipe exactly once.
THEOREM Outcomes == Spec => []OutcomeRecorded
<1>1. IInv => OutcomeRecorded
  BY DEF IInv
<1> QED
  BY <1>1, Invariance, PTL

\* An exit handler that gets to its end leaves nothing but what an incomplete
\* setup() left.
THEOREM CleanAtExit == Spec => []CleanExit
<1>1. IInv => CleanExit
  BY DEF IInv, CleanExit, Tracked, LoopShape, OnGlobalList, OnLocalList
<1> QED
  BY <1>1, Invariance, PTL

\* Local lists are restored backwards in every step of every run.
THEOREM ReverseOrder == Spec => RestoredInReverse
<1> DEFINE Gone == \A b \in Recipe : \A k \in 1 .. Len(Local[b]) :
              (/\ phase \in {"teardown", "cleanup"}
               /\ busy
               /\ b = Cur
               /\ Local[b][k] \in held \ held')
                  => \A l \in k + 1 .. Len(Local[b]) : Local[b][l] \notin held' \ orphan
<1>1. IInv /\ [Next]_vars => Gone
  <2> SUFFICES ASSUME IInv, [Next]_vars, NEW b \in Recipe, NEW k \in 1 .. Len(Local[b]),
                      phase \in {"teardown", "cleanup"}, busy, b = Cur,
                      Local[b][k] \in held \ held',
                      NEW l \in k + 1 .. Len(Local[b])
               PROVE  Local[b][l] \notin held' \ orphan
    OBVIOUS
  <2>1. RestoreResource
    BY DEF Next, Step, Done, vars, SetupRecipe, BeginApply, SetupResource, MarkApplied,
           SetupResourceFails, EndApply, BeginRun, FinishRun, AbortRun, BeginRestore,
           RestoreResourceFails, EndRestore, EndRestoreGlobal, EndLoop, InterruptSwallowed,
           Interrupt
  <2>2. Local[b][k] = Local[b][pos] /\ pos \in 1 .. Len(Local[b]) /\ held' = held \ {Local[b][pos]}
    BY <2>1 DEF RestoreResource, Inside, Res, ResList
  <2>3. k = pos
    BY <2>2, RunAssumption
  <2>4. Local[b][l] \notin held \ orphan
    BY <2>3, ConstFacts DEF IInv, PassedGone
  <2> QED
    BY <2>2, <2>4
<1>2. IInv /\ [Next]_vars => [Gone]_vars
  BY <1>1
<1> QED
  BY <1>2, Invariance, PTL DEF Spec, RestoredInReverse
=============================================================================
