------------------------- MODULE ResultStore_proofs -------------------------
(***************************************************************************)
(* What resume takes from the output folder is whole, what a run has saved *)
(* it does not measure again, and dependent recipes use the sizes of the   *)
(* latency-sweep they are reported with, for any recipes and any number of *)
(* runs, crashes and failures.                                             *)
(*                                                                         *)
(* The argument: .hash is written last and names one measurement           *)
(* (HashOfOne), so files that agree with it are all of that measurement.   *)
(* By then every file of the recipe holds it (Saving, OnlyOwnFiles), so    *)
(* what a run has saved is valid (SavedValid) and resume leaves it out     *)
(* (NotAgain); a new run has a number no recipe was saved under (Fresh).   *)
(* As latency-sweep has the lowest priority number, a run is either before *)
(* its save, with nothing measured that depends on it (SweepOpen), or the  *)
(* sizes never change again (SweepSettled); a kill cannot lead back.       *)
(***************************************************************************)
EXTENDS ResultStore, TLAPS

LEMMA Constants ==
    /\ Rank \in [Recipe -> Nat]
    /\ Base \in Recipe
    /\ Info \notin Recipe
    /\ MaxRuns \in Nat /\ MaxCrashes \in Nat /\ MaxFails \in Nat
  BY StoreAssumption

\* A sequence over a set is one over a larger set.
LEMMA Wider ==
    ASSUME NEW S, NEW T, S \subseteq T, NEW q \in Seq(S)
    PROVE  q \in Seq(T)
  OBVIOUS

\* What is left to write, file by file.
LEMMA RemainingFacts ==
    ASSUME NEW r, NEW l \in Remaining(r), l # <<>>
    PROVE  /\ Tail(l) \in Remaining(r)
           /\ Len(l) \in Nat /\ Len(l) > 0 /\ Len(l) <= Len(Writes(r))
           /\ Len(Tail(l)) = Len(l) - 1
           /\ Len(Writes(r)) = IF r \in WithSummary THEN 4 ELSE 3
           /\ Head(l) \in FilesOf(r) \cup {"hash"}
           /\ Len(l) = Len(Writes(r)) => Head(l) = "data"
           /\ Len(l) = Len(Writes(r)) - 1 => Head(l) = "metadata"
           /\ (r \in WithSummary /\ Len(l) = 2) => Head(l) = "summary"
           /\ Len(l) = 1 <=> Head(l) = "hash"
<1> USE DEF Remaining, Writes, FilesOf, File
<1>1. CASE r \in WithSummary
  <2>1. CASE l = <<"hash">>
    BY <1>1, <2>1
  <2>2. CASE l = <<"summary", "hash">>
    BY <1>1, <2>2
  <2>3. CASE l = <<"metadata", "summary", "hash">>
    BY <1>1, <2>3
  <2>4. CASE l = <<"data", "metadata", "summary", "hash">>
    BY <1>1, <2>4
  <2> QED
    BY <1>1, <2>1, <2>2, <2>3, <2>4
<1>2. CASE r \notin WithSummary
  <2>1. CASE l = <<"hash">>
    BY <1>2, <2>1
  <2>2. CASE l = <<"metadata", "hash">>
    BY <1>2, <2>2
  <2>3. CASE l = <<"data", "metadata", "hash">>
    BY <1>2, <2>3
  <2> QED
    BY <1>2, <2>1, <2>2, <2>3
<1> QED
  BY <1>1, <1>2

LEMMA WritesFacts ==
    ASSUME NEW r
    PROVE  /\ Writes(r) \in Remaining(r)
           /\ Writes(r) \in Seq(File \cup {"hash"})
           /\ Writes(r) # <<>>
           /\ Len(Writes(r)) \in Nat /\ Len(Writes(r)) > 2
<1>1. Writes(r) \in Remaining(r)
  BY DEF Remaining
<1>2. CASE r \in WithSummary
  <2>1. Writes(r) = <<"data", "metadata", "summary", "hash">>
    BY <1>2 DEF Writes
  <2> QED
    BY <1>1, <2>1 DEF File
<1>3. CASE r \notin WithSummary
  <2>1. Writes(r) = <<"data", "metadata", "hash">>
    BY <1>3 DEF Writes
  <2> QED
    BY <1>1, <2>1 DEF File
<1> QED
  BY <1>2, <1>3

LEMMA HashFacts ==
    ASSUME NEW r, NEW n \in Int
    PROVE  /\ HashOf(r, n) \in [File -> {0, n}]
           /\ HashOf(r, n)["data"] = n
  BY DEF HashOf, File, FilesOf, Absent

LEMMA InitEstablishes == Init => IInv
<1> SUFFICES ASSUME Init PROVE IInv
  OBVIOUS
<1> USE Constants DEF Init, Absent, Torn, Nothing, NoManifest, Saved, File
<1>1. made \in Seq([run : 0 .. runs, basis : 0 .. Len(made)]) /\ Len(made) = 0
  OBVIOUS
<1>2. complete \in BOOLEAN
  OBVIOUS
<1>3. left \in Seq(File \cup {"hash"})
  OBVIOUS
<1>4. TypeOK
  BY <1>1, <1>2, <1>3 DEF TypeOK, Content
<1>5. HashOfOne /\ OnlyOwnFiles
  BY DEF HashOfOne, OnlyOwnFiles
<1>6. Saving /\ Fresh /\ SavedValid /\ NotAgain
  BY DEF Saving, Fresh, SavedValid, NotAgain
<1> QED
  BY <1>4, <1>5, <1>6 DEF IInv

LEMMA FlagKept == ASSUME TypeOK, [Next]_vars PROVE complete' \in BOOLEAN
<1>0. complete \in BOOLEAN
  BY DEF TypeOK
<1>1. CASE Run \/ InfoFails \/ Resume \/ Crash
  BY <1>0, <1>1, Zenon DEF Run, InfoFails, Resume, Crash
<1>2. CASE Report
  BY <1>2, Zenon DEF Report
<1>3. CASE SaveStep \/ SaveEnd \/ Restore \/ Header \/ Execute
  BY <1>0, <1>3, Zenon DEF SaveStep, SaveEnd, Restore, Header, Execute
<1>4. CASE UNCHANGED vars
  BY <1>0, <1>4, Zenon DEF vars, proc
<1> QED
  BY <1>1, <1>2, <1>3, <1>4 DEF Next, Proceed

\* A new measurement leaves the bounds of the old ones in place.
LEMMA MeasuredTyped ==
    ASSUME TypeOK, NEW run \in 0 .. runs', NEW basis \in 0 .. Len(made),
           runs' \in Nat, runs <= runs', Measured(run, basis)
    PROVE  /\ made' \in Seq([run : 0 .. runs', basis : 0 .. Len(made')])
           /\ Len(made) \in Nat
           /\ Len(made') = Len(made) + 1
<1> DEFINE S == [run : 0 .. runs, basis : 0 .. Len(made)]
           T == [run : 0 .. runs', basis : 0 .. Len(made) + 1]
           e == [run |-> run, basis |-> basis]
<1>1. made \in Seq(S) /\ Len(made) \in Nat
  BY DEF TypeOK
<1>2. S \subseteq T /\ e \in T
  BY <1>1 DEF TypeOK
<1>3. made \in Seq(T)
  <2> HIDE DEF S, T
  <2> QED
    BY <1>1, <1>2, Wider
<1>4. Append(made, e) \in Seq(T) /\ Len(Append(made, e)) = Len(made) + 1
  <2> HIDE DEF T, e
  <2> QED
    BY <1>2, <1>3
<1>5. made' = Append(made, e)
  BY DEF Measured
<1> QED
  BY <1>1, <1>4, <1>5

LEMMA BasisTyped == ASSUME TypeOK, NEW r PROVE Basis(r) \in 0 .. Len(made)
  BY DEF TypeOK, Basis, Content, Absent, Torn

\* The numbers only grow.
LEMMA Growing ==
    ASSUME TypeOK, [Next]_vars
    PROVE  /\ runs' \in 0 .. MaxRuns /\ runs <= runs'
           /\ crashes' \in 0 .. MaxCrashes
           /\ fails' \in 0 .. MaxFails
           /\ made' \in Seq([run : 0 .. runs', basis : 0 .. Len(made')])
           /\ Len(made) \in Nat /\ Len(made') \in Nat /\ Len(made) <= Len(made')
<1>0. /\ runs \in 0 .. MaxRuns /\ crashes \in 0 .. MaxCrashes /\ fails \in 0 .. MaxFails
      /\ made \in Seq([run : 0 .. runs, basis : 0 .. Len(made)]) /\ Len(made) \in Nat
      /\ manifest.run \in 0 .. runs
  BY DEF TypeOK
<1> USE <1>0, Constants
<1>1. CASE Run
  <2>1. /\ runs' = runs + 1 /\ runs < MaxRuns /\ crashes' = crashes /\ fails' = fails
        /\ Measured(runs + 1, Absent)
    BY <1>1, Zenon DEF Run
  <2>2. runs + 1 \in 0 .. runs' /\ Absent \in 0 .. Len(made) /\ runs' \in Nat /\ runs <= runs'
    BY <2>1 DEF Absent
  <2>3. /\ made' \in Seq([run : 0 .. runs', basis : 0 .. Len(made')])
        /\ Len(made') = Len(made) + 1
    BY <2>1, <2>2, MeasuredTyped, Zenon
  <2> QED
    BY <2>1, <2>2, <2>3
<1>2. CASE InfoFails
  <2>1. /\ runs' = runs + 1 /\ runs < MaxRuns /\ crashes' = crashes
        /\ fails' = fails + 1 /\ fails < MaxFails /\ made' = made
    BY <1>2, Zenon DEF InfoFails
  <2> DEFINE S == [run : 0 .. runs, basis : 0 .. Len(made)]
             T == [run : 0 .. runs', basis : 0 .. Len(made)]
  <2>2. made \in Seq(S) /\ S \subseteq T
    BY <2>1
  <2>3. made \in Seq(T)
    <3> HIDE DEF S, T
    <3> QED
      BY <2>2, Wider
  <2> QED
    BY <2>1, <2>3
<1>3. CASE Restore
  <2>1. runs' = runs /\ crashes' = crashes /\ fails' = fails
    BY <1>3, Zenon DEF Restore, bounds
  <2>2. CASE made' = made
    BY <2>1, <2>2
  <2>3. CASE Measured(Absent, Absent)
    <3>1. Absent \in 0 .. runs' /\ Absent \in 0 .. Len(made) /\ runs' \in Nat /\ runs <= runs'
      BY <2>1 DEF Absent
    <3>2. /\ made' \in Seq([run : 0 .. runs', basis : 0 .. Len(made')])
          /\ Len(made') = Len(made) + 1
      BY <2>3, <3>1, MeasuredTyped, Zenon
    <3> QED
      BY <2>1, <3>1, <3>2
  <2> QED
    BY <1>3, <2>2, <2>3, Zenon DEF Restore
<1>4. CASE Execute
  <2>1. runs' = runs /\ crashes' = crashes
    BY <1>4, Zenon DEF Execute
  <2>2. PICK r \in Recipe : Complete(r) \/ Fail(r)
    BY <1>4, Zenon DEF Execute
  <2>3. CASE Complete(r)
    <3>1. fails' = fails /\ Measured(manifest.run, Basis(r))
      BY <2>3, Zenon DEF Complete
    <3>2. manifest.run \in 0 .. runs' /\ Basis(r) \in 0 .. Len(made) /\ runs' \in Nat /\ runs <= runs'
      BY <2>1, BasisTyped
    <3>3. /\ made' \in Seq([run : 0 .. runs', basis : 0 .. Len(made')])
          /\ Len(made') = Len(made) + 1
      BY <3>1, <3>2, MeasuredTyped, Zenon
    <3> QED
      BY <2>1, <3>1, <3>2, <3>3
  <2>4. CASE Fail(r)
    BY <2>1, <2>4 DEF Fail
  <2> QED
    BY <2>2, <2>3, <2>4
<1>5. CASE SaveStep \/ SaveEnd \/ Header \/ Report \/ Resume
  <2>1. runs' = runs /\ crashes' = crashes /\ fails' = fails /\ made' = made
    BY <1>5, Zenon DEF SaveStep, SaveEnd, Header, Report, Resume, bounds
  <2> QED
    BY <2>1
<1>6. CASE Crash
  BY <1>6 DEF Crash
<1>7. CASE UNCHANGED vars
  <2>1. runs' = runs /\ crashes' = crashes /\ fails' = fails /\ made' = made
    BY <1>7, Zenon DEF vars, bounds
  <2> QED
    BY <2>1
<1> QED
  BY <1>1, <1>2, <1>3, <1>4, <1>5, <1>6, <1>7 DEF Next, Proceed

Control ==
    /\ pc \in {"off", "save", "restore", "header", "exec"}
    /\ cur \in Saved
    /\ left \in Seq(File \cup {"hash"})
    /\ todo \subseteq Recipe
    /\ saved \in [Recipe -> 0 .. runs]

Contents ==
    /\ results \in [Recipe -> 0 .. Len(made)]
    /\ file \in [Saved -> [File -> Content]]
    /\ hash \in [Saved -> [File -> 0 .. Len(made)]]
    /\ sizes \in Content
    /\ manifest \in [run : 0 .. runs, requested : SUBSET Recipe]

LEMMA ControlKept == ASSUME IInv, [Next]_vars PROVE Control'
<1>0. Control /\ runs \in 0 .. MaxRuns /\ manifest.run \in 0 .. runs
      /\ manifest.requested \subseteq Recipe
  BY DEF IInv, TypeOK, Control
<1>g. runs' \in 0 .. MaxRuns /\ runs <= runs'
  BY Growing DEF IInv
<1> USE <1>0, <1>g, Constants DEF Control, Saved
<1>1. CASE Run
  <2>1. left' \in Seq(File \cup {"hash"})
    BY <1>1, WritesFacts DEF Run
  <2>2. /\ pc' = "save" /\ cur' = Info
        /\ todo' = todo /\ saved' = saved
    BY <1>1, Zenon DEF Run
  <2> QED
    BY <2>1, <2>2
<1>2. CASE InfoFails
  BY <1>2 DEF InfoFails
<1>3. CASE SaveStep
  <2>1. left \in Seq(File \cup {"hash"}) /\ left # <<>>
    BY <1>3 DEF SaveStep
  <2>2. left' \in Seq(File \cup {"hash"})
    BY <1>3, <2>1 DEF SaveStep
  <2>3. pc' = pc /\ cur' = cur /\ todo' = todo /\ runs' = runs
    BY <1>3, Zenon DEF SaveStep, bounds
  <2>4. saved' \in [Recipe -> 0 .. runs]
    BY <1>3 DEF SaveStep
  <2> QED
    BY <2>2, <2>3, <2>4
<1>4. CASE SaveEnd
  BY <1>4 DEF SaveEnd, bounds
<1>5. CASE Restore
  BY <1>5 DEF Restore, bounds
<1>6. CASE Header
  BY <1>6 DEF Header, bounds
<1>7. CASE Execute
  <2>1. PICK r \in Recipe : todo' = todo \ {r} /\ (Complete(r) \/ Fail(r))
    BY <1>7, Zenon DEF Execute
  <2>2. saved' = saved /\ runs' = runs
    BY <1>7, Zenon DEF Execute
  <2>3. CASE Complete(r)
    BY <2>1, <2>2, <2>3, WritesFacts DEF Complete
  <2>4. CASE Fail(r)
    BY <2>1, <2>2, <2>4 DEF Fail
  <2> QED
    BY <2>1, <2>3, <2>4
<1>8. CASE Report
  BY <1>8 DEF Report, bounds
<1>9. CASE Resume
  BY <1>9 DEF Resume, TodoOnResume, bounds
<1>10. CASE Crash
  BY <1>10 DEF Crash
<1>11. CASE UNCHANGED vars
  BY <1>11 DEF vars, proc, bounds
<1> QED
  BY <1>1, <1>2, <1>3, <1>4, <1>5, <1>6, <1>7, <1>8, <1>9, <1>10, <1>11 DEF Next, Proceed

LEMMA ContentsKept == ASSUME IInv, [Next]_vars PROVE Contents'
<1>0. Contents /\ todo \subseteq Recipe /\ cur \in Saved
  BY DEF IInv, TypeOK, Contents
<1>g. /\ runs \in Nat /\ runs' \in Nat /\ runs <= runs'
      /\ Len(made) \in Nat /\ Len(made') \in Nat /\ Len(made) <= Len(made')
  BY Growing, Constants DEF IInv, TypeOK
<1>w. /\ Content \subseteq Content'
      /\ 0 .. Len(made) \subseteq 0 .. Len(made')
      /\ 0 .. Len(made) \subseteq Content
      /\ 0 .. runs \subseteq 0 .. runs'
      /\ Torn \in Content'
      /\ Absent \in 0 .. Len(made')
      /\ Absent \in Content'
      /\ NoManifest \in [run : 0 .. runs', requested : SUBSET Recipe]
  BY <1>g DEF Content, Torn, Absent, NoManifest
<1> DEFINE Wide ==
      /\ results \in [Recipe -> 0 .. Len(made')]
      /\ file \in [Saved -> [File -> Content']]
      /\ hash \in [Saved -> [File -> 0 .. Len(made')]]
      /\ sizes \in Content'
      /\ manifest \in [run : 0 .. runs', requested : SUBSET Recipe]
<1>v. Wide
  BY <1>0, <1>w, <1>g DEF Contents
<1> DEFINE Goal ==
      /\ results' \in [Recipe -> 0 .. Len(made')]
      /\ file' \in [Saved -> [File -> Content']]
      /\ hash' \in [Saved -> [File -> 0 .. Len(made')]]
      /\ sizes' \in Content'
      /\ manifest' \in [run : 0 .. runs', requested : SUBSET Recipe]
<1> SUFFICES Goal
  BY DEF Contents
<1>1. CASE Run
  BY <1>1, <1>v, Zenon DEF Run, folder
<1>2. CASE InfoFails
  BY <1>2, <1>v, <1>g DEF InfoFails
<1>3. CASE SaveStep
  <2>1. PICK n \in Nat : n = Len(made) /\ n \in 0 .. Len(made') /\ n \in Content'
    BY <1>g DEF Content, Torn
  <2>2. results' = results /\ sizes' = sizes /\ manifest' = manifest /\ left # <<>> /\ pc = "save"
    BY <1>3, Zenon DEF SaveStep
  <2>3. left \in Remaining(cur)
    BY <2>2 DEF IInv, Saving
  <2>4. CASE Head(left) = "hash"
    <3>1. hash' = [hash EXCEPT ![cur] = HashOf(cur, n)] /\ file' = file
      BY <1>3, <2>1, <2>4 DEF SaveStep
    <3>2. HashOf(cur, n) \in [File -> 0 .. Len(made')]
      BY <2>1, <1>g, HashFacts
    <3> QED
      BY <1>0, <1>v, <2>2, <3>1, <3>2
  <2>5. CASE Head(left) # "hash"
    <3>1. file' = [file EXCEPT ![cur][Head(left)] = n] /\ hash' = hash
      BY <1>3, <2>1, <2>5 DEF SaveStep
    <3>2. Head(left) \in File
      BY <2>2, <2>3, <2>5, RemainingFacts DEF FilesOf
    <3>3. file' \in [Saved -> [File -> Content']]
      BY <1>0, <1>v, <2>1, <3>1, <3>2
    <3> QED
      BY <1>v, <2>2, <3>1, <3>3
  <2> QED
    BY <2>4, <2>5
<1>4. CASE SaveEnd
  BY <1>4, <1>v, Zenon DEF SaveEnd, folder
<1>5. CASE Restore
  <2>1. results' = results /\ file' = file /\ hash' = hash /\ manifest' = manifest
    BY <1>5, Zenon DEF Restore
  <2>2. CASE sizes' = sizes
    BY <1>v, <2>1, <2>2
  <2>3. CASE sizes' = Len(made) + 1 /\ Measured(Absent, Absent)
    <3>1. Len(made') = Len(made) + 1
      BY <2>3 DEF Measured, IInv, TypeOK
    <3> QED
      BY <1>v, <1>g, <2>1, <2>3, <3>1 DEF Content, Torn
  <2> QED
    BY <1>5, <2>2, <2>3, Zenon DEF Restore
<1>6. CASE Header
  <2>1. /\ results' = [r \in Recipe |-> Absent] /\ manifest' = [run |-> runs, requested |-> todo]
        /\ file' = file /\ hash' = hash /\ sizes' = sizes
    BY <1>6, Zenon DEF Header
  <2> QED
    BY <1>0, <1>v, <1>w, <1>g, <2>1
<1>7. CASE Execute
  <2>1. file' = file /\ hash' = hash /\ manifest' = manifest
    BY <1>7, Zenon DEF Execute
  <2>2. PICK r \in Recipe : Complete(r) \/ Fail(r)
    BY <1>7, Zenon DEF Execute
  <2>3. CASE Complete(r)
    <3>1. Len(made') = Len(made) + 1
      BY <2>3 DEF Complete, Measured, IInv, TypeOK
    <3>2. /\ results' = [results EXCEPT ![r] = Len(made) + 1]
          /\ sizes' = IF r = Base THEN Len(made) + 1 ELSE sizes
      BY <2>3, Zenon DEF Complete
    <3>3. Len(made) + 1 \in 0 .. Len(made') /\ Len(made) + 1 \in Content'
      BY <3>1, <1>g DEF Content, Torn
    <3> QED
      BY <1>v, <2>1, <3>2, <3>3
  <2>4. CASE Fail(r)
    BY <1>v, <1>w, <2>1, <2>4 DEF Fail
  <2> QED
    BY <2>2, <2>3, <2>4
<1>8. CASE Report
  BY <1>8, <1>v, Zenon DEF Report, folder
<1>9. CASE Resume
  <2>1. file' = file /\ hash' = hash /\ sizes' = sizes /\ manifest' = manifest /\ made' = made
    BY <1>9, Zenon DEF Resume, folder
  <2>2. results' = [r \in Recipe |-> IF r \in manifest.requested /\ HasValid(r)
                                    THEN file[r]["data"] ELSE Absent]
    BY <1>9, Zenon DEF Resume
  <2>3. ASSUME NEW r \in Recipe, HasValid(r) PROVE file[r]["data"] \in 0 .. Len(made')
    BY <1>v, <2>3 DEF HasValid, Saved, File
  <2>4. results' \in [Recipe -> 0 .. Len(made')]
    BY <2>2, <2>3, <1>w
  <2> QED
    BY <1>v, <2>1, <2>4
<1>10. CASE Crash
  <2>1. results' = results
    BY <1>10, Zenon DEF Crash
  <2>2. CASE UNCHANGED folder
    BY <1>v, <2>1, <2>2, Zenon DEF folder
  <2>3. CASE /\ pc = "save" /\ left # <<>> /\ Head(left) # "hash"
             /\ file' = [file EXCEPT ![cur][Head(left)] = Torn]
             /\ UNCHANGED <<hash, sizes, manifest>>
    <3>1. Head(left) \in File
      BY <2>3, RemainingFacts DEF FilesOf, IInv, Saving
    <3>2. file' \in [Saved -> [File -> Content']]
      BY <1>0, <1>v, <1>w, <2>3, <3>1
    <3> QED
      BY <1>v, <2>1, <2>3, <3>2
  <2>4. CASE /\ hash' = [hash EXCEPT ![cur] = Nothing]
             /\ UNCHANGED <<file, sizes, manifest>>
    BY <1>v, <1>0, <1>w, <2>1, <2>4 DEF Nothing
  <2>5. CASE manifest' = NoManifest /\ UNCHANGED <<file, hash, sizes>>
    BY <1>v, <1>w, <2>1, <2>5
  <2>6. CASE sizes' = Torn /\ UNCHANGED <<file, hash, manifest>>
    BY <1>v, <1>w, <2>1, <2>6
  <2> QED
    BY <1>10, <2>2, <2>3, <2>4, <2>5, <2>6, Zenon DEF Crash
<1>11. CASE UNCHANGED vars
  BY <1>11, <1>v, Zenon DEF vars, proc, folder
<1> QED
  BY <1>1, <1>2, <1>3, <1>4, <1>5, <1>6, <1>7, <1>8, <1>9, <1>10, <1>11 DEF Next, Proceed

LEMMA TypeKept == ASSUME IInv, [Next]_vars PROVE TypeOK'
<1>1. TypeOK
  BY DEF IInv
<1>2. Control' /\ Contents' /\ complete' \in BOOLEAN
  BY <1>1, ControlKept, ContentsKept, FlagKept
<1>3. /\ runs' \in 0 .. MaxRuns /\ crashes' \in 0 .. MaxCrashes /\ fails' \in 0 .. MaxFails
      /\ made' \in Seq([run : 0 .. runs', basis : 0 .. Len(made')])
  BY <1>1, Growing
<1> QED
  BY <1>2, <1>3, Zenon DEF TypeOK, Control, Contents

\* A save writes a file of the recipe being saved, or its .hash.
LEMMA FilesStep ==
    ASSUME IInv, [Next]_vars
    PROVE  \/ UNCHANGED <<file, hash>>
           \/ /\ pc = "save" /\ left # <<>> /\ left \in Remaining(cur)
              /\ \/ /\ Head(left) \in FilesOf(cur) /\ Head(left) # "hash"
                    /\ \E n \in Int : file' = [file EXCEPT ![cur][Head(left)] = n]
                    /\ hash' = hash
                 \/ /\ Head(left) = "hash" /\ file' = file
                    /\ hash' \in {[hash EXCEPT ![cur] = HashOf(cur, Len(made))],
                                  [hash EXCEPT ![cur] = Nothing]}
<1>0. Len(made) \in Nat
  BY DEF IInv, TypeOK
<1>1. ASSUME pc = "save", left # <<>>
      PROVE  left \in Remaining(cur) /\ (Head(left) # "hash" => Head(left) \in FilesOf(cur))
  BY <1>1, RemainingFacts DEF IInv, Saving
<1>2. CASE SaveStep
  <2>1. pc = "save" /\ left # <<>>
    BY <1>2 DEF SaveStep
  <2>2. CASE Head(left) = "hash"
    BY <1>1, <1>2, <2>1, <2>2 DEF SaveStep
  <2>3. CASE Head(left) # "hash"
    <3>1. file' = [file EXCEPT ![cur][Head(left)] = Len(made)] /\ hash' = hash
      BY <1>2, <2>3 DEF SaveStep
    <3>2. \E n \in Int : file' = [file EXCEPT ![cur][Head(left)] = n]
      <4>1. Len(made) \in Int
        BY <1>0
      <4> QED
        BY <3>1, <4>1, Zenon
    <3> QED
      BY <1>1, <2>1, <2>3, <3>1, <3>2, Zenon
  <2> QED
    BY <2>2, <2>3
<1>3. CASE Crash
  <2>1. CASE UNCHANGED <<file, hash>>
    BY <2>1
  <2>2. CASE /\ pc = "save" /\ left # <<>> /\ Head(left) # "hash"
             /\ file' = [file EXCEPT ![cur][Head(left)] = Torn] /\ hash' = hash
    <3>1. Torn \in Int
      BY DEF Torn
    <3>2. \E n \in Int : file' = [file EXCEPT ![cur][Head(left)] = n]
      BY <2>2, <3>1, Zenon
    <3> QED
      BY <1>1, <2>2, <3>2, Zenon
  <2>3. CASE /\ pc = "save" /\ left # <<>> /\ Head(left) = "hash"
             /\ hash' = [hash EXCEPT ![cur] = Nothing] /\ file' = file
    BY <1>1, <2>3
  <2> QED
    BY <1>3, <2>1, <2>2, <2>3, Zenon DEF Crash, folder
<1>4. CASE Run \/ InfoFails \/ SaveEnd \/ Restore \/ Header \/ Execute \/ Report \/ Resume
  BY <1>4, Zenon DEF Run, InfoFails, SaveEnd, Restore, Header, Execute, Report, Resume, folder
<1>5. CASE UNCHANGED vars
  BY <1>5, Zenon DEF vars, folder
<1> QED
  BY <1>2, <1>3, <1>4, <1>5 DEF Next, Proceed

LEMMA HashKept == ASSUME IInv, [Next]_vars PROVE HashOfOne' /\ OnlyOwnFiles'
<1>0. /\ HashOfOne /\ OnlyOwnFiles /\ cur \in Saved
      /\ file \in [Saved -> [File -> Content]]
      /\ hash \in [Saved -> [File -> 0 .. Len(made)]]
  BY DEF IInv, TypeOK
<1>g. Len(made) \in Nat /\ Len(made') \in Nat /\ Len(made) <= Len(made')
  BY Growing DEF IInv
<1>n. pc = "save" => Len(made) > 0
  BY DEF IInv, Saving
<1>1. CASE UNCHANGED <<file, hash>>
  BY <1>0, <1>g, <1>1 DEF HashOfOne, OnlyOwnFiles
<1>2. CASE /\ left # <<>> /\ left \in Remaining(cur)
           /\ Head(left) \in FilesOf(cur)
           /\ \E n \in Int : file' = [file EXCEPT ![cur][Head(left)] = n]
           /\ hash' = hash
  <2>1. HashOfOne'
    BY <1>0, <1>g, <1>2 DEF HashOfOne
  <2>2. PICK n \in Int : file' = [file EXCEPT ![cur][Head(left)] = n]
    BY <1>2
  <2>3. cur \notin WithSummary => Head(left) # "summary"
    BY <1>2 DEF FilesOf
  <2>4. OnlyOwnFiles'
    BY <1>0, <2>2, <2>3 DEF OnlyOwnFiles, File
  <2> QED
    BY <2>1, <2>4
<1>3. CASE /\ pc = "save" /\ file' = file
           /\ hash' \in {[hash EXCEPT ![cur] = HashOf(cur, Len(made))],
                         [hash EXCEPT ![cur] = Nothing]}
  <2>1. OnlyOwnFiles'
    BY <1>0, <1>3 DEF OnlyOwnFiles
  <2>2. Len(made) \in 1 .. Len(made')
    BY <1>g, <1>n, <1>3
  <2>3. ASSUME NEW r \in Saved
        PROVE  hash'[r] = Nothing \/ \E n \in 1 .. Len(made') : hash'[r] = HashOf(r, n)
    <3>1. CASE r = cur
      BY <1>0, <1>3, <2>2, <3>1
    <3>2. CASE r # cur
      <4>1. hash'[r] = hash[r]
        BY <1>0, <1>3, <3>2
      <4>2. hash[r] = Nothing \/ \E n \in 1 .. Len(made) : hash[r] = HashOf(r, n)
        BY <1>0 DEF HashOfOne
      <4> QED
        BY <1>g, <4>1, <4>2
    <3> QED
      BY <3>1, <3>2
  <2>4. HashOfOne'
    BY <2>3 DEF HashOfOne, Nothing, HashOf, FilesOf
  <2> QED
    BY <2>1, <2>4
<1> QED
  BY <1>1, <1>2, <1>3, FilesStep

LEMMA SavingKept == ASSUME IInv, [Next]_vars PROVE Saving'
<1>0. /\ Saving /\ cur \in Saved
      /\ file \in [Saved -> [File -> Content]]
      /\ made \in Seq([run : 0 .. runs, basis : 0 .. Len(made)])
      /\ Len(made) \in Nat
  BY DEF IInv, TypeOK
<1>1. ASSUME NEW r, pc' = "save", cur' = r, left' = Writes(r), Len(made') > 0 PROVE Saving'
  BY <1>1, WritesFacts DEF Saving, Writes, Remaining
<1>2. CASE Run
  <2>1. pc' = "save" /\ cur' = Info /\ left' = Writes(Info)
    BY <1>2, Zenon DEF Run
  <2>2. Len(made') > 0
    BY <1>0, <1>2 DEF Run, Measured
  <2> QED
    BY <1>1, <2>1, <2>2
<1>3. CASE Execute
  <2>1. PICK r \in Recipe : Complete(r) \/ Fail(r)
    BY <1>3, Zenon DEF Execute
  <2>2. CASE Complete(r)
    <3>1. pc' = "save" /\ cur' = r /\ left' = Writes(r)
      BY <2>2, Zenon DEF Complete
    <3>2. Len(made') > 0
      BY <1>0, <2>2 DEF Complete, Measured
    <3> QED
      BY <1>1, <3>1, <3>2
  <2>3. CASE Fail(r)
    <3>1. pc = "exec" /\ pc' = pc
      BY <1>3, <2>3, Zenon DEF Execute, Fail
    <3> QED
      BY <3>1 DEF Saving
  <2> QED
    BY <2>1, <2>2, <2>3
<1>4. CASE SaveStep
  <2>1. /\ pc = "save" /\ left # <<>> /\ left' = Tail(left) /\ cur' = cur /\ made' = made
    BY <1>4, Zenon DEF SaveStep
  <2>2. /\ left \in Remaining(cur)
        /\ Len(made) > 0
        /\ Len(left) < Len(Writes(cur)) => file[cur]["data"] = Len(made)
        /\ Len(left) < Len(Writes(cur)) - 1 => file[cur]["metadata"] = Len(made)
        /\ (Len(left) < 2 /\ cur \in WithSummary) => file[cur]["summary"] = Len(made)
    BY <1>0, <2>1 DEF Saving
  <2>3. /\ Tail(left) \in Remaining(cur)
        /\ Len(left) \in Nat /\ Len(left) > 0 /\ Len(left) <= Len(Writes(cur))
        /\ Len(Tail(left)) = Len(left) - 1
        /\ Len(Writes(cur)) = IF cur \in WithSummary THEN 4 ELSE 3
        /\ Head(left) \in FilesOf(cur) \cup {"hash"}
        /\ Len(left) = Len(Writes(cur)) => Head(left) = "data"
        /\ Len(left) = Len(Writes(cur)) - 1 => Head(left) = "metadata"
        /\ (cur \in WithSummary /\ Len(left) = 2) => Head(left) = "summary"
        /\ Len(left) = 1 <=> Head(left) = "hash"
    BY <2>1, <2>2, RemainingFacts
  <2> DEFINE n == Len(made)
  <2>4. ASSUME NEW f \in File
        PROVE  file'[cur][f] = IF f = Head(left) THEN n ELSE file[cur][f]
    <3>1. CASE Head(left) = "hash"
      <4>1. file' = file /\ "hash" \notin File
        BY <1>4, <3>1 DEF SaveStep, File
      <4> QED
        BY <3>1, <4>1
    <3>2. CASE Head(left) # "hash"
      <4>1. file' = [file EXCEPT ![cur][Head(left)] = n]
        BY <1>4, <3>2 DEF SaveStep
      <4>2. Head(left) \in File
        BY <2>3, <3>2 DEF FilesOf
      <4> QED
        BY <1>0, <4>1, <4>2
    <3> QED
      BY <3>1, <3>2
  <2>5. "data" \in File /\ "metadata" \in File /\ "summary" \in File
    BY DEF File
  <2>6. Len(Tail(left)) < Len(Writes(cur)) => file'[cur]["data"] = n
    <3>1. file'[cur]["data"] = IF "data" = Head(left) THEN n ELSE file[cur]["data"]
      BY <2>4, <2>5
    <3>2. Len(left) = Len(Writes(cur)) \/ Len(left) < Len(Writes(cur))
      BY <2>3
    <3> QED
      BY <2>2, <2>3, <3>1, <3>2
  <2>7. Len(Tail(left)) < Len(Writes(cur)) - 1 => file'[cur]["metadata"] = n
    BY <2>2, <2>3, <2>4, <2>5
  <2>8. (Len(Tail(left)) < 2 /\ cur \in WithSummary) => file'[cur]["summary"] = n
    <3>1. file'[cur]["summary"] = IF "summary" = Head(left) THEN n ELSE file[cur]["summary"]
      BY <2>4, <2>5
    <3>2. Len(Tail(left)) < 2 => (Len(left) = 2 \/ Len(left) < 2)
      <4>1. \A a, b \in Int : (b = a - 1 /\ b < 2) => (a = 2 \/ a < 2)
        OBVIOUS
      <4>2. Len(left) \in Int /\ Len(Tail(left)) \in Int /\ Len(Tail(left)) = Len(left) - 1
        BY <2>3
      <4> QED
        BY <4>1, <4>2, Zenon
    <3> QED
      BY <2>2, <2>3, <3>1, <3>2
  <2> QED
    BY <2>1, <2>2, <2>3, <2>6, <2>7, <2>8 DEF Saving, Remaining, Writes
<1>5. CASE InfoFails \/ SaveEnd \/ Restore \/ Header \/ Report \/ Resume \/ Crash
  <2>1. pc' # "save"
    BY <1>5 DEF InfoFails, SaveEnd, Restore, Header, Report, Resume, Crash
  <2> QED
    BY <2>1 DEF Saving
<1>6. CASE UNCHANGED vars
  <2>1. pc' = pc /\ left' = left /\ cur' = cur /\ made' = made /\ file' = file
    BY <1>6, Zenon DEF vars, proc, folder
  <2> QED
    BY <1>0, <2>1 DEF Saving, Remaining, Writes
<1> QED
  BY <1>2, <1>3, <1>4, <1>5, <1>6 DEF Next, Proceed

LEMMA FreshKept == ASSUME IInv, [Next]_vars PROVE Fresh'
<1>0. /\ Fresh /\ runs \in Nat /\ saved \in [Recipe -> 0 .. runs] /\ cur \in Saved
  BY DEF IInv, TypeOK
<1>1. CASE Run
  <2>1. runs' = runs + 1 /\ saved' = saved
    BY <1>1, Zenon DEF Run
  <2> QED
    BY <1>0, <2>1 DEF Fresh
<1>2. CASE SaveStep
  <2>1. /\ pc' = pc /\ cur' = cur /\ runs' = runs /\ pc = "save"
        /\ cur = Info => saved' = saved
    <3>1. /\ pc' = pc /\ cur' = cur /\ runs' = runs /\ pc = "save"
      BY <1>2, Zenon DEF SaveStep, bounds
    <3>2. saved' = saved \/ saved' = [r \in Recipe |-> IF r = cur THEN manifest.run ELSE saved[r]]
      BY <1>2 DEF SaveStep
    <3> QED
      BY <1>0, <3>1, <3>2, Constants
  <2> QED
    BY <1>0, <2>1 DEF Fresh
<1>3. CASE SaveEnd \/ Restore
  <2>1. runs' = runs /\ saved' = saved
    BY <1>3, Zenon DEF SaveEnd, Restore, bounds
  <2>2. pc' # "exec" => (pc = "restore" \/ (pc = "save" /\ cur = Info))
    BY <1>3 DEF SaveEnd, Restore
  <2>3. pc' \in {"restore", "header", "exec"}
    BY <1>3 DEF SaveEnd, Restore
  <2> QED
    BY <1>0, <2>1, <2>2, <2>3 DEF Fresh
<1>4. CASE Execute
  <2>1. PICK r \in Recipe : Complete(r) \/ Fail(r)
    BY <1>4, Zenon DEF Execute
  <2>2. (pc' = "save" /\ cur' = r) \/ pc' = "exec"
    BY <1>4, <2>1 DEF Execute, Complete, Fail
  <2> QED
    BY <2>1, <2>2, Constants DEF Fresh
<1>5. CASE InfoFails \/ Header \/ Report \/ Resume \/ Crash
  <2>1. pc' \in {"off", "exec"}
    BY <1>5 DEF InfoFails, Header, Report, Resume, Crash
  <2> QED
    BY <2>1 DEF Fresh
<1>6. CASE UNCHANGED vars
  <2>1. pc' = pc /\ cur' = cur /\ runs' = runs /\ saved' = saved
    BY <1>6, Zenon DEF vars, proc, bounds
  <2> QED
    BY <1>0, <2>1 DEF Fresh
<1> QED
  BY <1>1, <1>2, <1>3, <1>4, <1>5, <1>6 DEF Next, Proceed

\* When .hash is written every file of the recipe holds the measurement.
LEMMA WholeAtHash ==
    ASSUME IInv, pc = "save", left # <<>>, Head(left) = "hash"
    PROVE  file[cur] = HashOf(cur, Len(made)) /\ Len(made) > 0
<1>1. /\ left \in Remaining(cur) /\ Len(made) > 0
      /\ Len(left) < Len(Writes(cur)) => file[cur]["data"] = Len(made)
      /\ Len(left) < Len(Writes(cur)) - 1 => file[cur]["metadata"] = Len(made)
      /\ (Len(left) < 2 /\ cur \in WithSummary) => file[cur]["summary"] = Len(made)
  BY DEF IInv, Saving
<1>2. Len(left) = 1 /\ Len(Writes(cur)) \in {3, 4}
  BY <1>1, RemainingFacts
<1>s. Len(left) < Len(Writes(cur)) /\ Len(left) < Len(Writes(cur)) - 1 /\ Len(left) < 2
  <2>1. \A a, b \in Int : (a = 1 /\ b \in {3, 4}) => (a < b /\ a < b - 1 /\ a < 2)
    OBVIOUS
  <2>2. Len(left) \in Int /\ Len(Writes(cur)) \in Int
    BY <1>2
  <2> QED
    BY <1>2, <2>1, <2>2, Zenon
<1>3. /\ file[cur]["data"] = Len(made) /\ file[cur]["metadata"] = Len(made)
      /\ cur \in WithSummary => file[cur]["summary"] = Len(made)
  BY <1>1, <1>s, Zenon
<1>4. cur \in Saved /\ (cur \notin WithSummary => file[cur]["summary"] = Absent)
  BY DEF IInv, TypeOK, OnlyOwnFiles
<1>5. file[cur] \in [File -> Content]
  BY <1>4 DEF IInv, TypeOK
<1> QED
  BY <1>1, <1>3, <1>4, <1>5 DEF HashOf, FilesOf, File

\* Files change only under a recipe the run of the manifest has not saved.
LEMMA SavedValidKept == ASSUME IInv, [Next]_vars PROVE SavedValid'
<1>0. /\ SavedValid /\ NotAgain /\ Fresh /\ cur \in Saved
      /\ runs \in Nat /\ manifest.run \in 0 .. runs
      /\ saved \in [Recipe -> 0 .. runs]
      /\ file \in [Saved -> [File -> Content]]
      /\ hash \in [Saved -> [File -> 0 .. Len(made)]]
      /\ Len(made) \in Nat
  BY DEF IInv, TypeOK
<1>1. CASE SaveStep
  <2>1. /\ pc = "save" /\ left # <<>> /\ manifest' = manifest
    BY <1>1, Zenon DEF SaveStep
  <2>2. SUFFICES ASSUME NEW r \in Recipe, manifest.run # 0, saved'[r] = manifest.run
                 PROVE  file'[r]["data"] # Absent /\ hash'[r] = file'[r]
    BY <2>1 DEF SavedValid, HasValid
  <2>3. r \in Saved
    BY DEF Saved
  <2>4. CASE Head(left) = "hash"
    <3>1. /\ hash' = [hash EXCEPT ![cur] = HashOf(cur, Len(made))] /\ file' = file
          /\ saved' = [q \in Recipe |-> IF q = cur THEN manifest.run ELSE saved[q]]
      BY <1>1, <2>4 DEF SaveStep
    <3>2. CASE r = cur
      <4>1. file[r] = HashOf(r, Len(made)) /\ Len(made) > 0
        BY <2>1, <2>4, <3>2, WholeAtHash
      <4>2. file[r]["data"] # Absent
        BY <1>0, <4>1, HashFacts DEF Absent
      <4> QED
        BY <1>0, <2>3, <3>1, <3>2, <4>1, <4>2
    <3>3. CASE r # cur
      <4>1. saved[r] = manifest.run /\ hash'[r] = hash[r] /\ file'[r] = file[r]
        BY <1>0, <2>2, <2>3, <3>1, <3>3
      <4> QED
        BY <1>0, <2>2, <4>1 DEF SavedValid, HasValid
    <3> QED
      BY <3>2, <3>3
  <2>5. CASE Head(left) # "hash"
    <3>1. saved' = saved /\ hash' = hash /\ file' = [file EXCEPT ![cur][Head(left)] = Len(made)]
      BY <1>1, <2>5 DEF SaveStep
    <3>2. r # cur
      BY <1>0, <2>1, <2>2, <3>1, Constants DEF NotAgain
    <3>3. file'[r] = file[r] /\ hash'[r] = hash[r] /\ saved[r] = manifest.run
      BY <1>0, <2>2, <2>3, <3>1, <3>2
    <3> QED
      BY <1>0, <2>2, <3>3 DEF SavedValid, HasValid
  <2> QED
    BY <2>4, <2>5
<1>2. CASE Crash
  <2>1. saved' = saved
    BY <1>2, Zenon DEF Crash
  <2>2. CASE UNCHANGED <<file, hash, manifest>>
    BY <1>0, <2>1, <2>2 DEF SavedValid, HasValid
  <2>3. CASE manifest' = NoManifest
    BY <2>3 DEF SavedValid, NoManifest
  <2>4. CASE /\ pc = "save" /\ left # <<>> /\ manifest' = manifest
             /\ \/ file' = [file EXCEPT ![cur][Head(left)] = Torn] /\ hash' = hash
                \/ hash' = [hash EXCEPT ![cur] = Nothing] /\ file' = file
    <3>1. SUFFICES ASSUME NEW r \in Recipe, manifest.run # 0, saved[r] = manifest.run
                   PROVE  file'[r]["data"] # Absent /\ hash'[r] = file'[r]
      BY <2>1, <2>4 DEF SavedValid, HasValid
    <3>2. r # cur /\ r \in Saved
      BY <1>0, <2>4, <3>1, Constants DEF NotAgain, Saved
    <3>3. file'[r] = file[r] /\ hash'[r] = hash[r]
      BY <1>0, <2>4, <3>2
    <3> QED
      BY <1>0, <3>1, <3>3 DEF SavedValid, HasValid
  <2> QED
    BY <1>2, <2>2, <2>3, <2>4, Zenon DEF Crash, folder
<1>3. CASE Header
  <2>1. pc = "header" /\ manifest' = [run |-> runs, requested |-> todo] /\ saved' = saved
    BY <1>3, Zenon DEF Header
  <2> QED
    BY <1>0, <2>1 DEF SavedValid, Fresh
<1>4. CASE InfoFails
  <2>1. PICK R : manifest' = [run |-> runs + 1, requested |-> R]
    BY <1>4, Zenon DEF InfoFails
  <2>2. saved' = saved
    BY <1>4, Zenon DEF InfoFails
  <2> QED
    BY <1>0, <2>1, <2>2 DEF SavedValid
<1>5. CASE Run \/ SaveEnd \/ Restore \/ Execute \/ Report \/ Resume \/ UNCHANGED vars
  <2>1. file' = file /\ hash' = hash /\ manifest' = manifest /\ saved' = saved
    BY <1>5, Zenon DEF Run, SaveEnd, Restore, Execute, Report, Resume, vars, folder
  <2> QED
    BY <1>0, <2>1 DEF SavedValid, HasValid
<1> QED
  BY <1>1, <1>2, <1>3, <1>4, <1>5 DEF Next, Proceed

LEMMA NotAgainKept == ASSUME IInv, [Next]_vars PROVE NotAgain'
<1>0. /\ SavedValid /\ NotAgain /\ Fresh /\ cur \in Saved /\ todo \subseteq Recipe
      /\ runs \in Nat /\ manifest.run \in 0 .. runs
      /\ manifest.requested \subseteq Recipe
      /\ saved \in [Recipe -> 0 .. runs]
  BY DEF IInv, TypeOK
<1>1. CASE SaveStep
  <2>1. /\ pc = "save" /\ left # <<>> /\ left' = Tail(left) /\ pc' = pc
        /\ cur' = cur /\ todo' = todo /\ manifest' = manifest
    BY <1>1, Zenon DEF SaveStep
  <2>2. SUFFICES ASSUME manifest.run # 0, cur # Info
                 PROVE  /\ \A r \in todo : saved'[r] # manifest.run
                        /\ cur \notin todo
                        /\ Tail(left) # <<>> => saved'[cur] # manifest.run
    BY <2>1 DEF NotAgain
  <2>3. /\ \A r \in todo : saved[r] # manifest.run
        /\ cur \notin todo /\ saved[cur] # manifest.run
    BY <1>0, <2>1, <2>2 DEF NotAgain
  <2>4. CASE Head(left) = "hash"
    <3>1. saved' = [q \in Recipe |-> IF q = cur THEN manifest.run ELSE saved[q]]
      BY <1>1, <2>4 DEF SaveStep
    <3>2. Tail(left) = <<>>
      <4>1. left \in Remaining(cur)
        BY <2>1 DEF IInv, Saving
      <4>2. left = <<"hash">>
        BY <2>1, <2>4, <4>1 DEF Remaining, Writes
      <4> QED
        BY <4>2
    <3> QED
      BY <1>0, <2>3, <3>1, <3>2
  <2>5. CASE Head(left) # "hash"
    <3>1. saved' = saved
      BY <1>1, <2>5 DEF SaveStep
    <3> QED
      BY <2>3, <3>1
  <2> QED
    BY <2>4, <2>5
<1>2. CASE SaveEnd
  <2>1. /\ pc = "save" /\ pc' = (IF cur = Info THEN "restore" ELSE "exec")
        /\ saved' = saved /\ todo' = todo /\ manifest' = manifest
    BY <1>2, Zenon DEF SaveEnd, folder
  <2> QED
    BY <1>0, <2>1 DEF NotAgain
<1>3. CASE Header
  <2>1. /\ pc = "header" /\ manifest' = [run |-> runs, requested |-> todo] /\ pc' = "exec"
        /\ saved' = saved /\ todo' = todo
    BY <1>3, Zenon DEF Header
  <2>2. \A r \in Recipe : saved[r] < runs
    BY <1>0, <2>1 DEF Fresh
  <2> QED
    BY <1>0, <2>1, <2>2 DEF NotAgain
<1>4. CASE Execute
  <2>1. PICK r \in Recipe : r \in todo /\ todo' = todo \ {r} /\ (Complete(r) \/ Fail(r))
    BY <1>4, Zenon DEF Execute, NextUp
  <2>2. pc = "exec" /\ saved' = saved /\ manifest' = manifest
    BY <1>4, Zenon DEF Execute
  <2>3. manifest.run # 0 => \A q \in todo : saved[q] # manifest.run
    BY <1>0, <2>2 DEF NotAgain
  <2>4. CASE Complete(r)
    <3>1. pc' = "save" /\ cur' = r
      BY <2>4, Zenon DEF Complete
    <3> QED
      BY <2>1, <2>2, <2>3, <3>1 DEF NotAgain
  <2>5. CASE Fail(r)
    <3>1. pc' = pc
      BY <2>5, Zenon DEF Fail
    <3> QED
      BY <2>1, <2>2, <2>3, <3>1 DEF NotAgain
  <2> QED
    BY <2>1, <2>4, <2>5
<1>5. CASE Resume
  <2>1. /\ pc' = "exec" /\ todo' = TodoOnResume /\ saved' = saved /\ manifest' = manifest
    BY <1>5, Zenon DEF Resume, folder
  <2>2. ASSUME NEW r \in TodoOnResume, manifest.run # 0 PROVE saved[r] # manifest.run
    BY <1>0, <2>2 DEF TodoOnResume, SavedValid
  <2> QED
    BY <2>1, <2>2 DEF NotAgain
<1>6. CASE Run
  <2>1. pc' = "save" /\ cur' = Info
    BY <1>6, Zenon DEF Run
  <2> QED
    BY <2>1 DEF NotAgain
<1>7. CASE InfoFails \/ Restore \/ Report \/ Crash
  <2>1. pc' \in {"off", "header"}
    BY <1>7 DEF InfoFails, Restore, Report, Crash
  <2> QED
    BY <2>1 DEF NotAgain
<1>8. CASE UNCHANGED vars
  <2>1. /\ pc' = pc /\ cur' = cur /\ left' = left /\ todo' = todo
        /\ manifest' = manifest /\ saved' = saved
    BY <1>8, Zenon DEF vars, proc, folder
  <2> QED
    BY <1>0, <2>1 DEF NotAgain
<1> QED
  BY <1>1, <1>2, <1>3, <1>4, <1>5, <1>6, <1>7, <1>8 DEF Next, Proceed

\* The inductive invariant holds in every state of the output folder.
THEOREM Invariance == Spec => []IInv
<1>1. Init => IInv
  BY InitEstablishes
<1>2. ASSUME IInv, [Next]_vars PROVE IInv'
  BY <1>2, TypeKept, HashKept, SavingKept, FreshKept, SavedValidKept, NotAgainKept DEF IInv
<1> QED
  BY <1>1, <1>2, PTL DEF Spec

\* Type correctness: in particular no incomplete file is ever given a number,
\* so none is taken for a measurement.
THEOREM TypeCorrect == Spec => []TypeOK
<1>1. IInv => TypeOK
  BY DEF IInv
<1> QED
  BY <1>1, Invariance, PTL

\* has_valid_saved_recipe accepts only the complete files of one measurement,
\* wherever a save was cut short and whatever an earlier run left there.
THEOREM RestoresWhole == Spec => []SavedIsWhole
<1>1. ASSUME IInv PROVE SavedIsWhole
  <2> SUFFICES ASSUME NEW r \in Saved, HasValid(r)
               PROVE  file[r]["data"] > 0 /\ file[r] = HashOf(r, file[r]["data"])
    BY DEF SavedIsWhole
  <2>1. hash[r] = file[r] /\ hash[r]["data"] # Absent
    BY DEF HasValid
  <2>2. hash[r] # Nothing
    BY <2>1 DEF Nothing, File
  <2>3. PICK n \in 1 .. Len(made) : hash[r] = HashOf(r, n)
    BY <1>1, <2>2 DEF IInv, HashOfOne
  <2>4. n \in Int /\ n > 0
    BY <1>1, <2>3 DEF IInv, TypeOK
  <2> QED
    BY <2>1, <2>3, <2>4, HashFacts
<1> QED
  BY <1>1, Invariance, PTL

\* A run measures no recipe again whose result it has saved, however often it is
\* cut short and resumed.
THEOREM NoSecondMeasurement == Spec => []MeasuredOnce
<1>1. IInv => MeasuredOnce
  BY DEF IInv, NotAgain, MeasuredOnce
<1> QED
  BY <1>1, Invariance, PTL
-----------------------------------------------------------------------------
(* The sizes of the dependent recipes.                                      *)

LEMMA Priorities ==
    /\ Dependent \subseteq Recipe
    /\ Base \notin Dependent
    /\ \A d \in Dependent : Rank[Base] < Rank[d]
    /\ \A r \in Recipe : r # Info /\ Rank[r] \in Nat
  BY StoreAssumption

\* A new measurement leaves the old ones as they are.
LEMMA Appended ==
    ASSUME TypeOK, NEW run, NEW basis, Measured(run, basis)
    PROVE  /\ Len(made) \in Nat
           /\ Len(made') = Len(made) + 1
           /\ \A k \in 1 .. Len(made) : made'[k] = made[k]
           /\ made'[Len(made) + 1].basis = basis
<1> DEFINE S == [run : 0 .. runs, basis : 0 .. Len(made)]
           e == [run |-> run, basis |-> basis]
<1>1. made \in Seq(S) /\ made' = Append(made, e) /\ e.basis = basis
  BY DEF TypeOK, Measured
<1> HIDE DEF S, e
<1>2. /\ Len(made) \in Nat /\ Len(Append(made, e)) = Len(made) + 1
      /\ \A k \in 1 .. Len(made) : Append(made, e)[k] = made[k]
      /\ Append(made, e)[Len(made) + 1] = e
  BY <1>1
<1> QED
  BY <1>1, <1>2

\* What the parts of the invariant are about, as the type invariant has it.
LEMMA Types ==
    ASSUME TypeOK
    PROVE  /\ runs \in Nat /\ fails \in Nat /\ Len(made) \in Nat
           /\ manifest.run \in 0 .. runs /\ manifest.requested \subseteq Recipe
           /\ cur \in Saved /\ todo \subseteq Recipe
           /\ sizes \in Int /\ sizes <= Len(made)
           /\ saved \in [Recipe -> 0 .. runs]
           /\ results \in [Recipe -> 0 .. Len(made)]
           /\ file \in [Saved -> [File -> Content]]
           /\ hash \in [Saved -> [File -> 0 .. Len(made)]]
           /\ \A r \in Recipe : r \in Saved /\ file[r]["data"] \in Int
                                /\ file[r]["data"] <= Len(made)
<1>1. /\ runs \in Nat /\ fails \in Nat /\ Len(made) \in Nat
      /\ manifest.run \in 0 .. runs /\ manifest.requested \subseteq Recipe
      /\ cur \in Saved /\ todo \subseteq Recipe
      /\ saved \in [Recipe -> 0 .. runs]
      /\ results \in [Recipe -> 0 .. Len(made)]
      /\ file \in [Saved -> [File -> Content]]
      /\ hash \in [Saved -> [File -> 0 .. Len(made)]]
      /\ sizes \in Content
  BY Constants DEF TypeOK
<1>2. \A c \in Content : c \in Int /\ c <= Len(made)
  BY <1>1 DEF Content, Torn
<1>3. ASSUME NEW r \in Recipe PROVE r \in Saved /\ file[r]["data"] \in Content
  BY <1>1 DEF Saved, File
<1> QED
  BY <1>1, <1>2, <1>3

\* What was saved and is on disk is what resume restores.
LEMMA ValidIsSaved ==
    ASSUME NEW r \in Recipe, HasValid(r)
    PROVE  hash[r] # Nothing
  BY DEF HasValid, Nothing, File

Clean == IInv /\ OneCleanRun /\ SweepFirst

LEMMA SweepRun == ASSUME Clean, Run PROVE SweepFirst'
<1>1. /\ runs' = runs + 1 /\ pc' = "save" /\ cur' = Info
      /\ file' = file /\ hash' = hash /\ manifest' = manifest
  BY Zenon DEF Run, folder
<1>2. SUFFICES ASSUME OneCleanRun' PROVE manifest'.run = 0 /\ BeforeHeader'
  BY DEF SweepFirst
<1>3. runs = 0 /\ manifest.run = 0
  BY <1>1, <1>2, Types DEF Clean, IInv, OneCleanRun
<1>4. \A r \in Recipe : hash[r] = Nothing /\ file[r]["data"] = Absent
  BY <1>3 DEF Clean, SweepFirst, BeforeHeader
<1> QED
  BY <1>1, <1>3, <1>4 DEF BeforeHeader

\* Before the manifest only system-info is saved.
LEMMA SweepSaveInfo ==
    ASSUME Clean, SaveStep, manifest.run = 0
    PROVE  manifest'.run = 0 /\ BeforeHeader'
<1>1. /\ pc = "save" /\ pc' = pc /\ cur' = cur /\ runs' = runs /\ sizes' = sizes
      /\ manifest' = manifest /\ todo' = todo
  BY Zenon DEF SaveStep, bounds
<1>2. BeforeHeader /\ cur = Info
  BY <1>1 DEF Clean, SweepFirst, BeforeHeader
<1>3. ASSUME NEW r \in Recipe PROVE hash'[r] = hash[r] /\ file'[r] = file[r]
  <2>1. r # cur /\ r \in Saved
    BY <1>2, Priorities DEF Saved
  <2>2. \/ hash' = hash
        \/ hash' = [hash EXCEPT ![cur] = HashOf(cur, Len(made))]
    BY DEF SaveStep
  <2>3. \/ file' = file
        \/ file' = [file EXCEPT ![cur][Head(left)] = Len(made)]
    BY DEF SaveStep
  <2> QED
    BY <2>1, <2>2, <2>3, Types DEF Clean, IInv
<1> QED
  BY <1>1, <1>2, <1>3 DEF BeforeHeader

\* Writing a file of a recipe: latency-sweep's .hash settles the sizes.
LEMMA SweepSaveStep ==
    ASSUME Clean, SaveStep, manifest.run # 0
    PROVE  AfterHeader' /\ (SweepSettled' \/ SweepOpen')
<1>1. /\ pc = "save" /\ left # <<>> /\ left' = Tail(left) /\ pc' = pc /\ cur' = cur
      /\ sizes' = sizes /\ manifest' = manifest /\ todo' = todo /\ results' = results
      /\ made' = made
  BY Zenon DEF SaveStep
<1>2. /\ cur \in manifest.requested /\ cur \in Recipe /\ cur # Info
      /\ results[cur] = Len(made)
      /\ cur = Base => sizes = Len(made)
      /\ todo \subseteq manifest.requested
      /\ \A r \in Recipe : hash[r] # Nothing => saved[r] = manifest.run
      /\ SweepSettled \/ SweepOpen
  BY <1>1, Types, Priorities DEF Clean, IInv, SweepFirst, AfterHeader, Measuring
<1>3. /\ left \in Remaining(cur) /\ Len(made) > 0 /\ saved[cur] # manifest.run
      /\ cur \notin todo
  BY <1>1, <1>2 DEF Clean, IInv, Saving, NotAgain
<1>t. /\ saved \in [Recipe -> 0 .. runs]
      /\ results \in [Recipe -> 0 .. Len(made)]
      /\ file \in [Saved -> [File -> Content]]
      /\ hash \in [Saved -> [File -> 0 .. Len(made)]]
      /\ \A r \in Recipe : r \in Saved
      /\ Base \in Recipe /\ Dependent \subseteq Recipe /\ Base \notin Dependent
  BY Types, Priorities, Constants DEF Clean, IInv
<1>4. CASE Head(left) = "hash"
  <2>1. /\ hash' = [hash EXCEPT ![cur] = HashOf(cur, Len(made))] /\ file' = file
        /\ saved' = [q \in Recipe |-> IF q = cur THEN manifest.run ELSE saved[q]]
    BY <1>4 DEF SaveStep
  <2>2. AfterHeader'
    <3>1. ASSUME NEW r \in Recipe, hash'[r] # Nothing PROVE saved'[r] = manifest.run
      BY <1>2, <1>t, <2>1, <3>1
    <3> QED
      BY <1>1, <1>2, <3>1 DEF AfterHeader, Measuring
  <2>3. CASE SweepSettled
    <3>1. Base \in manifest.requested => saved'[Base] = manifest.run
      BY <1>t, <2>1, <2>3 DEF SweepSettled
    <3> QED
      BY <1>1, <2>1, <2>2, <2>3, <3>1 DEF SweepSettled, Measuring
  <2>4. CASE SweepOpen
    <3>1. CASE cur = Base
      <4>1. sizes = Len(made) /\ file[Base]["data"] = Len(made) /\ saved'[Base] = manifest.run
            /\ results[Base] = Len(made)
        <5>1. file[Base] = HashOf(Base, Len(made))
          BY <1>1, <1>4, <3>1, WholeAtHash DEF Clean
        <5> QED
          BY <1>2, <1>3, <1>t, <2>1, <3>1, <5>1, HashFacts, Types DEF Clean, IInv
      <4>2. \A d \in Dependent : file[d]["data"] = Absent /\ results[d] = Absent
        BY <1>1, <2>4 DEF SweepOpen, Measuring
      <4>3. SweepSettled'
        BY <1>1, <1>3, <2>1, <4>1, <4>2 DEF SweepSettled, Absent
      <4> QED
        BY <2>2, <4>3
    <3>2. CASE cur # Base
      <4>1. saved'[Base] = saved[Base]
        BY <1>t, <2>1, <3>2
      <4>2. SweepOpen'
        BY <1>1, <2>1, <2>4, <3>2, <4>1 DEF SweepOpen, Measuring
      <4> QED
        BY <2>2, <4>2
    <3> QED
      BY <3>1, <3>2
  <2> QED
    BY <1>2, <2>3, <2>4
<1>5. CASE Head(left) # "hash"
  <2>1. saved' = saved /\ hash' = hash /\ file' = [file EXCEPT ![cur][Head(left)] = Len(made)]
    BY <1>5 DEF SaveStep
  <2>2. AfterHeader'
    BY <1>1, <1>2, <2>1 DEF AfterHeader, Measuring
  <2>3. Head(left) \in File
    BY <1>1, <1>3, <1>5, RemainingFacts DEF FilesOf
  <2>4. /\ \A r \in Recipe : r # cur => file'[r] = file[r]
        /\ file'[cur]["data"] \in {Len(made), file[cur]["data"]}
    BY <1>2, <1>t, <2>1, <2>3 DEF File
  <2>5. CASE SweepSettled
    <3>1. Base \in manifest.requested => cur # Base
      BY <1>3, <2>5 DEF SweepSettled
    <3>2. ASSUME NEW d \in Dependent, file'[d]["data"] > 0
          PROVE  made[file'[d]["data"]].basis = sizes
      <4>1. file[d]["data"] > 0 => made[file[d]["data"]].basis = sizes
        BY <2>5 DEF SweepSettled
      <4>2. results[d] # Absent => made[results[d]].basis = sizes
        BY <1>1, <2>5 DEF SweepSettled, Measuring
      <4>3. CASE file'[d]["data"] = file[d]["data"]
        BY <3>2, <4>1, <4>3
      <4>4. CASE d = cur /\ file'[d]["data"] = Len(made)
        <5>1. results[d] = Len(made) /\ results[d] # Absent
          BY <1>2, <1>3, <4>4 DEF Absent
        <5> QED
          BY <4>2, <4>4, <5>1
      <4> QED
        BY <1>t, <2>4, <4>3, <4>4
    <3> QED
      BY <1>1, <1>t, <2>1, <2>2, <2>4, <2>5, <3>1, <3>2 DEF SweepSettled, Measuring
  <2>6. CASE SweepOpen
    <3>1. cur \notin Dependent /\ (Base \in todo \/ cur = Base)
      BY <1>1, <2>6 DEF SweepOpen
    <3>2. Tail(left) # <<>>
      <4>1. Len(Tail(left)) = Len(left) - 1 /\ Len(left) \in Nat /\ Len(left) > 0 /\ Len(left) # 1
        BY <1>1, <1>3, <1>5, RemainingFacts
      <4>2. Len(Tail(left)) # 0
        BY <4>1
      <4>3. Len(<<>>) = 0
        OBVIOUS
      <4> QED
        BY <4>2, <4>3, Zenon
    <3>3. \A d \in Dependent : file'[d]["data"] = Absent
      BY <1>t, <2>4, <2>6, <3>1 DEF SweepOpen
    <3> QED
      BY <1>1, <2>1, <2>2, <2>6, <3>1, <3>2, <3>3 DEF SweepOpen, Measuring
  <2> QED
    BY <1>2, <2>5, <2>6
<1> QED
  BY <1>4, <1>5

LEMMA SweepSaveEnd == ASSUME Clean, SaveEnd PROVE SweepFirst'
<1>1. /\ pc = "save" /\ left = <<>> /\ pc' = (IF cur = Info THEN "restore" ELSE "exec")
      /\ left' = left /\ cur' = cur /\ todo' = todo /\ results' = results
      /\ file' = file /\ hash' = hash /\ sizes' = sizes /\ manifest' = manifest
      /\ made' = made /\ saved' = saved /\ runs' = runs
  BY Zenon DEF SaveEnd, folder, bounds
<1>2. CASE manifest.run = 0
  <2>1. BeforeHeader
    BY <1>2 DEF Clean, SweepFirst
  <2>2. runs # 0
    BY <1>1, <2>1 DEF BeforeHeader
  <2>3. BeforeHeader'
    BY <1>1, <2>1, <2>2 DEF BeforeHeader
  <2> QED
    BY <1>1, <1>2, <2>3 DEF SweepFirst
<1>3. CASE manifest.run # 0
  <2>1. AfterHeader /\ (SweepSettled \/ SweepOpen)
    BY <1>3 DEF Clean, SweepFirst
  <2>2. cur # Info /\ pc' = "exec"
    BY <1>1, <2>1, Types, Priorities DEF AfterHeader, Clean, IInv
  <2>3. AfterHeader'
    BY <1>1, <2>1, <2>2 DEF AfterHeader, Measuring
  <2>4. SweepSettled => SweepSettled'
    BY <1>1 DEF SweepSettled, Measuring
  <2>5. SweepOpen => SweepOpen'
    BY <1>1, <2>2 DEF SweepOpen, Measuring
  <2> QED
    BY <1>1, <1>3, <2>1, <2>3, <2>4, <2>5 DEF SweepFirst
<1> QED
  BY <1>2, <1>3

LEMMA SweepRestore == ASSUME Clean, Restore PROVE SweepFirst'
<1>1. /\ pc = "restore" /\ pc' = "header" /\ file' = file /\ hash' = hash
      /\ manifest' = manifest /\ runs' = runs
  BY Zenon DEF Restore, bounds
<1>2. todo' = Recipe \/ sizes' = Len(made) + 1
  BY Zenon DEF Restore
<1>3. manifest.run = 0 /\ BeforeHeader
  BY <1>1 DEF Clean, SweepFirst, AfterHeader
<1>4. runs # 0
  BY <1>1, <1>3 DEF BeforeHeader
<1>5. (Base \notin todo') => sizes' > 0
  BY <1>2, Types, Constants DEF Clean, IInv
<1>6. BeforeHeader'
  BY <1>1, <1>3, <1>4, <1>5 DEF BeforeHeader
<1> QED
  BY <1>1, <1>3, <1>6 DEF SweepFirst

\* The manifest of the run: latency-sweep is in it, or its sizes were restored.
LEMMA SweepHeader == ASSUME Clean, Header PROVE SweepFirst'
<1>1. /\ pc = "header" /\ pc' = "exec" /\ manifest' = [run |-> runs, requested |-> todo]
      /\ results' = [r \in Recipe |-> Absent] /\ file' = file /\ hash' = hash
      /\ todo' = todo /\ sizes' = sizes /\ made' = made /\ saved' = saved
  BY Zenon DEF Header
<1>2. manifest.run = 0 /\ BeforeHeader
  BY <1>1 DEF Clean, SweepFirst, AfterHeader
<1>3. /\ \A r \in Recipe : hash[r] = Nothing /\ file[r]["data"] = Absent
      /\ Base \notin todo => sizes > 0
  BY <1>1, <1>2 DEF BeforeHeader
<1>4. runs > 0 /\ runs \in Nat /\ \A r \in Recipe : saved[r] < runs /\ saved[r] \in Nat
  BY <1>1, Types DEF Clean, IInv, Fresh
<1>5. manifest'.run = runs /\ manifest'.requested = todo
  BY <1>1
<1>6. AfterHeader'
  BY <1>1, <1>3, <1>5 DEF AfterHeader, Measuring
<1>7. \A d \in Dependent : file'[d]["data"] = Absent /\ results'[d] = Absent
  BY <1>1, <1>3, Priorities
<1>8. CASE Base \in todo
  <2>1. saved[Base] # runs
    BY <1>4, Constants
  <2>2. SweepOpen'
    BY <1>1, <1>5, <1>7, <1>8, <2>1 DEF SweepOpen
  <2> QED
    BY <1>4, <1>5, <1>6, <2>2 DEF SweepFirst
<1>9. CASE Base \notin todo
  <2>1. SweepSettled'
    BY <1>1, <1>3, <1>5, <1>7, <1>9 DEF SweepSettled, Absent
  <2> QED
    BY <1>4, <1>5, <1>6, <2>1 DEF SweepFirst
<1> QED
  BY <1>8, <1>9

LEMMA SweepExecute == ASSUME Clean, Execute PROVE SweepFirst'
<1>1. /\ pc = "exec" /\ file' = file /\ hash' = hash /\ manifest' = manifest
      /\ saved' = saved /\ runs' = runs
  BY Zenon DEF Execute
<1>2. PICK r \in Recipe : NextUp(r) /\ todo' = todo \ {r} /\ (Complete(r) \/ Fail(r))
  BY Zenon DEF Execute
<1>3. SUFFICES ASSUME OneCleanRun' PROVE SweepFirst'
  BY DEF SweepFirst
<1>4. Complete(r)
  <2>1. ~ Fail(r)
    BY <1>3, Types DEF Fail, OneCleanRun, Clean, IInv
  <2> QED
    BY <1>2, <2>1
<1>5. /\ sizes' = (IF r = Base THEN Len(made) + 1 ELSE sizes)
      /\ results' = [results EXCEPT ![r] = Len(made) + 1]
      /\ cur' = r /\ left' = Writes(r) /\ pc' = "save" /\ Measured(manifest.run, Basis(r))
  BY <1>4, Zenon DEF Complete
<1>6. manifest.run # 0 /\ AfterHeader /\ (SweepSettled \/ SweepOpen)
  BY <1>1 DEF Clean, SweepFirst, BeforeHeader
<1>7. /\ Len(made) \in Nat /\ Len(made') = Len(made) + 1
      /\ \A k \in 1 .. Len(made) : made'[k] = made[k]
      /\ made'[Len(made) + 1].basis = Basis(r)
  BY <1>5, Appended DEF Clean, IInv
<1>8. /\ r \in todo /\ r \in manifest.requested /\ todo \subseteq manifest.requested
      /\ \A q \in todo : Rank[r] <= Rank[q] /\ saved[q] # manifest.run
  BY <1>1, <1>2, <1>6 DEF NextUp, AfterHeader, Measuring, Clean, IInv, NotAgain
<1>t. /\ results \in [Recipe -> 0 .. Len(made)]
      /\ Base \in Recipe /\ Dependent \subseteq Recipe /\ Base \notin Dependent
      /\ sizes \in Int
      /\ \A q \in Recipe : file[q]["data"] \in Int /\ file[q]["data"] <= Len(made)
  BY Types, Priorities, Constants DEF Clean, IInv
<1>9. AfterHeader'
  <2>1. results'[r] = Len(made') /\ (r = Base => sizes' = Len(made'))
    BY <1>5, <1>7, <1>t
  <2>2. \A q \in Recipe : hash[q] # Nothing => saved[q] = manifest.run
    BY <1>6 DEF AfterHeader
  <2> QED
    BY <1>1, <1>2, <1>5, <1>8, <2>1, <2>2 DEF AfterHeader, Measuring
<1>10. CASE SweepSettled
  <2>1. r # Base /\ sizes' = sizes
    BY <1>5, <1>8, <1>10 DEF SweepSettled
  <2>2. results'[Base] = results[Base]
    BY <1>5, <1>t, <2>1
  <2>3. ASSUME NEW d \in Dependent
        PROVE  /\ file[d]["data"] > 0 => made'[file[d]["data"]].basis = sizes
               /\ results'[d] # Absent => made'[results'[d]].basis = sizes
    <3>1. /\ file[d]["data"] > 0 => made[file[d]["data"]].basis = sizes
          /\ results[d] # Absent => made[results[d]].basis = sizes
          /\ sizes > 0
      BY <1>1, <1>10 DEF SweepSettled, Measuring
    <3>2. file[d]["data"] > 0 => made'[file[d]["data"]].basis = sizes
      <4>1. file[d]["data"] > 0 => file[d]["data"] \in 1 .. Len(made)
        BY <1>7, <1>t
      <4> QED
        BY <1>7, <3>1, <4>1
    <3>3. CASE d = r
      <4>1. results'[d] = Len(made) + 1 /\ Basis(r) = sizes
        BY <1>5, <1>t, <3>1, <3>3 DEF Basis
      <4> QED
        BY <1>7, <3>2, <4>1
    <3>4. CASE d # r
      <4>1. results'[d] = results[d]
        BY <1>5, <1>t, <3>4
      <4>2. results[d] # Absent => results[d] \in 1 .. Len(made)
        BY <1>7, <1>t DEF Absent
      <4> QED
        BY <1>7, <3>1, <3>2, <4>1, <4>2
    <3> QED
      BY <3>3, <3>4
  <2>4. SweepSettled'
    BY <1>1, <1>10, <2>1, <2>2, <2>3 DEF SweepSettled, Measuring
  <2> QED
    BY <1>1, <1>6, <1>9, <2>4 DEF SweepFirst
<1>11. CASE SweepOpen
  <2>1. Base \in todo /\ \A d \in Dependent : file[d]["data"] = Absent /\ results[d] = Absent
    BY <1>1, <1>11 DEF SweepOpen, Measuring
  <2>2. r \notin Dependent
    <3>1. Rank[r] <= Rank[Base] /\ Rank[r] \in Nat /\ Rank[Base] \in Nat
      BY <1>8, <1>t, <2>1, Priorities
    <3> QED
      BY <3>1, Priorities
  <2>3. \A d \in Dependent : results'[d] = Absent
    BY <1>5, <1>t, <2>1, <2>2
  <2>4. Writes(r) # <<>>
    BY WritesFacts
  <2>5. SweepOpen'
    BY <1>1, <1>2, <1>5, <1>11, <2>1, <2>2, <2>3, <2>4 DEF SweepOpen, Measuring
  <2> QED
    BY <1>1, <1>6, <1>9, <2>5 DEF SweepFirst
<1> QED
  BY <1>6, <1>10, <1>11

\* resume: what has no valid result is run again, latency-sweep before the rest.
LEMMA SweepResume == ASSUME Clean, Resume PROVE SweepFirst'
<1>1. /\ pc = "off" /\ pc' = "exec" /\ manifest.run # 0 /\ todo' = TodoOnResume
      /\ results' = [r \in Recipe |-> IF r \in manifest.requested /\ HasValid(r)
                                      THEN file[r]["data"] ELSE Absent]
      /\ file' = file /\ hash' = hash /\ sizes' = sizes /\ manifest' = manifest
      /\ made' = made /\ saved' = saved
  BY Zenon DEF Resume, folder
<1>2. AfterHeader /\ (SweepSettled \/ SweepOpen)
  BY <1>1 DEF Clean, SweepFirst
<1>3. \A r \in Recipe : hash[r] # Nothing => saved[r] = manifest.run
  BY <1>2 DEF AfterHeader
<1>4. AfterHeader'
  BY <1>1, <1>3 DEF AfterHeader, Measuring, TodoOnResume
<1>5. ASSUME NEW r \in Recipe
      PROVE  results'[r] # Absent => /\ results'[r] = file[r]["data"]
                                     /\ file[r]["data"] > 0
  <2>1. SUFFICES ASSUME results'[r] # Absent
                 PROVE  results'[r] = file[r]["data"] /\ file[r]["data"] > 0
    OBVIOUS
  <2>2. HasValid(r) /\ results'[r] = file[r]["data"]
    BY <1>1, <2>1
  <2>3. hash[r] # Nothing /\ hash[r] = file[r] /\ file[r]["data"] # Absent
    BY <2>2, ValidIsSaved DEF HasValid
  <2>4. PICK n \in 1 .. Len(made) : hash[r] = HashOf(r, n)
    BY <2>3 DEF Clean, IInv, HashOfOne, Saved
  <2>5. n \in Int /\ n > 0
    BY Types DEF Clean, IInv
  <2> QED
    BY <2>2, <2>3, <2>4, <2>5, HashFacts
<1>6. CASE SweepSettled
  <2>1. SweepSettled'
    BY <1>1, <1>5, <1>6, Priorities, Constants DEF SweepSettled
  <2> QED
    BY <1>1, <1>4, <2>1 DEF SweepFirst
<1>7. CASE SweepOpen
  <2>1. Base \in TodoOnResume
    <3>1. ~ HasValid(Base)
      BY <1>3, <1>7, ValidIsSaved, Constants DEF SweepOpen
    <3> QED
      BY <1>7, <3>1 DEF TodoOnResume, SweepOpen
  <2>2. \A d \in Dependent : results'[d] = Absent
    BY <1>1, <1>7, Priorities DEF SweepOpen
  <2>3. SweepOpen'
    BY <1>1, <1>7, <2>1, <2>2 DEF SweepOpen
  <2> QED
    BY <1>1, <1>4, <2>3 DEF SweepFirst
<1> QED
  BY <1>2, <1>6, <1>7

\* Killed before its manifest is written the run leaves nothing to resume.
LEMMA SweepCrashBefore ==
    ASSUME Clean, Crash, manifest.run = 0
    PROVE  manifest'.run = 0 /\ BeforeHeader'
<1>1. BeforeHeader /\ pc' = "off" /\ runs' = runs
  BY Zenon DEF Crash, Clean, SweepFirst
<1>2. manifest' = manifest \/ manifest' = NoManifest
  BY Zenon DEF Crash, folder
<1>3. ASSUME NEW r \in Recipe PROVE hash'[r] = hash[r] /\ file'[r] = file[r]
  <2>1. r \in Saved /\ (pc = "save" => r # cur)
    BY <1>1, Priorities DEF Saved, BeforeHeader
  <2>2. \/ hash' = hash
        \/ pc = "save" /\ hash' = [hash EXCEPT ![cur] = Nothing]
    BY Zenon DEF Crash, folder
  <2>3. \/ file' = file
        \/ pc = "save" /\ file' = [file EXCEPT ![cur][Head(left)] = Torn]
    BY Zenon DEF Crash, folder
  <2> QED
    BY <2>1, <2>2, <2>3, Types DEF Clean, IInv
<1>4. BeforeHeader'
  BY <1>1, <1>3 DEF BeforeHeader
<1> QED
  BY <1>2, <1>4 DEF NoManifest

\* Later it leaves the sizes alone once they are settled, and otherwise nothing
\* of a dependent recipe.
LEMMA SweepCrashAfter ==
    ASSUME Clean, Crash, manifest.run # 0
    PROVE  AfterHeader' /\ (SweepSettled' \/ SweepOpen')
<1>1. /\ pc' = "off" /\ todo' = todo /\ results' = results
      /\ made' = made /\ saved' = saved
  BY Zenon DEF Crash
<1>2. /\ AfterHeader /\ (SweepSettled \/ SweepOpen)
      /\ pc \in {"exec", "save"}
      /\ \A r \in Recipe : hash[r] # Nothing => saved[r] = manifest.run
      /\ todo \subseteq manifest.requested
      /\ pc = "save" => cur \in manifest.requested /\ cur # Info
  BY Types, Priorities DEF Crash, Clean, IInv, SweepFirst, AfterHeader, Measuring
<1>3. manifest' = manifest
  BY <1>2, Zenon DEF Crash, folder
<1>t. /\ file \in [Saved -> [File -> Content]]
      /\ hash \in [Saved -> [File -> 0 .. Len(made)]]
      /\ \A r \in Recipe : r \in Saved
      /\ Base \in Recipe /\ Dependent \subseteq Recipe /\ Base \notin Dependent
      /\ cur \in Saved
  BY Types, Priorities, Constants DEF Clean, IInv
<1>4. \/ hash' = hash
      \/ pc = "save" /\ hash' = [hash EXCEPT ![cur] = Nothing]
  BY Zenon DEF Crash, folder
<1>5. \/ file' = file
      \/ /\ pc = "save" /\ left # <<>> /\ Head(left) # "hash"
         /\ file' = [file EXCEPT ![cur][Head(left)] = Torn]
  BY Zenon DEF Crash, folder
<1>6. \/ sizes' = sizes
      \/ pc = "exec" /\ NextUp(Base)
  <2>1. pc # "restore"
    BY <1>2
  <2> QED
    BY <2>1, Zenon DEF Crash, folder
<1>7. ASSUME NEW r \in Recipe PROVE hash'[r] # Nothing => hash[r] # Nothing
  BY <1>4, <1>t
<1>8. AfterHeader'
  BY <1>1, <1>2, <1>3, <1>7 DEF AfterHeader, Measuring
<1>9. ASSUME NEW r \in Recipe
      PROVE  \/ file'[r]["data"] = file[r]["data"]
             \/ /\ pc = "save" /\ r = cur /\ left # <<>>
                /\ file'[r]["data"] = Torn
  <2>1. CASE file' = file
    BY <2>1
  <2>2. CASE /\ pc = "save" /\ left # <<>> /\ Head(left) # "hash"
             /\ file' = [file EXCEPT ![cur][Head(left)] = Torn]
    <3>1. left \in Remaining(cur)
      BY <2>2 DEF Clean, IInv, Saving
    <3>2. Head(left) \in File
      BY <2>2, <3>1, RemainingFacts DEF FilesOf
    <3> QED
      BY <1>t, <2>2, <3>2 DEF File
  <2> QED
    BY <1>5, <2>1, <2>2
<1>10. CASE SweepSettled
  <2>1. Base \in manifest.requested => saved[Base] = manifest.run /\ file[Base]["data"] = sizes
    BY <1>10 DEF SweepSettled
  <2>2. Base \notin todo /\ (pc = "save" /\ left # <<>> => cur # Base)
    BY <1>2, <2>1 DEF Clean, IInv, NotAgain
  <2>3. sizes' = sizes
    BY <1>6, <2>2 DEF NextUp
  <2>4. file'[Base]["data"] = file[Base]["data"]
    BY <1>9, <1>t, <2>2
  <2>5. ASSUME NEW d \in Dependent, file'[d]["data"] > 0
        PROVE  made[file'[d]["data"]].basis = sizes
    <3>1. file'[d]["data"] = file[d]["data"]
      BY <1>9, <1>t, <2>5 DEF Torn
    <3> QED
      BY <1>10, <2>5, <3>1 DEF SweepSettled
  <2>6. SweepSettled'
    BY <1>1, <1>3, <1>10, <2>1, <2>3, <2>4, <2>5 DEF SweepSettled, Measuring
  <2> QED
    BY <1>8, <2>6
<1>11. CASE SweepOpen
  <2>1. \A d \in Dependent : file'[d]["data"] = Absent
    BY <1>9, <1>11, <1>t DEF SweepOpen
  <2>2. SweepOpen'
    BY <1>1, <1>3, <1>11, <2>1 DEF SweepOpen, Measuring
  <2> QED
    BY <1>8, <2>2
<1> QED
  BY <1>2, <1>10, <1>11

\* latency-sweep comes before the recipes that use it, through every step.
LEMMA SweepFirstKept ==
    ASSUME IInv, SweepFirst, [Next]_vars
    PROVE  SweepFirst'
<1>1. SUFFICES ASSUME OneCleanRun' PROVE SweepFirst'
  BY DEF SweepFirst
<1>2. Clean
  <2>1. runs' \in Nat /\ runs <= runs' /\ runs \in Nat /\ fails \in Nat
    BY Growing, Constants, Types DEF IInv
  <2>2. fails' = fails \/ fails' = fails + 1
    <3>1. CASE InfoFails
      BY <3>1, Zenon DEF InfoFails
    <3>2. CASE Execute
      BY <3>2, Zenon DEF Execute, Complete, Fail
    <3>3. CASE Run \/ SaveStep \/ SaveEnd \/ Restore \/ Header \/ Report \/ Resume \/ Crash
      BY <3>3, Zenon DEF Run, SaveStep, SaveEnd, Restore, Header, Report, Resume, Crash, bounds
    <3>4. CASE UNCHANGED vars
      BY <3>4, Zenon DEF vars, bounds
    <3> QED
      BY <3>1, <3>2, <3>3, <3>4 DEF Next, Proceed
  <2>3. fails = 0 /\ runs <= 1
    BY <1>1, <2>1, <2>2 DEF OneCleanRun
  <2> QED
    BY <2>3 DEF Clean, OneCleanRun
<1>3. CASE InfoFails
  <2>1. fails' = fails + 1
    BY <1>3, Zenon DEF InfoFails
  <2> QED
    BY <1>1, <1>2, <2>1 DEF Clean, OneCleanRun
<1>4. CASE SaveStep
  <2>1. manifest' = manifest
    BY <1>4, Zenon DEF SaveStep
  <2>2. CASE manifest.run = 0
    BY <1>2, <1>4, <2>1, <2>2, SweepSaveInfo DEF SweepFirst
  <2>3. CASE manifest.run # 0
    BY <1>2, <1>4, <2>1, <2>3, SweepSaveStep DEF SweepFirst
  <2> QED
    BY <2>2, <2>3
<1>5. CASE Crash
  <2>1. CASE manifest.run = 0
    BY <1>2, <1>5, <2>1, SweepCrashBefore DEF SweepFirst
  <2>2. CASE manifest.run # 0
    <3>1. AfterHeader
      BY <1>2, <2>2 DEF Clean, SweepFirst
    <3>2. manifest' = manifest
      BY <1>5, <3>1 DEF Crash, folder, AfterHeader
    <3> QED
      BY <1>2, <1>5, <2>2, <3>2, SweepCrashAfter DEF SweepFirst
  <2> QED
    BY <2>1, <2>2
<1>6. CASE Report
  <2>1. /\ pc = "exec" /\ pc' = "off" /\ cur' = cur /\ left' = left /\ todo' = todo
        /\ results' = results /\ file' = file /\ hash' = hash /\ sizes' = sizes
        /\ manifest' = manifest /\ made' = made /\ saved' = saved
    BY <1>6, Zenon DEF Report, folder
  <2>2. manifest.run # 0 /\ AfterHeader /\ (SweepSettled \/ SweepOpen)
    BY <1>2, <2>1 DEF Clean, SweepFirst, BeforeHeader
  <2>3. AfterHeader'
    BY <2>1, <2>2 DEF AfterHeader, Measuring
  <2>4. SweepSettled => SweepSettled'
    BY <2>1 DEF SweepSettled, Measuring
  <2>5. SweepOpen => SweepOpen'
    BY <2>1 DEF SweepOpen, Measuring
  <2> QED
    BY <2>1, <2>2, <2>3, <2>4, <2>5 DEF SweepFirst
<1>7. CASE UNCHANGED vars
  <2>1. /\ pc' = pc /\ cur' = cur /\ left' = left /\ todo' = todo /\ runs' = runs
        /\ results' = results /\ file' = file /\ hash' = hash /\ sizes' = sizes
        /\ manifest' = manifest /\ made' = made /\ saved' = saved
    BY <1>7, Zenon DEF vars, proc, folder, bounds
  <2>2. BeforeHeader => BeforeHeader'
    BY <2>1 DEF BeforeHeader
  <2>3. AfterHeader => AfterHeader'
    BY <2>1 DEF AfterHeader, Measuring
  <2>4. SweepSettled => SweepSettled'
    BY <2>1 DEF SweepSettled, Measuring
  <2>5. SweepOpen => SweepOpen'
    BY <2>1 DEF SweepOpen, Measuring
  <2> QED
    BY <1>2, <2>1, <2>2, <2>3, <2>4, <2>5 DEF Clean, SweepFirst
<1> QED
  BY <1>2, <1>3, <1>4, <1>5, <1>6, <1>7, SweepRun, SweepSaveEnd, SweepRestore,
     SweepHeader, SweepExecute, SweepResume DEF Next, Proceed

\* What output() reports of such a run.
LEMMA ReportedSizes ==
    ASSUME Clean, Report, complete', runs = 1
    PROVE  \A r \in Dependent \cap manifest.requested :
              /\ sizes > 0
              /\ made[results[r]].basis = sizes
              /\ Base \in manifest.requested => results[Base] = sizes
<1>1. pc = "exec" /\ todo = {} /\ complete' = (\A r \in manifest.requested : results[r] # Absent)
  BY Zenon DEF Report
<1>2. \A r \in manifest.requested : results[r] # Absent
  BY <1>1
<1>3. manifest.run # 0 /\ (SweepSettled \/ SweepOpen)
  BY <1>1 DEF Clean, SweepFirst, BeforeHeader
<1>4. SweepSettled
  BY <1>1, <1>3 DEF SweepOpen
<1> QED
  BY <1>1, <1>2, <1>4 DEF SweepSettled, Measuring

LEMMA SizesKept ==
    ASSUME IInv, SizesInv, [Next]_vars
    PROVE  SizesInv'
<1>1. SweepFirst'
  BY SweepFirstKept DEF SizesInv
<1>2. complete => pc = "off"
  BY DEF SizesInv
<1>3. CASE Run \/ InfoFails \/ Resume
  <2>1. complete' = FALSE
    BY <1>3, Zenon DEF Run, InfoFails, Resume
  <2> QED
    BY <1>1, <2>1 DEF SizesInv, SizesOfTheSweep
<1>4. CASE SaveStep \/ SaveEnd \/ Restore \/ Header \/ Execute \/ Crash
  <2>1. pc # "off" /\ complete' = complete
    BY <1>4 DEF SaveStep, SaveEnd, Restore, Header, Execute, Crash
  <2> QED
    BY <1>1, <1>2, <2>1 DEF SizesInv, SizesOfTheSweep
<1>5. CASE Report
  <2>1. /\ pc' = "off" /\ results' = results /\ sizes' = sizes /\ manifest' = manifest
        /\ made' = made /\ runs' = runs /\ fails' = fails
    BY <1>5, Zenon DEF Report, folder, bounds
  <2>2. ASSUME complete', runs' = 1, fails' = 0
        PROVE  \A r \in Dependent \cap manifest.requested :
                  /\ sizes > 0
                  /\ made[results[r]].basis = sizes
                  /\ Base \in manifest.requested => results[Base] = sizes
    <3>1. Clean
      BY <2>1, <2>2 DEF Clean, OneCleanRun, SizesInv
    <3> QED
      BY <1>5, <2>1, <2>2, <3>1, ReportedSizes
  <2>3. SizesOfTheSweep'
    BY <2>1, <2>2 DEF SizesOfTheSweep
  <2> QED
    BY <1>1, <2>1, <2>3 DEF SizesInv
<1>6. CASE UNCHANGED vars
  <2>1. /\ pc' = pc /\ complete' = complete /\ results' = results /\ sizes' = sizes
        /\ manifest' = manifest /\ made' = made /\ runs' = runs /\ fails' = fails
    BY <1>6, Zenon DEF vars, proc, folder, bounds
  <2> QED
    BY <1>1, <2>1 DEF SizesInv, SizesOfTheSweep
<1> QED
  BY <1>3, <1>4, <1>5, <1>6 DEF Next, Proceed

\* A run on a new folder in which nothing fails measures every dependent recipe
\* with the sizes of the latency-sweep it reports or restored, wherever it was
\* killed and however often it was resumed.
THEOREM DependentsUseTheSweep == Spec => []SizesOfTheSweep
<1>1. Init => SizesInv
  <2> SUFFICES ASSUME Init PROVE SizesInv
    OBVIOUS
  <2>1. BeforeHeader /\ manifest.run = 0
    BY DEF Init, BeforeHeader, NoManifest, Nothing, Saved, File
  <2>2. SweepFirst /\ complete = FALSE
    BY <2>1 DEF SweepFirst, Init
  <2> QED
    BY <2>2 DEF SizesInv, SizesOfTheSweep
<1>2. ASSUME IInv, SizesInv, [Next]_vars PROVE SizesInv'
  BY <1>2, SizesKept
<1>3. SizesInv => SizesOfTheSweep
  BY DEF SizesInv
<1> QED
  BY <1>1, <1>2, <1>3, Invariance, PTL DEF Spec
=============================================================================
