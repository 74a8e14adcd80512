--------------------------- MODULE RunDiff_proofs ---------------------------
(***************************************************************************)
(* What `asct view` and `asct diff` show is what was measured, for any     *)
(* folders, recipes, results and commands: whichever version wrote a       *)
(* folder, and wherever saves into it were cut short.                      *)
(***************************************************************************)
EXTENDS RunDiff, FiniteSetTheorems, SequenceTheorems, TLAPS

----------------------------------------------------------------------------
(* Results and the files they are saved in *)

LEMMA ResultFacts ==
    ASSUME NEW rows \in Results
    PROVE  /\ rows \in Seq(Range(rows))
           /\ DOMAIN rows = 1 .. Len(rows) /\ Len(rows) \in Nat
           /\ \A m, n \in DOMAIN rows : rows[m].key = rows[n].key => m = n
           /\ Keys(rows) \cap IgnoredFields = {}
           /\ \A n \in DOMAIN rows : IsNumber(rows[n].value) => rows[n].value.number \in Nat
<1> DEFINE column == [n \in DOMAIN rows |-> rows[n].key]
<1>1. /\ rows \in Seq(Range(rows)) /\ IsInjective(column) /\ Keys(rows) \cap IgnoredFields = {}
      /\ \A n \in DOMAIN rows : IsNumber(rows[n].value) => rows[n].value.number \in Nat
  BY DiffAssumption
<1>2. \A m, n \in DOMAIN rows : rows[m].key = rows[n].key => m = n
  BY <1>1 DEF IsInjective
<1>3. DOMAIN rows = 1 .. Len(rows) /\ Len(rows) \in Nat
  <2> DEFINE S == Range(rows)
  <2>1. rows \in Seq(S)
    BY <1>1
  <2> HIDE DEF S
  <2> QED
    BY <2>1
<1> QED
  BY <1>1, <1>2, <1>3

\* A key stands for one row.
LEMMA ValueOfKey ==
    ASSUME NEW rows \in Results, NEW n \in DOMAIN rows
    PROVE  ValueOf(rows, rows[n].key) = rows[n].value
<1>1. \A m \in DOMAIN rows : rows[m].key = rows[n].key <=> m = n
  BY ResultFacts
<1>2. (CHOOSE m \in DOMAIN rows : rows[m].key = rows[n].key) = n
  BY <1>1
<1> QED
  BY <1>2 DEF ValueOf

LEMMA MeasurementByKey ==
    ASSUME NEW rows \in Results
    PROVE  Measurement(rows) = {<<k, ValueOf(rows, k)>> : k \in Keys(rows)}
BY ValueOfKey DEF Measurement, Keys

LEMMA FileStates ==
    /\ Absent # Torn
    /\ \A content : Whole(content) # Absent /\ Whole(content) # Torn
    /\ \A a, b : Whole(a) = Whole(b) => a = b
    /\ Absent.state = "absent" /\ Torn.state = "torn" /\ \A content : Whole(content).state = "whole"
    /\ \A content : Whole(content).content = content
BY DEF Absent, Torn, Whole

\* What the files of a result hold.
DataOf(recipe, rows) == Without(GetRawResults(recipe, rows), "summary")
SummaryOf(recipe, rows) == IF recipe \in Sweeps THEN Whole(ToDict(recipe, rows)) ELSE Absent
HashOf(recipe, rows) ==
    Whole([data |-> Whole(DataOf(recipe, rows)), metadata |-> Whole(recipe), summary |-> SummaryOf(recipe, rows)])
FullSave(recipe, rows) ==
    [data |-> Whole(DataOf(recipe, rows)), metadata |-> Whole(recipe), summary |-> SummaryOf(recipe, rows),
     hash |-> HashOf(recipe, rows)]

LEMMA RecipeCases ==
    ASSUME NEW r \in Recipe
    PROVE  r \in {"latency-sweep", "bandwidth-sweep", "peak-bandwidth", "ucie"}
BY DiffAssumption

LEMMA SweepCases == \A r : r \in Sweeps <=> r = "latency-sweep" \/ r = "bandwidth-sweep"
BY DEF Sweeps

LEMMA DataCases ==
    ASSUME NEW r \in Recipe, NEW rows
    PROVE  /\ r \in Sweeps => DataOf(r, rows) = [sweep_data |-> SweepData(rows)]
           /\ r = "ucie" => DataOf(r, rows) = [ucie |-> rows]
           /\ r = "peak-bandwidth" => DataOf(r, rows) = [Key |-> Column(rows, "key"), Value |-> Column(rows, "value")]
<1>1. CASE r \in Sweeps
  <2> DEFINE t == ToDict(r, rows)
             s == SweepData(rows)
  <2>1. GetRawResults(r, rows) = [sweep_data |-> s, summary |-> t]
    BY <1>1, SweepCases DEF GetRawResults
  <2> HIDE DEF s, t
  <2>2. Without([sweep_data |-> s, summary |-> t], "summary") = [sweep_data |-> s]
    BY DEF Without
  <2> QED
    BY <2>1, <2>2, <1>1, SweepCases DEF DataOf, s
<1>2. CASE r = "ucie"
  <2>1. GetRawResults(r, rows) = [ucie |-> rows]
    BY <1>2, SweepCases DEF GetRawResults
  <2>2. Without([ucie |-> rows], "summary") = [ucie |-> rows]
    BY DEF Without
  <2> QED
    BY <2>1, <2>2, <1>2, SweepCases DEF DataOf
<1>3. CASE r = "peak-bandwidth"
  <2> DEFINE k == Column(rows, "key")
             v == Column(rows, "value")
  <2>1. GetRawResults(r, rows) = [Key |-> k, Value |-> v]
    BY <1>3, SweepCases DEF GetRawResults, ToDict
  <2> HIDE DEF k, v
  <2>2. Without([Key |-> k, Value |-> v], "summary") = [Key |-> k, Value |-> v]
    BY DEF Without
  <2> QED
    BY <2>1, <2>2, <1>3, SweepCases DEF DataOf, k, v
<1> QED
  BY <1>1, <1>2, <1>3, RecipeCases, SweepCases

\* The columns of a sweep say which table it has: the data file decides on the summary.
LEMMA DataDecides ==
    ASSUME NEW r \in Recipe, NEW a \in Results, NEW b \in Results, DataOf(r, a) = DataOf(r, b)
    PROVE  SummaryOf(r, a) = SummaryOf(r, b)
<1>1. CASE r \notin Sweeps
  BY <1>1 DEF SummaryOf
<1>2. CASE r \in Sweeps
  <2>1. SweepData(a) = SweepData(b)
    BY <1>2, DataCases
  <2>2. Column(a, "key") = Column(b, "key") /\ Column(a, "value") = Column(b, "value")
    BY <2>1 DEF SweepData
  <2>3. DOMAIN a = DOMAIN b /\ \A n \in DOMAIN a : a[n].key = b[n].key /\ a[n].value = b[n].value
    <3>1. DOMAIN Column(a, "key") = DOMAIN a /\ DOMAIN Column(b, "key") = DOMAIN b
      BY DEF Column
    <3>2. \A n \in DOMAIN a : Column(a, "key")[n] = a[n].key /\ Column(a, "value")[n] = a[n].value
      BY DEF Column
    <3>3. \A n \in DOMAIN b : Column(b, "key")[n] = b[n].key /\ Column(b, "value")[n] = b[n].value
      BY DEF Column
    <3> QED
      BY <2>2, <3>1, <3>2, <3>3
  <2>4. Keys(a) = Keys(b)
    BY <2>3 DEF Keys
  <2>5. \A k \in Keys(a) : ValueOf(a, k) = ValueOf(b, k)
    <3> SUFFICES ASSUME NEW n \in DOMAIN a PROVE ValueOf(a, a[n].key) = ValueOf(b, a[n].key)
      BY DEF Keys
    <3> QED
      BY <2>3, ValueOfKey
  <2>6. ToDict(r, a) = ToDict(r, b)
    BY <2>2, <2>4, <2>5 DEF ToDict
  <2> QED
    BY <2>6 DEF SummaryOf
<1> QED
  BY <1>1, <1>2

LEMMA RawSummary ==
    ASSUME NEW r \in Sweeps, NEW rows
    PROVE  GetRawResults(r, rows).summary = ToDict(r, rows)
<1> DEFINE t == ToDict(r, rows)
           s == SweepData(rows)
<1>1. GetRawResults(r, rows) = [sweep_data |-> s, summary |-> t]
  BY SweepCases DEF GetRawResults
<1> HIDE DEF s, t
<1>2. [sweep_data |-> s, summary |-> t].summary = t
  OBVIOUS
<1> QED
  BY <1>1, <1>2 DEF t

\* The files after a save of which n were written and the next one, if torn, was begun.
SavedAs(now, d, r, rows, n, torn) ==
    /\ now = [data |-> now.data, metadata |-> now.metadata, summary |-> now.summary, hash |-> now.hash]
    /\ n >= 1 => now.data = Whole(DataOf(r, rows))
    /\ n = 0 => now.data = IF torn THEN Torn ELSE d.data
    /\ n >= 2 => now.metadata = Whole(r)
    /\ n < 2 => now.metadata \in {d.metadata, Torn}
    /\ n >= 3 => now.summary = SummaryOf(r, rows)
    /\ n < 3 => now.summary = IF n = 2 /\ torn /\ r \in Sweeps THEN Torn ELSE d.summary
    /\ n >= 4 => now.hash = HashOf(r, rows)
    /\ n < 3 => now.hash = d.hash
    /\ n = 3 => now.hash = IF torn THEN Torn ELSE d.hash

LEMMA SavedFiles ==
    ASSUME NEW d, NEW r \in Recipe, NEW rows, NEW n \in 0 .. 4, NEW torn \in BOOLEAN,
           r \in Sweeps \/ d.summary = Absent, torn => n < 4, NEW now, now = SaveFiles(d, r, rows, n, torn)
    PROVE  SavedAs(now, d, r, rows, n, torn)
<1> DEFINE data == Whole(DataOf(r, rows))
           metadata == Whole(r)
           summary == SummaryOf(r, rows)
           hash == HashOf(r, rows)
           step(k, was, new) == IF k <= n THEN new ELSE IF k = n + 1 /\ torn /\ new # Absent THEN Torn ELSE was
<1>1. (IF r \in Sweeps THEN Whole(GetRawResults(r, rows).summary) ELSE d.summary) = summary
  BY RawSummary DEF SummaryOf
<1>2. Digest([data |-> data, metadata |-> metadata, summary |-> summary]) = hash
  BY DEF Digest, HashOf
<1>3. now =
          [data |-> step(1, d.data, data), metadata |-> step(2, d.metadata, metadata),
           summary |-> step(3, d.summary, summary), hash |-> step(4, d.hash, hash)]
  BY <1>1, <1>2, Zenon DEF SaveFiles, DataOf
<1>4. data # Absent /\ metadata # Absent /\ hash # Absent /\ (summary # Absent <=> r \in Sweeps)
  BY FileStates DEF HashOf, SummaryOf
<1> HIDE DEF data, metadata, summary, hash
<1>5. /\ n >= 1 => step(1, d.data, data) = data
      /\ n = 0 => step(1, d.data, data) = IF torn THEN Torn ELSE d.data
      /\ n >= 2 => step(2, d.metadata, metadata) = metadata
      /\ n < 2 => step(2, d.metadata, metadata) \in {d.metadata, Torn}
      /\ n >= 3 => step(3, d.summary, summary) = summary
      /\ n < 3 => step(3, d.summary, summary) = IF n = 2 /\ torn /\ r \in Sweeps THEN Torn ELSE d.summary
      /\ n >= 4 => step(4, d.hash, hash) = hash
      /\ n < 3 => step(4, d.hash, hash) = d.hash
      /\ n = 3 => step(4, d.hash, hash) = IF torn THEN Torn ELSE d.hash
  BY <1>4
<1> HIDE DEF step
<1>6. \A w, x, y, z : LET files == [data |-> w, metadata |-> x, summary |-> y, hash |-> z] IN
          files.data = w /\ files.metadata = x /\ files.summary = y /\ files.hash = z
  OBVIOUS
<1> QED
  BY <1>3, <1>5, <1>6 DEF SavedAs, data, metadata, summary, hash

LEMMA WholeSave ==
    ASSUME NEW r \in Recipe, NEW rows
    PROVE  SaveFiles(NoFiles, r, rows, 4, FALSE) = FullSave(r, rows)
<1> DEFINE data == Whole(DataOf(r, rows))
           metadata == Whole(r)
           summary == SummaryOf(r, rows)
           hash == HashOf(r, rows)
           step(k, was, new) == IF k <= 4 THEN new ELSE IF k = 4 + 1 /\ FALSE /\ new # Absent THEN Torn ELSE was
<1>1. (IF r \in Sweeps THEN Whole(GetRawResults(r, rows).summary) ELSE NoFiles.summary) = summary
  BY RawSummary DEF SummaryOf, NoFiles
<1>2. Digest([data |-> data, metadata |-> metadata, summary |-> summary]) = hash
  BY DEF Digest, HashOf
<1>3. SaveFiles(NoFiles, r, rows, 4, FALSE) =
          [data |-> step(1, NoFiles.data, data), metadata |-> step(2, NoFiles.metadata, metadata),
           summary |-> step(3, NoFiles.summary, summary), hash |-> step(4, NoFiles.hash, hash)]
  BY <1>1, <1>2, Zenon DEF SaveFiles, DataOf
<1>4. \A was, new : \A k \in 1 .. 4 : step(k, was, new) = new
  OBVIOUS
<1> HIDE DEF step, data, metadata, summary, hash
<1>5. /\ step(1, NoFiles.data, data) = data /\ step(2, NoFiles.metadata, metadata) = metadata
      /\ step(3, NoFiles.summary, summary) = summary /\ step(4, NoFiles.hash, hash) = hash
  BY <1>4
<1> QED
  BY <1>3, <1>5, Zenon DEF FullSave, data, metadata, summary, hash

----------------------------------------------------------------------------
(* The inductive invariant *)

\* The files of a recipe: each is missing, torn or a file of some save, and
\* m is the result of which all files are there.
FilesOK(r, d, m) ==
    /\ d = [data |-> d.data, metadata |-> d.metadata, summary |-> d.summary, hash |-> d.hash]
    /\ d.data \in {Absent, Torn} \/ \E rows \in Results : d.data = Whole(DataOf(r, rows))
    /\ d.metadata \in {Absent, Torn, Whole(r)}
    /\ d.summary \in {Absent, Torn} \/ \E rows \in Results : d.summary = SummaryOf(r, rows)
    /\ d.summary # Absent => r \in Sweeps
    /\ d.hash \in {Absent, Torn} \/ \E rows \in Results : d.hash = HashOf(r, rows)
    /\ d.hash # Absent => d.data # Absent
    /\ \A rows \in Results : d = FullSave(r, rows) => m # <<>>
    /\ m # <<>> => \E rows \in Results : m = <<rows>> /\ d = FullSave(r, rows)

NewFolder(fd, ms) ==
    /\ fd = [EmptyFolder EXCEPT !.dirs = fd.dirs]
    /\ DOMAIN fd.dirs = Recipe /\ DOMAIN ms = Recipe
    /\ \A r \in Recipe : FilesOK(r, fd.dirs[r], ms[r])

KeptFolder(fd, ms, olds) == \E old \in olds : fd = OldFolder(old) /\ ms = [r \in Recipe |-> <<old.results[r]>>]

FoldersOK ==
    /\ DOMAIN folder = Folder /\ DOMAIN measured = Folder
    /\ \A f \in Folder : NewFolder(folder[f], measured[f]) \/ KeptFolder(folder[f], measured[f], OldRuns[f])

DiskInv ==
    /\ FoldersOK
    /\ saves \in 0 .. MaxSaves
    /\ out.command \in {"none", "view", "diff"}

----------------------------------------------------------------------------
(* Saves *)

LEMMA NoFilesOK ==
    ASSUME NEW r \in Recipe
    PROVE  FilesOK(r, NoFiles, <<>>)
<1>1. NoFiles = [data |-> Absent, metadata |-> Absent, summary |-> Absent, hash |-> Absent]
  BY DEF NoFiles
<1>2. /\ NoFiles.data = Absent /\ NoFiles.metadata = Absent
      /\ NoFiles.summary = Absent /\ NoFiles.hash = Absent
  BY DEF NoFiles
<1>3. \A rows \in Results : NoFiles # FullSave(r, rows)
  <2> SUFFICES ASSUME NEW rows \in Results PROVE NoFiles # FullSave(r, rows)
    OBVIOUS
  <2>1. FullSave(r, rows).data = Whole(DataOf(r, rows))
    BY DEF FullSave
  <2> QED
    BY <2>1, <1>2, FileStates
<1> QED
  BY <1>1, <1>2, <1>3, Zenon DEF FilesOK

LEMMA FullSaveParts ==
    ASSUME NEW r, NEW rows
    PROVE  /\ FullSave(r, rows).data = Whole(DataOf(r, rows))
           /\ FullSave(r, rows).metadata = Whole(r)
           /\ FullSave(r, rows).summary = SummaryOf(r, rows)
           /\ FullSave(r, rows).hash = HashOf(r, rows)
BY DEF FullSave

\* A save that leaves the files of a whole result has written this one.
LEMMA OneResult ==
    ASSUME NEW r \in Recipe, NEW d, NEW m, FilesOK(r, d, m), NEW rows \in Results, NEW n \in 0 .. 4,
           NEW torn \in BOOLEAN, torn => n < 4, n = 0 => torn,
           NEW now, now = SaveFiles(d, r, rows, n, torn), NEW other \in Results, now = FullSave(r, other)
    PROVE  now = FullSave(r, rows)
<1>1. now.data = Whole(DataOf(r, other))
  BY FullSaveParts
<1>2. r \in Sweeps \/ d.summary = Absent
  BY DEF FilesOK
<1>0. SavedAs(now, d, r, rows, n, torn)
  BY <1>2, SavedFiles
<1>3. n >= 1
  <2> SUFFICES ASSUME n = 0 PROVE FALSE
    OBVIOUS
  <2>1. now.data = Torn
    BY <1>0 DEF SavedAs
  <2> QED
    BY <2>1, <1>1, FileStates, Zenon
<1>4. now.data = Whole(DataOf(r, rows))
  BY <1>0, <1>3 DEF SavedAs
<1>5. DataOf(r, rows) = DataOf(r, other)
  BY <1>1, <1>4, FileStates
<1>6. SummaryOf(r, rows) = SummaryOf(r, other)
  BY <1>5, DataDecides
<1> QED
  BY <1>5, <1>6, Zenon DEF FullSave, HashOf

LEMMA FilesKept ==
    ASSUME NEW r \in Recipe, NEW d, NEW m, FilesOK(r, d, m), NEW rows \in Results, NEW n \in 0 .. 4,
           NEW torn \in BOOLEAN, torn => n < 4, n = 0 => torn,
           NEW now, now = SaveFiles(d, r, rows, n, torn),
           NEW mm, mm = IF now = FullSave(r, rows) THEN <<rows>> ELSE IF now = d THEN m ELSE <<>>
    PROVE  FilesOK(r, now, mm)
<1>1. r \in Sweeps \/ d.summary = Absent
  BY DEF FilesOK
<1>2. SavedAs(now, d, r, rows, n, torn)
  BY <1>1, SavedFiles
<1>3. n = 0 \/ n = 1 \/ n = 2 \/ n = 3 \/ n = 4
  OBVIOUS
<1>4. now.data = Torn \/ now.data = Whole(DataOf(r, rows))
  BY <1>2, <1>3 DEF SavedAs
<1>5. now.metadata \in {Absent, Torn, Whole(r)}
  BY <1>2, <1>3 DEF FilesOK, SavedAs
<1>6. now.summary \in {Absent, Torn} \/ \E x \in Results : now.summary = SummaryOf(r, x)
  BY <1>2, <1>3 DEF FilesOK, SavedAs
<1>7. now.summary # Absent => r \in Sweeps
  BY <1>2, <1>3 DEF FilesOK, SavedAs, SummaryOf
<1>8. now.hash \in {Absent, Torn} \/ \E x \in Results : now.hash = HashOf(r, x)
  BY <1>2, <1>3 DEF FilesOK, SavedAs
<1>9. now.data # Absent
  BY <1>4, FileStates
<1>10. \A x \in Results : now = FullSave(r, x) => mm # <<>>
  BY OneResult
<1>11. mm # <<>> => \E x \in Results : mm = <<x>> /\ now = FullSave(r, x)
  <2>1. m # <<>> => \E x \in Results : m = <<x>> /\ d = FullSave(r, x)
    BY DEF FilesOK
  <2> QED
    BY <2>1, Zenon
<1>12. now = [data |-> now.data, metadata |-> now.metadata, summary |-> now.summary, hash |-> now.hash]
  BY <1>2 DEF SavedAs
<1> QED
  BY <1>4, <1>5, <1>6, <1>7, <1>8, <1>9, <1>10, <1>11, <1>12, Zenon DEF FilesOK

LEMMA EmptyFolderOK == NewFolder(EmptyFolder, [r \in Recipe |-> <<>>])
<1>1. EmptyFolder = [EmptyFolder EXCEPT !.dirs = EmptyFolder.dirs]
  BY DEF EmptyFolder
<1>2. EmptyFolder.dirs = [r \in Recipe |-> NoFiles]
  BY DEF EmptyFolder
<1> QED
  BY <1>1, <1>2, NoFilesOK DEF NewFolder

LEMMA DiskInit == Init => DiskInv
<1> SUFFICES ASSUME Init PROVE DiskInv
  OBVIOUS
<1> PICK old \in [Folder -> UNION Range(OldRuns) \cup {Nothing}] :
        /\ \A f \in Folder : old[f] \in IF OldRuns[f] = {} THEN {Nothing} ELSE OldRuns[f]
        /\ folder = [f \in Folder |-> IF old[f] = Nothing THEN EmptyFolder ELSE OldFolder(old[f])]
        /\ measured = [f \in Folder |-> [r \in Recipe |-> IF old[f] = Nothing THEN <<>> ELSE <<old[f].results[r]>>]]
  BY Zenon DEF Init
<1>1. DOMAIN folder = Folder /\ DOMAIN measured = Folder
  OBVIOUS
<1>2. ASSUME NEW f \in Folder
      PROVE  NewFolder(folder[f], measured[f]) \/ KeptFolder(folder[f], measured[f], OldRuns[f])
  <2>1. CASE old[f] = Nothing
    <3>1. folder[f] = EmptyFolder /\ measured[f] = [r \in Recipe |-> <<>>]
      BY <2>1
    <3> QED
      BY <3>1, EmptyFolderOK
  <2>2. CASE old[f] # Nothing
    <3>1. folder[f] = OldFolder(old[f]) /\ measured[f] = [r \in Recipe |-> <<old[f].results[r]>>]
      BY <2>2
    <3>2. old[f] \in OldRuns[f]
      BY <2>2
    <3> QED
      BY <3>1, <3>2, Zenon DEF KeptFolder
  <2> QED
    BY <2>1, <2>2
<1>3. saves \in 0 .. MaxSaves
  BY DiffAssumption DEF Init
<1>4. out.command \in {"none", "view", "diff"}
  BY DEF Init, Nothing
<1> QED
  BY <1>1, <1>2, <1>3, <1>4 DEF DiskInv, FoldersOK

\* Only folders of this version are written to.
LEMMA OldIsNotNow ==
    ASSUME NEW f \in Folder, NEW old \in OldRuns[f]
    PROVE  OldFolder(old).metadata # "now"
<1>1. old.version \in {"0.4", "0.5", "0.6"}
  BY DiffAssumption
<1> QED
  BY <1>1 DEF OldFolder, EmptyFolder

LEMMA SaveKeepsDisk ==
    ASSUME DiskInv, NEW f \in Folder, NEW r \in Recipe, NEW rows \in Results, NEW n \in 0 .. 4, NEW torn \in BOOLEAN,
           SaveBenchmarkResult(f, r, rows, n, torn)
    PROVE  DiskInv'
<1> DEFINE d == folder[f].dirs[r]
           now == SaveFiles(d, r, rows, n, torn)
           mm == IF now = FullSave(r, rows) THEN <<rows>> ELSE IF now = d THEN measured[f][r] ELSE <<>>
<1>1. /\ folder' = [folder EXCEPT ![f].dirs[r] = now]
      /\ saves' = saves + 1 /\ saves < MaxSaves /\ out' = out
      /\ folder[f].metadata = "now" /\ (torn => n < 4) /\ (n = 0 => torn)
  BY Zenon DEF SaveBenchmarkResult
<1>2. measured' = [measured EXCEPT ![f][r] = mm]
  BY WholeSave, Zenon DEF SaveBenchmarkResult
<1>3. NewFolder(folder[f], measured[f])
  BY <1>1, OldIsNotNow DEF DiskInv, FoldersOK, KeptFolder
<1>4. FilesOK(r, now, mm)
  <2>1. FilesOK(r, d, measured[f][r])
    BY <1>3 DEF NewFolder
  <2> QED
    BY <1>1, <2>1, FilesKept
<1> HIDE DEF now, mm
<1>5. NewFolder(folder'[f], measured'[f])
  <2> DEFINE fd == folder[f]
             dirs == [fd.dirs EXCEPT ![r] = now]
             ms == [measured[f] EXCEPT ![r] = mm]
  <2>1. folder'[f] = [fd EXCEPT !.dirs = dirs] /\ measured'[f] = ms
    BY <1>1, <1>2 DEF DiskInv, FoldersOK
  <2>2. fd = [EmptyFolder EXCEPT !.dirs = fd.dirs] /\ DOMAIN fd.dirs = Recipe /\ DOMAIN measured[f] = Recipe
    BY <1>3 DEF NewFolder
  <2>3. DOMAIN dirs = Recipe /\ DOMAIN ms = Recipe /\ \A x \in Recipe : FilesOK(x, dirs[x], ms[x])
    BY <2>2, <1>3, <1>4 DEF NewFolder
  <2> HIDE DEF fd, dirs, ms
  <2>4. [fd EXCEPT !.dirs = dirs] = [EmptyFolder EXCEPT !.dirs = dirs]
    BY <2>2 DEF EmptyFolder
  <2>5. [EmptyFolder EXCEPT !.dirs = dirs].dirs = dirs
    BY DEF EmptyFolder
  <2> QED
    BY <2>1, <2>3, <2>4, <2>5 DEF NewFolder
<1>6. \A g \in Folder \ {f} : folder'[g] = folder[g] /\ measured'[g] = measured[g]
  BY <1>1, <1>2 DEF DiskInv, FoldersOK
<1>7. DOMAIN folder' = Folder /\ DOMAIN measured' = Folder
  BY <1>1, <1>2 DEF DiskInv, FoldersOK
<1>8. FoldersOK'
  BY <1>5, <1>6, <1>7 DEF DiskInv, FoldersOK
<1>9. saves' \in 0 .. MaxSaves /\ out'.command \in {"none", "view", "diff"}
  BY <1>1, DiffAssumption DEF DiskInv
<1> QED
  BY <1>8, <1>9 DEF DiskInv

\* The commands only read.
LEMMA DiskStep == DiskInv /\ [Next]_vars => DiskInv'
<1> SUFFICES ASSUME DiskInv, [Next]_vars PROVE DiskInv'
  OBVIOUS
<1>0. ASSUME UNCHANGED <<folder, measured, saves>>, out'.command \in {"none", "view", "diff"}
      PROVE  DiskInv'
  BY <1>0 DEF DiskInv, FoldersOK
<1>1. ASSUME NEW f \in Folder, NEW r \in Recipe, NEW rows \in Results, NEW n \in 0 .. 4, NEW torn \in BOOLEAN,
             SaveBenchmarkResult(f, r, rows, n, torn)
      PROVE  DiskInv'
  BY <1>1, SaveKeepsDisk
<1>2. ASSUME NEW f \in Folder, View(f) PROVE DiskInv'
  <2>1. out'.command = "view"
    BY <1>2 DEF View, Failed
  <2> QED
    BY <1>0, <1>2, <2>1 DEF View
<1>3. ASSUME NEW c \in Commands, Diff(c.dirs, c.baseline, c.only) PROVE DiskInv'
  <2>1. UNCHANGED <<folder, measured, saves>>
    BY <1>3, Zenon DEF Diff
  <2>2. out'.command = "diff"
    <3>1. \/ out' = Failed("diff")
          \/ \E a, b, d, e, x, y : out' = [command |-> "diff", error |-> FALSE, runs |-> a, only |-> b,
                                           records |-> d, summary |-> e, table |-> x, plots |-> y]
      BY <1>3, Zenon DEF Diff
    <3> QED
      BY <3>1 DEF Failed
  <2> QED
    BY <1>0, <2>1, <2>2
<1>4. CASE Exit
  BY <1>0, <1>4 DEF Exit, Nothing
<1>5. CASE UNCHANGED vars
  BY <1>5 DEF vars, DiskInv, FoldersOK
<1> QED
  BY <1>1, <1>2, <1>3, <1>4, <1>5 DEF Next

----------------------------------------------------------------------------
(* Tables read back *)

\* The table of a result.
TableOf(r, rows) == IF r = "ucie" THEN [ucie |-> rows] ELSE ToDict(r, rows)

LEMMA ToDictCases ==
    ASSUME NEW rows, NEW r
    PROVE  /\ r = "latency-sweep" => ToDict(r, rows) = [Value |-> [k \in Keys(rows) |-> ValueOf(rows, k)]]
           /\ r # "latency-sweep" => ToDict(r, rows) = [Key |-> Column(rows, "key"), Value |-> Column(rows, "value")]
BY DEF ToDict

LEMMA TableRows ==
    ASSUME NEW r \in Recipe, NEW rows \in Results
    PROVE  RowsOf(r, TableOf(r, rows)) = Measurement(rows)
<1>1. CASE r = "latency-sweep"
  <2> DEFINE v == [k \in Keys(rows) |-> ValueOf(rows, k)]
  <2>1. TableOf(r, rows) = [Value |-> v]
    BY <1>1, ToDictCases DEF TableOf
  <2>2. RowsOf(r, [Value |-> v]) = {<<k, v[k]>> : k \in DOMAIN v}
    <3> HIDE DEF v
    <3> QED
      BY <1>1 DEF RowsOf
  <2>3. {<<k, v[k]>> : k \in DOMAIN v} = {<<k, ValueOf(rows, k)>> : k \in Keys(rows)}
    OBVIOUS
  <2> QED
    BY <2>1, <2>2, <2>3, MeasurementByKey
<1>2. CASE r = "ucie"
  BY <1>2 DEF TableOf, RowsOf, Measurement
<1>3. CASE r \in {"bandwidth-sweep", "peak-bandwidth"}
  <2> DEFINE k == Column(rows, "key")
             v == Column(rows, "value")
  <2>1. TableOf(r, rows) = [Key |-> k, Value |-> v]
    BY <1>3, ToDictCases DEF TableOf
  <2>2. RowsOf(r, [Key |-> k, Value |-> v]) = {<<k[n], v[n]>> : n \in DOMAIN k}
    <3> HIDE DEF k, v
    <3> QED
      BY <1>3 DEF RowsOf
  <2>3. {<<k[n], v[n]>> : n \in DOMAIN k} = Measurement(rows)
    BY DEF Column, Measurement
  <2> QED
    BY <2>1, <2>2, <2>3
<1> QED
  BY <1>1, <1>2, <1>3, RecipeCases

LEMMA DeserializeCases ==
    ASSUME NEW r, NEW raw, NEW y
    PROVE  LET table == IF r \in Sweeps /\ "summary" \in DOMAIN raw THEN raw.summary ELSE raw IN
           /\ Deserialize(r, [raw_result |-> raw]) = table
           /\ Deserialize(r, [raw_result |-> raw, metadata |-> y]) = table
           /\ "raw_result" \notin DOMAIN raw => Deserialize(r, raw) = table
BY DEF Deserialize

LEMMA WithSummary ==
    ASSUME NEW s, NEW t
    PROVE  With([sweep_data |-> s], "summary", t) = [sweep_data |-> s, summary |-> t]
BY DEF With

\* The raw result of a sweep, with its summary, and of another recipe.
LEMMA RawCases ==
    ASSUME NEW r \in Recipe, NEW rows
    PROVE  /\ r \in Sweeps => GetRawResults(r, rows) = [sweep_data |-> SweepData(rows), summary |-> TableOf(r, rows)]
           /\ r \notin Sweeps => GetRawResults(r, rows) = TableOf(r, rows) /\ DataOf(r, rows) = TableOf(r, rows)
<1>1. CASE r \in Sweeps
  BY <1>1, SweepCases, Zenon DEF GetRawResults, TableOf
<1>2. CASE r = "ucie"
  BY <1>2, SweepCases, DataCases DEF GetRawResults, TableOf
<1>3. CASE r = "peak-bandwidth"
  BY <1>3, SweepCases, DataCases, ToDictCases DEF GetRawResults, TableOf
<1> QED
  BY <1>1, <1>2, <1>3, RecipeCases, SweepCases

LEMMA TableDomain ==
    ASSUME NEW r \in Recipe, NEW rows
    PROVE  "raw_result" \notin DOMAIN TableOf(r, rows) /\ "json" \notin DOMAIN TableOf(r, rows)
BY RecipeCases, ToDictCases DEF TableOf

LEMMA ReadBackNew ==
    ASSUME NEW r \in Recipe, NEW rows, NEW d, d = FullSave(r, rows)
    PROVE  /\ Deserialize(r, PayloadForDeserialize(d)) = TableOf(r, rows)
           /\ HasValidSavedRecipe(d) /\ Readable(d)
<1>1. /\ d.data = Whole(DataOf(r, rows)) /\ d.metadata = Whole(r)
      /\ d.summary = SummaryOf(r, rows) /\ d.hash = HashOf(r, rows)
  BY FullSaveParts
<1>2. HasValidSavedRecipe(d)
  <2>1. d.hash = Digest(d)
    BY <1>1 DEF Digest, HashOf
  <2> QED
    BY <1>1, <2>1, FileStates DEF HasValidSavedRecipe, HashOf
<1>3. Readable(d)
  <2>1. d.data # Torn /\ d.metadata # Torn /\ d.summary # Torn /\ d.data # Absent
    BY <1>1, FileStates DEF SummaryOf
  <2>2. d["data"] = d.data /\ d["metadata"] = d.metadata /\ d["summary"] = d.summary
    OBVIOUS
  <2> QED
    BY <2>1, <2>2 DEF Readable
<1>4. d.data.content = DataOf(r, rows)
  BY <1>1, FileStates
<1>5. CASE r \in Sweeps
  <2> DEFINE s == SweepData(rows)
             t == TableOf(r, rows)
             raw == [sweep_data |-> s, summary |-> t]
  <2>1. t = ToDict(r, rows)
    BY <1>5, SweepCases DEF TableOf
  <2>2. d.summary # Absent /\ d.summary.content = t
    BY <1>1, <1>5, <2>1, FileStates DEF SummaryOf
  <2>3. d.data.content = [sweep_data |-> s]
    BY <1>4, <1>5, DataCases
  <2> HIDE DEF s, t
  <2>4. PayloadForDeserialize(d) = [raw_result |-> raw]
    BY <2>2, <2>3, WithSummary DEF PayloadForDeserialize
  <2>5. "summary" \in DOMAIN raw /\ raw.summary = t
    OBVIOUS
  <2> HIDE DEF raw
  <2>6. Deserialize(r, PayloadForDeserialize(d)) = t
    BY <2>4, <2>5, <1>5, DeserializeCases
  <2> QED
    BY <1>2, <1>3, <2>6 DEF t
<1>6. CASE r \notin Sweeps
  <2>1. d.summary = Absent
    BY <1>1, <1>6 DEF SummaryOf
  <2>2. PayloadForDeserialize(d) = [raw_result |-> DataOf(r, rows)]
    BY <1>4, <2>1, Zenon DEF PayloadForDeserialize
  <2>3. Deserialize(r, PayloadForDeserialize(d)) = DataOf(r, rows)
    <3> DEFINE raw == DataOf(r, rows)
    <3> HIDE DEF raw
    <3>1. Deserialize(r, [raw_result |-> raw]) = raw
      BY <1>6 DEF Deserialize
    <3> QED
      BY <2>2, <3>1 DEF raw
  <2> QED
    BY <1>2, <1>3, <1>6, <2>3, RawCases
<1> QED
  BY <1>5, <1>6

\* The hash holds only for the files of one save.
LEMMA ValidIsFull ==
    ASSUME NEW r \in Recipe, NEW d, NEW m, FilesOK(r, d, m)
    PROVE  HasValidSavedRecipe(d) <=> m # <<>>
<1>1. ASSUME HasValidSavedRecipe(d) PROVE m # <<>>
  <2>1. d.hash = Digest(d)
    BY <1>1 DEF HasValidSavedRecipe
  <2>2. d.hash \notin {Absent, Torn}
    BY <2>1, FileStates DEF Digest
  <2>3. PICK rows \in Results : d.hash = HashOf(r, rows)
    BY <2>2 DEF FilesOK
  <2>4. [data |-> d.data, metadata |-> d.metadata, summary |-> d.summary] =
            [data |-> Whole(DataOf(r, rows)), metadata |-> Whole(r), summary |-> SummaryOf(r, rows)]
    BY <2>1, <2>3, FileStates DEF Digest, HashOf
  <2> DEFINE a == Whole(DataOf(r, rows))
             b == Whole(r)
             c == SummaryOf(r, rows)
  <2>5. d.data = a /\ d.metadata = b /\ d.summary = c
    <3> HIDE DEF a, b, c
    <3>1. [data |-> d.data, metadata |-> d.metadata, summary |-> d.summary] = [data |-> a, metadata |-> b, summary |-> c]
      BY <2>4 DEF a, b, c
    <3> QED
      BY <3>1
  <2>6. d = [data |-> d.data, metadata |-> d.metadata, summary |-> d.summary, hash |-> d.hash]
    BY DEF FilesOK
  <2>7. d = FullSave(r, rows)
    BY <2>3, <2>5, <2>6, Zenon DEF FullSave
  <2> QED
    BY <2>7 DEF FilesOK
<1>2. ASSUME m # <<>> PROVE HasValidSavedRecipe(d)
  BY <1>2, ReadBackNew DEF FilesOK
<1> QED
  BY <1>1, <1>2

LEMMA OldFacts ==
    ASSUME NEW f \in Folder, NEW old \in OldRuns[f]
    PROVE  /\ old.version \in {"0.4", "0.5", "0.6"}
           /\ \A r \in Recipe : old.results[r] \in Results
           /\ old.version = "0.5" /\ "bandwidth-sweep" \in Recipe =>
                 /\ "latency-sweep" \in Recipe
                 /\ Keys(old.results["bandwidth-sweep"]) \subseteq Keys(old.results["latency-sweep"])
BY DiffAssumption

LEMMA OldFolderParts ==
    ASSUME NEW old
    PROVE  LET fd == OldFolder(old) IN
           /\ \A r \in Recipe : fd.dirs[r] = NoFiles
           /\ DOMAIN fd.raw = Recipe
           /\ old.version = "0.5" =>
                 /\ fd.metadata = ""
                 /\ fd.diff = [r \in Recipe |-> LegacyFields(r, old.results[r])]
                 /\ fd.raw = [r \in Recipe |-> IF r \in Sweeps THEN [json |-> SweepData(old.results[r])]
                                               ELSE GetRawResults(r, old.results[r])]
                 /\ fd.legacy = [r \in Recipe \cap Sweeps |-> old.results[r]]
           /\ old.version # "0.5" =>
                 /\ fd.metadata = old.version
                 /\ fd.raw = [r \in Recipe |-> Serialize(r, old.results[r])]
                 /\ fd.legacy = NoEntries
BY DEF OldFolder, EmptyFolder

\* 0.5: a bandwidth sweep is shown at the levels of the latency sweep.
LEMMA LegacyBandwidthRows ==
    ASSUME NEW rows \in Results, NEW lat \in Results, Keys(rows) \subseteq Keys(lat), NEW table,
           table = LET levels == Column(lat, "key")
                       found == {n \in DOMAIN levels : levels[n] \in Keys(rows)}
                   IN [Key |-> [n \in found |-> levels[n]], Value |-> [n \in found |-> ValueOf(rows, levels[n])]]
    PROVE  RowsOf("bandwidth-sweep", table) = Measurement(rows)
<1> DEFINE found == {n \in DOMAIN lat : lat[n].key \in Keys(rows)}
           k == [n \in found |-> lat[n].key]
           v == [n \in found |-> ValueOf(rows, lat[n].key)]
<1>1. table = [Key |-> k, Value |-> v]
  <2>1. DOMAIN Column(lat, "key") = DOMAIN lat /\ \A n \in DOMAIN lat : Column(lat, "key")[n] = lat[n].key
    BY DEF Column
  <2> DEFINE c == Column(lat, "key")
             set == {n \in DOMAIN c : c[n] \in Keys(rows)}
  <2>2. set = found
    BY <2>1
  <2>3. table = [Key |-> [n \in set |-> c[n]], Value |-> [n \in set |-> ValueOf(rows, c[n])]]
    OBVIOUS
  <2>4. [n \in set |-> c[n]] = k /\ [n \in set |-> ValueOf(rows, c[n])] = v
    BY <2>1, <2>2
  <2> QED
    BY <2>3, <2>4, Zenon
<1>2. RowsOf("bandwidth-sweep", table) = {<<k[n], v[n]>> : n \in DOMAIN k}
  <2> HIDE DEF k, v
  <2> QED
    BY <1>1 DEF RowsOf
<1>3. {<<k[n], v[n]>> : n \in DOMAIN k} = {<<lat[n].key, ValueOf(rows, lat[n].key)>> : n \in found}
  OBVIOUS
<1>4. {<<lat[n].key, ValueOf(rows, lat[n].key)>> : n \in found} = {<<x, ValueOf(rows, x)>> : x \in Keys(rows)}
  <2>1. \A x \in Keys(rows) : \E n \in found : lat[n].key = x
    BY DEF Keys
  <2>2. \A n \in found : lat[n].key \in Keys(rows)
    OBVIOUS
  <2> HIDE DEF found
  <2> QED
    BY <2>1, <2>2
<1> QED
  BY <1>2, <1>3, <1>4, MeasurementByKey

LEMMA ReadBackOld ==
    ASSUME NEW f \in Folder, NEW old \in OldRuns[f], NEW r \in Recipe, NEW fd, fd = OldFolder(old)
    PROVE  RowsOf(r, Deserialize(r, LegacyPayload(fd, r))) = Measurement(old.results[r])
<1> DEFINE rows == old.results[r]
<1>0. rows \in Results
  BY OldFacts
<1>1. CASE old.version # "0.5"
  <2>1. LegacyPayload(fd, r) = Serialize(r, rows)
    <3>1. fd.legacy = NoEntries /\ fd.raw[r] = Serialize(r, rows)
      BY <1>1, OldFolderParts
    <3>2. r \notin DOMAIN fd.legacy
      BY <3>1 DEF NoEntries
    <3> QED
      BY <3>1, <3>2, Zenon DEF LegacyPayload
  <2>2. Serialize(r, rows) = [raw_result |-> GetRawResults(r, rows), metadata |-> r]
    BY DEF Serialize
  <2>3. Deserialize(r, Serialize(r, rows)) = TableOf(r, rows)
    <3>1. CASE r \in Sweeps
      <4> DEFINE s == SweepData(rows)
                 t == TableOf(r, rows)
                 raw == [sweep_data |-> s, summary |-> t]
      <4>1. GetRawResults(r, rows) = raw
        BY <3>1, RawCases
      <4> HIDE DEF s, t
      <4>2. "summary" \in DOMAIN raw /\ raw.summary = t
        OBVIOUS
      <4> HIDE DEF raw
      <4>3. Deserialize(r, [raw_result |-> raw, metadata |-> r]) = t
        BY <4>2, <3>1, DeserializeCases
      <4> QED
        BY <4>1, <4>3, <2>2 DEF t
    <3>2. CASE r \notin Sweeps
      <4> DEFINE raw == GetRawResults(r, rows)
      <4> HIDE DEF raw
      <4>1. Deserialize(r, [raw_result |-> raw, metadata |-> r]) = raw
        BY <3>2 DEF Deserialize
      <4> QED
        BY <4>1, <2>2, <3>2, RawCases DEF raw
    <3> QED
      BY <3>1, <3>2
  <2> QED
    BY <1>0, <2>1, <2>3, TableRows
<1>2. CASE old.version = "0.5" /\ r \notin Sweeps
  <2>1. r \notin DOMAIN fd.legacy /\ fd.raw[r] = GetRawResults(r, rows)
    <3>1. /\ fd.legacy = [x \in Recipe \cap Sweeps |-> old.results[x]]
          /\ fd.raw = [x \in Recipe |-> IF x \in Sweeps THEN [json |-> SweepData(old.results[x])]
                                       ELSE GetRawResults(x, old.results[x])]
      BY <1>2, OldFolderParts
    <3>2. fd.raw[r] = GetRawResults(r, rows)
      BY <1>2, <3>1, Zenon
    <3> QED
      BY <1>2, <3>1, <3>2
  <2>2. LegacyPayload(fd, r) = TableOf(r, rows)
    BY <2>1, <1>2, RawCases, Zenon DEF LegacyPayload
  <2>3. Deserialize(r, TableOf(r, rows)) = TableOf(r, rows)
    <3> DEFINE raw == TableOf(r, rows)
    <3>1. "raw_result" \notin DOMAIN raw
      BY TableDomain
    <3> HIDE DEF raw
    <3>2. Deserialize(r, raw) = raw
      BY <3>1, <1>2, DeserializeCases
    <3> QED
      BY <3>2 DEF raw
  <2> QED
    BY <1>0, <2>2, <2>3, TableRows
<1>3. CASE old.version = "0.5" /\ r \in Sweeps
  <2>0. fd.legacy = [x \in Recipe \cap Sweeps |-> old.results[x]]
    BY <1>3, OldFolderParts
  <2>1. r \in DOMAIN fd.legacy /\ fd.legacy[r] = rows
    BY <1>3, <2>0
  <2> DEFINE s == fd.raw[r].json
  <2>2. ASSUME NEW t, LegacyPayload(fd, r) = [raw_result |-> [sweep_data |-> s, summary |-> t]]
        PROVE  Deserialize(r, LegacyPayload(fd, r)) = t
    <3> DEFINE raw == [sweep_data |-> s, summary |-> t]
    <3> HIDE DEF s
    <3>1. "summary" \in DOMAIN raw /\ raw.summary = t
      OBVIOUS
    <3>2. LegacyPayload(fd, r) = [raw_result |-> raw]
      BY <2>2
    <3> HIDE DEF raw
    <3> QED
      BY <3>1, <3>2, <1>3, DeserializeCases
  <2>3. CASE r = "latency-sweep"
    <3>1. LegacyPayload(fd, r) = [raw_result |-> [sweep_data |-> s, summary |-> ToDict(r, rows)]]
      BY <2>1, <2>3, Zenon DEF LegacyPayload
    <3>2. Deserialize(r, LegacyPayload(fd, r)) = TableOf(r, rows)
      BY <2>2, <2>3, <3>1 DEF TableOf
    <3> QED
      BY <1>0, <3>2, TableRows
  <2>4. CASE r = "bandwidth-sweep"
    <3> DEFINE lat == old.results["latency-sweep"]
               levels == Column(lat, "key")
               found == {n \in DOMAIN levels : levels[n] \in Keys(rows)}
               t == [Key |-> [n \in found |-> levels[n]], Value |-> [n \in found |-> ValueOf(rows, levels[n])]]
    <3>1. "latency-sweep" \in Recipe /\ Keys(rows) \subseteq Keys(lat) /\ lat \in Results
      BY <1>3, <2>4, OldFacts
    <3>2. "latency-sweep" \in DOMAIN fd.legacy /\ fd.legacy["latency-sweep"] = lat
      BY <2>0, <3>1, SweepCases
    <3>3. LegacyPayload(fd, r) = [raw_result |-> [sweep_data |-> s, summary |-> t]]
      BY <2>1, <2>4, <3>2, Zenon DEF LegacyPayload
    <3>4. RowsOf("bandwidth-sweep", t) = Measurement(rows)
      BY <1>0, <3>1, LegacyBandwidthRows
    <3>5. Deserialize(r, LegacyPayload(fd, r)) = t
      BY <3>3, <2>2
    <3> QED
      BY <2>4, <3>4, <3>5
  <2> QED
    BY <1>3, <2>3, <2>4, SweepCases
<1> QED
  BY <1>1, <1>2, <1>3

----------------------------------------------------------------------------
(* asct view *)

LEMMA ShownNew ==
    ASSUME NEW fd, NEW ms, NewFolder(fd, ms), Discover(fd) # {}, NEW shown, shown = Shown(fd), NEW r \in Recipe
    PROVE  /\ r \in DOMAIN shown <=> ms[r] # <<>>
           /\ r \in DOMAIN shown => RowsOf(r, shown[r]) = Measurement(ms[r][1])
<1> DEFINE S == {s \in Discover(fd) : HasValidSavedRecipe(fd.dirs[s]) /\ Readable(fd.dirs[s])}
<1>1. shown = [s \in S |-> Deserialize(s, PayloadForDeserialize(fd.dirs[s]))]
  BY Zenon DEF Shown
<1>2. DOMAIN shown = S
  BY <1>1
<1>3. FilesOK(r, fd.dirs[r], ms[r])
  BY DEF NewFolder
<1>4. ASSUME ms[r] # <<>>
      PROVE  r \in S /\ RowsOf(r, Deserialize(r, PayloadForDeserialize(fd.dirs[r]))) = Measurement(ms[r][1])
  <2>1. PICK rows \in Results : ms[r] = <<rows>> /\ fd.dirs[r] = FullSave(r, rows)
    BY <1>3, <1>4 DEF FilesOK
  <2>2. HasValidSavedRecipe(fd.dirs[r]) /\ Readable(fd.dirs[r])
    BY <2>1, ReadBackNew
  <2>3. r \in Discover(fd)
    BY <2>2, Zenon DEF Readable, Discover
  <2>4. Deserialize(r, PayloadForDeserialize(fd.dirs[r])) = TableOf(r, rows)
    BY <2>1, ReadBackNew
  <2>5. ms[r][1] = rows
    BY <2>1
  <2> QED
    BY <2>2, <2>3, <2>4, <2>5, TableRows
<1>5. r \in S => ms[r] # <<>>
  BY <1>3, ValidIsFull
<1> HIDE DEF S
<1> QED
  BY <1>1, <1>2, <1>4, <1>5

LEMMA NothingDiscovered ==
    ASSUME NEW old
    PROVE  Discover(OldFolder(old)) = {}
<1>1. \A r \in Recipe : OldFolder(old).dirs[r] = NoFiles
  BY OldFolderParts
<1>2. \A name \in {"data", "metadata", "summary"} : NoFiles[name] = Absent
  BY DEF NoFiles
<1> QED
  BY <1>1, <1>2 DEF Discover

LEMMA ShownOld ==
    ASSUME NEW f \in Folder, NEW fd, NEW ms, KeptFolder(fd, ms, OldRuns[f]), NEW shown, shown = Shown(fd), NEW r \in Recipe
    PROVE  /\ r \in DOMAIN shown <=> ms[r] # <<>>
           /\ r \in DOMAIN shown => RowsOf(r, shown[r]) = Measurement(ms[r][1])
<1>1. PICK old \in OldRuns[f] : fd = OldFolder(old) /\ ms = [s \in Recipe |-> <<old.results[s]>>]
  BY DEF KeptFolder
<1>2. Discover(fd) = {} /\ DOMAIN fd.raw = Recipe
  BY <1>1, NothingDiscovered, OldFolderParts
<1>3. shown = [s \in Recipe |-> Deserialize(s, LegacyPayload(fd, s))]
  BY <1>2, Zenon DEF Shown
<1>4. RowsOf(r, Deserialize(r, LegacyPayload(fd, r))) = Measurement(old.results[r])
  BY <1>1, ReadBackOld
<1>5. ms[r] = <<old.results[r]>> /\ ms[r] # <<>> /\ ms[r][1] = old.results[r]
  BY <1>1
<1> QED
  BY <1>3, <1>4, <1>5

\* `asct view` shows a result if and only if all its files are of one save, and
\* shows it as measured: a save cut short between two files, or within one, is
\* never completed by the files of an earlier one.
THEOREM ViewSound == Spec => []ViewShowsWholeResults
<1> DEFINE Inv == DiskInv /\ ViewShowsWholeResults
<1>1. Init => Inv
  <2> SUFFICES ASSUME Init PROVE Inv
    OBVIOUS
  <2>1. out.command # "view"
    BY DEF Init, Nothing
  <2> QED
    BY <2>1, DiskInit DEF ViewShowsWholeResults
<1>2. Inv /\ [Next]_vars => Inv'
  <2> SUFFICES ASSUME Inv, [Next]_vars PROVE ViewShowsWholeResults'
    BY DiskStep
  <2>1. ASSUME NEW f \in Folder, NEW r \in Recipe, NEW rows \in Results, NEW n \in 0 .. 4, NEW torn \in BOOLEAN,
               SaveBenchmarkResult(f, r, rows, n, torn)
        PROVE  ViewShowsWholeResults'
    <3>1. out' = Nothing
      BY <2>1, Zenon DEF SaveBenchmarkResult
    <3> QED
      BY <3>1 DEF ViewShowsWholeResults, Nothing
  <2>2. ASSUME NEW f \in Folder, View(f) PROVE ViewShowsWholeResults'
    <3> SUFFICES ASSUME out'.command = "view", ~out'.error, NEW r \in Recipe
                 PROVE  /\ r \in DOMAIN out'.shown <=> measured'[out'.run][r] # <<>>
                        /\ r \in DOMAIN out'.shown => RowsOf(r, out'.shown[r]) = Measurement(measured'[out'.run][r][1])
      BY DEF ViewShowsWholeResults
    <3> DEFINE fd == folder[f]
               shown == Shown(fd)
    <3>1. measured' = measured
      BY <2>2, Zenon DEF View
    <3>2. ~(Discover(fd) = {} /\ DOMAIN fd.raw = {})
      BY <2>2 DEF View, Failed
    <3>3. out' = [command |-> "view", error |-> FALSE, run |-> f, shown |-> shown]
      BY <2>2, <3>2, Zenon DEF View
    <3> HIDE DEF shown
    <3>4. out'.run = f /\ out'.shown = shown
      BY <3>3
    <3>5. CASE NewFolder(fd, measured[f])
      <4>1. DOMAIN fd.raw = {}
        <5>1. fd = [EmptyFolder EXCEPT !.dirs = fd.dirs]
          BY <3>5 DEF NewFolder
        <5>2. EmptyFolder.raw = NoEntries
          BY DEF EmptyFolder
        <5>3. fd.raw = NoEntries
          BY <5>1, <5>2 DEF EmptyFolder
        <5> QED
          BY <5>3 DEF NoEntries
      <4> QED
        BY <3>1, <3>2, <3>4, <3>5, <4>1, ShownNew DEF shown
    <3>6. CASE KeptFolder(fd, measured[f], OldRuns[f])
      BY <3>1, <3>4, <3>6, ShownOld DEF shown
    <3> QED
      BY <3>5, <3>6 DEF DiskInv, FoldersOK
  <2>3. ASSUME NEW c \in Commands, Diff(c.dirs, c.baseline, c.only) PROVE ViewShowsWholeResults'
    <3>1. \/ out' = Failed("diff")
          \/ \E a, b, d, e, x, y : out' = [command |-> "diff", error |-> FALSE, runs |-> a, only |-> b,
                                           records |-> d, summary |-> e, table |-> x, plots |-> y]
      BY <2>3, Zenon DEF Diff
    <3>2. out'.command = "diff"
      BY <3>1 DEF Failed
    <3> QED
      BY <3>2 DEF ViewShowsWholeResults
  <2>4. CASE Exit
    BY <2>4 DEF Exit, Nothing, ViewShowsWholeResults
  <2>5. CASE UNCHANGED vars
    BY <2>5 DEF vars, ViewShowsWholeResults
  <2> QED
    BY <2>1, <2>2, <2>3, <2>4, <2>5 DEF Next
<1> QED
  BY <1>1, <1>2, PTL DEF Spec

LEMMA DiskIsTyped == DiskInv => TypeOK
<1> SUFFICES ASSUME DiskInv, NEW f \in Folder, NEW r \in Recipe, NEW d, d = folder[f].dirs[r]
             PROVE  /\ {d.data.state, d.metadata.state, d.summary.state, d.hash.state} \subseteq {"absent", "torn", "whole"}
                    /\ d.hash # Absent => d.data # Absent
                    /\ d.summary # Absent => r \in Sweeps
  BY DEF DiskInv, TypeOK
<1>1. FilesOK(r, d, <<>>) \/ FilesOK(r, d, measured[f][r])
  <2>1. CASE NewFolder(folder[f], measured[f])
    BY <2>1 DEF NewFolder
  <2>2. CASE KeptFolder(folder[f], measured[f], OldRuns[f])
    <3>0. PICK old \in OldRuns[f] : folder[f] = OldFolder(old)
      BY <2>2 DEF KeptFolder
    <3>1. \A x \in Recipe : OldFolder(old).dirs[x] = NoFiles
      BY OldFolderParts
    <3>2. d = NoFiles
      BY <3>0, <3>1
    <3> QED
      BY <3>2, NoFilesOK
  <2> QED
    BY <2>1, <2>2 DEF DiskInv, FoldersOK
<1>2. /\ d.data \in {Absent, Torn} \/ \E rows \in Results : d.data = Whole(DataOf(r, rows))
      /\ d.metadata \in {Absent, Torn, Whole(r)}
      /\ d.summary \in {Absent, Torn} \/ \E rows \in Results : d.summary = SummaryOf(r, rows)
      /\ d.hash \in {Absent, Torn} \/ \E rows \in Results : d.hash = HashOf(r, rows)
      /\ d.hash # Absent => d.data # Absent
      /\ d.summary # Absent => r \in Sweeps
  BY <1>1 DEF FilesOK
<1> QED
  BY <1>2, FileStates DEF HashOf, SummaryOf

\* The saves write their files in order, and only sweeps have a summary.
THEOREM FilesInOrder == Spec => []TypeOK
BY DiskIsTyped, DiskInit, DiskStep, PTL DEF Spec

----------------------------------------------------------------------------
(* Induction, and functions defined by recursion on a number *)

LEMMA NumberInduction ==
    ASSUME NEW S \in SUBSET Nat, 0 \in S, \A n \in S : n + 1 \in S
    PROVE  S = Nat
<1>1. SUFFICES ASSUME Nat \ S # {} PROVE FALSE
  OBVIOUS
<1>2. PICK x \in Nat : x \notin S /\ \A y \in Nat : y < x => y \in S
  <2> DEFINE R == OpToRel(<, Nat)
             T == Nat \ S
  <2>1. IsWellFoundedOn(R, Nat)
    BY NatLessThanWellFounded
  <2>2. T \subseteq Nat /\ T # {}
    BY <1>1
  <2>3. \A x, y \in Nat : y < x => <<y, x>> \in R
    BY Zenon DEF OpToRel
  <2> HIDE DEF R, T
  <2>4. \E x \in T : \A y \in T : ~(<<y, x>> \in R)
    BY <2>1, <2>2, WFMin
  <2> QED
    BY <2>3, <2>4 DEF T
<1>3. CASE x = 0
  BY <1>2, <1>3
<1>4. CASE x # 0
  <2>1. x - 1 \in Nat /\ x - 1 < x /\ x = (x - 1) + 1
    BY <1>2, <1>4
  <2> QED
    BY <1>2, <2>1
<1> QED
  BY <1>3, <1>4

Iterates(g, N, base, step) == g[0] = base /\ \A n \in 1 .. N : g[n] = step[<<g[n - 1], n>>]

LEMMA IterationExists ==
    ASSUME NEW N \in Nat, NEW S, NEW base \in S, NEW step \in [S \X (1 .. N) -> S]
    PROVE  \E g \in [0 .. N -> S] : Iterates(g, N, base, step)
<1> DEFINE Begun(g, m) == g[0] = base /\ \A n \in 1 .. m : g[n] = step[<<g[n - 1], n>>]
           I == {m \in Nat : m <= N => \E g \in [0 .. m -> S] : Begun(g, m)}
<1>1. 0 \in I
  <2> DEFINE g == [n \in 0 .. 0 |-> base]
  <2>1. g \in [0 .. 0 -> S] /\ Begun(g, 0)
    OBVIOUS
  <2> HIDE DEF g, Begun
  <2> QED
    BY <2>1
<1>2. ASSUME NEW m \in I PROVE m + 1 \in I
  <2>1. CASE m + 1 > N
    BY <2>1
  <2>2. CASE m + 1 <= N
    <3>1. PICK g \in [0 .. m -> S] : Begun(g, m)
      BY <2>2
    <3> DEFINE h == [n \in 0 .. (m + 1) |-> IF n = m + 1 THEN step[<<g[m], m + 1>>] ELSE g[n]]
    <3>2. step[<<g[m], m + 1>>] \in S
      BY <2>2
    <3>3. h \in [0 .. (m + 1) -> S]
      BY <3>2
    <3>4. h[0] = base
      BY <3>1
    <3>5. ASSUME NEW n \in 1 .. (m + 1) PROVE h[n] = step[<<h[n - 1], n>>]
      <4>1. CASE n = m + 1
        <5>1. n - 1 = m /\ m \in 0 .. (m + 1) /\ m # m + 1 /\ n \in 0 .. (m + 1)
          BY <4>1
        <5>2. h[n - 1] = g[m] /\ h[n] = step[<<g[m], n>>]
          BY <4>1, <5>1
        <5> QED
          BY <5>2
      <4>2. CASE n # m + 1
        <5>1. n \in 1 .. m /\ n - 1 \in 0 .. m /\ n - 1 # m + 1
          BY <4>2
        <5>2. h[n] = g[n] /\ h[n - 1] = g[n - 1]
          BY <5>1
        <5> QED
          BY <5>1, <5>2, <3>1
      <4> QED
        BY <4>1, <4>2
    <3> HIDE DEF h
    <3>6. Begun(h, m + 1)
      BY <3>4, <3>5
    <3> HIDE DEF Begun
    <3> QED
      BY <3>3, <3>6
  <2> QED
    BY <2>1, <2>2
<1>3. I = Nat
  <2> HIDE DEF I
  <2>1. I \in SUBSET Nat
    BY DEF I
  <2> QED
    BY <1>1, <1>2, <2>1, NumberInduction
<1>4. N \in I
  BY <1>3
<1> QED
  BY <1>4 DEF Iterates

----------------------------------------------------------------------------
(* asct diff: the runs that are compared *)

LEMMA RunListType ==
    ASSUME NEW c \in Commands, Valid(c.dirs, c.baseline), NEW list, list = RunList(c.dirs, c.baseline)
    PROVE  /\ list \in Seq(Folder) /\ Len(list) \in Nat \ {0}
           /\ DOMAIN list = 1 .. Len(list) /\ \A n \in 1 .. Len(list) : list[n] \in Folder
<1> DEFINE dirs == c.dirs
           b == CHOOSE f \in c.baseline : TRUE
           N == Len(dirs)
           S == Seq(Folder)
<1>1. dirs \in Seq(Folder) /\ c.baseline \subseteq Folder
  BY DiffAssumption
<1>2. N \in Nat /\ \A n \in 1 .. N : dirs[n] \in Folder
  BY <1>1
<1>3. list \in Seq(Folder) /\ list # <<>>
  <2>1. CASE c.baseline = {}
    <3>1. list = dirs
      BY <2>1 DEF RunList
    <3>2. dirs # <<>>
      <4> SUFFICES ASSUME dirs = <<>> PROVE FALSE
        OBVIOUS
      <4>1. Range(dirs) \cup c.baseline = {}
        BY <2>1 DEF Range
      <4>2. Cardinality(Range(dirs) \cup c.baseline) = 0
        BY <4>1, FS_EmptySet
      <4> QED
        BY <4>2 DEF Valid
    <3> QED
      BY <1>1, <3>1, <3>2
  <2>2. CASE c.baseline # {}
    <3> DEFINE Body(g) == [n \in 0 .. N |-> IF n = 0 THEN <<>>
                                           ELSE IF dirs[n] = b THEN g[n - 1] ELSE Append(g[n - 1], dirs[n])]
               others == CHOOSE g : g = Body(g)
               step == [p \in S \X (1 .. N) |-> IF dirs[p[2]] = b THEN p[1] ELSE Append(p[1], dirs[p[2]])]
    <3>1. list = <<b>> \o others[N]
      BY <2>2 DEF RunList
    <3>2. step \in [S \X (1 .. N) -> S]
      <4>1. \A s \in S : \A n \in 1 .. N : Append(s, dirs[n]) \in S
        BY <1>2
      <4> HIDE DEF S, N
      <4> QED
        BY <4>1
    <3>3. <<>> \in S
      OBVIOUS
    <3>4. \A s \in S : \A n \in 1 .. N : step[<<s, n>>] = IF dirs[n] = b THEN s ELSE Append(s, dirs[n])
      OBVIOUS
    <3>5. N \in Nat
      BY <1>2
    <3>13. b \in Folder
      BY <1>1, <2>2
    <3> HIDE DEF S, N, step, b, dirs
    <3>0. PICK g \in [0 .. N -> S] : Iterates(g, N, <<>>, step)
      BY <3>2, <3>3, <3>5, IterationExists, Zenon
    <3>6. g[0] = <<>> /\ \A n \in 1 .. N : g[n] = step[<<g[n - 1], n>>]
      BY <3>0 DEF Iterates
    <3>7. g = Body(g)
      <4>1. ASSUME NEW n \in 0 .. N
            PROVE  g[n] = IF n = 0 THEN <<>> ELSE IF dirs[n] = b THEN g[n - 1] ELSE Append(g[n - 1], dirs[n])
        <5>1. CASE n = 0
          BY <5>1, <3>6
        <5>2. CASE n # 0
          <6>1. n \in 1 .. N /\ n - 1 \in 0 .. N
            BY <5>2, <3>5
          <6> QED
            BY <5>2, <6>1, <3>6, <3>4
        <5> QED
          BY <5>1, <5>2
      <4> QED
        BY <4>1
    <3>8. others = Body(others)
      <4> HIDE DEF Body
      <4> QED
        BY <3>7, Zenon
    <3>14. 0 \in 0 .. N
      BY <3>5
    <3> HIDE DEF others
    <3>9. others[0] = <<>>
      <4>1. Body(others)[0] = <<>>
        BY <3>14
      <4> QED
        BY <3>8, <4>1, Zenon
    <3>10. ASSUME NEW n \in 1 .. N, others[n - 1] \in S PROVE others[n] = step[<<others[n - 1], n>>]
      <4>0. n \in 0 .. N /\ n # 0
        BY <3>5
      <4>1. others[n] = IF dirs[n] = b THEN others[n - 1] ELSE Append(others[n - 1], dirs[n])
        <5> DEFINE entry(k) == IF k = 0 THEN <<>> ELSE IF dirs[k] = b THEN others[k - 1] ELSE Append(others[k - 1], dirs[k])
        <5>2. Body(others) = [k \in 0 .. N |-> entry(k)]
          OBVIOUS
        <5>3. entry(n) = IF dirs[n] = b THEN others[n - 1] ELSE Append(others[n - 1], dirs[n])
          BY <4>0
        <5> HIDE DEF entry, Body
        <5>1. Body(others)[n] = IF dirs[n] = b THEN others[n - 1] ELSE Append(others[n - 1], dirs[n])
          BY <4>0, <5>2, <5>3
        <5> QED
          BY <3>8, <5>1, Zenon
      <4> QED
        BY <4>1, <3>4, <3>10
    <3>11. \A n \in 0 .. N : others[n] \in S
      <4> DEFINE I == {m \in Nat : m <= N => others[m] \in S}
      <4>1. 0 \in I
        BY <3>9, <3>3
      <4>2. ASSUME NEW m \in I PROVE m + 1 \in I
        <5> SUFFICES ASSUME m + 1 <= N PROVE others[m + 1] \in S
          OBVIOUS
        <5>1. others[m] \in S /\ m + 1 \in 1 .. N /\ (m + 1) - 1 = m
          BY <3>5
        <5>2. others[m + 1] = step[<<others[m], m + 1>>]
          BY <5>1, <3>10
        <5> QED
          BY <5>1, <5>2, <3>2
      <4>3. I = Nat
        <5> HIDE DEF I
        <5>1. I \in SUBSET Nat
          BY DEF I
        <5> QED
          BY <4>1, <4>2, <5>1, NumberInduction
      <4> QED
        BY <4>3, <3>5
    <3>12. others[N] \in Seq(Folder)
      BY <3>11, <3>5 DEF S
    <3> QED
      BY <3>1, <3>12, <3>13
  <2> QED
    BY <2>1, <2>2
<1> QED
  BY <1>3

----------------------------------------------------------------------------
(* asct diff: the fields of a run, whatever its format *)

Fields(rows) == [p \in {<<k, "Value">> : k \in Keys(rows)} |-> ValueOf(rows, p[1])]

LEMMA TransposedFields ==
    ASSUME NEW rows, NEW v, v = [k \in Keys(rows) |-> ValueOf(rows, k)]
    PROVE  Transposed([Value |-> v]) = Fields(rows)
<1> DEFINE t == [Value |-> v]
<1>1. DOMAIN t = {"Value"} /\ t["Value"] = v
  OBVIOUS
<1> HIDE DEF t
<1> DEFINE P == UNION {{<<row, c>> : row \in DOMAIN t[c]} : c \in DOMAIN t}
<1>2. P = {<<row, "Value">> : row \in DOMAIN v}
  BY <1>1
<1>3. DOMAIN v = Keys(rows)
  OBVIOUS
<1>4. P = {<<k, "Value">> : k \in Keys(rows)}
  BY <1>2, <1>3, Zenon
<1>5. \A p \in P : t[p[2]][p[1]] = ValueOf(rows, p[1])
  <2> SUFFICES ASSUME NEW k \in Keys(rows) PROVE t[<<k, "Value">>[2]][<<k, "Value">>[1]] = ValueOf(rows, <<k, "Value">>[1])
    BY <1>4
  <2>1. <<k, "Value">>[2] = "Value" /\ <<k, "Value">>[1] = k
    OBVIOUS
  <2> QED
    BY <1>1, <2>1
<1>6. Transposed(t) = [p \in P |-> t[p[2]][p[1]]]
  BY DEF Transposed
<1> HIDE DEF P
<1>7. [p \in P |-> t[p[2]][p[1]]] = [p \in P |-> ValueOf(rows, p[1])]
  BY <1>5
<1> QED
  BY <1>4, <1>6, <1>7 DEF Fields, t

LEMMA ByKeyFields ==
    ASSUME NEW rows \in Results
    PROVE  ByKey([Key |-> Column(rows, "key"), Value |-> Column(rows, "value")]) = Fields(rows)
<1> DEFINE k == Column(rows, "key")
           v == Column(rows, "value")
           t == [Key |-> k, Value |-> v]
           At1(x) == {n \in DOMAIN k : k[n] = x}
<1>1. DOMAIN k = DOMAIN rows /\ \A n \in DOMAIN rows : k[n] = rows[n].key /\ v[n] = rows[n].value
  BY DEF Column
<1>2. ByKey(t) = [p \in {<<k[n], "Value">> : n \in DOMAIN k} |-> v[Max(At1(p[1]))]]
  <2> HIDE DEF k, v
  <2>1. t.Key = k /\ t.Value = v
    OBVIOUS
  <2> HIDE DEF t
  <2> QED
    BY <2>1, Zenon DEF ByKey
<1>3. {<<k[n], "Value">> : n \in DOMAIN k} = {<<x, "Value">> : x \in Keys(rows)}
  BY <1>1 DEF Keys
<1>4. ASSUME NEW n \in DOMAIN rows PROVE v[Max(At1(rows[n].key))] = ValueOf(rows, rows[n].key)
  <2>1. At1(rows[n].key) = {n}
    BY <1>1, ResultFacts
  <2>2. n \in Int
    BY ResultFacts
  <2>3. Max({n}) = n
    BY <2>2 DEF Max
  <2>4. v[n] = rows[n].value
    BY <1>1
  <2> QED
    BY <2>1, <2>3, <2>4, ValueOfKey, Zenon
<1>5. ASSUME NEW p \in {<<x, "Value">> : x \in Keys(rows)} PROVE v[Max(At1(p[1]))] = ValueOf(rows, p[1])
  <2>1. PICK n \in DOMAIN rows : p = <<rows[n].key, "Value">>
    BY DEF Keys
  <2>2. p[1] = rows[n].key
    BY <2>1
  <2> HIDE DEF At1, v
  <2> QED
    BY <1>4, <2>2
<1> HIDE DEF At1, v, k
<1>6. ByKey(t) = [p \in {<<x, "Value">> : x \in Keys(rows)} |-> ValueOf(rows, p[1])]
  BY <1>2, <1>3, <1>5
<1> QED
  BY <1>6 DEF Fields, k, v

LEMMA FieldsOfTable ==
    ASSUME NEW r \in Recipe, NEW rows \in Results, NEW entry, Deserialize(r, entry) = TableOf(r, rows)
    PROVE  GetDiffData(r, entry) = Fields(rows)
<1>1. CASE r = "latency-sweep"
  <2> DEFINE v == [k \in Keys(rows) |-> ValueOf(rows, k)]
  <2>1. TableOf(r, rows) = [Value |-> v]
    BY <1>1, ToDictCases DEF TableOf
  <2>2. GetDiffData(r, entry) = Transposed([Value |-> v])
    <3> DEFINE t == [Value |-> v]
    <3>1. Deserialize(r, entry) = t /\ "sweep_data" \notin DOMAIN t
      BY <2>1
    <3> HIDE DEF t
    <3>2. GetDiffData(r, entry) = Transposed(t)
      BY <1>1, <3>1 DEF GetDiffData
    <3> QED
      BY <3>2 DEF t
  <2> QED
    BY <2>2, TransposedFields
<1>2. CASE r = "ucie"
  <2>1. GetDiffData(r, entry) = RegisterData([ucie |-> rows])
    BY <1>2 DEF GetDiffData, TableOf
  <2> QED
    BY <2>1 DEF RegisterData, Fields
<1>3. CASE r \in {"bandwidth-sweep", "peak-bandwidth"}
  <2> DEFINE t == [Key |-> Column(rows, "key"), Value |-> Column(rows, "value")]
  <2>1. TableOf(r, rows) = t
    BY <1>3, ToDictCases DEF TableOf
  <2> HIDE DEF t
  <2>2. GetDiffData(r, entry) = ByKey(t)
    BY <1>3, <2>1 DEF GetDiffData
  <2> QED
    BY <2>2, ByKeyFields DEF t
<1> QED
  BY <1>1, <1>2, <1>3, RecipeCases

LEMMA RawDataDomain ==
    ASSUME NEW fd
    PROVE  /\ DOMAIN RawData(fd) = DOMAIN fd.raw \cup Artifacts(fd)
           /\ \A r \in Artifacts(fd) : RawData(fd)[r] = [raw_result |-> fd.dirs[r].data.content, metadata |-> r]
           /\ \A r \in DOMAIN fd.raw \ Artifacts(fd) : RawData(fd)[r] = NormalizeRawEntry(r, fd.raw[r])
BY DEF RawData

LEMMA NewFolderRaw ==
    ASSUME NEW fd, NEW ms, NewFolder(fd, ms)
    PROVE  fd.raw = NoEntries /\ DOMAIN fd.raw = {} /\ fd.metadata = "now"
<1>1. fd = [EmptyFolder EXCEPT !.dirs = fd.dirs]
  BY DEF NewFolder
<1>2. fd.raw = NoEntries /\ fd.metadata = "now"
  BY <1>1 DEF EmptyFolder
<1> QED
  BY <1>2 DEF NoEntries

LEMMA LoadedNew ==
    ASSUME NEW fd, NEW ms, NewFolder(fd, ms), NEW r \in Recipe, ms[r] # <<>>
    PROVE  r \in Artifacts(fd) /\ RecipeDiffData(fd, r) = Fields(ms[r][1])
<1> DEFINE d == fd.dirs[r]
<1>1. PICK rows \in Results : ms[r] = <<rows>> /\ d = FullSave(r, rows)
  BY DEF NewFolder, FilesOK
<1>2. ms[r][1] = rows
  BY <1>1
<1>3. /\ Deserialize(r, PayloadForDeserialize(d)) = TableOf(r, rows)
      /\ Readable(d) /\ d.data # Absent
  BY <1>1, ReadBackNew DEF HasValidSavedRecipe
<1>4. r \in Artifacts(fd)
  BY <1>3, Zenon DEF Artifacts
<1>5. RecipeDiffData(fd, r) = GetDiffData(r, IF d.summary = Absent THEN RawData(fd)[r] ELSE PayloadForDeserialize(d))
  BY <1>4, Zenon DEF RecipeDiffData
<1>6. CASE d.summary # Absent
  <2>1. RecipeDiffData(fd, r) = GetDiffData(r, PayloadForDeserialize(d))
    BY <1>5, <1>6, Zenon
  <2> QED
    BY <1>2, <1>3, <1>4, <2>1, FieldsOfTable
<1>7. CASE d.summary = Absent
  <2> DEFINE raw == d.data.content
  <2>1. RawData(fd)[r] = [raw_result |-> raw, metadata |-> r]
    BY <1>4, RawDataDomain
  <2>2. PayloadForDeserialize(d) = [raw_result |-> raw]
    BY <1>7, Zenon DEF PayloadForDeserialize
  <2> HIDE DEF raw
  <2>3. Deserialize(r, RawData(fd)[r]) = TableOf(r, rows)
    <3>1. Deserialize(r, [raw_result |-> raw, metadata |-> r]) = Deserialize(r, [raw_result |-> raw])
      BY DEF Deserialize
    <3> QED
      BY <1>3, <2>1, <2>2, <3>1
  <2>4. RecipeDiffData(fd, r) = GetDiffData(r, RawData(fd)[r])
    BY <1>5, <1>7, Zenon
  <2> QED
    BY <1>2, <1>4, <2>3, <2>4, FieldsOfTable
<1> QED
  BY <1>6, <1>7

LEMMA NoArtifacts ==
    ASSUME NEW old
    PROVE  Artifacts(OldFolder(old)) = {}
<1>1. \A r \in Recipe : OldFolder(old).dirs[r] = NoFiles
  BY OldFolderParts
<1>2. NoFiles.data = Absent
  BY DEF NoFiles
<1> QED
  BY <1>1, <1>2 DEF Artifacts

LEMMA NormalizeCases ==
    ASSUME NEW r, NEW raw, NEW y
    PROVE  /\ "json" \notin DOMAIN raw => NormalizeRawEntry(r, [raw_result |-> raw, metadata |-> y]) = raw
           /\ "raw_result" \notin DOMAIN raw /\ r \notin Sweeps => NormalizeRawEntry(r, raw) = raw
BY DEF NormalizeRawEntry

\* The raw result of a run is read as its table, in or out of its wrapping.
LEMMA RawIsRead ==
    ASSUME NEW r \in Recipe, NEW rows
    PROVE  /\ Deserialize(r, GetRawResults(r, rows)) = TableOf(r, rows)
           /\ "json" \notin DOMAIN GetRawResults(r, rows) /\ "raw_result" \notin DOMAIN GetRawResults(r, rows)
<1>1. CASE r \in Sweeps
  <2> DEFINE s == SweepData(rows)
             t == TableOf(r, rows)
             raw == [sweep_data |-> s, summary |-> t]
  <2>1. GetRawResults(r, rows) = raw
    BY <1>1, RawCases
  <2> HIDE DEF s, t
  <2>2. raw.summary = t /\ "summary" \in DOMAIN raw /\ "raw_result" \notin DOMAIN raw /\ "json" \notin DOMAIN raw
    OBVIOUS
  <2> HIDE DEF raw
  <2>3. Deserialize(r, raw) = t
    BY <2>2, <1>1 DEF Deserialize
  <2> QED
    BY <2>1, <2>2, <2>3 DEF t
<1>2. CASE r \notin Sweeps
  <2> DEFINE raw == GetRawResults(r, rows)
  <2>1. raw = TableOf(r, rows) /\ "raw_result" \notin DOMAIN raw /\ "json" \notin DOMAIN raw
    BY <1>2, RawCases, TableDomain
  <2> HIDE DEF raw
  <2>2. Deserialize(r, raw) = raw
    BY <2>1, <1>2 DEF Deserialize
  <2> QED
    BY <2>1, <2>2 DEF raw
<1> QED
  BY <1>1, <1>2

LEMMA LoadedOld ==
    ASSUME NEW f \in Folder, NEW old \in OldRuns[f], NEW fd, fd = OldFolder(old), NEW r \in Recipe
    PROVE  r \in DOMAIN RawData(fd) /\ RecipeDiffData(fd, r) = Fields(old.results[r])
<1> DEFINE rows == old.results[r]
<1>0. rows \in Results /\ old.version \in {"0.4", "0.5", "0.6"}
  BY OldFacts
<1>1. Artifacts(fd) = {} /\ DOMAIN fd.raw = Recipe
  BY NoArtifacts, OldFolderParts
<1>2. r \in DOMAIN RawData(fd) /\ RawData(fd)[r] = NormalizeRawEntry(r, fd.raw[r])
  BY <1>1, RawDataDomain
<1>3. ASSUME Version(fd) # "0.5" \/ r = "peak-bandwidth", Deserialize(r, RawData(fd)[r]) = TableOf(r, rows)
      PROVE  RecipeDiffData(fd, r) = Fields(rows)
  <2>1. RecipeDiffData(fd, r) = GetDiffData(r, RawData(fd)[r])
    BY <1>1, <1>3, Zenon DEF RecipeDiffData
  <2> QED
    BY <1>0, <1>3, <2>1, FieldsOfTable
<1>4. CASE old.version # "0.5"
  <2>1. fd.metadata = old.version /\ fd.raw = [x \in Recipe |-> Serialize(x, old.results[x])]
    BY <1>4, OldFolderParts
  <2>2. fd.raw[r] = Serialize(r, rows)
    BY <2>1
  <2>3. Version(fd) # "0.5"
    BY <1>0, <1>4, <2>1 DEF Version
  <2>4. RawData(fd)[r] = GetRawResults(r, rows)
    <3> DEFINE raw == GetRawResults(r, rows)
    <3>1. "json" \notin DOMAIN raw
      BY RawIsRead
    <3>2. fd.raw[r] = [raw_result |-> raw, metadata |-> r]
      BY <2>2 DEF Serialize
    <3> HIDE DEF raw
    <3>3. RawData(fd)[r] = raw
      BY <1>2, <3>1, <3>2, NormalizeCases
    <3> QED
      BY <3>3 DEF raw
  <2> QED
    BY <1>2, <1>3, <2>3, <2>4, RawIsRead
<1>5. CASE old.version = "0.5"
  <2>1. /\ fd.metadata = "" /\ fd.diff = [x \in Recipe |-> LegacyFields(x, old.results[x])]
        /\ fd.raw = [x \in Recipe |-> IF x \in Sweeps THEN [json |-> SweepData(old.results[x])]
                                     ELSE GetRawResults(x, old.results[x])]
    BY <1>5, OldFolderParts
  <2>2. Version(fd) = "0.5"
    BY <2>1 DEF Version
  <2>3. fd.diff[r] = LegacyFields(r, rows)
    BY <2>1
  <2>4. CASE r = "peak-bandwidth"
    <3> DEFINE raw == GetRawResults(r, rows)
    <3>0. r \notin Sweeps /\ "raw_result" \notin DOMAIN raw
      BY <2>4, SweepCases, RawIsRead
    <3>1. fd.raw[r] = raw /\ "raw_result" \notin DOMAIN raw /\ r \notin Sweeps
      BY <2>1, <3>0, Zenon
    <3> HIDE DEF raw
    <3>2. RawData(fd)[r] = raw
      BY <1>2, <3>1, NormalizeCases
    <3> QED
      BY <1>2, <1>3, <2>4, <3>2, RawIsRead DEF raw
  <2>5. CASE r = "latency-sweep"
    <3> DEFINE legacy == DOMAIN fd.diff[r]
    <3>1. RecipeDiffData(fd, r) = [p \in {<<q[2], q[1]>> : q \in legacy} |-> fd.diff[r][<<p[2], p[1]>>]]
      BY <1>1, <2>2, <2>5 DEF RecipeDiffData
    <3>2. LegacyFields(r, rows) = [p \in {<<"Value", k>> : k \in Keys(rows)} |-> ValueOf(rows, p[2])]
      BY <2>5 DEF LegacyFields
    <3>3. legacy = {<<"Value", k>> : k \in Keys(rows)}
      BY <2>3, <3>2
    <3>4. {<<q[2], q[1]>> : q \in legacy} = {<<k, "Value">> : k \in Keys(rows)}
      <4> DEFINE L == {<<q[2], q[1]>> : q \in legacy}
                 R == {<<k, "Value">> : k \in Keys(rows)}
      <4>1. ASSUME NEW x \in L PROVE x \in R
        <5>1. PICK q \in legacy : x = <<q[2], q[1]>>
          OBVIOUS
        <5>2. PICK k \in Keys(rows) : q = <<"Value", k>>
          BY <3>3
        <5>3. q[2] = k /\ q[1] = "Value"
          BY <5>2
        <5> QED
          BY <5>1, <5>3
      <4>2. ASSUME NEW x \in R PROVE x \in L
        <5>1. PICK k \in Keys(rows) : x = <<k, "Value">>
          OBVIOUS
        <5> DEFINE q == <<"Value", k>>
        <5>2. q \in legacy /\ q[2] = k /\ q[1] = "Value"
          BY <3>3
        <5> HIDE DEF q
        <5> QED
          BY <5>1, <5>2, Zenon
      <4> HIDE DEF L, R
      <4>3. L = R
        BY <4>1, <4>2
      <4> QED
        BY <4>3 DEF L, R
    <3>5. ASSUME NEW p \in {<<k, "Value">> : k \in Keys(rows)} PROVE fd.diff[r][<<p[2], p[1]>>] = ValueOf(rows, p[1])
      <4>1. PICK k \in Keys(rows) : p = <<k, "Value">>
        OBVIOUS
      <4>2. <<p[2], p[1]>> = <<"Value", k>> /\ p[1] = k
        BY <4>1
      <4>3. LegacyFields(r, rows)[<<"Value", k>>] = ValueOf(rows, k)
        BY <3>2
      <4> QED
        BY <2>3, <4>2, <4>3
    <3> HIDE DEF legacy
    <3> QED
      BY <1>2, <3>1, <3>4, <3>5 DEF Fields
  <2>6. CASE r \notin {"peak-bandwidth", "latency-sweep"}
    <3>1. RecipeDiffData(fd, r) = [p \in DOMAIN fd.diff[r] |-> fd.diff[r][p]]
      BY <1>1, <2>2, <2>6 DEF RecipeDiffData
    <3>2. LegacyFields(r, rows) = [p \in {<<k, "Value">> : k \in Keys(rows)} |-> ValueOf(rows, p[1])]
      BY <2>6 DEF LegacyFields
    <3> QED
      BY <1>2, <2>3, <3>1, <3>2 DEF Fields
  <2> QED
    BY <2>4, <2>5, <2>6
<1> QED
  BY <1>4, <1>5

\* What a complete run is compared with is what it measured.
LEMMA Loaded ==
    ASSUME FoldersOK, NEW f \in Folder, Complete(f), NEW r \in Recipe, NEW only, Selected(r, only)
    PROVE  GetRecipe(Load(folder[f], only), r) = MeasuredFields(f, r)
<1> DEFINE fd == folder[f]
           run == Load(fd, only)
           D == {s \in DOMAIN RawData(fd) : Selected(s, only)} \cup {"metadata"}
<1>0. r # "metadata"
  BY RecipeCases
<1>1. run = [s \in D |-> IF s = "metadata" THEN [p \in {<<"version">>, <<"run_id">>} |-> [text |-> Version(fd)]] ELSE RecipeDiffData(fd, s)]
  BY DEF Load
<1>2. r \in DOMAIN run <=> r \in DOMAIN RawData(fd)
  BY <1>0, <1>1
<1>3. r \in DOMAIN run => run[r] = RecipeDiffData(fd, r)
  BY <1>0, <1>1
<1>4. /\ measured[f][r] # <<>> <=> r \in DOMAIN RawData(fd)
      /\ measured[f][r] # <<>> => RecipeDiffData(fd, r) = Fields(measured[f][r][1])
  <2>1. r \in DOMAIN RawData(fd) => measured[f][r] # <<>>
    BY DEF Complete
  <2>2. CASE NewFolder(fd, measured[f])
    <3>1. measured[f][r] # <<>> => r \in Artifacts(fd) /\ RecipeDiffData(fd, r) = Fields(measured[f][r][1])
      BY <2>2, LoadedNew
    <3>2. DOMAIN RawData(fd) = DOMAIN fd.raw \cup Artifacts(fd)
      BY RawDataDomain
    <3> QED
      BY <2>1, <3>1, <3>2
  <2>3. CASE KeptFolder(fd, measured[f], OldRuns[f])
    <3>1. PICK old \in OldRuns[f] : fd = OldFolder(old) /\ measured[f] = [s \in Recipe |-> <<old.results[s]>>]
      BY <2>3 DEF KeptFolder
    <3>2. measured[f][r] = <<old.results[r]>> /\ measured[f][r][1] = old.results[r]
      BY <3>1
    <3> QED
      BY <2>1, <3>1, <3>2, LoadedOld
  <2> QED
    BY <2>2, <2>3 DEF FoldersOK
<1>5. MeasuredFields(f, r) = IF measured[f][r] = <<>> THEN NoFields ELSE Fields(measured[f][r][1])
  BY DEF MeasuredFields, Fields
<1>6. GetRecipe(run, r) = IF r \in DOMAIN run THEN run[r] ELSE NoFields
  BY DEF GetRecipe
<1> HIDE DEF run, fd
<1>7. GetRecipe(run, r) = MeasuredFields(f, r)
  BY <1>2, <1>3, <1>4, <1>5, <1>6
<1> QED
  BY <1>7 DEF run, fd

----------------------------------------------------------------------------
(* asct diff: the summary counts the records *)

LEMMA ImageFinite ==
    ASSUME NEW S, IsFiniteSet(S), NEW g, DOMAIN g = S
    PROVE  IsFiniteSet({g[x] : x \in S})
<1> DEFINE T == {g[x] : x \in S}
           h == [x \in S |-> g[x]]
<1>1. h \in Surjection(S, T)
  BY DEF Surjection
<1> HIDE DEF T, h
<1>2. IsFiniteSet(T)
  BY <1>1, FS_Surjection
<1> QED
  BY <1>2 DEF T

LEMMA InjectiveImage ==
    ASSUME NEW S, IsFiniteSet(S), NEW g, DOMAIN g = S, \A x, y \in S : g[x] = g[y] => x = y
    PROVE  IsFiniteSet({g[x] : x \in S}) /\ Cardinality({g[x] : x \in S}) = Cardinality(S)
<1> DEFINE T == {g[x] : x \in S}
           h == [x \in S |-> g[x]]
<1>1. h \in Surjection(S, T)
  BY DEF Surjection
<1>2. h \in Injection(S, T)
  BY DEF Injection, IsInjective
<1> HIDE DEF T, h
<1>3. IsFiniteSet(T) /\ Cardinality(T) = Cardinality(S)
  BY <1>1, <1>2, FS_Surjection
<1> QED
  BY <1>3 DEF T

\* The function that a recursive definition of a running sum chooses.
RunningSum(N, size) == CHOOSE g : g = [n \in 0 .. N |-> IF n = 0 THEN 0 ELSE g[n - 1] + size[n]]

LEMMA SumExists ==
    ASSUME NEW N \in Nat, NEW size, \A n \in 1 .. N : size[n] \in Nat, NEW sum, sum = RunningSum(N, size)
    PROVE  sum[0] = 0 /\ \A n \in 1 .. N : sum[n] = sum[n - 1] + size[n]
<1> DEFINE Body(g) == [n \in 0 .. N |-> IF n = 0 THEN 0 ELSE g[n - 1] + size[n]]
           step == [x \in Nat \X (1 .. N) |-> x[1] + size[x[2]]]
<1>1. step \in [Nat \X (1 .. N) -> Nat]
  OBVIOUS
<1>2. \A a \in Nat : \A n \in 1 .. N : step[<<a, n>>] = a + size[n]
  OBVIOUS
<1> HIDE DEF step
<1>3. PICK g \in [0 .. N -> Nat] : Iterates(g, N, 0, step)
  BY <1>1, IterationExists, 0 \in Nat, Zenon
<1>4. g[0] = 0 /\ \A n \in 1 .. N : g[n] = step[<<g[n - 1], n>>]
  BY <1>3 DEF Iterates
<1>5. g = Body(g)
  <2>1. ASSUME NEW n \in 0 .. N PROVE g[n] = IF n = 0 THEN 0 ELSE g[n - 1] + size[n]
    <3>1. CASE n = 0
      BY <3>1, <1>4
    <3>2. CASE n # 0
      <4>1. n \in 1 .. N /\ n - 1 \in 0 .. N
        BY <3>2
      <4>2. g[n - 1] \in Nat
        BY <4>1
      <4> QED
        BY <3>2, <4>1, <4>2, <1>4, <1>2
    <3> QED
      BY <3>1, <3>2
  <2> QED
    BY <2>1
<1>6. sum = Body(sum)
  <2>1. sum = CHOOSE x : x = Body(x)
    BY DEF RunningSum
  <2> HIDE DEF Body
  <2> QED
    BY <1>5, <2>1, Zenon
<1> DEFINE entry(n) == IF n = 0 THEN 0 ELSE sum[n - 1] + size[n]
<1>7. Body(sum) = [n \in 0 .. N |-> entry(n)]
  OBVIOUS
<1>8. entry(0) = 0 /\ \A n \in 1 .. N : n # 0 /\ entry(n) = sum[n - 1] + size[n]
  OBVIOUS
<1>9. 0 \in 0 .. N /\ \A n \in 1 .. N : n \in 0 .. N
  OBVIOUS
<1> HIDE DEF Body, entry
<1>10. \A n \in 0 .. N : sum[n] = entry(n)
  BY <1>6, <1>7
<1> QED
  BY <1>8, <1>9, <1>10

LEMMA SummaryCounts ==
    ASSUME NEW diffs, NEW r \in DOMAIN diffs, NEW N \in Nat, DOMAIN diffs[r] = 1 .. N, Len(diffs[r]) = N,
           \A n \in 1 .. N : IsFiniteSet(DOMAIN diffs[r][n])
    PROVE  ComputeSummary(diffs)[r] = Cardinality({d \in Records(diffs) : d.recipe = r})
<1> DEFINE runs == diffs[r]
           rec(q, n, p) == GetField(q, n + 1, diffs[q][n][p], p)
           Part(n) == {rec(r, n, p) : p \in DOMAIN runs[n]}
           Upto(m) == UNION {Part(n) : n \in 1 .. m}
           size == [n \in 1 .. N |-> Cardinality(DOMAIN runs[n])]
           sum == CHOOSE g : g = [n \in 0 .. N |-> IF n = 0 THEN 0 ELSE g[n - 1] + Cardinality(DOMAIN runs[n])]
<1>1. ComputeSummary(diffs)[r] = sum[N]
  BY DEF ComputeSummary
<1>2. \A n \in 1 .. N : size[n] = Cardinality(DOMAIN runs[n]) /\ size[n] \in Nat
  BY FS_CardinalityType
<1>3. sum = RunningSum(N, size)
  <2> DEFINE counted(g) == [n \in 0 .. N |-> IF n = 0 THEN 0 ELSE g[n - 1] + Cardinality(DOMAIN runs[n])]
             summed(g) == [n \in 0 .. N |-> IF n = 0 THEN 0 ELSE g[n - 1] + size[n]]
  <2>1. ASSUME NEW g PROVE counted(g) = summed(g)
    <3>1. \A n \in 0 .. N : n # 0 => n \in 1 .. N
      OBVIOUS
    <3> HIDE DEF size
    <3> QED
      BY <3>1, <1>2
  <2>2. sum = (CHOOSE g : g = counted(g)) /\ RunningSum(N, size) = (CHOOSE g : g = summed(g))
    BY Zenon DEF RunningSum
  <2> HIDE DEF counted, summed
  <2> QED
    BY <2>1, <2>2, Zenon
<1> HIDE DEF sum, size
<1>4. sum[0] = 0 /\ \A n \in 1 .. N : sum[n] = sum[n - 1] + size[n]
  <2>1. \A n \in 1 .. N : size[n] \in Nat
    BY <1>2
  <2> QED
    BY <1>3, <2>1, SumExists, Zenon
<1>5. ASSUME NEW n \in 1 .. N PROVE IsFiniteSet(Part(n)) /\ Cardinality(Part(n)) = size[n]
  <2> DEFINE S == DOMAIN runs[n]
             g == [p \in S |-> rec(r, n, p)]
  <2>1. \A x, y \in S : g[x] = g[y] => x = y
    <3>1. \A x \in S : g[x].field = x
      BY DEF GetField
    <3> HIDE DEF g, S
    <3> QED
      BY <3>1
  <2>2. Part(n) = {g[x] : x \in S}
    OBVIOUS
  <2>3. DOMAIN g = S /\ IsFiniteSet(S)
    OBVIOUS
  <2> HIDE DEF g, S, Part
  <2>4. IsFiniteSet({g[x] : x \in S}) /\ Cardinality({g[x] : x \in S}) = Cardinality(S)
    BY <2>1, <2>3, InjectiveImage
  <2> QED
    BY <2>2, <2>4, <1>2 DEF S
<1>6. {d \in Records(diffs) : d.recipe = r} = Upto(N)
  <2>1. Records(diffs) = UNION {UNION {{rec(q, n, p) : p \in DOMAIN diffs[q][n]} : n \in DOMAIN diffs[q]} : q \in DOMAIN diffs}
    BY Zenon DEF Records
  <2>2. \A q, n, p : rec(q, n, p).recipe = q
    BY DEF GetField
  <2> HIDE DEF rec
  <2> QED
    BY <2>1, <2>2
<1>7. ASSUME NEW m \in 1 .. N PROVE \A d \in Part(m) : d.run = m + 1
  BY DEF GetField
<1> HIDE DEF Part
<1> DEFINE I == {m \in Nat : m <= N => IsFiniteSet(Upto(m)) /\ sum[m] = Cardinality(Upto(m))}
<1>8. 0 \in I
  <2>1. Upto(0) = {}
    OBVIOUS
  <2> QED
    BY <2>1, <1>4, FS_EmptySet
<1>9. ASSUME NEW m \in I PROVE m + 1 \in I
  <2> SUFFICES ASSUME m + 1 <= N PROVE IsFiniteSet(Upto(m + 1)) /\ sum[m + 1] = Cardinality(Upto(m + 1))
    OBVIOUS
  <2>1. IsFiniteSet(Upto(m)) /\ sum[m] = Cardinality(Upto(m)) /\ m + 1 \in 1 .. N /\ (m + 1) - 1 = m
    OBVIOUS
  <2>2. Upto(m + 1) = Upto(m) \cup Part(m + 1)
    <3>1. 1 .. (m + 1) = (1 .. m) \cup {m + 1}
      OBVIOUS
    <3> QED
      BY <3>1
  <2>3. Upto(m) \cap Part(m + 1) = {}
    <3>1. \A d \in Upto(m) : \E n \in 1 .. m : d \in Part(n) /\ n \in 1 .. N
      BY <2>1
    <3> QED
      BY <1>7, <2>1, <3>1
  <2>4. IsFiniteSet(Part(m + 1)) /\ Cardinality(Part(m + 1)) = size[m + 1]
    BY <1>5, <2>1
  <2> DEFINE A == Upto(m)
             B == Part(m + 1)
  <2> HIDE DEF A, B
  <2>5. IsFiniteSet(A \cup B) /\ Cardinality(A \cup B) = Cardinality(A) + Cardinality(B)
    <3>1. IsFiniteSet(A) /\ IsFiniteSet(B) /\ A \cap B = {}
      BY <2>1, <2>3, <2>4 DEF A, B
    <3>2. Cardinality(A \cap B) = 0 /\ Cardinality(A) \in Nat /\ Cardinality(B) \in Nat
      BY <3>1, FS_EmptySet, FS_CardinalityType
    <3>3. IsFiniteSet(A \cup B) /\ Cardinality(A \cup B) = Cardinality(A) + Cardinality(B) - Cardinality(A \cap B)
      BY <3>1, FS_Union, Zenon
    <3> QED
      BY <3>2, <3>3
  <2>6. sum[m + 1] = sum[m] + size[m + 1]
    BY <1>4, <2>1
  <2> QED
    BY <2>1, <2>2, <2>4, <2>5, <2>6 DEF A, B
<1>10. I = Nat
  <2> HIDE DEF I
  <2>1. I \in SUBSET Nat
    BY DEF I
  <2> QED
    BY <1>8, <1>9, <2>1, NumberInduction
<1> HIDE DEF Upto
<1>11. sum[N] = Cardinality(Upto(N))
  BY <1>10
<1> QED
  BY <1>1, <1>6, <1>11

----------------------------------------------------------------------------
(* asct diff: a run that loads has finitely many fields for each recipe *)

LEMMA FieldsFinite ==
    ASSUME NEW rows \in Results
    PROVE  IsFiniteSet(DOMAIN Fields(rows))
<1> DEFINE S == 1 .. Len(rows)
           g == [n \in S |-> <<rows[n].key, "Value">>]
<1>1. DOMAIN rows = S /\ Len(rows) \in Nat
  BY ResultFacts
<1>2. DOMAIN Fields(rows) = {<<k, "Value">> : k \in Keys(rows)}
  BY DEF Fields
<1>3. {<<k, "Value">> : k \in Keys(rows)} = {g[n] : n \in S}
  BY <1>1 DEF Keys
<1>4. IsFiniteSet(S) /\ DOMAIN g = S
  BY <1>1, FS_Interval
<1> HIDE DEF S, g
<1> QED
  BY <1>2, <1>3, <1>4, ImageFinite

LEMMA PairFinite ==
    ASSUME NEW a, NEW b
    PROVE  IsFiniteSet({a, b})
<1>1. {a, b} = {a} \cup {b}
  OBVIOUS
<1>2. IsFiniteSet({a}) /\ IsFiniteSet({b})
  BY FS_Singleton
<1>3. IsFiniteSet({a} \cup {b})
  BY <1>2, FS_Union, Zenon
<1> QED
  BY <1>1, <1>3

\* The data of latency-sweep without a summary: two fields, one for each column.
LEMMA SweepDataFinite ==
    ASSUME NEW rows
    PROVE  IsFiniteSet(DOMAIN Transposed([sweep_data |-> SweepData(rows)]))
<1> DEFINE s == SweepData(rows)
           t == [sweep_data |-> s]
           P == UNION {{<<row, c>> : row \in DOMAIN t[c]} : c \in DOMAIN t}
<1>1. DOMAIN s = {"sizes", "metric"}
  BY DEF SweepData
<1> HIDE DEF s
<1>2. DOMAIN t = {"sweep_data"} /\ t["sweep_data"] = s
  OBVIOUS
<1> HIDE DEF t
<1>3. P = {<<row, "sweep_data">> : row \in DOMAIN s}
  BY <1>2
<1>4. P = {<<"sizes", "sweep_data">>, <<"metric", "sweep_data">>}
  BY <1>1, <1>3
<1>5. DOMAIN Transposed(t) = P
  BY DEF Transposed
<1>6. IsFiniteSet(P)
  BY <1>4, PairFinite
<1> HIDE DEF P
<1>7. IsFiniteSet(DOMAIN Transposed(t))
  BY <1>5, <1>6
<1> QED
  BY <1>7 DEF t, s

LEMMA ArtifactFinite ==
    ASSUME NEW fd, NEW ms, NewFolder(fd, ms), NEW only, ~LoadFails(fd, only),
           NEW r \in Artifacts(fd), Selected(r, only)
    PROVE  IsFiniteSet(DOMAIN RecipeDiffData(fd, r))
<1> DEFINE d == fd.dirs[r]
           entry == IF d.summary = Absent THEN RawData(fd)[r] ELSE PayloadForDeserialize(d)
<1>1. r \in Recipe /\ Readable(d) /\ d.data # Absent
  BY DEF Artifacts
<1>2. FilesOK(r, d, ms[r])
  BY <1>1 DEF NewFolder
<1>3. d.data # Torn /\ d.summary # Torn
  BY <1>1 DEF Readable
<1>4. PICK rows \in Results : d.data = Whole(DataOf(r, rows))
  BY <1>1, <1>2, <1>3 DEF FilesOK
<1>5. d.data.content = DataOf(r, rows)
  BY <1>4, FileStates
<1>6. RecipeDiffData(fd, r) = GetDiffData(r, entry)
  BY Zenon DEF RecipeDiffData
<1>7. ~Raises(r, entry)
  BY Zenon DEF LoadFails
<1>8. RawData(fd)[r] = [raw_result |-> DataOf(r, rows), metadata |-> r]
  <2>1. RawData(fd)[r] = [raw_result |-> d.data.content, metadata |-> r]
    BY RawDataDomain
  <2> QED
    BY <1>5, <2>1, Zenon
<1>9. ASSUME NEW table \in Results, Deserialize(r, entry) = TableOf(r, table)
      PROVE  IsFiniteSet(DOMAIN RecipeDiffData(fd, r))
  <2> HIDE DEF entry
  <2>1. GetDiffData(r, entry) = Fields(table)
    BY <1>1, <1>9, FieldsOfTable
  <2> QED
    BY <1>6, <2>1, FieldsFinite
<1>10. CASE r \notin Sweeps
  <2>1. d.summary = Absent
    BY <1>2, <1>10 DEF FilesOK
  <2>2. entry = [raw_result |-> TableOf(r, rows), metadata |-> r]
    BY <1>1, <1>8, <1>10, <2>1, RawCases
  <2>3. Deserialize(r, entry) = TableOf(r, rows)
    <3> DEFINE t == TableOf(r, rows)
    <3> HIDE DEF entry, t
    <3>1. Deserialize(r, [raw_result |-> t, metadata |-> r]) = t
      BY <1>10 DEF Deserialize
    <3> QED
      BY <2>2, <3>1 DEF t
  <2> QED
    BY <1>9, <2>3
<1>11. CASE r \in Sweeps /\ d.summary # Absent
  <2>1. PICK table \in Results : d.summary = SummaryOf(r, table)
    BY <1>2, <1>3, <1>11 DEF FilesOK
  <2> DEFINE s == SweepData(rows)
             t == TableOf(r, table)
             raw == [sweep_data |-> s, summary |-> t]
  <2>2. t = ToDict(r, table)
    BY <1>11, SweepCases DEF TableOf
  <2>3. d.summary.content = t
    BY <1>11, <2>1, <2>2, FileStates DEF SummaryOf
  <2>4. d.data.content = [sweep_data |-> s]
    BY <1>1, <1>5, <1>11, DataCases
  <2>5. entry = PayloadForDeserialize(d)
    BY <1>11
  <2> HIDE DEF s, t, entry
  <2>6. PayloadForDeserialize(d) = [raw_result |-> raw]
    BY <1>11, <2>3, <2>4, WithSummary DEF PayloadForDeserialize
  <2>7. "summary" \in DOMAIN raw /\ raw.summary = t
    OBVIOUS
  <2> HIDE DEF raw
  <2>8. Deserialize(r, entry) = t
    BY <1>11, <2>5, <2>6, <2>7, DeserializeCases
  <2> QED
    BY <1>9, <2>8 DEF t
<1>12. CASE r \in Sweeps /\ d.summary = Absent
  <2> DEFINE t == [sweep_data |-> SweepData(rows)]
  <2>1. entry = [raw_result |-> t, metadata |-> r]
    BY <1>1, <1>8, <1>12, DataCases
  <2>2. "summary" \notin DOMAIN t /\ "Key" \notin DOMAIN t
    OBVIOUS
  <2> HIDE DEF t, entry
  <2>3. Deserialize(r, entry) = t
    <3>1. Deserialize(r, [raw_result |-> t, metadata |-> r]) = t
      BY <2>2 DEF Deserialize
    <3> QED
      BY <2>1, <3>1
  <2>4. r = "latency-sweep"
    BY <1>7, <1>12, <2>2, <2>3, SweepCases DEF Raises
  <2>5. DOMAIN GetDiffData(r, entry) = DOMAIN Transposed(t)
    <3>1. "sweep_data" \in DOMAIN t
      BY DEF t
    <3>2. GetDiffData(r, entry) = ColumnFields(t)
      BY <2>3, <2>4, <3>1 DEF GetDiffData
    <3> QED
      BY <3>2 DEF ColumnFields
  <2> QED
    BY <1>6, <2>5, SweepDataFinite DEF t
<1> QED
  BY <1>10, <1>11, <1>12

LEMMA FiniteFields ==
    ASSUME FoldersOK, NEW f \in Folder, NEW only, ~LoadFails(folder[f], only), NEW r
    PROVE  IsFiniteSet(DOMAIN GetRecipe(Load(folder[f], only), r))
<1> DEFINE fd == folder[f]
           run == Load(fd, only)
           D == {s \in DOMAIN RawData(fd) : Selected(s, only)} \cup {"metadata"}
           meta == [p \in {<<"version">>, <<"run_id">>} |-> [text |-> Version(fd)]]
<1>1. run = [s \in D |-> IF s = "metadata" THEN meta ELSE RecipeDiffData(fd, s)]
  BY DEF Load
<1>2. CASE r \notin DOMAIN run
  <2>1. GetRecipe(run, r) = NoFields
    BY <1>2 DEF GetRecipe
  <2>2. DOMAIN NoFields = {}
    BY DEF NoFields
  <2> QED
    BY <2>1, <2>2, FS_EmptySet
<1>3. CASE r \in DOMAIN run
  <2>1. GetRecipe(run, r) = run[r] /\ r \in D
    BY <1>1, <1>3 DEF GetRecipe
  <2>2. CASE r = "metadata"
    <3>1. DOMAIN meta = {<<"version">>, <<"run_id">>}
      OBVIOUS
    <3> HIDE DEF meta
    <3>2. run[r] = meta
      BY <1>1, <2>1, <2>2
    <3> QED
      BY <2>1, <3>1, <3>2, PairFinite
  <2>3. CASE r # "metadata"
    <3>1. run[r] = RecipeDiffData(fd, r) /\ r \in DOMAIN RawData(fd) /\ Selected(r, only)
      BY <1>1, <2>1, <2>3
    <3>2. r \in DOMAIN fd.raw \cup Artifacts(fd)
      BY <3>1, RawDataDomain
    <3>3. CASE NewFolder(fd, measured[f])
      <4>1. r \in Artifacts(fd)
        BY <3>2, <3>3, NewFolderRaw
      <4> QED
        BY <2>1, <3>1, <3>3, <4>1, ArtifactFinite
    <3>4. CASE KeptFolder(fd, measured[f], OldRuns[f])
      <4>1. PICK old \in OldRuns[f] : fd = OldFolder(old)
        BY <3>4 DEF KeptFolder
      <4>2. r \in Recipe
        BY <3>2, <4>1, NoArtifacts, OldFolderParts
      <4>3. RecipeDiffData(fd, r) = Fields(old.results[r]) /\ old.results[r] \in Results
        BY <4>1, <4>2, LoadedOld, OldFacts
      <4> QED
        BY <2>1, <3>1, <4>3, FieldsFinite
    <3> QED
      BY <3>3, <3>4 DEF FoldersOK
  <2> QED
    BY <2>2, <2>3
<1> QED
  BY <1>2, <1>3

----------------------------------------------------------------------------
(* asct diff: the differences, their table and their records *)

LEMMA Difference ==
    ASSUME NEW a, NEW b, NEW p, ~ShouldIgnore(p)
    PROVE  /\ p \in DOMAIN GetDifferences(a, b) <=> At(a, p) # At(b, p)
           /\ p \in DOMAIN GetDifferences(a, b) => GetDifferences(a, b)[p] = [baseline |-> At(a, p), other |-> At(b, p)]
<1> DEFINE D == {q \in DOMAIN a \cup DOMAIN b : ~Equal(a, b, q)}
           change(q) == [baseline |-> At(a, q), other |-> At(b, q)]
<1>1. GetDifferences(a, b) = [q \in D |-> change(q)]
  BY DEF GetDifferences
<1>2. p \in D <=> At(a, p) # At(b, p)
  BY DEF Equal, At
<1> HIDE DEF D, change
<1>3. DOMAIN GetDifferences(a, b) = D /\ (p \in D => GetDifferences(a, b)[p] = change(p))
  BY <1>1
<1> QED
  BY <1>2, <1>3 DEF change

LEMMA DifferencesFinite ==
    ASSUME NEW a, NEW b, IsFiniteSet(DOMAIN a), IsFiniteSet(DOMAIN b)
    PROVE  IsFiniteSet(DOMAIN GetDifferences(a, b))
<1>1. IsFiniteSet(DOMAIN a \cup DOMAIN b)
  BY FS_Union, Zenon
<1>2. DOMAIN GetDifferences(a, b) \subseteq DOMAIN a \cup DOMAIN b
  BY DEF GetDifferences
<1> QED
  BY <1>1, <1>2, FS_Subset

LEMMA KeysCompared ==
    ASSUME NEW k \in UNION {Keys(rows) : rows \in Results}
    PROVE  ~ShouldIgnore(<<k, "Value">>)
<1>1. PICK rows \in Results : k \in Keys(rows)
  OBVIOUS
<1>2. k \notin IgnoredFields
  BY <1>1, ResultFacts
<1>3. Range(<<k, "Value">>) = {k, "Value"}
  BY DEF Range
<1>4. "Value" \notin IgnoredFields
  BY DEF IgnoredFields
<1> QED
  BY <1>2, <1>3, <1>4 DEF ShouldIgnore

\* The runs in list, as they are loaded, and their comparison.
RunsOf(list, only) == [n \in DOMAIN list |-> Load(folder[list[n]], only)]

Compared(list, L, only, diffs) ==
    /\ L \in Nat \ {0} /\ Len(list) = L /\ DOMAIN list = 1 .. L
    /\ \A n \in 1 .. L : list[n] \in Folder
    /\ diffs = DiffAll(RunsOf(list, only)[1], Tail(RunsOf(list, only)))

\* The comparisons of a recipe, one for each run after the baseline.
LEMMA DiffParts ==
    ASSUME NEW list, NEW L, NEW only, NEW diffs, Compared(list, L, only, diffs),
           NEW runs, runs = RunsOf(list, only), NEW r \in DOMAIN diffs
    PROVE  /\ DOMAIN diffs[r] = 1 .. (L - 1) /\ Len(diffs[r]) = L - 1
           /\ \A n \in 1 .. (L - 1) : diffs[r][n] = GetDifferences(GetRecipe(runs[1], r), GetRecipe(runs[n + 1], r))
           /\ \E n \in 1 .. L : r \in DOMAIN runs[n]
<1> DEFINE S == {runs[n] : n \in 1 .. L}
           others == Tail(runs)
           change(n) == GetDifferences(GetRecipe(runs[1], r), GetRecipe(others[n], r))
           T == {change(n) : n \in 1 .. (L - 1)}
<1>0. L \in Nat \ {0} /\ DOMAIN list = 1 .. L /\ diffs = DiffAll(runs[1], Tail(runs))
  BY DEF Compared
<1>1. DOMAIN runs = 1 .. L /\ \A n \in 1 .. L : runs[n] \in S
  BY <1>0 DEF RunsOf
<1>2. runs \in Seq(S) /\ Len(runs) = L
  <2>1. runs = [n \in 1 .. L |-> runs[n]]
    BY <1>0 DEF RunsOf
  <2> HIDE DEF S
  <2>2. runs \in [1 .. L -> S]
    BY <1>1, <2>1
  <2> QED
    BY <1>0, <2>2, LenProperties, SeqDef
<1> HIDE DEF S
<1>3. runs # <<>>
  BY <1>0, <1>2
<1>4. DOMAIN others = 1 .. (L - 1) /\ \A n \in 1 .. (L - 1) : others[n] = runs[n + 1]
  BY <1>0, <1>2, <1>3, HeadTailProperties
<1>5. DOMAIN diffs = DOMAIN runs[1] \cup UNION {DOMAIN others[n] : n \in DOMAIN others}
  BY <1>0 DEF DiffAll
<1>6. diffs[r] = [n \in DOMAIN others |-> change(n)]
  BY <1>0 DEF DiffAll
<1> HIDE DEF others, change
<1>7. DOMAIN diffs[r] = 1 .. (L - 1) /\ \A n \in 1 .. (L - 1) : diffs[r][n] = change(n)
  BY <1>4, <1>6
<1>8. Len(diffs[r]) = L - 1
  <2>1. \A n \in 1 .. (L - 1) : change(n) \in T
    OBVIOUS
  <2> HIDE DEF T
  <2>4. diffs[r] = [n \in 1 .. (L - 1) |-> change(n)]
    BY <1>4, <1>6, Zenon
  <2>2. diffs[r] \in [1 .. (L - 1) -> T]
    BY <2>1, <2>4
  <2>3. L - 1 \in Nat
    BY <1>0
  <2> QED
    BY <2>2, <2>3, LenProperties, SeqDef
<1>9. \E n \in 1 .. L : r \in DOMAIN runs[n]
  <2>1. CASE r \in DOMAIN runs[1]
    <3>1. 1 \in 1 .. L
      BY <1>0
    <3> QED
      BY <2>1, <3>1
  <2>2. CASE r \notin DOMAIN runs[1]
    <3>1. PICK n \in 1 .. (L - 1) : r \in DOMAIN others[n]
      BY <1>4, <1>5, <2>2
    <3>2. n + 1 \in 1 .. L /\ r \in DOMAIN runs[n + 1]
      BY <1>0, <1>4, <3>1
    <3> QED
      BY <3>2
  <2> QED
    BY <2>1, <2>2
<1> QED
  BY <1>4, <1>7, <1>8, <1>9 DEF change

OwnNames(list) == IsInjective([n \in DOMAIN list |-> RunName[list[n]]])

\* What the table shows of a field that changed.
ShownOf(r, change, p) ==
    IF r \in SideBySide THEN Displayed(change.other) ELSE GetDelta(change).percent

CellOf(r, change, p) == IF p \in DOMAIN change THEN ShownOf(r, change[p], p) ELSE <<"same">>

\* Runs with names of their own have cells of their own.
LEMMA OwnCell ==
    ASSUME NEW list, NEW L \in Nat, DOMAIN list = 1 .. L, OwnNames(list),
           NEW changes, DOMAIN changes = 1 .. (L - 1), NEW m \in 1 .. (L - 1), NEW r, NEW p
    PROVE  Cell(r, list, changes, p, RunName[list[m + 1]]) = CellOf(r, changes[m], p)
<1> DEFINE name == RunName[list[m + 1]]
           rows == {n \in DOMAIN changes : RunName[list[n + 1]] = name /\ p \in DOMAIN changes[n]}
<1>1. ASSUME NEW n \in 1 .. (L - 1), RunName[list[n + 1]] = name PROVE n = m
  <2>1. n + 1 \in 1 .. L /\ m + 1 \in 1 .. L
    OBVIOUS
  <2>2. n + 1 = m + 1
    BY <1>1, <2>1 DEF OwnNames, IsInjective
  <2> QED
    BY <2>2
<1>2. Cell(r, list, changes, p, name) = IF rows = {} THEN <<"same">> ELSE ShownOf(r, changes[Min(rows)][p], p)
  <2> DEFINE row == GetField(r, Min(rows) + 1, changes[Min(rows)][p], p)
  <2>1. Cell(r, list, changes, p, name) = IF rows = {} THEN <<"same">>
                                         ELSE IF r \in SideBySide THEN row.comparator ELSE row.delta_percent
    BY Zenon DEF Cell
  <2>2. /\ row.comparator = Displayed(changes[Min(rows)][p].other)
        /\ row.delta_percent = GetDelta(changes[Min(rows)][p]).percent
    <3> HIDE DEF rows
    <3> QED
      BY DEF GetField
  <2> HIDE DEF row, rows
  <2> QED
    BY <2>1, <2>2, Zenon DEF ShownOf
<1>3. CASE p \in DOMAIN changes[m]
  <2>1. rows = {m}
    BY <1>1, <1>3
  <2>2. Min({m}) = m
    BY DEF Min
  <2> HIDE DEF rows, name
  <2> QED
    BY <1>2, <1>3, <2>1, <2>2 DEF name, CellOf
<1>4. CASE p \notin DOMAIN changes[m]
  <2>1. rows = {}
    BY <1>1, <1>4
  <2> HIDE DEF rows, name
  <2> QED
    BY <1>2, <1>4, <2>1 DEF name, CellOf
<1> QED
  BY <1>3, <1>4

FoundOf(diffs, r, n, p) == {e \in Records(diffs) : e.recipe = r /\ e.run = n /\ e.field = p}

\* The records of a field and a run.
LEMMA RecordsOf ==
    ASSUME NEW diffs, NEW r \in DOMAIN diffs, NEW N \in Nat, DOMAIN diffs[r] = 1 .. N, NEW n \in 1 .. N, NEW p
    PROVE  FoundOf(diffs, r, n + 1, p) =
               IF p \in DOMAIN diffs[r][n] THEN {GetField(r, n + 1, diffs[r][n][p], p)} ELSE {}
<1> DEFINE rec(q, m, x) == GetField(q, m + 1, diffs[q][m][x], x)
           found == FoundOf(diffs, r, n + 1, p)
<1>1. Records(diffs) = UNION {UNION {{rec(q, m, x) : x \in DOMAIN diffs[q][m]} : m \in DOMAIN diffs[q]} : q \in DOMAIN diffs}
  BY Zenon DEF Records
<1>2. \A q, m, x : rec(q, m, x).recipe = q /\ rec(q, m, x).run = m + 1 /\ rec(q, m, x).field = x
  BY DEF GetField
<1>0. \A e : e \in found <=> e \in Records(diffs) /\ e.recipe = r /\ e.run = n + 1 /\ e.field = p
  BY DEF FoundOf
<1> HIDE DEF rec, found
<1>3. ASSUME NEW e \in found PROVE p \in DOMAIN diffs[r][n] /\ e = rec(r, n, p)
  <2>1. PICK q \in DOMAIN diffs : \E m \in DOMAIN diffs[q] : \E x \in DOMAIN diffs[q][m] : e = rec(q, m, x)
    BY <1>0, <1>1
  <2>2. q = r
    BY <1>0, <1>2, <2>1
  <2>3. PICK m \in 1 .. N : \E x \in DOMAIN diffs[r][m] : e = rec(r, m, x)
    BY <2>1, <2>2
  <2>4. PICK x \in DOMAIN diffs[r][m] : e = rec(r, m, x)
    BY <2>3
  <2>5. e.run = m + 1 /\ e.field = x
    BY <1>2, <2>4
  <2>6. m = n /\ x = p
    BY <1>0, <2>5
  <2> QED
    BY <2>4, <2>6
<1>4. ASSUME p \in DOMAIN diffs[r][n] PROVE rec(r, n, p) \in found
  <2>1. rec(r, n, p) \in Records(diffs)
    BY <1>1, <1>4
  <2> QED
    BY <1>0, <1>2, <2>1
<1>5. CASE p \in DOMAIN diffs[r][n]
  <2>1. found = {rec(r, n, p)}
    BY <1>3, <1>4, <1>5
  <2> QED
    BY <1>5, <2>1, Zenon DEF found, rec
<1>6. CASE p \notin DOMAIN diffs[r][n]
  <2>1. found = {}
    BY <1>3, <1>6
  <2> QED
    BY <1>6, <2>1, Zenon DEF found
<1> QED
  BY <1>5, <1>6

----------------------------------------------------------------------------
(* asct diff: what is shown of a field *)

LEMMA NearestIsNear ==
    ASSUME NEW a \in Int, NEW b \in Nat \ {0}
    PROVE  /\ Nearest(a, b) \in Int
           /\ -b <= 2 * (b * Nearest(a, b) - a) /\ 2 * (b * Nearest(a, b) - a) <= b
<1> DEFINE c == 2 * a + b
           d == 2 * b
           q == c \div d
<1>1. c \in Int /\ d \in Nat \ {0}
  OBVIOUS
<1>2. q \in Int /\ d * q <= c /\ c < d * q + d
  <2> HIDE DEF c, d
  <2> QED
    BY <1>1
<1>3. Nearest(a, b) = q
  BY DEF Nearest
<1> HIDE DEF q
<1>4. d * q = 2 * (b * q)
  BY <1>2
<1> QED
  BY <1>2, <1>3, <1>4

\* A value as At gives it, with what DiffAssumption says of numbers.
IsValue(x) == x = <<>> \/ \E v : x = <<v>> /\ (IsNumber(v) => v.number \in Nat)

LEMMA MeasuredValue ==
    ASSUME FoldersOK, NEW f \in Folder, NEW r \in Recipe, NEW p
    PROVE  IsValue(At(MeasuredFields(f, r), p))
<1>1. measured[f][r] = <<>> \/ \E rows \in Results : measured[f][r] = <<rows>>
  <2>1. CASE NewFolder(folder[f], measured[f])
    BY <2>1 DEF NewFolder, FilesOK
  <2>2. CASE KeptFolder(folder[f], measured[f], OldRuns[f])
    <3>1. PICK old \in OldRuns[f] : measured[f] = [s \in Recipe |-> <<old.results[s]>>]
      BY <2>2 DEF KeptFolder
    <3> QED
      BY <3>1, OldFacts
  <2> QED
    BY <2>1, <2>2 DEF FoldersOK
<1>2. CASE measured[f][r] = <<>>
  <2>1. MeasuredFields(f, r) = NoFields /\ DOMAIN NoFields = {}
    BY <1>2 DEF MeasuredFields, NoFields
  <2> QED
    BY <2>1 DEF At, IsValue
<1>3. ASSUME NEW rows \in Results, measured[f][r] = <<rows>> PROVE IsValue(At(MeasuredFields(f, r), p))
  <2>1. measured[f][r] # <<>> /\ measured[f][r][1] = rows
    BY <1>3
  <2>2. MeasuredFields(f, r) = Fields(rows)
    BY <2>1 DEF MeasuredFields, Fields
  <2>3. CASE p \notin DOMAIN Fields(rows)
    BY <2>2, <2>3 DEF At, IsValue
  <2>4. CASE p \in DOMAIN Fields(rows)
    <3>1. PICK n \in DOMAIN rows : p = <<rows[n].key, "Value">>
      BY <2>4 DEF Fields, Keys
    <3>2. Fields(rows)[p] = ValueOf(rows, rows[n].key)
      BY <2>4, <3>1 DEF Fields
    <3>3. Fields(rows)[p] = rows[n].value
      BY <3>2, ValueOfKey
    <3>4. At(Fields(rows), p) = <<rows[n].value>>
      BY <2>4, <3>3 DEF At
    <3> QED
      BY <2>2, <3>4, ResultFacts DEF IsValue
  <2> QED
    BY <2>3, <2>4
<1> QED
  BY <1>1, <1>2, <1>3

LEMMA ValueIsShown ==
    ASSUME NEW x, IsValue(x)
    PROVE  ShowsValue(Displayed(x), x) /\ Displayed(x) # <<"same">>
<1>1. CASE x = <<>>
  BY <1>1 DEF ShowsValue, Displayed
<1>2. ASSUME NEW v, x = <<v>>, IsNumber(v) => v.number \in Nat
      PROVE  ShowsValue(Displayed(x), x) /\ Displayed(x) # <<"same">>
  <2>1. x # <<>> /\ x[1] = v /\ Displayed(x) = <<"value", RoundIfNumeric(v)>>
    BY <1>2 DEF Displayed
  <2>2. Displayed(x)[1] = "value" /\ Displayed(x)[2] = RoundIfNumeric(v) /\ Displayed(x) # <<"same">>
    BY <2>1
  <2>3. CASE IsNumber(v)
    <3> DEFINE number == v.number
               q == Nearest(number, 10)
    <3>0. number \in Nat
      BY <1>2, <2>3
    <3> HIDE DEF number
    <3>1. q \in Int /\ -10 <= 2 * (10 * q - number) /\ 2 * (10 * q - number) <= 10
      BY <3>0, NearestIsNear
    <3>2. RoundIfNumeric(v).number = 10 * q
      BY <2>3 DEF RoundIfNumeric, number
    <3> HIDE DEF q
    <3>3. -5 <= 10 * q - number /\ 10 * q - number <= 5
      BY <3>0, <3>1
    <3> QED
      BY <2>1, <2>2, <2>3, <3>2, <3>3 DEF ShowsValue, number
  <2>4. CASE ~IsNumber(v)
    BY <2>1, <2>2, <2>4 DEF ShowsValue, RoundIfNumeric
  <2> QED
    BY <2>3, <2>4
<1> QED
  BY <1>1, <1>2 DEF IsValue

LEMMA DeltaIsShown ==
    ASSUME NEW base, IsValue(base), NEW own, IsValue(own), NEW change, change = [baseline |-> base, other |-> own]
    PROVE  LET given == GetDelta(change) IN
           /\ ShowsPercentage(given.percent, base, own) /\ given.percent # <<"same">>
           /\ Comparable(base, own) => ShowsDifference(given.delta, base, own)
           /\ ~Comparable(base, own) =>
                  given.delta = <<IF base = <<>> THEN "added" ELSE IF own = <<>> THEN "removed" ELSE "changed">>
<1> DEFINE b == base[1].number
           o == own[1].number
           by == Nearest(o - b, 10)
           percent == Nearest(100000 * by, b)
<1>1. change.baseline = base /\ change.other = own
  OBVIOUS
<1>2. CASE Comparable(base, own)
  <2>1. b \in Nat \ {0} /\ o \in Nat
    BY <1>2 DEF Comparable, IsValue
  <2>2. GetDelta(change) = [delta |-> <<"number", by>>, percent |-> <<"percent", percent>>]
    BY <1>1, <1>2 DEF GetDelta
  <2> HIDE DEF b, o
  <2>3. by \in Int /\ -10 <= 2 * (10 * by - (o - b)) /\ 2 * (10 * by - (o - b)) <= 10
    BY <2>1, NearestIsNear
  <2> HIDE DEF by
  <2>4. percent \in Int /\ -b <= 2 * (b * percent - 100000 * by) /\ 2 * (b * percent - 100000 * by) <= b
    BY <2>1, <2>3, NearestIsNear
  <2> HIDE DEF percent
  <2>5. -5 <= 10 * by - (o - b) /\ 10 * by - (o - b) <= 5
    BY <2>1, <2>3
  <2>6. /\ -(100000 + b) <= 2 * (percent * b - 10000 * (o - b))
        /\ 2 * (percent * b - 10000 * (o - b)) <= 100000 + b
    <3> DEFINE product == b * percent
    <3>1. product \in Int /\ percent * b = product
      BY <2>1, <2>4
    <3>2. -b <= 2 * (product - 100000 * by) /\ 2 * (product - 100000 * by) <= b
      BY <2>4
    <3> HIDE DEF product
    <3> QED
      BY <2>1, <2>3, <2>5, <3>1, <3>2
  <2>7. /\ GetDelta(change).delta[1] = "number" /\ GetDelta(change).delta[2] = by
        /\ GetDelta(change).percent[1] = "percent" /\ GetDelta(change).percent[2] = percent
        /\ GetDelta(change).percent # <<"same">>
    BY <2>2
  <2>8. ShowsPercentage(GetDelta(change).percent, base, own)
    BY <1>2, <2>6, <2>7 DEF ShowsPercentage, b, o
  <2>9. ShowsDifference(GetDelta(change).delta, base, own)
    BY <2>5, <2>7 DEF ShowsDifference, b, o
  <2> QED
    BY <1>2, <2>7, <2>8, <2>9
<1>3. CASE ~Comparable(base, own)
  <2> DEFINE kind == IF base = <<>> THEN "added" ELSE IF own = <<>> THEN "removed" ELSE "changed"
  <2>1. GetDelta(change) = [delta |-> <<kind>>, percent |-> <<"N/A">>]
    BY <1>1, <1>3 DEF GetDelta
  <2>2. GetDelta(change).delta = <<kind>> /\ GetDelta(change).percent = <<"N/A">> /\ <<"N/A">> # <<"same">>
    BY <2>1
  <2> QED
    BY <1>3, <2>2 DEF ShowsPercentage
<1> QED
  BY <1>2, <1>3

\* What a cell or a record says of a field that changed.
LEMMA FieldIsShown ==
    ASSUME NEW base, IsValue(base), NEW own, IsValue(own), NEW change, change = [baseline |-> base, other |-> own],
           NEW r \in Recipe, NEW n, NEW p
    PROVE  /\ ShownOf(r, change, p) # <<"same">>
           /\ IF r = "ucie" THEN ShowsValue(ShownOf(r, change, p), own) ELSE ShowsPercentage(ShownOf(r, change, p), base, own)
           /\ RecordShows(GetField(r, n, change, p), base, own)
<1> DEFINE given == GetDelta(change)
           field == GetField(r, n, change, p)
<1>1. change.baseline = base /\ change.other = own
  OBVIOUS
<1>2. /\ ShowsPercentage(given.percent, base, own) /\ given.percent # <<"same">>
      /\ Comparable(base, own) => ShowsDifference(given.delta, base, own)
      /\ ~Comparable(base, own) =>
             given.delta = <<IF base = <<>> THEN "added" ELSE IF own = <<>> THEN "removed" ELSE "changed">>
  BY DeltaIsShown
<1>3. /\ ShowsValue(Displayed(own), own) /\ Displayed(own) # <<"same">>
      /\ ShowsValue(Displayed(base), base)
  BY ValueIsShown
<1>4. r \in SideBySide <=> r = "ucie"
  BY RecipeCases DEF SideBySide
<1>5. /\ field.comparator = Displayed(own) /\ field.baseline = Displayed(base)
      /\ field.delta = given.delta /\ field.delta_percent = given.percent
  <2> HIDE DEF given
  <2> QED
    BY <1>1 DEF GetField, given
<1> HIDE DEF given, field
<1>6. ShownOf(r, change, p) = IF r = "ucie" THEN Displayed(own) ELSE given.percent
  BY <1>1, <1>4 DEF ShownOf, given
<1>7. RecordShows(field, base, own)
  <2>1. /\ ShowsValue(field.baseline, base) /\ ShowsValue(field.comparator, own)
        /\ ShowsPercentage(field.delta_percent, base, own)
    BY <1>2, <1>3, <1>5, Zenon
  <2>2. IF Comparable(base, own) THEN ShowsDifference(field.delta, base, own)
        ELSE field.delta = <<IF base = <<>> THEN "added" ELSE IF own = <<>> THEN "removed" ELSE "changed">>
    BY <1>2, <1>5, Zenon
  <2> QED
    BY <2>1, <2>2, Zenon DEF RecordShows
<1> QED
  BY <1>2, <1>3, <1>6, <1>7 DEF field

----------------------------------------------------------------------------
(* asct diff: what it says of complete runs *)

\* The field p of the recipe r, in the baseline and in run n.
ComparedField(list, L, diffs, r, n, p, base, own) ==
    /\ \A f \in Range(list) : Complete(f)
    /\ r \in Recipe /\ r \in DOMAIN diffs /\ n \in 2 .. L
    /\ \E k \in UNION {Keys(rows) : rows \in Results} : p = <<k, "Value">>
    /\ base = At(MeasuredFields(list[1], r), p) /\ own = At(MeasuredFields(list[n], r), p)

DiffersAt(changes, L, m, p, base, own) ==
    /\ DOMAIN changes = 1 .. (L - 1) /\ m \in 1 .. (L - 1)
    /\ p \in DOMAIN changes[m] <=> own # base
    /\ p \in DOMAIN changes[m] => changes[m][p] = [baseline |-> base, other |-> own]

LEMMA FieldsDiffer ==
    ASSUME FoldersOK, NEW list, NEW L, NEW only, NEW diffs, Compared(list, L, only, diffs),
           NEW r, NEW n, NEW p, NEW base, NEW own, ComparedField(list, L, diffs, r, n, p, base, own)
    PROVE  DiffersAt(diffs[r], L, n - 1, p, base, own)
<1> DEFINE run(m) == Load(folder[list[m]], only)
           runs == RunsOf(list, only)
<1>1. /\ L \in Nat \ {0} /\ Len(list) = L /\ DOMAIN list = 1 .. L /\ \A m \in 1 .. L : list[m] \in Folder
      /\ \A m \in 1 .. L : runs[m] = run(m)
  BY DEF Compared, RunsOf
<1>0. /\ r \in Recipe /\ r \in DOMAIN diffs /\ n \in 2 .. L
      /\ base = At(MeasuredFields(list[1], r), p) /\ own = At(MeasuredFields(list[n], r), p)
      /\ ~ShouldIgnore(p)
  BY KeysCompared DEF ComparedField
<1>2. /\ DOMAIN diffs[r] = 1 .. (L - 1)
      /\ \A m \in 1 .. (L - 1) : diffs[r][m] = GetDifferences(GetRecipe(runs[1], r), GetRecipe(runs[m + 1], r))
      /\ \E m \in 1 .. L : r \in DOMAIN runs[m]
  BY <1>0, DiffParts
<1>3. n - 1 \in 1 .. (L - 1) /\ (n - 1) + 1 = n /\ n \in 1 .. L /\ 1 \in 1 .. L
  BY <1>0, <1>1
<1>4. Selected(r, only)
  <2>1. PICK m \in 1 .. L : r \in DOMAIN runs[m]
    BY <1>2
  <2>2. r \in DOMAIN run(m)
    BY <1>1, <2>1, Zenon
  <2>3. r # "metadata"
    BY <1>0, RecipeCases
  <2> QED
    BY <2>2, <2>3 DEF Load
<1>5. ASSUME NEW m \in 1 .. L PROVE GetRecipe(runs[m], r) = MeasuredFields(list[m], r)
  <2>1. list[m] \in Folder /\ Complete(list[m])
    BY <1>1 DEF Range, ComparedField
  <2>2. runs[m] = run(m)
    BY <1>1
  <2>3. GetRecipe(run(m), r) = MeasuredFields(list[m], r)
    BY <1>0, <1>4, <2>1, Loaded
  <2> QED
    BY <2>2, <2>3, Zenon
<1> HIDE DEF runs
<1>6. diffs[r][n - 1] = GetDifferences(MeasuredFields(list[1], r), MeasuredFields(list[n], r))
  BY <1>2, <1>3, <1>5
<1> QED
  BY <1>0, <1>2, <1>3, <1>6, Difference DEF DiffersAt

LEMMA TableAgrees ==
    ASSUME FoldersOK, NEW list, NEW L, NEW only, NEW diffs, Compared(list, L, only, diffs),
           NEW r, NEW n, NEW p, NEW base, NEW own, ComparedField(list, L, diffs, r, n, p, base, own),
           OwnNames(list), NEW table, table = Table(list, diffs)[r]
    PROVE  /\ p \notin DOMAIN table => own = base
           /\ p \in DOMAIN table => table[p][RunName[list[n]]] =
                                     IF own = base THEN <<"same">> ELSE ShownOf(r, [baseline |-> base, other |-> own], p)
<1> DEFINE m == n - 1
           P == UNION {DOMAIN diffs[r][x] : x \in DOMAIN diffs[r]}
           names == {RunName[list[x]] : x \in 2 .. Len(list)}
           cell(x, name) == Cell(r, list, diffs[r], x, name)
<1>0. DiffersAt(diffs[r], L, m, p, base, own) /\ n \in 2 .. L /\ r \in DOMAIN diffs
  BY FieldsDiffer DEF ComparedField
<1>1. /\ DOMAIN diffs[r] = 1 .. (L - 1) /\ m \in 1 .. (L - 1)
      /\ p \in DOMAIN diffs[r][m] <=> own # base
      /\ p \in DOMAIN diffs[r][m] => diffs[r][m][p] = [baseline |-> base, other |-> own]
  BY <1>0 DEF DiffersAt
<1>2. L \in Nat /\ DOMAIN list = 1 .. L /\ Len(list) = L
  BY DEF Compared
<1>3. m + 1 = n
  BY <1>0, <1>2
<1>4. table = [x \in P |-> [name \in names |-> cell(x, name)]]
  BY <1>0, Zenon DEF Table
<1>5. RunName[list[n]] \in names
  BY <1>0, <1>2
<1>6. p \in DOMAIN diffs[r][m] => p \in P
  BY <1>1
<1> HIDE DEF P, names, cell, m
<1>7. DOMAIN table = P /\ (p \in P => table[p][RunName[list[n]]] = cell(p, RunName[list[n]]))
  BY <1>4, <1>5
<1>8. cell(p, RunName[list[n]]) = CellOf(r, diffs[r][m], p)
  <2> DEFINE changes == diffs[r]
  <2>1. DOMAIN changes = 1 .. (L - 1)
    BY <1>1
  <2> HIDE DEF changes
  <2>2. Cell(r, list, changes, p, RunName[list[m + 1]]) = CellOf(r, changes[m], p)
    BY <1>1, <1>2, <2>1, OwnCell
  <2> QED
    BY <1>3, <2>2, Zenon DEF changes, cell
<1>9. CellOf(r, diffs[r][m], p) = IF own = base THEN <<"same">> ELSE ShownOf(r, [baseline |-> base, other |-> own], p)
  BY <1>1 DEF CellOf
<1> QED
  BY <1>1, <1>6, <1>7, <1>8, <1>9

LEMMA RecordsMatch ==
    ASSUME FoldersOK, NEW list, NEW L, NEW only, NEW diffs, Compared(list, L, only, diffs),
           NEW r, NEW n, NEW p, NEW base, NEW own, ComparedField(list, L, diffs, r, n, p, base, own)
    PROVE  FoundOf(diffs, r, n, p) =
               IF own = base THEN {} ELSE {GetField(r, n, [baseline |-> base, other |-> own], p)}
<1> DEFINE m == n - 1
<1>0. DiffersAt(diffs[r], L, m, p, base, own) /\ n \in 2 .. L /\ r \in DOMAIN diffs
  BY FieldsDiffer DEF ComparedField
<1>1. /\ DOMAIN diffs[r] = 1 .. (L - 1) /\ m \in 1 .. (L - 1)
      /\ p \in DOMAIN diffs[r][m] <=> own # base
      /\ p \in DOMAIN diffs[r][m] => diffs[r][m][p] = [baseline |-> base, other |-> own]
  BY <1>0 DEF DiffersAt
<1>2. L \in Nat \ {0} /\ L - 1 \in Nat /\ m + 1 = n
  BY <1>0 DEF Compared
<1> HIDE DEF m
<1>3. FoundOf(diffs, r, m + 1, p) = IF p \in DOMAIN diffs[r][m] THEN {GetField(r, m + 1, diffs[r][m][p], p)} ELSE {}
  <2> DEFINE N == L - 1
  <2>1. N \in Nat /\ DOMAIN diffs[r] = 1 .. N /\ m \in 1 .. N
    BY <1>1, <1>2
  <2> HIDE DEF N
  <2> QED
    BY <1>0, <2>1, RecordsOf
<1> QED
  BY <1>1, <1>2, <1>3

LEMMA CountsAgree ==
    ASSUME FoldersOK, NEW list, NEW L, NEW only, NEW diffs, Compared(list, L, only, diffs),
           \A n \in DOMAIN list : ~LoadFails(folder[list[n]], only), NEW r \in DOMAIN diffs
    PROVE  ComputeSummary(diffs)[r] = Cardinality({d \in Records(diffs) : d.recipe = r})
<1> DEFINE run(m) == Load(folder[list[m]], only)
           runs == RunsOf(list, only)
           N == L - 1
<1>1. /\ L \in Nat \ {0} /\ Len(list) = L /\ DOMAIN list = 1 .. L /\ \A m \in 1 .. L : list[m] \in Folder
      /\ \A m \in 1 .. L : runs[m] = run(m)
  BY DEF Compared, RunsOf
<1>2. /\ DOMAIN diffs[r] = 1 .. (L - 1) /\ Len(diffs[r]) = L - 1
      /\ \A m \in 1 .. (L - 1) : diffs[r][m] = GetDifferences(GetRecipe(runs[1], r), GetRecipe(runs[m + 1], r))
  BY DiffParts
<1>3. ASSUME NEW m \in 1 .. L PROVE IsFiniteSet(DOMAIN GetRecipe(runs[m], r))
  <2>1. runs[m] = run(m)
    BY <1>1
  <2>2. IsFiniteSet(DOMAIN GetRecipe(run(m), r))
    BY <1>1, FiniteFields
  <2> QED
    BY <2>1, <2>2, Zenon
<1> HIDE DEF runs
<1>4. ASSUME NEW m \in 1 .. N PROVE IsFiniteSet(DOMAIN diffs[r][m])
  <2>1. 1 \in 1 .. L /\ m + 1 \in 1 .. L
    BY <1>1
  <2>2. diffs[r][m] = GetDifferences(GetRecipe(runs[1], r), GetRecipe(runs[m + 1], r))
    BY <1>2
  <2> QED
    BY <1>3, <2>1, <2>2, DifferencesFinite
<1>5. N \in Nat /\ DOMAIN diffs[r] = 1 .. N /\ Len(diffs[r]) = N
  BY <1>1, <1>2
<1> HIDE DEF N
<1> QED
  BY <1>4, <1>5, SummaryCounts

\* What DiffAgrees asks of the report o: of a cell, of the records of a field,
\* and of all.
CellRight(o, r, n, p) ==
    LET base == At(MeasuredFields(o.runs[1], r), p)
        own == At(MeasuredFields(o.runs[n], r), p)
        cell == IF p \notin DOMAIN o.table[r] THEN <<"same">> ELSE o.table[r][p][RunName[o.runs[n]]]
    IN /\ cell = <<"same">> <=> own = base
       /\ own # base => IF r = "ucie" THEN ShowsValue(cell, own) ELSE ShowsPercentage(cell, base, own)

RecordRight(o, r, n, p) ==
    LET base == At(MeasuredFields(o.runs[1], r), p)
        own == At(MeasuredFields(o.runs[n], r), p)
        found == {e \in o.records : e.recipe = r /\ e.run = n /\ e.field = p}
    IN IF own = base THEN found = {}
       ELSE \E record \in found : found = {record} /\ RecordShows(record, base, own)

Reported(o) ==
    /\ \A r \in DOMAIN o.summary : o.summary[r] = Cardinality({d \in o.records : d.recipe = r})
    /\ (\A f \in Range(o.runs) : Complete(f)) =>
           \A r \in Recipe \cap DOMAIN o.table, k \in UNION {Keys(rows) : rows \in Results}, n \in 2 .. Len(o.runs) :
               /\ OwnNames(o.runs) => CellRight(o, r, n, <<k, "Value">>)
               /\ RecordRight(o, r, n, <<k, "Value">>)

LEMMA DiffIsRight ==
    ASSUME FoldersOK, NEW list, NEW L, NEW only, NEW diffs, Compared(list, L, only, diffs), NEW o,
           \A n \in DOMAIN list : ~LoadFails(folder[list[n]], only),
           o.runs = list, o.records = Records(diffs), o.summary = ComputeSummary(diffs), o.table = Table(list, diffs)
    PROVE  Reported(o)
<1>0. Len(list) = L /\ DOMAIN Table(list, diffs) = DOMAIN diffs /\ DOMAIN ComputeSummary(diffs) = DOMAIN diffs
  BY DEF Compared, Table, ComputeSummary
<1>1. \A r \in DOMAIN o.summary : o.summary[r] = Cardinality({d \in o.records : d.recipe = r})
  BY <1>0, CountsAgree
<1>2. ASSUME \A f \in Range(list) : Complete(f), NEW r \in Recipe \cap DOMAIN o.table,
             NEW k \in UNION {Keys(rows) : rows \in Results}, NEW n \in 2 .. Len(list)
      PROVE  /\ OwnNames(list) => CellRight(o, r, n, <<k, "Value">>)
             /\ RecordRight(o, r, n, <<k, "Value">>)
  <2> DEFINE p == <<k, "Value">>
             base == At(MeasuredFields(list[1], r), p)
             own == At(MeasuredFields(list[n], r), p)
             table == Table(list, diffs)[r]
  <2>1. ComparedField(list, L, diffs, r, n, p, base, own)
    BY <1>0, <1>2 DEF ComparedField
  <2> HIDE DEF p, base, own, table
  <2> DEFINE change == [baseline |-> base, other |-> own]
             record == GetField(r, n, change, p)
  <2>0. IsValue(base) /\ IsValue(own)
    <3>1. list[1] \in Folder /\ list[n] \in Folder /\ r \in Recipe
      BY <1>0, <1>2 DEF Compared
    <3> QED
      BY <3>1, MeasuredValue DEF base, own
  <2>7. /\ ShownOf(r, change, p) # <<"same">>
        /\ IF r = "ucie" THEN ShowsValue(ShownOf(r, change, p), own) ELSE ShowsPercentage(ShownOf(r, change, p), base, own)
        /\ RecordShows(record, base, own)
    BY <1>2, <2>0, FieldIsShown
  <2>2. FoundOf(diffs, r, n, p) = IF own = base THEN {} ELSE {record}
    BY <2>1, RecordsMatch
  <2>3. OwnNames(list) =>
            /\ p \notin DOMAIN table => own = base
            /\ p \in DOMAIN table => table[p][RunName[list[n]]] = IF own = base THEN <<"same">> ELSE ShownOf(r, change, p)
    BY <2>1, TableAgrees DEF table
  <2>4. o.table[r] = table /\ base = At(MeasuredFields(o.runs[1], r), p) /\ own = At(MeasuredFields(o.runs[n], r), p)
    BY DEF table, base, own
  <2> HIDE DEF change, record
  <2>5. RecordRight(o, r, n, p)
    <3> DEFINE found == FoundOf(diffs, r, n, p)
    <3>1. RecordRight(o, r, n, p) <=>
              IF own = base THEN found = {} ELSE \E e \in found : found = {e} /\ RecordShows(e, base, own)
      BY <2>4, Zenon DEF RecordRight, FoundOf
    <3>2. own # base => record \in found /\ found = {record} /\ RecordShows(record, base, own)
      BY <2>2, <2>7
    <3> HIDE DEF found
    <3>3. CASE own = base
      BY <2>2, <3>1, <3>3 DEF found
    <3>4. CASE own # base
      BY <3>1, <3>2, <3>4, Zenon
    <3> QED
      BY <3>3, <3>4
  <2>6. OwnNames(list) => CellRight(o, r, n, p)
    <3> DEFINE cell == IF p \notin DOMAIN table THEN <<"same">> ELSE table[p][RunName[list[n]]]
    <3>1. CellRight(o, r, n, p) <=>
              /\ cell = <<"same">> <=> own = base
              /\ own # base => IF r = "ucie" THEN ShowsValue(cell, own) ELSE ShowsPercentage(cell, base, own)
      BY <2>4, Zenon DEF CellRight
    <3>2. OwnNames(list) => cell = IF own = base THEN <<"same">> ELSE ShownOf(r, change, p)
      BY <2>3
    <3> HIDE DEF cell
    <3>3. CASE own = base
      BY <3>1, <3>2, <3>3
    <3>4. CASE own # base
      <4>1. OwnNames(list) => cell = ShownOf(r, change, p)
        BY <3>2, <3>4
      <4> QED
        BY <2>7, <3>1, <3>4, <4>1, Zenon
    <3> QED
      BY <3>3, <3>4
  <2> QED
    BY <2>5, <2>6 DEF p
<1> QED
  BY <1>1, <1>2, Zenon DEF Reported

\* The report is judged by what is on disk, which a command leaves alone.
LEMMA SameReport ==
    ASSUME folder' = folder, measured' = measured
    PROVE  Reported(out)' <=> Reported(out')
<1>1. ASSUME NEW r, NEW n, NEW p
      PROVE  CellRight(out, r, n, p)' <=> CellRight(out', r, n, p)
  BY Zenon DEF CellRight, MeasuredFields
<1>2. ASSUME NEW r, NEW n, NEW p
      PROVE  RecordRight(out, r, n, p)' <=> RecordRight(out', r, n, p)
  BY Zenon DEF RecordRight, MeasuredFields
<1>3. ASSUME NEW f PROVE Complete(f)' <=> Complete(f)
  BY Zenon DEF Complete
<1> QED
  BY <1>1, <1>2, <1>3 DEF Reported

\* `asct diff` compares what was measured: table, records and summary agree with
\* the measurements of every complete run, whichever version wrote the folders.
THEOREM DiffSound == Spec => []DiffAgrees
<1> DEFINE Right == out.command = "diff" /\ ~out.error => Reported(out)
           Inv == DiskInv /\ Right
<1>1. Init => Inv
  <2> SUFFICES ASSUME Init PROVE Inv
    OBVIOUS
  <2>1. out.command # "diff"
    BY DEF Init, Nothing
  <2> QED
    BY <2>1, DiskInit
<1>2. Inv /\ [Next]_vars => Inv'
  <2> SUFFICES ASSUME Inv, [Next]_vars PROVE Right'
    BY DiskStep
  <2>1. ASSUME NEW f \in Folder, NEW r \in Recipe, NEW rows \in Results, NEW n \in 0 .. 4, NEW torn \in BOOLEAN,
               SaveBenchmarkResult(f, r, rows, n, torn)
        PROVE  Right'
    <3>1. out' = Nothing
      BY <2>1, Zenon DEF SaveBenchmarkResult
    <3> QED
      BY <3>1 DEF Nothing
  <2>2. ASSUME NEW f \in Folder, View(f) PROVE Right'
    <3>1. out' = Failed("view") \/ \E a, b : out' = [command |-> "view", error |-> FALSE, run |-> a, shown |-> b]
      BY <2>2, Zenon DEF View
    <3>2. out'.command = "view"
      BY <3>1 DEF Failed
    <3> QED
      BY <3>2
  <2>3. ASSUME NEW c \in Commands, Diff(c.dirs, c.baseline, c.only) PROVE Right'
    <3> SUFFICES ASSUME out'.command = "diff", ~out'.error PROVE Reported(out')
      <4>1. folder' = folder /\ measured' = measured
        BY <2>3, Zenon DEF Diff
      <4> QED
        BY <4>1, SameReport
    <3> DEFINE list == RunList(c.dirs, c.baseline)
               only == c.only
               runs == [n \in DOMAIN list |-> Load(folder[list[n]], only)]
               diffs == DiffAll(runs[1], Tail(runs))
               table == Table(list, diffs)
               plots == Plotted(list, runs, table)
               fails == (\E n \in DOMAIN list : LoadFails(folder[list[n]], only)) \/ ColumnClash(list, diffs)
               o == [command |-> "diff", error |-> FALSE, runs |-> list, only |-> only,
                     records |-> Records(diffs), summary |-> ComputeSummary(diffs), table |-> table, plots |-> plots]
    <3>1. Valid(c.dirs, c.baseline) /\ out' = IF fails THEN Failed("diff") ELSE o
      BY <2>3, Zenon DEF Diff
    <3>2. ~fails
      BY <3>1 DEF Failed
    <3>3. out' = o
      BY <3>1, <3>2, Zenon
    <3>4. Compared(list, Len(list), only, diffs)
      <4>1. /\ Len(list) \in Nat \ {0} /\ DOMAIN list = 1 .. Len(list)
            /\ \A n \in 1 .. Len(list) : list[n] \in Folder
        BY <3>1, RunListType
      <4>2. runs = RunsOf(list, only)
        BY DEF RunsOf
      <4> HIDE DEF list, runs
      <4> QED
        BY <4>1, <4>2, Zenon DEF Compared
    <3>5. \A n \in DOMAIN list : ~LoadFails(folder[list[n]], only)
      BY <3>2
    <3> HIDE DEF list, only, runs, diffs, table, plots
    <3>6. o.runs = list /\ o.records = Records(diffs) /\ o.summary = ComputeSummary(diffs) /\ o.table = table
      OBVIOUS
    <3> HIDE DEF o
    <3>7. Reported(o)
      BY <3>4, <3>5, <3>6, DiffIsRight DEF table, DiskInv
    <3> QED
      BY <3>3, <3>7
  <2>4. CASE Exit
    BY <2>4 DEF Exit, Nothing
  <2>5. CASE UNCHANGED vars
    <3>1. folder' = folder /\ measured' = measured /\ out' = out
      BY <2>5 DEF vars
    <3> QED
      BY <3>1, SameReport
  <2> QED
    BY <2>1, <2>2, <2>3, <2>4, <2>5 DEF Next
<1>3. Inv => DiffAgrees
  <2> SUFFICES ASSUME Inv PROVE DiffShowsMeasurements /\ RecordsAgree
    BY DiskIsTyped DEF DiffAgrees
  <2>1. RecordsAgree
    <3> DEFINE Counts == \A r \in DOMAIN out.summary : out.summary[r] = Cardinality({d \in out.records : d.recipe = r})
               Deltas == (\A f \in Range(out.runs) : Complete(f)) =>
                             \A r \in Recipe \cap DOMAIN out.table, k \in UNION {Keys(rows) : rows \in Results},
                                n \in 2 .. Len(out.runs) : RecordRight(out, r, n, <<k, "Value">>)
    <3>1. out.command = "diff" /\ ~out.error => Counts /\ Deltas
      BY DEF Reported
    <3>2. RecordsAgree <=> (out.command = "diff" /\ ~out.error => Counts /\ Deltas)
      BY Zenon DEF RecordsAgree, RecordRight
    <3> QED
      BY <3>1, <3>2
  <2>2. DiffShowsMeasurements
    BY Zenon DEF DiffShowsMeasurements, Reported, CellRight, OwnNames
  <2> QED
    BY <2>1, <2>2
<1> QED
  BY <1>1, <1>2, <1>3, PTL DEF Spec
=============================================================================
