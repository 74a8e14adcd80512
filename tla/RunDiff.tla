------------------------------ MODULE RunDiff ------------------------------
(***************************************************************************)
(* `asct view` and `asct diff`: reading back the results of earlier runs   *)
(* (core/cmd/view.py, core/cmd/diff.py, lib/sysdiff, lib/run/result_loader *)
(* and the deserialize and get_diff_data methods of the recipes).          *)
(*                                                                         *)
(* A result is a list of rows, each with a key (a cache level, a kind of   *)
(* traffic, a register) and a value: a number, counted in thousandths, or  *)
(* a text that is not one.  A run folder holds results in one of           *)
(* three formats: "0.5" (a flat "diff" section and bare raw entries in     *)
(* asct.json), "0.6" (entries with metadata in asct.json) and the one      *)
(* written now, a folder raw/<recipe> with three files and their hash.     *)
(* Saves go on meanwhile, and any of them may be cut short.                *)
(***************************************************************************)
EXTENDS Integers, Sequences, FiniteSets, FiniteSetsExt, Functions

CONSTANTS Folder,    \* run directories
          RunName,   \* their base names
          Recipe,    \* benchmarks that are saved and compared
          Results,   \* what a benchmark may measure: sequences of rows
          OldRuns,   \* for each folder, the runs of older versions it may hold;
                     \* a folder without one is written by this version
          Commands,  \* invocations of asct diff
          MaxSaves

Keys(rows) == {rows[n].key : n \in DOMAIN rows}

\* float() takes it.
IsNumber(value) == "number" \in DOMAIN value

\* Fields that differ between any two runs.
IgnoredFields == {"run_id", "timestamp", "collected_time", "benchmark_binary"}

ASSUME DiffAssumption ==
    /\ RunName \in [Folder -> STRING]
    /\ Recipe \subseteq {"latency-sweep", "bandwidth-sweep", "peak-bandwidth", "ucie"}
    /\ \A rows \in Results :
           /\ rows \in Seq(Range(rows))
           /\ IsInjective([n \in DOMAIN rows |-> rows[n].key])
           /\ Keys(rows) \cap IgnoredFields = {}
           /\ \A n \in DOMAIN rows : IsNumber(rows[n].value) => rows[n].value.number \in Nat
    /\ \A f \in Folder : \A old \in OldRuns[f] :
           /\ old.version \in {"0.4", "0.5", "0.6"}
           /\ old.results \in [Recipe -> Results]
           /\ old.version = "0.5" /\ "bandwidth-sweep" \in Recipe =>  \* it is run at the levels latency-sweep found
                 "latency-sweep" \in Recipe /\ Keys(old.results["bandwidth-sweep"]) \subseteq Keys(old.results["latency-sweep"])
    /\ \A c \in Commands : c.dirs \in Seq(Folder) /\ c.baseline \subseteq Folder
    /\ MaxSaves \in Nat

VARIABLES folder,    \* what is on disk
          measured,  \* the results each folder holds in full: <<rows>>, or <<>>
          saves,
          out        \* what the command that is running has shown

vars == <<folder, measured, saves, out>>

Sweeps == {"latency-sweep", "bandwidth-sweep"}
NoEntries == [r \in {} |-> {}]
NoFields == [p \in {} |-> {}]
Nothing == [command |-> "none"]
Failed(what) == [command |-> what, error |-> TRUE]

ValueOf(rows, key) == rows[CHOOSE n \in DOMAIN rows : rows[n].key = key].value
Column(rows, name) == [n \in DOMAIN rows |-> rows[n][name]]

----------------------------------------------------------------------------
(* Serialized results *)

\* DataFrame.to_dict: column by column, each from the index to the value.
ToDict(recipe, rows) ==
    IF recipe = "latency-sweep" THEN [Value |-> [k \in Keys(rows) |-> ValueOf(rows, k)]]
    ELSE [Key |-> Column(rows, "key"), Value |-> Column(rows, "value")]

SweepData(rows) == [sizes |-> Column(rows, "key"), metric |-> Column(rows, "value")]

GetRawResults(recipe, rows) ==
    CASE recipe \in Sweeps -> [sweep_data |-> SweepData(rows), summary |-> ToDict(recipe, rows)]
      [] recipe = "ucie" -> [ucie |-> rows]
      [] OTHER -> ToDict(recipe, rows)

Serialize(recipe, rows) == [raw_result |-> GetRawResults(recipe, rows), metadata |-> recipe]

Without(raw, name) == [c \in DOMAIN raw \ {name} |-> raw[c]]

With(raw, name, content) == [c \in DOMAIN raw \cup {name} |-> IF c = name THEN content ELSE raw[c]]

----------------------------------------------------------------------------
(* Folders *)

Absent == [state |-> "absent"]
Torn == [state |-> "torn"]
Whole(content) == [state |-> "whole", content |-> content]

NoFiles == [data |-> Absent, metadata |-> Absent, summary |-> Absent, hash |-> Absent]

Digest(d) == Whole([data |-> d.data, metadata |-> d.metadata, summary |-> d.summary])

\* A folder that a run of this version has just begun.
EmptyFolder ==
    [metadata |-> "now", diff |-> NoFields, raw |-> NoEntries, legacy |-> NoEntries, dirs |-> [r \in Recipe |-> NoFiles]]

\* The flat fields of a "diff" section: columns first for latency-sweep.
LegacyFields(recipe, rows) ==
    [p \in {IF recipe = "latency-sweep" THEN <<"Value", k>> ELSE <<k, "Value">> : k \in Keys(rows)} |->
        ValueOf(rows, IF recipe = "latency-sweep" THEN p[2] ELSE p[1])]

OldFolder(old) ==
    IF old.version = "0.5" THEN
        [EmptyFolder EXCEPT !.metadata = "",
                            !.diff = [r \in Recipe |-> LegacyFields(r, old.results[r])],
                            !.raw = [r \in Recipe |->
                                        IF r \in Sweeps THEN [json |-> SweepData(old.results[r])]
                                        ELSE GetRawResults(r, old.results[r])],
                            !.legacy = [r \in Recipe \cap Sweeps |-> old.results[r]]]
    ELSE [EmptyFolder EXCEPT !.metadata = old.version, !.raw = [r \in Recipe |-> Serialize(r, old.results[r])]]

\* Fault: the hash is written first.
SaveFilesHashFirst(d, recipe, rows, n, torn) ==
    LET raw == GetRawResults(recipe, rows)
        new == [data |-> Whole(Without(raw, "summary")), metadata |-> Whole(recipe),
                summary |-> IF recipe \in Sweeps THEN Whole(raw.summary) ELSE Absent]
        step(k, was, now) == IF k <= n THEN now ELSE IF k = n + 1 /\ torn /\ now # Absent THEN Torn ELSE was
    IN [data |-> step(2, d.data, new.data), metadata |-> step(3, d.metadata, new.metadata),
        summary |-> step(4, d.summary, new.summary), hash |-> step(1, d.hash, Digest(new))]

\* The first n of the four files are written, and the next one torn off.
SaveFiles(d, recipe, rows, n, torn) ==
    LET raw == GetRawResults(recipe, rows)
        new == [data |-> Whole(Without(raw, "summary")), metadata |-> Whole(recipe),
                summary |-> IF recipe \in Sweeps THEN Whole(raw.summary) ELSE d.summary]
        step(k, was, now) == IF k <= n THEN now ELSE IF k = n + 1 /\ torn /\ now # Absent THEN Torn ELSE was
    IN [data |-> step(1, d.data, new.data), metadata |-> step(2, d.metadata, new.metadata),
        summary |-> step(3, d.summary, new.summary), hash |-> step(4, d.hash, Digest(new))]

SaveBenchmarkResult(f, recipe, rows, n, torn) ==
    /\ out = Nothing /\ saves < MaxSaves
    /\ saves' = saves + 1
    /\ folder[f].metadata = "now"
    /\ torn => n < 4
    /\ n = 0 => torn
    /\ LET was == folder[f].dirs[recipe]
           now == SaveFiles(was, recipe, rows, n, torn)
       IN /\ folder' = [folder EXCEPT ![f].dirs[recipe] = now]
          /\ measured' = [measured EXCEPT ![f][recipe] =
                             IF now = SaveFiles(NoFiles, recipe, rows, 4, FALSE) THEN <<rows>>
                             ELSE IF now = was THEN @ ELSE <<>>]
    /\ UNCHANGED out

----------------------------------------------------------------------------
(* result_loader *)

\* Fault: the files only have to be there.
HasValidSavedRecipeUnhashed(d) == d.data # Absent /\ d.hash # Absent

HasValidSavedRecipe(d) == d.data # Absent /\ d.hash # Absent /\ d.hash = Digest(d)

Readable(d) ==
    /\ \A name \in {"data", "metadata", "summary"} : d[name] # Torn
    /\ \E name \in {"data", "metadata", "summary"} : d[name] # Absent

\* recipe.deserialize: the table of a saved result.
Deserialize(recipe, entry) ==
    LET raw == IF "raw_result" \in DOMAIN entry THEN entry.raw_result ELSE entry
    IN IF recipe \in Sweeps /\ "summary" \in DOMAIN raw THEN raw.summary ELSE raw

----------------------------------------------------------------------------
(* asct view *)

PayloadForDeserialize(d) ==
    [raw_result |-> IF d.summary = Absent THEN d.data.content ELSE With(d.data.content, "summary", d.summary.content)]

\* _build_legacy_latency_sweep_payload and its like: a summary from the files of
\* 0.5.  The rows of bandwidth-sweep keep the positions of their levels.
LegacyPayload(fd, recipe) ==
    IF recipe \notin DOMAIN fd.legacy THEN fd.raw[recipe]
    ELSE IF recipe = "latency-sweep" THEN
        [raw_result |-> [sweep_data |-> fd.raw[recipe].json, summary |-> ToDict(recipe, fd.legacy[recipe])]]
    ELSE IF "latency-sweep" \notin DOMAIN fd.legacy THEN [raw_result |-> [sweep_data |-> fd.raw[recipe].json]]
    ELSE LET rows == fd.legacy[recipe]
             levels == Column(fd.legacy["latency-sweep"], "key")
             found == {n \in DOMAIN levels : levels[n] \in Keys(rows)}
         IN [raw_result |-> [sweep_data |-> fd.raw[recipe].json,
                             summary |-> [Key |-> [n \in found |-> levels[n]],
                                          Value |-> [n \in found |-> ValueOf(rows, levels[n])]]]]

Discover(fd) == {r \in Recipe : \E name \in {"data", "metadata", "summary"} : fd.dirs[r][name] # Absent}

Shown(fd) ==
    IF Discover(fd) # {} THEN
        [r \in {s \in Discover(fd) : HasValidSavedRecipe(fd.dirs[s]) /\ Readable(fd.dirs[s])} |->
            Deserialize(r, PayloadForDeserialize(fd.dirs[r]))]
    ELSE [r \in DOMAIN fd.raw |-> Deserialize(r, LegacyPayload(fd, r))]

View(f) ==
    /\ out = Nothing
    /\ out' = IF Discover(folder[f]) = {} /\ DOMAIN folder[f].raw = {} THEN Failed("view")
              ELSE [command |-> "view", error |-> FALSE, run |-> f, shown |-> Shown(folder[f])]
    /\ UNCHANGED <<folder, measured, saves>>

----------------------------------------------------------------------------
(* asct diff: RecipeRunLoader *)

Version(fd) == IF fd.metadata # "" THEN fd.metadata ELSE "0.5"

Supported(fd) == Version(fd) \in {"0.5", "0.6", "now"}

\* _normalize_legacy_raw_entry: out of its wrapping, and decoded.
NormalizeRawEntry(recipe, entry) ==
    LET raw == IF "raw_result" \in DOMAIN entry THEN entry.raw_result ELSE entry
    IN IF recipe \in Sweeps /\ "json" \in DOMAIN raw THEN raw.json ELSE raw

Artifacts(fd) == {r \in Recipe : Readable(fd.dirs[r]) /\ fd.dirs[r].data # Absent}

RawData(fd) ==
    [r \in DOMAIN fd.raw \cup Artifacts(fd) |->
        IF r \in Artifacts(fd) THEN [raw_result |-> fd.dirs[r].data.content, metadata |-> r]
        ELSE NormalizeRawEntry(r, fd.raw[r])]

\* {column: {row: value}} as {row: {column: value}}, and flattened.
Transposed(table) ==
    [p \in UNION {{<<row, c>> : row \in DOMAIN table[c]} : c \in DOMAIN table} |-> table[p[2]][p[1]]]

\* The rows under their key; of two rows with one key the last stands.
ByKey(table) ==
    [p \in {<<table.Key[n], "Value">> : n \in DOMAIN table.Key} |->
        table.Value[Max({n \in DOMAIN table.Key : table.Key[n] = p[1]})]]

RegisterData(raw) ==
    [p \in {<<k, "Value">> : k \in Keys(raw.ucie)} |-> ValueOf(raw.ucie, p[1])]

\* A sweep without its summary: each column of it as one field, and no number.
ColumnFields(table) == [p \in DOMAIN Transposed(table) |-> [column \in {p[1]} |-> Transposed(table)[p]]]

\* get_diff_data of the recipe, for a table it can work on.
GetDiffData(recipe, entry) ==
    LET table == Deserialize(recipe, entry)
    IN CASE recipe = "latency-sweep" -> IF "sweep_data" \in DOMAIN table THEN ColumnFields(table) ELSE Transposed(table)
         [] recipe = "ucie" -> RegisterData(table)
         [] OTHER -> ByKey(table)

\* bandwidth-sweep has no summary and raises a KeyError.
Raises(recipe, entry) ==
    recipe = "bandwidth-sweep" /\ "Key" \notin DOMAIN Deserialize(recipe, entry)

\* The fields of a recipe in a run, in the words of this version.
RecipeDiffData(fd, recipe) ==
    LET d == fd.dirs[recipe]
        legacy == DOMAIN fd.diff[recipe]
    IN IF recipe \in Artifacts(fd) THEN GetDiffData(recipe, IF d.summary = Absent THEN RawData(fd)[recipe]
                                                           ELSE PayloadForDeserialize(d))
       ELSE IF Version(fd) # "0.5" \/ recipe = "peak-bandwidth" THEN GetDiffData(recipe, RawData(fd)[recipe])
       ELSE IF recipe = "latency-sweep" THEN [p \in {<<q[2], q[1]>> : q \in legacy} |-> fd.diff[recipe][<<p[2], p[1]>>]]
       ELSE [p \in legacy |-> fd.diff[recipe][p]]

Selected(recipe, only) == only = {} \/ recipe \in only

\* Summaries are read whether they are asked for or not.
LoadFails(fd, only) ==
    \/ ~Supported(fd)
    \/ \E r \in Artifacts(fd) :
           IF fd.dirs[r].summary = Absent THEN Selected(r, only) /\ Raises(r, RawData(fd)[r])
           ELSE Raises(r, PayloadForDeserialize(fd.dirs[r]))

\* The fields of a run, "metadata" among the recipes.
Load(fd, only) ==
    [r \in {s \in DOMAIN RawData(fd) : Selected(s, only)} \cup {"metadata"} |->
        IF r = "metadata" THEN [p \in {<<"version">>, <<"run_id">>} |-> [text |-> Version(fd)]]
        ELSE RecipeDiffData(fd, r)]

GetRecipe(run, recipe) == IF recipe \in DOMAIN run THEN run[recipe] ELSE NoFields

----------------------------------------------------------------------------
(* asct diff: RecipesDiffManager *)

At(fields, p) == IF p \in DOMAIN fields THEN <<fields[p]>> ELSE <<>>

ShouldIgnore(p) == Range(p) \cap IgnoredFields # {}

Equal(a, b, p) == ShouldIgnore(p) \/ At(a, p) = At(b, p)

\* Fault: only the fields of the baseline are compared.
GetDifferencesOfBaseline(a, b) ==
    [p \in {q \in DOMAIN a : ~Equal(a, b, q)} |-> [baseline |-> At(a, p), other |-> At(b, p)]]

GetDifferences(a, b) ==
    [p \in {q \in DOMAIN a \cup DOMAIN b : ~Equal(a, b, q)} |-> [baseline |-> At(a, p), other |-> At(b, p)]]

DiffAll(base, others) ==
    [r \in DOMAIN base \cup UNION {DOMAIN others[n] : n \in DOMAIN others} |->
        [n \in DOMAIN others |-> GetDifferences(GetRecipe(base, r), GetRecipe(others[n], r))]]

\* The baseline's column is inserted among the columns of the runs that differ.
ColumnClash(list, diffs) ==
    \E r \in DOMAIN diffs : \E n \in DOMAIN diffs[r] :
        RunName[list[n + 1]] = RunName[list[1]] /\ DOMAIN diffs[r][n] # {}

\* a / b to the nearest integer, for positive b; a tie goes up.
Nearest(a, b) == (2 * a + b) \div (2 * b)

\* With two decimals, if it is a number.
RoundIfNumeric(value) == IF IsNumber(value) THEN [number |-> 10 * Nearest(value.number, 10)] ELSE value

Displayed(value) == IF value = <<>> THEN <<"<missing>">> ELSE <<"value", RoundIfNumeric(value[1])>>

\* Two numbers, and not a division by zero.
Comparable(base, own) ==
    /\ base # <<>> /\ own # <<>>
    /\ IsNumber(base[1]) /\ IsNumber(own[1])
    /\ base[1].number # 0

\* Fault: the two runs are exchanged.
GetDeltaSwapped(change) ==
    LET by == Nearest(change.baseline[1].number - change.other[1].number, 10)
    IN IF Comparable(change.other, change.baseline)
       THEN [delta |-> <<"number", by>>, percent |-> <<"percent", Nearest(100000 * by, change.other[1].number)>>]
       ELSE [delta |-> <<IF change.baseline = <<>> THEN "removed" ELSE IF change.other = <<>> THEN "added" ELSE "changed">>,
             percent |-> <<"N/A">>]

\* The difference in hundredths, and in hundredths of a percent of the baseline.
GetDelta(change) ==
    LET by == Nearest(change.other[1].number - change.baseline[1].number, 10)
    IN IF Comparable(change.baseline, change.other)
       THEN [delta |-> <<"number", by>>, percent |-> <<"percent", Nearest(100000 * by, change.baseline[1].number)>>]
       ELSE [delta |-> <<IF change.baseline = <<>> THEN "added" ELSE IF change.other = <<>> THEN "removed" ELSE "changed">>,
             percent |-> <<"N/A">>]

GetField(recipe, run, change, p) ==
    [recipe |-> recipe, run |-> run, field |-> p,
     comparator |-> Displayed(change.other), baseline |-> Displayed(change.baseline),
     delta |-> GetDelta(change).delta, delta_percent |-> GetDelta(change).percent]

\* Recipes whose values are shown; of the others, the percentage.
SideBySide == {"system-info", "sysreg", "cmn", "ucie", "dms", "pss", "metadata"}

\* The first row with this run's name; <<"same">> where there is none.
Cell(recipe, list, changes, p, name) ==
    LET rows == {n \in DOMAIN changes : RunName[list[n + 1]] = name /\ p \in DOMAIN changes[n]}
        row == GetField(recipe, Min(rows) + 1, changes[Min(rows)][p], p)
    IN IF rows = {} THEN <<"same">> ELSE IF recipe \in SideBySide THEN row.comparator ELSE row.delta_percent

Table(list, diffs) ==
    [r \in DOMAIN diffs |->
        [p \in UNION {DOMAIN diffs[r][n] : n \in DOMAIN diffs[r]} |->
            [name \in {RunName[list[n]] : n \in 2..Len(list)} |-> Cell(r, list, diffs[r], p, name)]]]

\* The records of the JSON and CSV output: one for each field and run.
Records(diffs) ==
    UNION {UNION {{GetField(r, n + 1, diffs[r][n][p], p) : p \in DOMAIN diffs[r][n]} : n \in DOMAIN diffs[r]} : r \in DOMAIN diffs}

\* _compute_summary: how many fields changed, over all runs.
ComputeSummary(diffs) ==
    [r \in DOMAIN diffs |->
        LET sum[n \in 0..Len(diffs[r])] == IF n = 0 THEN 0 ELSE sum[n - 1] + Cardinality(DOMAIN diffs[r][n])
        IN sum[Len(diffs[r])]]

\* The sweep's columns, where the display finds them.
FilterGraphData(data) == IF "sweep_data" \in DOMAIN data THEN data.sweep_data ELSE data

\* Nothing is drawn when no field differs.
Plotted(list, runs, table) ==
    LET has(n, r) == r \in DOMAIN runs[n] /\ r \in DOMAIN RawData(folder[list[n]])
    IN {r \in Sweeps : /\ \E q \in DOMAIN table : DOMAIN table[q] # {}
                       /\ \E n \in DOMAIN list : has(n, r)
                       /\ \A n \in DOMAIN list : has(n, r) =>
                              "metric" \in DOMAIN FilterGraphData(RawData(folder[list[n]])[r])}

\* validate_args and the order of the runs: the baseline first.
RunList(dirs, baseline) ==
    IF baseline = {} THEN dirs
    ELSE LET b == CHOOSE f \in baseline : TRUE
             others[n \in 0..Len(dirs)] ==
                 IF n = 0 THEN <<>> ELSE IF dirs[n] = b THEN others[n - 1] ELSE Append(others[n - 1], dirs[n])
         IN <<b>> \o others[Len(dirs)]

Valid(dirs, baseline) == Cardinality(Range(dirs) \cup baseline) >= 2

Diff(dirs, baseline, only) ==
    LET list == RunList(dirs, baseline)
        runs == [n \in DOMAIN list |-> Load(folder[list[n]], only)]
        diffs == DiffAll(runs[1], Tail(runs))
    IN /\ out = Nothing
       /\ Valid(dirs, baseline)
       /\ out' = IF (\E n \in DOMAIN list : LoadFails(folder[list[n]], only)) \/ ColumnClash(list, diffs) THEN Failed("diff")
                 ELSE [command |-> "diff", error |-> FALSE, runs |-> list, only |-> only,
                       records |-> Records(diffs), summary |-> ComputeSummary(diffs),
                       table |-> Table(list, diffs), plots |-> Plotted(list, runs, Table(list, diffs))]
       /\ UNCHANGED <<folder, measured, saves>>

\* The process ends.
Exit == out # Nothing /\ out' = Nothing /\ UNCHANGED <<folder, measured, saves>>

----------------------------------------------------------------------------
Init ==
    \E old \in [Folder -> UNION Range(OldRuns) \cup {Nothing}] :
        /\ \A f \in Folder : old[f] \in IF OldRuns[f] = {} THEN {Nothing} ELSE OldRuns[f]
        /\ folder = [f \in Folder |-> IF old[f] = Nothing THEN EmptyFolder ELSE OldFolder(old[f])]
        /\ measured = [f \in Folder |-> [r \in Recipe |-> IF old[f] = Nothing THEN <<>> ELSE <<old[f].results[r]>>]]
        /\ saves = 0
        /\ out = Nothing

Next ==
    \/ \E f \in Folder, r \in Recipe, rows \in Results, n \in 0..4, torn \in BOOLEAN :
           SaveBenchmarkResult(f, r, rows, n, torn)
    \/ \E f \in Folder : View(f)
    \/ \E c \in Commands : Diff(c.dirs, c.baseline, c.only)
    \/ Exit

Spec == Init /\ [][Next]_vars

----------------------------------------------------------------------------
(* Properties *)

(* Saves write their files in order: a hash never stands alone, and only a     *)
(* sweep has a summary.                                                        *)
TypeOK ==
    /\ \A f \in Folder, r \in Recipe :
           LET d == folder[f].dirs[r] IN
           /\ {d.data.state, d.metadata.state, d.summary.state, d.hash.state} \subseteq {"absent", "torn", "whole"}
           /\ d.hash # Absent => d.data # Absent
           /\ d.summary # Absent => r \in Sweeps
    /\ saves \in 0..MaxSaves
    /\ out.command \in {"none", "view", "diff"}

\* The rows of a table, whatever its layout.
RowsOf(recipe, table) ==
    CASE recipe = "latency-sweep" -> {<<k, table.Value[k]>> : k \in DOMAIN table.Value}
      [] recipe = "ucie" -> {<<table.ucie[n].key, table.ucie[n].value>> : n \in DOMAIN table.ucie}
      [] OTHER -> {<<table.Key[n], table.Value[n]>> : n \in DOMAIN table.Key}

Measurement(rows) == {<<rows[n].key, rows[n].value>> : n \in DOMAIN rows}

(* asct view shows every result that was saved in full, as it was measured,    *)
(* and none of which a later save was cut short: the files of two saves are    *)
(* never shown as one result.  Results of older versions are shown too.        *)
ViewShowsWholeResults ==
    out.command = "view" /\ ~out.error => \A r \in Recipe :
        /\ r \in DOMAIN out.shown <=> measured[out.run][r] # <<>>
        /\ r \in DOMAIN out.shown => RowsOf(r, out.shown[r]) = Measurement(measured[out.run][r][1])

Complete(f) == Supported(folder[f]) /\ \A r \in Recipe : r \in DOMAIN RawData(folder[f]) => measured[f][r] # <<>>

MeasuredFields(f, recipe) ==
    IF measured[f][recipe] = <<>> THEN NoFields
    ELSE LET rows == measured[f][recipe][1] IN [p \in {<<k, "Value">> : k \in Keys(rows)} |-> ValueOf(rows, p[1])]

\* A value as it is shown: rounded to hundredths if it is a number.
ShowsValue(shown, value) ==
    IF value = <<>> THEN shown = <<"<missing>">>
    ELSE /\ shown[1] = "value"
         /\ IF IsNumber(value[1])
            THEN -5 <= shown[2].number - value[1].number /\ shown[2].number - value[1].number <= 5
            ELSE shown[2] = value[1]

\* own - base, rounded to hundredths.
ShowsDifference(shown, base, own) ==
    /\ shown[1] = "number"
    /\ LET error == 10 * shown[2] - (own[1].number - base[1].number)
       IN -5 <= error /\ error <= 5

\* (own - base) / base, in hundredths of a percent.  The difference is rounded
\* to hundredths before it is divided, and the quotient once more.
ShowsPercentage(shown, base, own) ==
    IF Comparable(base, own)
    THEN /\ shown[1] = "percent"
         /\ LET error == 2 * (shown[2] * base[1].number - 10000 * (own[1].number - base[1].number))
                bound == 100000 + base[1].number
            IN -bound <= error /\ error <= bound
    ELSE shown = <<"N/A">>

(* asct diff says the same as the measurements: a field is in the table if and *)
(* only if some run differs from the baseline in it, and a run's cell says     *)
(* that it is the baseline's or, in a report, gives the run's own value, and   *)
(* of a measurement the percentage by which the run differs from the baseline  *)
(* - whichever version wrote the folders, and in whatever order the rows were  *)
(* measured.  The percentage of a run that differs is 0.0% if they are less    *)
(* than 0.005 apart, and there is none (N/A) when the baseline is zero, one of *)
(* the two is not a number, or one lacks the field: "<missing>" is shown of a  *)
(* run that lacks it in reports only, against docs/sysdiff.md:36.              *)
DiffShowsMeasurements ==
    out.command = "diff" /\ ~out.error => LET runs == out.runs IN
        (\A f \in Range(runs) : Complete(f)) /\ IsInjective([n \in DOMAIN runs |-> RunName[runs[n]]]) =>
            \A r \in Recipe \cap DOMAIN out.table, k \in UNION {Keys(rows) : rows \in Results}, n \in 2..Len(runs) :
                LET p == <<k, "Value">>
                    base == At(MeasuredFields(runs[1], r), p)
                    own == At(MeasuredFields(runs[n], r), p)
                    cell == IF p \notin DOMAIN out.table[r] THEN <<"same">> ELSE out.table[r][p][RunName[runs[n]]]
                IN /\ cell = <<"same">> <=> own = base
                   /\ own # base => IF r = "ucie" THEN ShowsValue(cell, own) ELSE ShowsPercentage(cell, base, own)

\* The one record of a field in which a run differs.
RecordShows(record, base, own) ==
    /\ ShowsValue(record.baseline, base) /\ ShowsValue(record.comparator, own)
    /\ ShowsPercentage(record.delta_percent, base, own)
    /\ IF Comparable(base, own) THEN ShowsDifference(record.delta, base, own)
       ELSE record.delta = <<IF base = <<>> THEN "added" ELSE IF own = <<>> THEN "removed" ELSE "changed">>

(* The records that asct diff writes to a file, whatever the names of the      *)
(* runs, hold one for each field in which a run differs from the baseline,     *)
(* with the value of each, by how much they differ or which of the two lacks   *)
(* it, and are as many as the summary counts.                                  *)
RecordsAgree ==
    out.command = "diff" /\ ~out.error => LET runs == out.runs IN
        /\ \A r \in DOMAIN out.summary : out.summary[r] = Cardinality({d \in out.records : d.recipe = r})
        /\ (\A f \in Range(runs) : Complete(f)) =>
               \A r \in Recipe \cap DOMAIN out.table, k \in UNION {Keys(rows) : rows \in Results}, n \in 2..Len(runs) :
                   LET base == At(MeasuredFields(runs[1], r), <<k, "Value">>)
                       own == At(MeasuredFields(runs[n], r), <<k, "Value">>)
                       found == {e \in out.records : e.recipe = r /\ e.run = n /\ e.field = <<k, "Value">>}
                   IN IF own = base THEN found = {}
                      ELSE \E record \in found : found = {record} /\ RecordShows(record, base, own)

(* Table, records and summary of asct diff agree with the measurements, and so *)
(* with each other.                                                            *)
DiffAgrees == TypeOK /\ DiffShowsMeasurements /\ RecordsAgree
=============================================================================
