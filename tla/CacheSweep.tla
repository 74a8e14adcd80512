----------------------------- MODULE CacheSweep -----------------------------
(***************************************************************************)
(* latency-sweep, which finds the plateaus of the memory hierarchy by      *)
(* measuring more and more data sizes, and bandwidth-sweep, which measures *)
(* the same sizes again (core/recipes/impl/memory_load_latency.py and      *)
(* core/sweep_algorithm.py).                                               *)
(*                                                                         *)
(* The sizes are 1..MaxSize times the smallest one.  The algorithm works   *)
(* on logarithms: the middle of two sizes is their geometric mean, and the *)
(* median of two latencies too, which is why medians are kept as products. *)
(* How k-means groups the latencies is left open: any grouping into        *)
(* intervals.  The program may be killed and the run resumed, in which     *)
(* case the files of raw/latency-sweep are all that is left.               *)
(***************************************************************************)
EXTENDS Integers, Sequences, SequencesExt, FiniteSets, FiniteSetsExt

CONSTANTS MaxSize,   \* MAX_DATA_SIZE in units of MIN_DATA_SIZE
          Level,     \* level_names
          Machines,  \* the latencies each size may show
          UserRanges, \* min_data_size and max_data_size of bandwidth-sweep, where they are set
          MaxFaults  \* steps that fail and kills

ASSUME SweepAssumption ==
    /\ MaxSize \in Nat \ {0}
    /\ Level \in Seq(STRING) /\ Level # <<>>
    /\ \A m \in Machines : DOMAIN m = 1..MaxSize /\ \A s \in 1..MaxSize : m[s] # {} /\ m[s] \subseteq Nat \ {0}
    /\ UserRanges \subseteq (Nat \ {0}) \X (Nat \ {0})
    /\ MaxFaults \in Nat

VARIABLES latency,  \* of the machine
          phase,
          df,       \* the measurements so far: size -> latency
          todo,     \* the sizes of this round that are left
          bounds,   \* bounds_df
          spots,    \* sweet spots measured so far: one record for each level
          files,    \* raw/latency-sweep: presweep, results and summary
          table,    \* what the two recipes returned
          faults

progress == <<phase, df, todo, bounds, spots>>
sweepVars == <<latency, progress, files, table, faults>>

LevelIndex == DOMAIN Level
None == <<>>
NoBounds == [l \in LevelIndex |-> [LB |-> MaxSize + 1, UB |-> 0]]
NoData == [s \in {} |-> 0]

Sorted(numbers) ==
    [k \in 1..Cardinality(numbers) |-> CHOOSE n \in numbers : Cardinality({m \in numbers : m < n}) = k - 1]

\* Fault: the last size is checked before it is doubled.
RangeUpPastEnd(lo, hi) == Sorted({n \in lo..2 * hi : \E e \in 0..(hi \div 2) : n = lo * 2^e})

RangeUp(lo, hi) == Sorted({n \in lo..hi : \E e \in 0..(hi \div 2) : n = lo * 2^e})

\* range_up(MIN_DATA_SIZE, MAX_DATA_SIZE)
Presweep == RangeUp(1, MaxSize)

SweepInit ==
    /\ latency \in Machines
    /\ phase = "start"
    /\ df = NoData
    /\ todo = <<>>
    /\ bounds = NoBounds
    /\ spots = <<>>
    /\ files = [presweep |-> None, results |-> None, summary |-> None]
    /\ table = [latency |-> None, bandwidth |-> None]
    /\ faults = 0

----------------------------------------------------------------------------
(* refinement_logics: which sizes to measure next *)

\* KMeans(4) on the logarithms: contiguous groups, told apart by the values that
\* begin the second group and those that follow.
Clusterings(data) ==
    LET values == Range(data)
        k == IF Cardinality(values) < Len(Level) THEN Cardinality(values) ELSE Len(Level)
    IN {cuts \in SUBSET (values \ {Min(values)}) : Cardinality(cuts) = k - 1}

ClusterOf(lat, cuts) == 1 + Cardinality({c \in cuts : c <= lat})

\* The square of the median latency of a cluster.
SquaredMedian(data, cuts, cluster) ==
    LET members == {s \in DOMAIN data : ClusterOf(data[s], cuts) = cluster}
        n == Cardinality(members)
        nth(k) == CHOOSE v \in {data[s] : s \in members} :
                      /\ Cardinality({s \in members : data[s] < v}) < k
                      /\ Cardinality({s \in members : data[s] <= v}) >= k
    IN nth((n + 1) \div 2) * nth((n \div 2) + 1)

\* More than 5% below, and above, the median.
Below(data, s, median2) == 10000 * data[s] * data[s] < 9025 * median2

Above(data, s, median2) == 10000 * data[s] * data[s] > 11025 * median2

\* 2 ** bounds_df["LB"].astype(int): the logarithm is cut off.
Truncated(size) == Max({p \in Range(Presweep) : p <= size})

\* Fault: the logarithms are cut off before the middle is taken.
MiddleOfTruncated(a, b) == Max({x \in 1..MaxSize : x * x <= Truncated(a) * Truncated(b)})

\* int(2 ** ((log2(a) + log2(b)) / 2))
Middle(a, b) == Max({x \in 1..MaxSize : x * x <= a * b})

Edges(data, median2) ==
    LET below == {s \in DOMAIN data : Below(data, s, median2)}
        above == {s \in DOMAIN data : Above(data, s, median2)}
    IN [LB_size_max_less |-> IF below = {} THEN 0 ELSE Max(below),
        LB_size_min_large |-> Min(DOMAIN data \ below),
        UB_size_max_less |-> Max(DOMAIN data \ above),
        UB_size_min_large |-> IF above = {} THEN MaxSize + 1 ELSE Min(above)]

\* Fault: the bounds follow the last clustering.
WidenedNot(old, e) == [LB |-> Max({e.LB_size_max_less, e.LB_size_min_large}),
                       UB |-> Min({e.UB_size_max_less, e.UB_size_min_large})]

\* A lower bound only goes down and an upper bound only up.
Widened(old, e) ==
    LET lb == Max({e.LB_size_max_less, e.LB_size_min_large})
        ub == Min({e.UB_size_max_less, e.UB_size_min_large})
    IN [LB |-> IF lb < old.LB THEN lb ELSE old.LB, UB |-> IF ub > old.UB THEN ub ELSE old.UB]

\* The middle of a gap wider than 1%, if it lies outside the bounds.
LeftNewSize(e, b) ==
    IF /\ e.LB_size_max_less # 0
       /\ e.LB_size_max_less * e.LB_size_min_large < b.LB * b.LB
       /\ 100 * (e.LB_size_min_large - e.LB_size_max_less) > b.LB
    THEN {Middle(e.LB_size_max_less, e.LB_size_min_large)} ELSE {}

RightNewSize(e, b) ==
    IF /\ e.UB_size_min_large # MaxSize + 1
       /\ e.UB_size_max_less * e.UB_size_min_large > b.UB * b.UB
       /\ 100 * (e.UB_size_min_large - e.UB_size_max_less) > b.UB
    THEN {Middle(e.UB_size_max_less, e.UB_size_min_large)} ELSE {}

\* Fault: sizes that were measured are proposed again.
UnmeasuredNot(sizes, data) == sizes

Unmeasured(sizes, data) == sizes \ DOMAIN data

\* The bounds after a round with this clustering, and the sizes it asks for.
ComputeNewDataSizesCpm(data, old, cuts) ==
    LET found == 1..(Cardinality(cuts) + 1)
        edges == [l \in found |-> Edges(data, SquaredMedian(data, cuts, l))]
        new == [l \in LevelIndex |-> IF l \in found THEN Widened(old[l], edges[l]) ELSE old[l]]
        sizes == UNION {LeftNewSize(edges[l], new[l]) \cup RightNewSize(edges[l], new[l]) : l \in found}
    IN [bounds |-> new, sizes |-> Unmeasured(sizes, data)]

----------------------------------------------------------------------------
(* CycleLatencySweep *)

\* gen_steps: a presweep that is on disk is not measured again.
StartLatencySweep ==
    /\ phase = "start"
    /\ IF files.presweep = None
       THEN todo' = Presweep /\ phase' = "presweep" /\ UNCHANGED df
       ELSE df' = files.presweep /\ phase' = "refine" /\ UNCHANGED todo
    /\ UNCHANGED <<latency, bounds, spots, files, table, faults>>

OneStep ==
    /\ phase \in {"presweep", "precheck"}
    /\ todo # <<>>
    /\ \E lat \in latency[Head(todo)] : df' = [s \in DOMAIN df \cup {Head(todo)} |->
                                                 IF s = Head(todo) THEN lat ELSE df[s]]
    /\ todo' = Tail(todo)
    /\ phase' = IF phase = "precheck" /\ Len(todo) = 1 THEN "refine" ELSE phase
    /\ UNCHANGED <<latency, bounds, spots, files, table, faults>>

WritePresweep ==
    /\ phase = "presweep"
    /\ todo = <<>>
    /\ files' = [files EXCEPT !.presweep = df]
    /\ phase' = "refine"
    /\ UNCHANGED <<latency, df, todo, bounds, spots, table, faults>>

Refine ==
    /\ phase = "refine"
    /\ \E cuts \in Clusterings(df) :
           LET next == ComputeNewDataSizesCpm(df, bounds, cuts)
           IN /\ bounds' = next.bounds
              /\ todo' = Sorted(next.sizes)
              /\ phase' = IF next.sizes # {} THEN "precheck"
                          ELSE IF \E l \in LevelIndex : next.bounds[l] = NoBounds[l] THEN "bandwidth"
                          ELSE "spots"
    /\ UNCHANGED <<latency, df, spots, files, table, faults>>

SweetSpot ==
    /\ phase = "spots"
    /\ Len(spots) < Len(Level)
    /\ LET b == bounds[Len(spots) + 1]
           lb == Truncated(b.LB)
           ub == Truncated(b.UB)
           size == (ub + lb) \div 2
       IN \E lat \in latency[size] :
              spots' = Append(spots, [LB |-> lb, UB |-> ub, size |-> size, lat |-> lat])
    /\ UNCHANGED <<latency, phase, df, todo, bounds, files, table, faults>>

\* get_results_df writes the sizes, with the sweet spots among them, and then the summary.
WriteResults ==
    /\ phase = "spots"
    /\ Len(spots) = Len(Level)
    /\ files' = [files EXCEPT !.results = Sorted(DOMAIN df \cup {spots[l].size : l \in LevelIndex})]
    /\ phase' = "summary"
    /\ UNCHANGED <<latency, df, todo, bounds, spots, table, faults>>

WriteSummary ==
    /\ phase = "summary"
    /\ files' = [files EXCEPT !.summary = spots]
    /\ table' = [table EXCEPT !.latency = spots]
    /\ phase' = "bandwidth"
    /\ UNCHANGED <<latency, df, todo, bounds, spots, faults>>

----------------------------------------------------------------------------
(* BandwidthSweep *)

\* A range that is set comes before the sizes of latency-sweep.
BandwidthSizes(range) ==
    IF range # None THEN RangeUp(range[1], range[2])
    ELSE IF files.results # None THEN files.results ELSE Presweep

SweetSizes == [l \in DOMAIN files.summary |-> files.summary[l].size]

\* The level a size belongs to: the first whose sweet spot it is.
LevelOfSize(size) == Min({l \in DOMAIN SweetSizes : SweetSizes[l] = size})

\* df[df[size].isin(...)]: the rows at the places that have such a size.
RowsOf(measured, sizes) ==
    LET places == Sorted({k \in DOMAIN measured : measured[k] \in sizes}) IN [k \in DOMAIN places |-> measured[places[k]]]

\* Fault: the rows are numbered by level.
BandwidthRowsInOrder(measured) ==
    LET rows == RowsOf(measured, Range(SweetSizes))
    IN [k \in DOMAIN rows |-> [size |-> rows[k], level |-> k]]

\* The rows and the level names are put together by position.
BandwidthRows(measured) ==
    LET rows == RowsOf(measured, Range(SweetSizes))
        names == Sorted(Range(SweetSizes))
    IN IF Len(rows) # Len(names) THEN None
       ELSE [k \in DOMAIN rows |-> [size |-> rows[k], level |-> LevelOfSize(names[k])]]

\* Its steps only measure; the sizes are kept for the table.
BandwidthSweep ==
    /\ phase = "bandwidth"
    /\ \E range \in UserRanges \cup {None} :
           LET sizes == BandwidthSizes(range)
           IN table' = [table EXCEPT !.bandwidth =
                            IF files.summary # None THEN BandwidthRows(sizes)
                            ELSE [k \in DOMAIN sizes |-> [size |-> sizes[k], level |-> 0]]]
    /\ phase' = "end"
    /\ df' = NoData /\ todo' = <<>> /\ bounds' = NoBounds /\ spots' = <<>>
    /\ UNCHANGED <<latency, files, faults>>

----------------------------------------------------------------------------
(* Faults *)

\* A step raises: latency-sweep ends, bandwidth-sweep runs all the same.
StepRaises ==
    /\ faults < MaxFaults
    /\ faults' = faults + 1
    /\ \/ phase \in {"presweep", "precheck"} /\ todo # <<>>
       \/ phase = "spots" /\ Len(spots) < Len(Level)
    /\ phase' = "bandwidth"
    /\ UNCHANGED <<latency, df, todo, bounds, spots, files, table>>

\* The program is killed and the run resumed: the recipes start again.
KillAndResume ==
    /\ faults < MaxFaults
    /\ faults' = faults + 1
    /\ phase \notin {"start", "bandwidth", "end"}
    /\ phase' = "start"
    /\ df' = NoData
    /\ todo' = <<>>
    /\ bounds' = NoBounds
    /\ spots' = <<>>
    /\ UNCHANGED <<latency, files, table>>

Step ==
    \/ StartLatencySweep \/ OneStep \/ WritePresweep \/ Refine \/ SweetSpot
    \/ WriteResults \/ WriteSummary \/ BandwidthSweep

SweepNext == Step \/ StepRaises \/ KillAndResume

\* The program goes on: WF_sweepVars(Step) written out, as Step is possible until the end.
Fairness == []<>(phase = "end") \/ []<><<Step>>_sweepVars

----------------------------------------------------------------------------
(* Properties *)

Spot == [LB : 1..MaxSize, UB : 1..MaxSize, size : 1..MaxSize, lat : Nat]

(* The sweep never measures, bounds or proposes a size outside the range of   *)
(* sizes, and every latency kept for a size is one the size showed.            *)
SweepTypeOK ==
    /\ phase \in {"start", "presweep", "refine", "precheck", "spots", "summary", "bandwidth", "end"}
    /\ DOMAIN df \subseteq 1..MaxSize
    /\ \A s \in DOMAIN df : df[s] \in latency[s]
    /\ Range(todo) \subseteq 1..MaxSize
    /\ \A l \in LevelIndex : bounds[l].LB \in 1..(MaxSize + 1) /\ bounds[l].UB \in 0..MaxSize
    /\ Range(spots) \subseteq Spot
    /\ faults \in 0..MaxFaults

(* The bounds of a level only ever widen while the sweep goes on, whatever     *)
(* the clustering makes of the new measurements.                               *)
BoundsWiden ==
    [][phase' \notin {"start", "end"} => \A l \in LevelIndex : bounds'[l].LB <= bounds[l].LB /\ bounds'[l].UB >= bounds[l].UB]_sweepVars

\* The sizes of a level, where every level shows one latency.
Plateau(l) ==
    LET values == Sorted(UNION Range(latency)) IN {s \in 1..MaxSize : latency[s] = {values[l]}}

\* One latency for each size, rising with it, one value for each level, 5%
\* and more apart, and no level that the presweep misses.
Clean ==
    LET values == UNION Range(latency)
    IN /\ \A s \in 1..MaxSize : latency[s] = {Min(latency[s])}
       /\ \A s, t \in 1..MaxSize : s < t => Min(latency[s]) <= Min(latency[t])
       /\ Cardinality(values) = Len(Level)
       /\ \A v, w \in values : v < w => 100 * v < 95 * w
       /\ \A l \in LevelIndex : Plateau(l) \cap Range(Presweep) # {}

\* Two sizes that the sweep does not tell apart any more.
Settled(a, b) == 100 * (b - a) <= b \/ (a + 1) * (a + 1) > a * b

(* Where the latencies are clear steps, the sweep finds them: the bounds of    *)
(* every level lie on its plateau, and its end lies less than 1%, or one       *)
(* size the bisection can propose, away.                                       *)
EdgesFound ==
    phase = "spots" /\ Clean => \A l \in LevelIndex :
        /\ bounds[l].LB \in Plateau(l)
        /\ bounds[l].UB \in Plateau(l)
        /\ \A s \in DOMAIN df : s \in Plateau(l) => s \in bounds[l].LB .. bounds[l].UB
        /\ \E s \in DOMAIN df \cup {bounds[l].LB} : s <= bounds[l].LB /\ Settled(s, bounds[l].LB)
               /\ (s \in Plateau(l) => s = bounds[l].LB /\ s = 1)
        /\ \E s \in DOMAIN df \cup {bounds[l].UB} : s >= bounds[l].UB /\ Settled(bounds[l].UB, s)
               /\ (s \in Plateau(l) => s = bounds[l].UB /\ l = Len(Level))

(* A bandwidth is never shown for a level it was not measured for, although    *)
(* the sizes and the summary are two files, may come from two attempts, and    *)
(* two levels may share their sweet spot.                                      *)
RowsNameTheirLevel ==
    files.summary # None /\ table.bandwidth # None => \A k \in DOMAIN table.bandwidth :
        LET row == table.bandwidth[k] IN row.level # 0 => files.summary[row.level].size = row.size

(* latency-sweep and bandwidth-sweep come to an end, however the clustering    *)
(* and the noise of the measurements turn out: no round measures a size twice. *)
SweepEnds == <>(phase = "end")

(* The levels of the memory hierarchy are found where they are, and each       *)
(* bandwidth is shown for the level it was measured for.                       *)
LevelsFound == SweepTypeOK /\ EdgesFound /\ RowsNameTheirLevel

(* The sweep converges: no level loses a size it had, and no grouping of the   *)
(* latencies keeps it from its end.                                            *)
SweepConverges == BoundsWiden /\ SweepEnds

----------------------------------------------------------------------------
(* Why the levels are found *)

\* A latency for each size of the presweep, and for those that were asked for since.
MeasuredOK ==
    /\ latency \in Machines
    /\ phase \in {"start", "presweep", "refine", "precheck", "spots", "summary", "bandwidth", "end"}
    /\ df = [s \in DOMAIN df |-> df[s]] /\ DOMAIN df \subseteq 1..MaxSize
    /\ \A s \in DOMAIN df : df[s] \in latency[s]
    /\ todo \in Seq(1..MaxSize)
    /\ phase = "start" => df = NoData
    /\ phase = "presweep" => DOMAIN df \cup Range(todo) = Range(Presweep)
    /\ phase \in {"refine", "precheck", "spots", "summary"} => Range(Presweep) \subseteq DOMAIN df
    /\ faults \in 0..MaxFaults

\* Both bounds of a level are known, or none.
LevelBounds == {[LB |-> MaxSize + 1, UB |-> 0]} \cup [LB : 1..MaxSize, UB : 1..MaxSize]

\* The sweet spots are taken once all bounds are known.
SpotsOK ==
    /\ bounds \in [LevelIndex -> LevelBounds]
    /\ spots \in Seq(Spot) /\ Len(spots) <= Len(Level)
    /\ phase \in {"start", "presweep"} => bounds = NoBounds
    /\ phase = "start" => spots = <<>>
    /\ phase \in {"spots", "summary"} => \A l \in LevelIndex : bounds[l] # NoBounds[l]
    /\ phase = "summary" => Len(spots) = Len(Level)

\* What is on disk was written whole, by this attempt or an earlier one.
FilesOK ==
    /\ files = [presweep |-> files.presweep, results |-> files.results, summary |-> files.summary]
    /\ table = [latency |-> table.latency, bandwidth |-> table.bandwidth]
    /\ files.presweep # None =>
           /\ files.presweep = [s \in Range(Presweep) |-> files.presweep[s]]
           /\ \A s \in Range(Presweep) : files.presweep[s] \in latency[s]
    /\ files.results # None => files.results = Sorted(Range(files.results)) /\ Range(files.results) \subseteq 1..MaxSize
    /\ files.summary # None => files.summary \in Seq(Spot) /\ Len(files.summary) = Len(Level)
    /\ table.bandwidth # None => phase = "end"
    /\ RowsNameTheirLevel

\* Clear steps have a group each, and bounds that were measured.
BoundsMeasured ==
    phase \in {"refine", "precheck", "spots", "summary"} /\ Clean => \A l \in LevelIndex :
        bounds[l] # NoBounds[l] => {bounds[l].LB, bounds[l].UB} \subseteq DOMAIN df \cap Plateau(l)

SweepIInv == MeasuredOK /\ SpotsOK /\ FilesOK /\ BoundsMeasured /\ EdgesFound
=============================================================================
