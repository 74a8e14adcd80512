---------------------------- MODULE RecipeTable ----------------------------
(***************************************************************************)
(* The recipes asct knows and the settings a user may give them            *)
(* (core/recipes/configuration: metadata.py, schema.py, defaults.py).      *)
(*                                                                         *)
(* A setting arrives as a raw value, from the command line or a JSON file, *)
(* and is converted by the function of its field.  Values are tagged       *)
(* tuples: <<"int", n>>, <<"text", t>>, <<"bool", b>>, <<"list", s>> and   *)
(* None.  A list written as text can hold ranges N-M:S.                    *)
(***************************************************************************)
EXTENDS Integers, Sequences, SequencesExt, FiniteSets

None == <<"none">>

Num(n) == <<"int", n>>

Text(t) == <<"text", t>>

List(s) == <<"list", s>>

----------------------------------------------------------------------------
(* Fields, and the recipes they belong to *)

USER_CFG_FIELDS ==
    [duration |-> "duration", iterations |-> "int", data_size |-> "size", cycle_base |-> "bool",
     workload_cmd |-> "text", injected_nops |-> "ints", phase |-> "text", bw_cpu_blocklist |-> "ints",
     latency_cpu_id |-> "int", all_cpus |-> "bool", hist_bins |-> "int", heatmap_vmax |-> "int",
     blocksize |-> "size", iodepth |-> "int", numjobs |-> "int", rw_pattern |-> "text",
     rwmixread |-> "int", filesize |-> "size", filenames |-> "texts", direct |-> "bool",
     create_temp_file |-> "bool", request_size_sweep_steps |-> "ints", iodepth_sweep_steps |-> "ints",
     process_count_sweep_steps |-> "ints", access_pattern_sweep_steps |-> "texts",
     detect |-> "bool", diagram |-> "bool", server_host |-> "text", port |-> "int",
     duration_sweep_steps |-> "naturals", message_size_sweep_steps |-> "naturals",
     window_sweep_steps |-> "texts", bandwidth_target_bps_sweep_steps |-> "optional_items",
     client_affinities |-> "optional_ints", server_affinity |-> "optional_int",
     secure_access |-> "bool"]

MemoryFields(extra) == extra \cup {"data_size", "cycle_base"}

LOADED_LATENCY_USER_CFG ==
    {"duration", "data_size", "workload_cmd", "injected_nops", "phase", "bw_cpu_blocklist",
     "latency_cpu_id", "cycle_base"}

C2C_USER_CFG == {"iterations", "all_cpus", "hist_bins", "heatmap_vmax", "cycle_base"}

\* A storage sweep leaves out the setting it varies.
StorageFields(swept, steps) ==
    ({"duration", "blocksize", "iodepth", "numjobs", "rw_pattern", "rwmixread", "filesize",
      "filenames", "direct", "create_temp_file"} \ {swept}) \cup {steps}

IPERF3_SWEEP_USER_CFG ==
    {"server_host", "port", "duration_sweep_steps", "message_size_sweep_steps", "window_sweep_steps",
     "bandwidth_target_bps_sweep_steps", "client_affinities", "server_affinity"}

REPORT_CMN_USER_CFG == {"detect", "diagram", "secure_access"}

----------------------------------------------------------------------------
(* Defaults; a duration counts tenths of milliseconds *)

BENCHMARK_BASE_DEFAULT_CONFIG ==
    [duration |-> Num(2500), iterations |-> Num(100000), data_size |-> None]

MEMORY_DEFAULT_CONFIG == BENCHMARK_BASE_DEFAULT_CONFIG @@ [cycle_base |-> <<"bool", FALSE>>]

C2C_DEFAULT_CONFIG ==
    [iterations |-> Num(400), number_of_runs |-> Num(1), heatmap_vmax |-> Num(200),
     all_cpus |-> <<"bool", FALSE>>, hist_bins |-> Num(10)] @@ BENCHMARK_BASE_DEFAULT_CONFIG

LOADED_LATENCY_DEFAULT_CONFIG ==
    MEMORY_DEFAULT_CONFIG @@
    [injected_nops |-> List(<<Num(3000), Num(900), Num(500), Num(0)>>), phase |-> Text("both")]

STORAGE_BASE_DEFAULT_CONFIG ==
    [duration |-> Num(600000), blocksize |-> Num(4096), iodepth |-> Num(16), numjobs |-> Num(4),
     rw_pattern |-> Text("randread"), rwmixread |-> Num(70), filesize |-> Num(1000 * 1024 * 1024),
     filenames |-> List(<<>>), create_temp_file |-> <<"bool", TRUE>>, direct |-> <<"bool", TRUE>>]
    @@ BENCHMARK_BASE_DEFAULT_CONFIG

StorageDefaults(steps, values) == STORAGE_BASE_DEFAULT_CONFIG @@ [f \in {steps} |-> List(values)]

REPORT_CMN_DEFAULT_CONFIG == [f \in REPORT_CMN_USER_CFG |-> <<"bool", FALSE>>]

IPERF3_SWEEP_DEFAULT_CONFIG ==
    [server_host |-> None, port |-> Num(5202), client_affinities |-> List(<<>>), server_affinity |-> None,
     duration_sweep_steps |-> List(<<Num(10)>>), window_sweep_steps |-> List(<<None>>),
     message_size_sweep_steps |-> List(<<Num(131072)>>),
     bandwidth_target_bps_sweep_steps |-> List(<<None>>), number_of_runs |-> Num(1)]

NoConfig == [f \in {} |-> None]

----------------------------------------------------------------------------
(* The table *)

\* Every recipe carries its name, its short name and "all" as tags.
RecipeMetadata(name, short, tags, fields, defaults, deps, priority) ==
    [name |-> name, short |-> short, tags |-> tags \cup {name, short, "all"}, fields |-> fields,
     default_config |-> defaults, depends_on |-> deps, priority |-> priority, category |-> "none"]

CreateCategory(category, recipes) ==
    [j \in DOMAIN recipes |-> [recipes[j] EXCEPT !.category = category, !.tags = @ \cup {category}]]

Report(name, short, tags) == RecipeMetadata(name, short, tags, {}, NoConfig, {}, 100)

ReportRecipes == CreateCategory("report", <<
    [Report("system-info", "sysinfo", {"system", "info", "sysreport", "default"}) EXCEPT !.priority = 0],
    RecipeMetadata("cmn", "cmn", {"interconnect", "registers", "default"},
                   REPORT_CMN_USER_CFG, REPORT_CMN_DEFAULT_CONFIG, {}, 100),
    Report("ucie", "ucie", {"registers", "default"}),
    Report("dms", "dms", {"registers", "default"}),
    Report("pss", "pss", {"registers", "default"}),
    Report("sysreg", "sysreg", {"register"}),
    Report("network-info", "netinfo", {"IP-address", "NIC", "IP", "network", "network-namespace", "default"})>>)

Memory(name, short, tags, fields, defaults, priority) ==
    RecipeMetadata(name, short, tags, fields, defaults,
                   IF name = "latency-sweep" THEN {} ELSE {"latency-sweep"}, priority)

MemoryRecipes == CreateCategory("memory", <<
    Memory("idle-latency", "il", {"latency", "uses-huge-pages", "default"},
           MemoryFields({"duration"}), MEMORY_DEFAULT_CONFIG, 2),
    Memory("peak-bandwidth", "pb", {"bandwidth", "default"},
           MemoryFields({"iterations"}), MEMORY_DEFAULT_CONFIG, 3),
    Memory("cross-numa-bandwidth", "cnb", {"bandwidth", "default"},
           MemoryFields({"iterations"}), MEMORY_DEFAULT_CONFIG, 4),
    Memory("latency-sweep", "ls", {"latency", "sweep", "uses-huge-pages", "default"},
           {"cycle_base"}, MEMORY_DEFAULT_CONFIG, 0),
    Memory("bandwidth-sweep", "bs", {"bandwidth", "sweep", "default"},
           {"cycle_base"}, MEMORY_DEFAULT_CONFIG, 1),
    Memory("loaded-latency", "ll", {"latency", "uses-huge-pages", "long-runtime"},
           LOADED_LATENCY_USER_CFG, LOADED_LATENCY_DEFAULT_CONFIG, 5),
    Memory("c2c-latency", "ccl", {"latency", "long-runtime", "default"},
           C2C_USER_CFG, C2C_DEFAULT_CONFIG, 100)>>)

Iperf3(name, short, protocol) ==
    RecipeMetadata(name, short, {"network", "iperf3", "experimental", protocol},
                   IPERF3_SWEEP_USER_CFG, IPERF3_SWEEP_DEFAULT_CONFIG, {"network-info"}, 100)

NetworkRecipes == CreateCategory("network", <<
    Iperf3("iperf3-tcp-sweep", "ipts", "tcp"), Iperf3("iperf3-udp-sweep", "ipus", "udp")>>)

Storage(name, short, swept, steps, values) ==
    RecipeMetadata(name, short, {"storage", "dsweep"}, StorageFields(swept, steps),
                   StorageDefaults(steps, values), {}, 100)

IoRecipes == CreateCategory("io", <<
    Storage("storage-request-size-sweep", "srss", "blocksize", "request_size_sweep_steps",
            <<Num(4096), Num(131072)>>),
    Storage("storage-io-depth-sweep", "sids", "iodepth", "iodepth_sweep_steps", <<Num(1), Num(128)>>),
    Storage("storage-process-count-sweep", "spcs", "numjobs", "process_count_sweep_steps",
            <<Num(1), Num(16)>>),
    Storage("storage-access-pattern-sweep", "saps", "rw_pattern", "access_pattern_sweep_steps",
            <<Text("read"), Text("randrw")>>)>>)

\* create_metadata, of a machine on which every recipe is visible.
ASCT_RECIPE_METADATA == ReportRecipes \o MemoryRecipes \o NetworkRecipes \o IoRecipes

\* sorted() of the names.
Alphabetical ==
    <<"bandwidth-sweep", "c2c-latency", "cmn", "cross-numa-bandwidth", "dms", "idle-latency",
      "iperf3-tcp-sweep", "iperf3-udp-sweep", "latency-sweep", "loaded-latency", "network-info",
      "peak-bandwidth", "pss", "storage-access-pattern-sweep", "storage-io-depth-sweep",
      "storage-process-count-sweep", "storage-request-size-sweep", "sysreg", "system-info", "ucie">>

Place == [n \in Range(Alphabetical) |-> CHOOSE j \in DOMAIN Alphabetical : Alphabetical[j] = n]

\* The table, by name.
RECIPES == [n \in Range(Alphabetical) |-> CHOOSE r \in Range(ASCT_RECIPE_METADATA) : r.name = n]

\* create_metadata refuses a name used twice.
ASSUME TableAssumption ==
    /\ {ASCT_RECIPE_METADATA[j].name : j \in DOMAIN ASCT_RECIPE_METADATA} = Range(Alphabetical)
    /\ \A j, l \in DOMAIN ASCT_RECIPE_METADATA : j # l =>
           /\ ASCT_RECIPE_METADATA[j].name # ASCT_RECIPE_METADATA[l].name
           /\ ASCT_RECIPE_METADATA[j].short # ASCT_RECIPE_METADATA[l].short

----------------------------------------------------------------------------
(* Conversion of raw values *)

\* Raw values: [k |-> "null"], [k |-> "num", n |-> n], [k |-> "unit", n |-> n, u |-> u],
\* [k |-> "text", t |-> t], [k |-> "items", s |-> items] where an item is itself a raw
\* value or a range [k |-> "range", lo, hi, step].
Error == <<"error">>

\* The loop of the conversion never ends.
Stalls == <<"stalls">>

\* Fault: a range without a step advances by nothing.
RangeConvNoDefaultStep(lo, hi, step) ==
    CASE lo > hi -> <<>>
      [] lo <= hi /\ step <= 1 -> <<Stalls>>
      [] OTHER -> [j \in 1..(((hi - lo) \div step) + 1) |-> Num(lo + (j - 1) * step)]

RangeConv(lo, hi, step) ==
    CASE lo > hi -> <<>>
      [] lo <= hi /\ step <= 0 -> <<Stalls>>
      [] OTHER -> [j \in 1..(((hi - lo) \div step) + 1) |-> Num(lo + (j - 1) * step)]

StrMemsize(n, u) ==
    CASE u = "kb"  -> Num(n * 1000)
      [] u = "kib" -> Num(n * 1024)
      [] OTHER     -> Error

StrTime(n, u) ==
    CASE u = "s" -> Num(n * 10000)
      [] u = "m" -> Num(n * 600000)
      [] u = "tick" -> Num(n)   \* a number of a JSON file
      [] OTHER   -> Error

\* The members of a set, sorted.
InOrder(S, Before(_, _)) ==
    [j \in 1..Cardinality(S) |-> CHOOSE n \in S : Cardinality({m \in S : Before(m, n)}) = j - 1]

Less(j, l) == j < l

\* What of a list is in a set.
Listed(names, list) ==
    LET places == InOrder({j \in DOMAIN list : list[j] \in names}, Less)
    IN [j \in DOMAIN places |-> list[places[j]]]

\* The numbers of one item of a list: as many as its range has.
NumItem(item, optional) ==
    CASE item.k = "range"                -> RangeConv(item.lo, item.hi, item.step)
      [] item.k = "num"                  -> <<Num(item.n)>>
      [] item.k = "null" /\ optional     -> <<None>>
      [] OTHER                           -> <<Error>>

\* The first item that is no number, or that never ends, decides.
NumListConv(items, min, optional) ==
    LET numbers == [j \in DOMAIN items |-> NumItem(items[j], optional)]
        all == FlattenSeq(numbers)
        wrong == {j \in DOMAIN items : numbers[j] \in {<<Error>>, <<Stalls>>}}
    IN IF wrong = {} THEN List(Listed({x \in Range(all) : x = None \/ x[2] >= min}, all))
       ELSE numbers[CHOOSE j \in wrong : \A l \in wrong : j <= l][1]

MinValue == -1000000  \* no lower bound

Items(raw) == IF raw.k = "items" THEN raw.s ELSE <<raw>>

IntConv(raw) == IF raw.k = "num" THEN Num(raw.n) ELSE Error

\* Fault: None is converted like any other value.
OptionalIntConvStrict(raw) == IntConv(raw)

OptionalIntConv(raw) == IF raw.k = "null" THEN None ELSE IntConv(raw)

MemSizeConv(raw) ==
    CASE raw.k = "null" -> None
      [] raw.k = "unit" -> StrMemsize(raw.n, raw.u)
      [] OTHER          -> IntConv(raw)

DurationConv(raw) ==
    CASE raw.k = "num"  -> StrTime(raw.n, "s")
      [] raw.k = "unit" -> StrTime(raw.n, raw.u)
      [] OTHER          -> Error

BooleanConv(raw) ==
    CASE raw.k = "null"                      -> <<"bool", FALSE>>
      [] raw.k = "num" /\ raw.n \in {0, 1}   -> <<"bool", raw.n = 1>>
      [] raw.k = "text" /\ raw.t = "true"    -> <<"bool", TRUE>>
      [] raw.k = "text" /\ raw.t = "false"   -> <<"bool", FALSE>>
      [] OTHER                               -> Error

\* str() of anything: None becomes the text "None".
TextConv(raw) ==
    CASE raw.k = "null" -> Text("None")
      [] raw.k = "text" -> Text(raw.t)
      [] OTHER          -> Text("other")

StrListConv(raw) == List([j \in DOMAIN Items(raw) |-> TextConv(Items(raw)[j])])

OptionalIntListConv(raw) ==
    IF raw.k = "null" THEN List(<<>>) ELSE NumListConv(Items(raw), MinValue, FALSE)

\* UserConfigDescr.conv of a field.
Conv(field, raw) ==
    LET kind == USER_CFG_FIELDS[field]
    IN CASE kind = "int"            -> IntConv(raw)
         [] kind = "optional_int"   -> OptionalIntConv(raw)
         [] kind = "size"           -> MemSizeConv(raw)
         [] kind = "duration"       -> DurationConv(raw)
         [] kind = "bool"           -> BooleanConv(raw)
         [] kind = "text"           -> TextConv(raw)
         [] kind = "texts"          -> StrListConv(raw)
         [] kind = "ints"           -> NumListConv(Items(raw), MinValue, FALSE)
         [] kind = "naturals"       -> NumListConv(Items(raw), 1, FALSE)
         [] kind = "optional_items" -> NumListConv(Items(raw), 0, TRUE)
         [] kind = "optional_ints"  -> OptionalIntListConv(raw)

\* The raw values that argparse and json.load return.
IsRaw(raw) ==
    /\ Items(raw) \in Seq(Range(Items(raw)))
    /\ \A item \in Range(Items(raw)) : item.k = "range" => {item.lo, item.hi, item.step} \subseteq Int

IsNumber(v) == v[1] = "int" /\ v = Num(v[2])

IsText(v) == v[1] = "text" /\ v = Text(v[2])

IsList(v) == v[1] = "list" /\ v = List(v[2]) /\ v[2] \in Seq(Range(v[2]))

IsListOfNumbers(v, min) == IsList(v) /\ \A x \in Range(v[2]) : IsNumber(x) /\ x[2] >= min

\* The values a setting has, given or by default.
IsSetting(field, v) ==
    LET kind == USER_CFG_FIELDS[field]
    IN CASE kind \in {"int", "duration"}         -> IsNumber(v)
         [] kind \in {"optional_int", "size"}    -> v = None \/ IsNumber(v)
         [] kind = "bool"                        -> v \in {<<"bool", TRUE>>, <<"bool", FALSE>>}
         [] kind = "text"                        -> v = None \/ IsText(v)
         [] kind = "texts"                       -> IsList(v) /\ \A x \in Range(v[2]) : x = None \/ IsText(x)
         [] kind \in {"ints", "optional_ints"}   -> IsListOfNumbers(v, MinValue)
         [] kind = "naturals"                    -> IsListOfNumbers(v, 1)
         [] kind = "optional_items"              ->
                IsList(v) /\ \A x \in Range(v[2]) : x = None \/ (IsNumber(x) /\ x[2] >= 0)

\* What json.dumps writes for a value, as the raw value json.load returns.
RawOfScalar(v) ==
    CASE v = None        -> [k |-> "null"]
      [] v[1] = "int"    -> [k |-> "num", n |-> v[2]]
      [] v[1] = "text"   -> [k |-> "text", t |-> v[2]]
      [] v[1] = "bool"   -> [k |-> "num", n |-> IF v[2] THEN 1 ELSE 0]

Json(field, v) ==
    CASE v[1] = "list"                                              ->
           [k |-> "items", s |-> [j \in DOMAIN v[2] |-> RawOfScalar(v[2][j])]]
      [] v[1] = "int" /\ USER_CFG_FIELDS[field] = "duration" -> [k |-> "unit", n |-> v[2], u |-> "tick"]
      [] OTHER                                                      -> RawOfScalar(v)
============================================================================
