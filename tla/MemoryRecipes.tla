--------------------------- MODULE MemoryRecipes ---------------------------
(***************************************************************************)
(* The recipes that follow the sweeps: idle-latency, peak-bandwidth,       *)
(* cross-numa-bandwidth, loaded-latency, core-to-core-latency and the      *)
(* storage sweeps (core/recipes/impl/memory_load_latency.py,               *)
(* core_to_core_latency.py and storage_io.py).  Each one starts processes  *)
(* on chosen CPUs, with memory of chosen NUMA nodes, and makes a table of  *)
(* what they print.                                                        *)
(*                                                                         *)
(* A process is the CPUs it runs on and the nodes its memory may lie on.   *)
(* What it measures is abstracted to that: a latency is the process it was *)
(* measured by, a bandwidth is one unit for each CPU.  How the processes   *)
(* of one step are started and stopped is in ProcessControl.               *)
(***************************************************************************)
EXTENDS CacheSweep, Topology

CONSTANTS Systems,       \* pairs of latencies and the hardware that shows them
          InjectedNops,  \* injected_nops
          SweepSteps,    \* the values of a storage sweep
          FioRuns,       \* what the jobs of a run of fio may report
          MaxTime        \* of a storage step, in half seconds

ASSUME RecipesAssumption ==
    /\ {s[1] : s \in Systems} = Machines
    /\ \A s \in Systems : IsHardware(s[2])
    /\ \A s \in Systems : \E n \in DOMAIN s[2].nodes :
           0..n \subseteq DOMAIN s[2].nodes /\ (s[2].nodes[n] \cap s[2].online) \ s[2].hotplug # {}
    /\ InjectedNops \in Seq(Nat)
    /\ SweepSteps \in Seq(Nat)
    /\ \A jobs \in FioRuns :
           /\ jobs \in Seq([start : Nat, read : Nat, write : Nat])
           /\ \A n \in {1, 2} \cup Range(SweepSteps) : n <= Len(jobs)
    /\ MaxTime \in Nat

VARIABLES recipe,    \* how many of Recipes have begun
          cfg,       \* the settings of that recipe
          steps,     \* left of it
          procs,     \* the rounds of processes of the last step
          rows,      \* its results so far
          reported   \* what it returned

own == <<recipe, cfg, steps, procs, rows, reported>>
allVars == <<sweepVars, topologyVars, own>>

Recipes == <<"idle-latency", "peak-bandwidth", "cross-numa-bandwidth", "loaded-latency", "core-to-core-latency", "storage">>
Running == IF recipe = 0 THEN "none" ELSE Recipes[recipe]

----------------------------------------------------------------------------
(* SysHw and RecipeBenchmarkBase: the topology *)

\* Nodes without a CPU are left out.
CpuListPerNode ==
    [n \in {m \in DOMAIN machine.numa_nodes : machine.numa_nodes[m] # <<>>} |-> machine.numa_nodes[n]]

Nodes == DOMAIN CpuListPerNode
CpusOf(n) == Range(CpuListPerNode[n])
AllCpus == UNION {CpusOf(n) : n \in Nodes}

\* Fault: CPUs are taken to be numbered from 0 without a gap.
LastCpuByCount(n) == Len(CpuListPerNode[n]) - 1

LastCpu(n) == Max(CpusOf(n))

NodeOfCpu(c) == CHOOSE n \in Nodes : c \in CpusOf(n)

SingleCoreCpuChoice == LastCpu(Min(Nodes))

DefaultNumaNode == NodeOfCpu(SingleCoreCpuChoice)

NodeSeq == Ascending(Nodes)

\* cpu_list: by node.
CpuList == FlattenSeq([k \in DOMAIN NodeSeq |-> CpuListPerNode[NodeSeq[k]]])

----------------------------------------------------------------------------
(* The programs *)

\* numactl --membind n, and the CPUs of --lat-cpu, --bw-cpu or -C.
Process(kind, cpus, n) == [kind |-> kind, cpus |-> cpus, mem |-> {n}]

\* The benchmark fails when it gets no CPU to run on.
Starts(round) == \A p \in round : p.cpus # {}

\* Fault: the node is passed as a number instead of a mask.
PingpongMemoryByNumber(n) == IF n # 0 THEN {m \in DOMAIN machine.numa_nodes : (n \div 2^m) % 2 = 1} ELSE DOMAIN machine.numa_nodes

\* make_cmd of pingpong: -m only for a node that counts as true.
PingpongMemory(n) == IF n # 0 THEN {n} ELSE DOMAIN machine.numa_nodes

\* What pingpong prints for cpu_a: both directions for every later CPU.
PingpongPairs(a) == UNION {{<<a, b>>, <<b, a>>} : b \in {c \in AllCpus : c > a}}

----------------------------------------------------------------------------
(* Settings and steps of a recipe *)

\* The sweet spot of a level, where latency-sweep left a summary, or 0 for the default.
OptimalDataSize(l) == IF files.summary = None THEN 0 ELSE files.summary[l].size

AccessTypes ==
    <<0, 2, 3, 4>> \o IF machine.arch = "x86_64" \/ (machine.arch = "arm" /\ machine.sve) THEN <<5>> ELSE <<>>

\* target_cpus may be set; the default is the CPUs of the default node.
PeakSettings ==
    {[target_cpus |-> cpus, data_size |-> OptimalDataSize(Len(Level))] : cpus \in {CpusOf(DefaultNumaNode), {SingleCoreCpuChoice}}}

\* The latency CPU, the CPUs kept free of bandwidth and the phase may be set.
DefaultLoaded == [latency_cpu_id |-> LastCpu(DefaultNumaNode), bw_cpu_blocklist |-> {LastCpu(DefaultNumaNode)}]

LoadedSettings ==
    LET other == LastCpu(Max(Nodes))
        cpus == {DefaultLoaded,
                 [latency_cpu_id |-> other, bw_cpu_blocklist |-> {other}],
                 [latency_cpu_id |-> other, bw_cpu_blocklist |-> DefaultLoaded.bw_cpu_blocklist],
                 [latency_cpu_id |-> DefaultLoaded.latency_cpu_id, bw_cpu_blocklist |-> {CpuList[1]}]}
    IN {[cpus |-> c, phase |-> p, data_size |-> OptimalDataSize(Len(Level))] : c \in cpus, p \in {"loading", "bandwidth", "both"}}

C2CSettings == {[all_cpus |-> TRUE, number_of_runs |-> 1], [all_cpus |-> FALSE, number_of_runs |-> 1],
                [all_cpus |-> FALSE, number_of_runs |-> 2]}

StorageSettings == {[sweep |-> v, numjobs |-> n] : v \in {"BlockSize", "IODepth", "ProcessCount", "AccessPattern"}, n \in {1, 2}}

\* node_to_cpus of core-to-core-latency: all CPUs, or the last two of each node.
\* Without a node it would be one node 0; RecipesAssumption says that there is one.
NodeToCpus(settings) ==
    [n \in Nodes |-> LET cpus == CpuListPerNode[n] k == Len(cpus)
                     IN IF settings.all_cpus \/ k < 2 THEN cpus ELSE SubSeq(cpus, k - 1, k)]

\* cpus_to_nodes: the inverse.
CpusToNodes(nodeToCpus) ==
    [c \in UNION {Range(nodeToCpus[n]) : n \in DOMAIN nodeToCpus} |-> CHOOSE n \in DOMAIN nodeToCpus : c \in Range(nodeToCpus[n])]

\* itertools.product
Product(s, t) == FlattenSeq([i \in DOMAIN s |-> [j \in DOMAIN t |-> <<s[i], t[j]>>]])

\* Every CPU with data on every node, each as often as asked for, and the step that finishes.
C2CSteps(settings) ==
    LET cpus == FlattenSeq([k \in DOMAIN NodeSeq |-> NodeToCpus(settings)[NodeSeq[k]]])
    IN FlattenSeq([r \in 1..settings.number_of_runs |-> Product(cpus, NodeSeq)]) \o <<None>>

\* _pre_run and gen_steps of the next recipe.
BeginRecipe ==
    /\ phase = "end"
    /\ recipe < Len(Recipes)
    /\ steps = <<>>
    /\ recipe' = recipe + 1
    /\ CASE Running' \in {"idle-latency", "cross-numa-bandwidth"} ->
              cfg' = [data_size |-> OptimalDataSize(Len(Level))] /\ steps' = Product(NodeSeq, NodeSeq)
         [] Running' = "peak-bandwidth" -> cfg' \in PeakSettings /\ steps' = AccessTypes
         [] Running' = "loaded-latency" -> cfg' \in LoadedSettings /\ steps' = InjectedNops
         [] Running' = "core-to-core-latency" -> cfg' \in C2CSettings /\ steps' = C2CSteps(cfg')
         [] Running' = "storage" -> cfg' \in StorageSettings /\ steps' = SweepSteps
    /\ procs' = <<>>
    /\ rows' = <<>>
    /\ reported' = None
    /\ UNCHANGED <<sweepVars, topologyVars>>

\* Where a recipe goes on after a step: its table is made when no step is left.
AfterStep(round, newRows, report) ==
    /\ procs' = round
    /\ steps' = Tail(steps)
    /\ rows' = newRows
    /\ reported' = IF Len(steps) = 1 THEN report ELSE reported
    /\ UNCHANGED <<sweepVars, topologyVars, recipe, cfg>>

----------------------------------------------------------------------------
(* idle-latency and cross-numa-bandwidth *)

\* Fault: rows and columns are exchanged.
SetCellSwapped(table_, run, mem, value) ==
    [cell \in DOMAIN table_ \cup {<<mem, run>>} |-> IF cell = <<mem, run>> THEN value ELSE table_[cell]]

\* results_df.loc[run_node, mem_node] = value
SetCell(table_, run, mem, value) ==
    [cell \in DOMAIN table_ \cup {<<run, mem>>} |-> IF cell = <<run, mem>> THEN value ELSE table_[cell]]

\* to_dict(orient="dict"): column first.
ToDict(table_) == [k \in {<<key[2], key[1]>> : key \in DOMAIN table_} |-> table_[<<k[2], k[1]>>]]

\* get_diff_data turns the saved columns back into rows.
DiffData(saved) == [k \in {<<key[2], key[1]>> : key \in DOMAIN saved} |-> saved[<<k[2], k[1]>>]]

MatrixReport(table_) == [table |-> table_, diff |-> DiffData(ToDict(table_))]

CrossNumaStep ==
    /\ steps # <<>>
    /\ Running \in {"idle-latency", "cross-numa-bandwidth"}
    /\ LET run == Head(steps)[1]
           mem == Head(steps)[2]
           p == IF Running = "idle-latency" THEN Process("latency", {LastCpu(run)}, mem)
                ELSE Process("bandwidth", CpusOf(run), mem)
           filled == SetCell(rows, run, mem, p)
       IN AfterStep(<<{p}>>, filled, MatrixReport(filled))

----------------------------------------------------------------------------
(* peak-bandwidth *)

\* The measured processes and what they printed: a unit for each CPU.
Rate(p) == Cardinality(p.cpus)

\* The CPUs that bandwidth ran on in a round.
BandwidthCpus(round) == UNION {p.cpus : p \in {q \in round : q.kind = "bandwidth"}}

\* A quotient is kept as its numerator and denominator; no quotient stands for nan.
Quotient(n, d) == [num |-> n, den |-> d]

PeakStep ==
    /\ steps # <<>>
    /\ Running = "peak-bandwidth"
    /\ LET measured == Process("bandwidth", cfg.target_cpus, DefaultNumaNode)
           loads == {Process("bandwidth", CpusOf(n), n) : n \in Nodes \ {DefaultNumaNode}}
           bw == {Quotient(Rate(measured) * Cardinality(AllCpus), Len(CpuListPerNode[DefaultNumaNode]))}
           all == Append(rows, [step |-> Head(steps), bw |-> bw, ran |-> BandwidthCpus(loads \cup {measured})])
       IN AfterStep(<<loads \cup {measured}>>, all, all)

----------------------------------------------------------------------------
(* loaded-latency *)

\* Fault: the CPU of the latency run is not left out.
BandwidthListAll(n, blocklist) == CpusOf(n)

BandwidthList(n, blocklist) == CpusOf(n) \ blocklist

\* Fault: the CPU of the latency run is counted among those that ran bandwidth.
ExtrapolateTotalBwAll(measured) ==
    LET n == Len(CpuListPerNode[DefaultNumaNode])
        others == Cardinality(AllCpus) - n
    IN Quotient(measured * others + measured * n, n)

\* The bandwidth of a CPU times the CPUs of the other nodes, and the measured bandwidth.
ExtrapolateTotalBw(measured) ==
    LET n == Len(CpuListPerNode[DefaultNumaNode])
        others == Cardinality(AllCpus) - n
    IN Quotient(measured * others + measured * (n - 1), n - 1)

LatencyNode == NodeOfCpu(cfg.cpus.latency_cpu_id)

\* The processes of the latency node, and the loads on all others.
LoadedRound ==
    {Process("latency", {cfg.cpus.latency_cpu_id}, LatencyNode)}
        \cup {Process("bandwidth", BandwidthList(n, cfg.cpus.bw_cpu_blocklist), n) : n \in Nodes}

\* Two runs: the latency under load, and the bandwidth while latency is measured.
LoadedStep ==
    /\ steps # <<>>
    /\ Running = "loaded-latency"
    /\ Starts(LoadedRound)
    /\ LET measured == Process("bandwidth", BandwidthList(LatencyNode, cfg.cpus.bw_cpu_blocklist), LatencyNode)
           bw == IF cfg.phase = "loading" THEN {} ELSE {ExtrapolateTotalBw(Rate(measured))}
           rounds == IF cfg.phase = "both" THEN <<LoadedRound, LoadedRound>> ELSE <<LoadedRound>>
           all == Append(rows, [step |-> Head(steps), bw |-> bw, ran |-> BandwidthCpus(LoadedRound)])
       IN /\ \A q \in bw : q.den # 0
          /\ AfterStep(rounds, all, all)

\* A load without a CPU ends with an error, and a node of one CPU divides by zero.
LoadedStepFails ==
    /\ steps # <<>>
    /\ Running = "loaded-latency"
    /\ \/ ~Starts(LoadedRound)
       \/ cfg.phase # "loading" /\ Len(CpuListPerNode[DefaultNumaNode]) = 1
    /\ steps' = <<>>
    /\ procs' = <<>>
    /\ rows' = <<>>
    /\ UNCHANGED <<sweepVars, topologyVars, recipe, cfg, reported>>

----------------------------------------------------------------------------
(* core-to-core-latency *)

\* compiled_results: a latency is where the data may have been when it was measured.
Compiled(results, pairs, n, home) ==
    [k \in DOMAIN results \cup {<<pair[1], pair[2], n>> : pair \in pairs} |->
        (IF k \in DOMAIN results THEN results[k] ELSE <<>>) \o (IF k[3] = n /\ <<k[1], k[2]>> \in pairs THEN <<home>> ELSE <<>>)]

\* get_results_df: the pairs of CPUs that are both in the node map.
C2CResults(results, map) ==
    {[CPUA |-> k[1], CPUB |-> k[2], CPUA_NODE |-> map[k[1]], MEMBIND_NODE |-> k[3], lats |-> results[k]] :
        k \in {key \in DOMAIN results : key[1] \in DOMAIN map /\ key[2] \in DOMAIN map}}

\* Fault: the node of the second CPU is not looked at.
LatencySummaryUnfiltered(df_, map) ==
    [Local |-> {r \in df_ : r.CPUA_NODE = r.MEMBIND_NODE}, Remote |-> {r \in df_ : r.CPUA_NODE # r.MEMBIND_NODE}]

\* Local: the data is homed with CPUA; Remote: with CPUB, on another node.
LatencySummary(df_, map) ==
    [Local |-> {r \in df_ : r.CPUA_NODE = r.MEMBIND_NODE},
     Remote |-> {r \in df_ : r.CPUA_NODE # r.MEMBIND_NODE /\ r.CPUB \in DOMAIN map /\ map[r.CPUB] = r.MEMBIND_NODE}]

\* Fault: the node map is taken from the nodes that data was homed on.
LoadedNodeMapByMemory(df_) ==
    [c \in {r.CPUA : r \in df_} |-> (CHOOSE r \in df_ : r.CPUA = c /\ \A q \in df_ : q.CPUA = c => q.MEMBIND_NODE <= r.MEMBIND_NODE).MEMBIND_NODE]

\* deserialize: the node map is made from the first CPUs of the rows.
LoadedNodeMap(df_) == [c \in {r.CPUA : r \in df_} |-> (CHOOSE r \in df_ : r.CPUA = c).CPUA_NODE]

\* node_to_node_df of the report, grouped by the nodes of both CPUs.
NodeMatrix(df_, map) ==
    LET inMap == {r \in df_ : r.CPUA # r.CPUB /\ r.CPUA \in DOMAIN map /\ r.CPUB \in DOMAIN map}
    IN [pair \in {<<map[r.CPUA], map[r.CPUB]>> : r \in inMap} |-> {r \in inMap : <<map[r.CPUA], map[r.CPUB]>> = pair}]

C2CView(df_, map) ==
    LET summary == LatencySummary(df_, map)
    IN [summary |-> summary, local |-> NodeMatrix(summary.Local, map), remote |-> NodeMatrix(summary.Remote, map)]

\* Fault: a row is remote if its CPUs are on different nodes.
C2CDiffDataOfPairs(df_) ==
    LET map == LoadedNodeMap(df_)
    IN [Local |-> {r \in df_ : r.CPUA_NODE = r.MEMBIND_NODE},
        Remote |-> {r \in df_ : r.CPUB \in DOMAIN map /\ r.CPUA_NODE # map[r.CPUB]}]

\* get_diff_data: all that is not local is remote, whichever the node of CPUB is.
C2CDiffData(df_) ==
    [Local |-> {r \in df_ : r.CPUA_NODE = r.MEMBIND_NODE}, Remote |-> {r \in df_ : r.CPUA_NODE # r.MEMBIND_NODE}]

\* What the run shows, what a view of its saved rows shows later, and the rows
\* whose statistics diff compares.
C2CReport(results) ==
    LET map == CpusToNodes(NodeToCpus(cfg))
        df_ == C2CResults(results, map)
    IN [run |-> C2CView(df_, map), view |-> C2CView(df_, LoadedNodeMap(df_)), diff |-> C2CDiffData(df_)]

C2CStep ==
    /\ steps # <<>>
    /\ Running = "core-to-core-latency"
    /\ IF Head(steps) = None THEN AfterStep(<<>>, rows, C2CReport(rows))
       ELSE LET p == [kind |-> "c2c", cpus |-> AllCpus, mem |-> PingpongMemory(Head(steps)[2])]
                all == Compiled(rows, PingpongPairs(Head(steps)[1]), Head(steps)[2], p.mem)
            IN AfterStep(<<{p}>>, all, C2CReport(all))

----------------------------------------------------------------------------
(* The storage sweeps *)

\* Fault: the earliest start and the latest end.
SteadyWindowWide(jobs) ==
    [start |-> Min({jobs[j].start : j \in DOMAIN jobs}), end |-> Max({jobs[j].start + Max({jobs[j].read, jobs[j].write}) : j \in DOMAIN jobs})]

\* run_start_ms and run_end_ms: the time in which all jobs ran.
SteadyWindow(jobs) ==
    [start |-> Max({jobs[j].start : j \in DOMAIN jobs}), end |-> Min({jobs[j].start + Max({jobs[j].read, jobs[j].write}) : j \in DOMAIN jobs})]

\* The step's own numjobs, where that is what the sweep varies.
NumJobs(value) == IF cfg.sweep = "ProcessCount" THEN value ELSE cfg.numjobs

\* The last numjobs CPUs of the list.
ChosenCpus(n) == Range(SubSeq(CpuList, Max({1, Len(CpuList) - n + 1}), Len(CpuList)))

\* mpstat prints once a second: a row for each CPU.
MpstatRows == {t \in 0..MaxTime : t % 2 = 0} \X AllCpus

StorageStep ==
    /\ steps # <<>>
    /\ Running = "storage"
    /\ \E jobs \in FioRuns, parsed \in BOOLEAN :
           LET chosen == ChosenCpus(Min({cfg.numjobs, Len(CpuList)}))
               ran == SubSeq(jobs, 1, NumJobs(Head(steps)))
               window == SteadyWindow(ran)
               load == {r \in MpstatRows : parsed /\ r[1] \in window.start .. window.end /\ r[2] \in chosen}
               all == Append(rows, [step |-> Head(steps), jobs |-> ran, load |-> load])
           IN AfterStep(<<{Process("mpstat", {CpuList[1]}, DefaultNumaNode),
                           [kind |-> "fio", cpus |-> chosen, mem |-> DOMAIN machine.numa_nodes]}>>, all, all)

----------------------------------------------------------------------------
(* The specification *)

\* A program fails or prints nothing usable: the recipe ends without a result.
RecipeRaises ==
    /\ steps # <<>>
    /\ faults < MaxFaults
    /\ faults' = faults + 1
    /\ steps' = <<>>
    /\ procs' = <<>>
    /\ rows' = <<>>
    /\ UNCHANGED <<latency, progress, files, table, topologyVars, recipe, cfg, reported>>

RecipesInit ==
    /\ SweepInit
    /\ TopologyInit({s[2] : s \in {t \in Systems : t[1] = latency}})
    /\ recipe = 0
    /\ cfg = <<>>
    /\ steps = <<>>
    /\ procs = <<>>
    /\ rows = <<>>
    /\ reported = None

AllDone == phase = "end" /\ recipe = Len(Recipes) /\ steps = <<>> /\ UNCHANGED allVars

RecipesNext ==
    \/ TopologyNext /\ UNCHANGED <<sweepVars, own>>
    \/ machine # NoMachine /\ SweepNext /\ UNCHANGED <<topologyVars, own>>
    \/ BeginRecipe \/ CrossNumaStep \/ PeakStep \/ LoadedStep \/ LoadedStepFails \/ C2CStep \/ StorageStep
    \/ RecipeRaises \/ AllDone

RecipesSpec == RecipesInit /\ [][RecipesNext]_allVars /\ TopologyFairness /\ Fairness

----------------------------------------------------------------------------
(* Properties *)

(* Whatever the settings and the topology, a process runs on CPUs of the       *)
(* machine and takes its memory from nodes of the machine, nodes without a     *)
(* CPU included.                                                               *)
RecipesTypeOK ==
    /\ recipe \in 0..Len(Recipes)
    /\ \A k \in DOMAIN procs : \A p \in procs[k] :
           p.cpus # {} /\ p.cpus \subseteq AllCpus /\ p.mem # {} /\ p.mem \subseteq DOMAIN machine.numa_nodes
    /\ recipe > 0 => phase = "end"

\* The settings keep the latency CPU, or the CPU of mpstat, to itself.
KeptApart ==
    /\ Running = "loaded-latency" => cfg.cpus.latency_cpu_id \in cfg.cpus.bw_cpu_blocklist
    /\ Running = "storage" => cfg.numjobs < Cardinality(AllCpus)

\* The settings of a fully loaded machine.
FullLoad ==
    \/ Running = "loaded-latency" /\ cfg.cpus.bw_cpu_blocklist = {cfg.cpus.latency_cpu_id}
    \/ Running = "peak-bandwidth" /\ cfg.target_cpus = CpusOf(DefaultNumaNode)

(* No CPU is used by two processes at once, unless the settings ask for it;    *)
(* under peak-bandwidth and loaded-latency every CPU is busy, each with memory *)
(* of its own node.                                                            *)
CpusApart ==
    \A k \in DOMAIN procs :
        /\ KeptApart => \A p, q \in procs[k] : p # q => p.cpus \cap q.cpus = {}
        /\ FullLoad => /\ UNION {p.cpus : p \in procs[k]} = AllCpus
                       /\ \A p \in procs[k] : \A n \in p.mem : p.cpus \subseteq CpusOf(n)

(* The bandwidth of the whole machine that peak-bandwidth and loaded-latency   *)
(* extrapolate from one node is, with the default settings, that of the CPUs   *)
(* which really ran bandwidth.                                                 *)
BandwidthAddsUp ==
    FullLoad /\ (Running = "loaded-latency" => cfg.cpus = DefaultLoaded) =>
       \A k \in DOMAIN rows : \A q \in rows[k].bw : q.num = q.den * Cardinality(rows[k].ran)

(* Every cell of the tables of idle-latency and cross-numa-bandwidth, as shown *)
(* and as compared by diff, was measured on CPUs of the node of its row with   *)
(* memory of the node of its column.                                           *)
CellsInPlace ==
    Running \in {"idle-latency", "cross-numa-bandwidth"} /\ reported # None =>
        /\ reported.diff = reported.table
        /\ \A run, mem \in Nodes :
               LET p == reported.diff[<<run, mem>>]
               IN p.mem = {mem} /\ LastCpu(run) \in p.cpus /\ p.cpus \subseteq CpusOf(run)

(* core-to-core-latency reports every ordered pair of different CPUs of its    *)
(* map: locally once, remotely once if they are on two nodes and never         *)
(* otherwise, with as many latencies as there were runs, although pingpong     *)
(* measures pairs of other CPUs too and a pair only when asked for its lower   *)
(* CPU.                                                                        *)
CorePairsReported ==
    Running = "core-to-core-latency" /\ reported # None =>
        LET map == CpusToNodes(NodeToCpus(cfg))
            of(df_, a, b) == {r \in df_ : r.CPUA = a /\ r.CPUB = b}
            shown == reported.run.summary
        IN \A a, b \in DOMAIN map :
               /\ Cardinality(of(shown.Local, a, b)) = IF a = b THEN 0 ELSE 1
               /\ Cardinality(of(shown.Remote, a, b)) = IF map[a] = map[b] THEN 0 ELSE 1
               /\ \A r \in of(shown.Local \cup shown.Remote, a, b) : Len(r.lats) = cfg.number_of_runs

(* A later view of the saved rows of core-to-core-latency, which knows nothing *)
(* of the machine, shows the summaries and node matrices of the run.           *)
ViewAgrees == Running = "core-to-core-latency" /\ reported # None => reported.view = reported.run

(* The CPU load that a storage sweep shows is taken at times when all of its   *)
(* jobs ran, and on CPUs they were given.                                      *)
LoadOfTheJobs ==
    Running = "storage" => \A k \in DOMAIN rows : \A sample \in rows[k].load :
        /\ \A j \in DOMAIN rows[k].jobs :
               LET job == rows[k].jobs[j] IN sample[1] \in job.start .. (job.start + Max({job.read, job.write}))
        /\ \A p \in UNION Range(procs) : p.kind = "fio" => sample[2] \in p.cpus

(* The remote latencies of core-to-core-latency that a view summarises are     *)
(* those, among the ones that diff compares, whose memory is with CPUB.  diff  *)
(* compares others beside them (core_to_core_latency.py:389 has no such        *)
(* condition): of a pair on one node with memory on another, and of a pair on  *)
(* two nodes with memory on a third.  The local ones are the same.             *)
CoreDiffAgrees ==
    Running = "core-to-core-latency" /\ reported # None =>
        LET map == CpusToNodes(NodeToCpus(cfg))
            shown == reported.view.summary
        IN /\ reported.diff.Local = shown.Local
           /\ shown.Remote = {r \in reported.diff.Remote : r.CPUB \in DOMAIN map /\ map[r.CPUB] = r.MEMBIND_NODE}

(* docs/memory.md:125: "The benchmark binds the memory region to a specific    *)
(* NUMA node."  It does so for every node but node 0, which is not bound       *)
(* (memory_benchspec.py:259): a latency that a run or a view reports, or diff  *)
(* compares, for memory of another node was measured with memory of that node. *)
(* Of one for memory of node 0 nothing is said.                                *)
DataHomed ==
    Running = "core-to-core-latency" /\ reported # None =>
        \A r \in reported.view.summary.Local \cup reported.view.summary.Remote
                     \cup reported.diff.Local \cup reported.diff.Remote :
            r.MEMBIND_NODE # 0 => \A k \in DOMAIN r.lats : r.lats[k] = {r.MEMBIND_NODE}

(* The CPUs are accounted for: processes run on CPUs of the machine, no two of *)
(* them on one, and a bandwidth for the machine is that of the CPUs that ran.  *)
CpusAccountedFor == RecipesTypeOK /\ CpusApart /\ BandwidthAddsUp

(* Every figure of a table, as shown and as viewed later, was measured by the  *)
(* processes, on the CPUs, with the memory and at the time that its place in   *)
(* the table says, and the cells of the matrices are so in diff too; a saved   *)
(* machine reads as it was.  Two exceptions: core-to-core latencies for memory *)
(* of node 0 were measured with memory anywhere (DataHomed), and the remote    *)
(* ones that diff compares are not only those of the view (CoreDiffAgrees).    *)
TablesSayWhatWasMeasured ==
    /\ SavedMachineReads /\ CellsInPlace /\ CorePairsReported /\ ViewAgrees /\ LoadOfTheJobs
    /\ CoreDiffAgrees /\ DataHomed

----------------------------------------------------------------------------
(* Why the CPUs are accounted for *)

\* The CPUs of each node at one moment, those among them that are always online.
NodesListed(lists) ==
    \E cpus \in SUBSET hw.cpus :
        /\ hw.online \ hw.hotplug \subseteq cpus
        /\ lists = [n \in ListedNodes |-> Ascending(hw.nodes[n] \cap cpus)]

\* What the recipes go by was listed at one moment, and some node has a CPU.
NodesKnown ==
    /\ hw.online \ hw.hotplug \subseteq online
    /\ \E n \in ListedNodes : (hw.nodes[n] \cap hw.online) \ hw.hotplug # {}
    /\ found.stage = "collect" => NodesListed(found.numa_nodes)
    /\ machine # NoMachine => NodesListed(machine.numa_nodes)
    /\ phase # "start" => machine # NoMachine

\* The settings name CPUs of the machine.
SettingsOK ==
    /\ Running = "peak-bandwidth" => cfg.target_cpus \in {CpusOf(DefaultNumaNode), {SingleCoreCpuChoice}}
    /\ Running = "loaded-latency" => cfg.cpus.latency_cpu_id \in AllCpus
    /\ Running = "storage" => cfg.numjobs \in 1..2

\* So do the steps, and name its nodes.
StepsOK ==
    /\ Running \in {"idle-latency", "cross-numa-bandwidth"} => steps \in Seq(Nodes \X Nodes)
    /\ Running \in {"peak-bandwidth", "loaded-latency"} => steps \in Seq(Nat)
    /\ Running = "core-to-core-latency" => steps \in Seq((AllCpus \X Nodes) \cup {None})

\* Rows whose bandwidths are those of the CPUs that ran.
SoundRow ==
    {r \in [step : Nat, bw : SUBSET [num : Nat, den : Nat], ran : SUBSET AllCpus] :
        \A q \in r.bw : q.num = q.den * Cardinality(r.ran)}

RowsOK ==
    FullLoad /\ (Running = "loaded-latency" => cfg.cpus = DefaultLoaded) => rows \in Seq(SoundRow)

\* The processes of a step can run side by side.
RoundOK(round) ==
    /\ \A p \in round : p.cpus # {} /\ p.cpus \subseteq AllCpus /\ p.mem # {} /\ p.mem \subseteq DOMAIN machine.numa_nodes
    /\ KeptApart => \A p, q \in round : p # q => p.cpus \cap q.cpus = {}
    /\ FullLoad => /\ UNION {p.cpus : p \in round} = AllCpus
                   /\ \A p \in round : \A n \in p.mem : p.cpus \subseteq CpusOf(n)

RoundsOK ==
    /\ recipe \in 0..Len(Recipes)
    /\ recipe > 0 => phase = "end"
    /\ recipe = 0 => procs = <<>>
    /\ \A k \in DOMAIN procs : RoundOK(procs[k])

RecipesIInv == NodesKnown /\ SettingsOK /\ StepsOK /\ RoundsOK /\ RowsOK

----------------------------------------------------------------------------
(* Why the tables say what was measured *)

\* A cell is filled by a process of its row's node with memory of its column's.
CellOf(cell, p) == p.mem = {cell[2]} /\ LastCpu(cell[1]) \in p.cpus /\ p.cpus \subseteq CpusOf(cell[1])

\* The cells that are filled and those of the steps to come are all there are.
CellsOK ==
    Running \in {"idle-latency", "cross-numa-bandwidth"} =>
        /\ DOMAIN rows \subseteq Nodes \X Nodes
        /\ \A cell \in DOMAIN rows : CellOf(cell, rows[cell])
        /\ steps # <<>> => Nodes \X Nodes \subseteq DOMAIN rows \cup Range(steps)
        /\ CellsInPlace

\* The CPUs that the jobs of a storage sweep are given.
JobCpus == ChosenCpus(Min({cfg.numjobs, Len(CpuList)}))

\* A row whose load was taken while its jobs ran.
SoundLoad ==
    {r \in [step : Nat, jobs : Seq([start : Nat, read : Nat, write : Nat]), load : SUBSET (Nat \X JobCpus)] :
        \A sample \in r.load : \A j \in DOMAIN r.jobs :
            sample[1] \in r.jobs[j].start .. (r.jobs[j].start + Max({r.jobs[j].read, r.jobs[j].write}))}

LoadsOK ==
    Running = "storage" =>
        /\ cfg \in StorageSettings
        /\ steps \in Seq(Range(SweepSteps))
        /\ rows \in Seq(SoundLoad)
        /\ \A k \in DOMAIN procs : \A p \in procs[k] : p.kind = "fio" => p.cpus = JobCpus

\* How often a step is still to come, and how often a pair was measured with data on n.
Left(step) == Cardinality({i \in 1..Len(steps) : steps[i] = step})

Measured(a, b, n) == IF <<a, b, n>> \in DOMAIN rows THEN Len(rows[<<a, b, n>>]) ELSE 0

Lower(a, b) == IF a < b THEN a ELSE b

\* Every pair is measured as often as the steps of its lower CPU are taken.
CorePairsOK ==
    Running = "core-to-core-latency" =>
        /\ cfg \in C2CSettings
        /\ DOMAIN rows \subseteq {k \in AllCpus \X AllCpus \X Nodes : k[1] # k[2]}
        /\ \A k \in DOMAIN rows : rows[k] \in Seq({PingpongMemory(k[3])})
        /\ steps # <<>> => \A a, b \in AllCpus, n \in Nodes :
               a # b => Measured(a, b, n) + Left(<<Lower(a, b), n>>) =
                            IF Lower(a, b) \in DOMAIN CpusToNodes(NodeToCpus(cfg)) THEN cfg.number_of_runs ELSE 0
        /\ CorePairsReported /\ ViewAgrees /\ CoreDiffAgrees /\ DataHomed

TablesIInv == CellsOK /\ LoadsOK /\ CorePairsOK
=============================================================================
