------------------------------ MODULE Topology ------------------------------
(***************************************************************************)
(* How system-info finds out about the machine that the recipes run on     *)
(* (lib/sysreport/sr_cpulist.py, System.discover, and                      *)
(* core/recipes/impl/system_info.py).  /proc/cpuinfo, the directories of   *)
(* the CPUs under /sys, the NUMA nodes and the number of CPUs are read one *)
(* after the other, the directories in whatever order they are listed,     *)
(* and meanwhile a CPU may be taken offline or put online.                 *)
(*                                                                         *)
(* A mask is the set of its CPUs.  A cache is its key in caches_by_key,    *)
(* and its size; /sys shows a cache without the CPUs that are offline, and *)
(* no cache for a CPU that is offline itself.  What describes a type of    *)
(* CPU is left out but for the feature the recipes ask for.                *)
(***************************************************************************)
EXTENDS Integers, Sequences, SequencesExt, FiniteSets, FiniteSetsExt

LOCAL INSTANCE TLC

CONSTANT MaxHotplugs  \* CPUs taken offline or put online during the discovery

ASSUME TopologyAssumption == MaxHotplugs \in Nat

VARIABLES hw,        \* the machine: cpus, caches, nodes, arch, sve and hotplug
          online,    \* its CPUs that are online
          hotplugs,
          found,     \* the System object while it is built
          machine    \* sys_hw

topologyVars == <<hw, online, hotplugs, found, machine>>

NoMachine == <<>>

\* Keys of JSON objects are text.
JsonKey(n) == ToString(n)

\* What /sys describes: caches and nodes are sets of CPUs of the machine, a CPU
\* with a cache has one for data, and nodes have different numbers as text too.
IsHardware(h) ==
    /\ h.cpus \subseteq Nat /\ IsFiniteSet(h.cpus)
    /\ h.online \subseteq h.cpus /\ h.hotplug \subseteq h.cpus
    /\ \A cache \in h.caches : cache = [level |-> cache.level, type |-> cache.type, cpus |-> cache.cpus, size |-> cache.size]
                               /\ cache.cpus \subseteq h.cpus
                               /\ \A c \in cache.cpus : \E d \in h.caches : c \in d.cpus /\ d.type \in {"U", "D"}
    /\ DOMAIN h.nodes \subseteq Nat /\ IsFiniteSet(DOMAIN h.nodes)
    /\ \A n \in DOMAIN h.nodes : h.nodes[n] \subseteq h.cpus
    /\ \A m, n \in DOMAIN h.nodes : m # n => h.nodes[m] \cap h.nodes[n] = {}
    /\ \A m, n \in 0..Cardinality(DOMAIN h.nodes) : JsonKey(m) = JsonKey(n) => m = n

Empty == [x \in {} |-> x]

NotFound == [stage |-> "cpuinfo", cpuinfo |-> {}, todo |-> {}, parents |-> Empty, groups |-> <<>>,
             numa_nodes |-> Empty, tree |-> Empty]

\* intmask_list
Ascending(cpus) == [k \in 1..Cardinality(cpus) |-> CHOOSE c \in cpus : Cardinality({d \in cpus : d < c}) = k - 1]

----------------------------------------------------------------------------
(* /proc/cpuinfo and the directories of the CPUs *)

\* read_proc_cpuinfo: only CPUs that are online have an entry.
CpuinfoCpus == online

\* n_cpus_online counts the entries; then /sys/bus/cpu/devices is listed.
ReadCpuinfo ==
    /\ found.stage = "cpuinfo"
    /\ found' = [found EXCEPT !.stage = "sysfs", !.cpuinfo = CpuinfoCpus, !.todo = hw.cpus]
    /\ UNCHANGED <<hw, online, hotplugs, machine>>

\* Cache.discover, as /sys shows a cache.
Seen(cache) == [cache EXCEPT !.cpus = @ \cap online]

CachesForCpu(c) == IF c \in online THEN {Seen(cache) : cache \in {d \in hw.caches : c \in d.cpus}} ELSE {}

\* "U" holds both instructions and data.
Holds(cache, type) == cache.type \in {"U", type}

Downstream(cache, caches) ==
    {p \in caches : p.level = cache.level + 1 /\ (cache.type = "U" \/ Holds(p, cache.type))}

\* "cache found in ... but has different parent"
OtherParent(parents, caches) ==
    \E cache \in caches \cap DOMAIN parents : \E p \in Downstream(cache, caches) : parents[cache] \notin {NoMachine, p}

LinkedCaches(parents, caches) ==
    [cache \in DOMAIN parents \cup caches |->
        LET next == Downstream(cache, caches)
        IN IF cache \in caches /\ next # {} THEN CHOOSE p \in next : TRUE
           ELSE IF cache \in DOMAIN parents THEN parents[cache] ELSE NoMachine]

\* The run ends with an error and is started again.
DiscoveryRaises == found' = NotFound /\ UNCHANGED <<hw, online, hotplugs, machine>>

\* One directory, its caches in any order: a group is made for each new mask.
ReadCpu(c) ==
    LET caches == CachesForCpu(c)
        masks == {cache.cpus : cache \in caches} \ Range(found.groups)
        left == found.todo \ {c}
    IN /\ found.stage = "sysfs"
       /\ c \in found.todo
       /\ IF OtherParent(found.parents, caches) THEN DiscoveryRaises
          ELSE /\ \E order \in SetToSeqs(masks) :
                      found' = [found EXCEPT !.todo = left,
                                             !.parents = LinkedCaches(@, caches),
                                             !.groups = @ \o order,
                                             !.stage = IF left = {} THEN "numa" ELSE @]
               /\ UNCHANGED <<hw, online, hotplugs, machine>>

----------------------------------------------------------------------------
(* NUMA nodes and groups *)

\* The loop ends at the first number that is not a node.
ListedNodes == {n \in DOMAIN hw.nodes : 0..n \subseteq DOMAIN hw.nodes}

\* Fault: any group that holds the CPUs will do.
LastParent(g, groups) ==
    FoldLeft(LAMBDA best, gp : IF gp # g /\ g \subseteq gp THEN gp ELSE best, hw.cpus, groups)

\* The groups in the order they were made; hw.cpus is allcpu_mask.
BestParent(g, groups) ==
    LET best[k \in 0..Len(groups)] ==
            IF k = 0 THEN hw.cpus
            ELSE IF groups[k] # g /\ g \subseteq groups[k] /\ groups[k] \subseteq best[k - 1] THEN groups[k] ELSE best[k - 1]
    IN best[Len(groups)]

\* A node lists its CPUs that are online.
AddNumaNodes ==
    /\ found.stage = "numa"
    /\ LET groups == found.groups \o IF hw.cpus \in Range(found.groups) THEN <<>> ELSE <<hw.cpus>>
       IN found' = [found EXCEPT !.stage = "collect",
                                 !.numa_nodes = [n \in ListedNodes |-> Ascending(hw.nodes[n] \cap online)],
                                 !.groups = groups,
                                 !.tree = [g \in Range(groups) \ {hw.cpus} |-> BestParent(g, groups)]]
    /\ UNCHANGED <<hw, online, hotplugs, machine>>

----------------------------------------------------------------------------
(* system-info *)

\* Fault: the two counts of CPUs are not compared.
CpuCountUnchecked == TRUE

\* n_cpus(online_only=True)
NCpus == Cardinality(found.cpuinfo)

\* get_cpu_count: against multiprocessing.cpu_count()
CpuCountAgrees == NCpus = Cardinality(online)

\* get_cpu_features: those of the first CPU that is online.
HasFeature(cpus) == Min(found.cpuinfo) \in cpus

\* Cache.__lt__ sorts by the first CPU, and the first size of a level is kept.
CacheSizeDict(caches) ==
    LET data == {c \in caches : Holds(c, "D")}
    IN [l \in {c.level : c \in data} |->
           LET first == Min({Min(c.cpus) : c \in {d \in data : d.level = l}})
           IN (CHOOSE c \in data : c.level = l /\ Min(c.cpus) = first).size]

\* ls_caches: how many caches have each level, type and geometry.
LsCaches(caches) ==
    LET text(c) == [level |-> c.level, type |-> c.type, size |-> c.size]
    IN [t \in {text(c) : c \in caches} |-> Cardinality({c \in caches : text(c) = t})]

CollectSysHw ==
    /\ found.stage = "collect"
    /\ IF CpuCountAgrees
       THEN /\ machine' = [n_cpus |-> NCpus,
                           numa_nodes |-> found.numa_nodes,
                           cache_size_dict |-> CacheSizeDict(DOMAIN found.parents),
                           caches |-> LsCaches(DOMAIN found.parents),
                           arch |-> hw.arch,
                           sve |-> HasFeature(hw.sve)]
            /\ found' = [NotFound EXCEPT !.stage = "end"]
            /\ UNCHANGED <<hw, online, hotplugs>>
       ELSE DiscoveryRaises

\* A CPU is taken offline or put online while the files are read.
Hotplug ==
    /\ machine = NoMachine
    /\ hotplugs < MaxHotplugs
    /\ hotplugs' = hotplugs + 1
    /\ \E c \in hw.hotplug : online' = IF c \in online THEN online \ {c} ELSE online \cup {c}
    /\ UNCHANGED <<hw, found, machine>>

----------------------------------------------------------------------------
(* The saved result *)

\* The nodes are an object: their numbers become its keys.
Serialize(m) ==
    [m EXCEPT !.numa_nodes = [key \in {JsonKey(n) : n \in DOMAIN @} |-> @[CHOOSE n \in DOMAIN @ : JsonKey(n) = key]]]

\* Results of older versions have no cache_size_dict.
Legacy(m) == [m EXCEPT !.cache_size_dict = Empty]

\* Fault: the smallest size of a level is taken.
DeriveSmallestSizes(caches) ==
    [l \in {t.level : t \in DOMAIN caches} \cap 1..3 |-> Min({t.size : t \in {u \in DOMAIN caches : u.level = l}})]

\* From the texts of ls_caches: the largest size of L1, L2 and L3, caches of instructions included.
DeriveCacheSizeDict(caches) ==
    [l \in {t.level : t \in DOMAIN caches} \cap 1..3 |-> Max({t.size : t \in {u \in DOMAIN caches : u.level = l}})]

Deserialize(saved) ==
    LET int(key) == CHOOSE n \in 0..Cardinality(DOMAIN saved.numa_nodes) : JsonKey(n) = key
        keyOf(n) == CHOOSE key \in DOMAIN saved.numa_nodes : int(key) = n
    IN [saved EXCEPT !.cache_size_dict = IF @ = Empty THEN DeriveCacheSizeDict(saved.caches) ELSE @,
                     !.numa_nodes = [n \in {int(key) : key \in DOMAIN @} |-> @[keyOf(n)]]]

----------------------------------------------------------------------------
(* The specification *)

TopologyInit(systems) ==
    /\ hw \in systems
    /\ online = hw.online
    /\ hotplugs = 0
    /\ found = NotFound
    /\ machine = NoMachine

DiscoveryStep == ReadCpuinfo \/ (\E c \in found.todo : ReadCpu(c)) \/ AddNumaNodes \/ CollectSysHw

TopologyNext == DiscoveryStep \/ Hotplug

\* The program goes on until the machine is known.
TopologyFairness == []<>(machine # NoMachine) \/ []<><<DiscoveryStep>>_topologyVars

----------------------------------------------------------------------------
(* Properties *)

(* Whatever order the directories were listed in, the groups form the tree of  *)
(* inclusion: the parent of a group is a group that holds it, and no group     *)
(* lies between the two.                                                       *)
GroupsNest ==
    found.stage = "collect" => \A g \in DOMAIN found.tree :
        /\ found.tree[g] \in Range(found.groups) /\ g \subseteq found.tree[g] /\ g # found.tree[g]
        /\ ~ \E h \in Range(found.groups) : g \subseteq h /\ h \subseteq found.tree[g] /\ h \notin {g, found.tree[g]}

\* The machine as it is at one moment.
CachesNow == {Seen(cache) : cache \in {d \in hw.caches : d.cpus \cap online # {}}}

(* Although a CPU may go or come while the files are read, a result is never   *)
(* put together from two states of the machine: the CPUs, nodes and caches     *)
(* that system-info reports are those of one moment, and every CPU that is     *)
(* counted lies on a node.                                                     *)
TopologyOfOneMoment ==
    machine # NoMachine =>
        /\ machine.n_cpus = Cardinality(online)
        /\ \A n \in ListedNodes : Range(machine.numa_nodes[n]) = hw.nodes[n] \cap online
        /\ machine.caches = LsCaches(CachesNow)
        /\ \A l \in DOMAIN machine.cache_size_dict :
               \E c \in CachesNow : c.level = l /\ c.size = machine.cache_size_dict[l] /\ Holds(c, "D")

(* A saved result shows the machine when it is loaded, and so does one of an   *)
(* older version, whose cache sizes are taken from the texts, unless a cache   *)
(* of instructions or of a later CPU is larger than the one that is kept.      *)
SavedMachineReads ==
    machine # NoMachine =>
        /\ Deserialize(Serialize(machine)) = machine
        /\ LET sizes(l) == {c.size : c \in {d \in CachesNow : d.level = l}}
               loaded == Deserialize(Serialize(Legacy(machine))).cache_size_dict
           IN \A l \in DOMAIN machine.cache_size_dict \cap 1..3 :
                  machine.cache_size_dict[l] = Max(sizes(l)) => loaded[l] = machine.cache_size_dict[l]

(* What system-info finds is the machine at one moment.                        *)
MachineReported == GroupsNest /\ TopologyOfOneMoment

----------------------------------------------------------------------------
(* Why it holds *)

\* The System object: nothing is known before cpuinfo is read, and groups are sets of CPUs.
FoundOK ==
    /\ found = [stage |-> found.stage, cpuinfo |-> found.cpuinfo, todo |-> found.todo, parents |-> found.parents,
                groups |-> found.groups, numa_nodes |-> found.numa_nodes, tree |-> found.tree]
    /\ found.stage = "cpuinfo" => found = NotFound
    /\ found.groups \in Seq(SUBSET hw.cpus)

\* CPUs come and go within the machine, until it is known.
MachineOK ==
    /\ IsHardware(hw)
    /\ online \subseteq hw.cpus
    /\ hotplugs \in 0..MaxHotplugs
    /\ machine # NoMachine => found.stage = "end"

\* What was read so far is still so, or the count of CPUs is going to tell.
StillSo ==
    found.stage \in {"sysfs", "numa", "collect"} =>
        \/ /\ found.cpuinfo = online
           /\ found.todo \subseteq hw.cpus
           /\ found.stage # "sysfs" => found.todo = {}
           /\ DOMAIN found.parents = UNION {CachesForCpu(c) : c \in hw.cpus \ found.todo}
           /\ found.stage = "collect" => found.numa_nodes = [n \in ListedNodes |-> Ascending(hw.nodes[n] \cap online)]
        \/ hotplugs = MaxHotplugs /\ ~CpuCountAgrees

\* The machine was read, and is still what was read.
MachineRead ==
    machine # NoMachine =>
        machine = [n_cpus |-> machine.n_cpus,
                   numa_nodes |-> [n \in ListedNodes |-> Ascending(hw.nodes[n] \cap online)],
                   cache_size_dict |-> CacheSizeDict(CachesNow),
                   caches |-> LsCaches(CachesNow),
                   arch |-> machine.arch,
                   sve |-> machine.sve]

DiscoveryInv == FoundOK /\ MachineOK /\ GroupsNest
=============================================================================
