-------------------------- MODULE MCMemoryRecipes --------------------------
(* Sizes 1 to 32.  Latencies: four clear steps, a latency between two levels   *)
(* and noise at an edge, a slow first measurement, only three levels.          *)
(* Machines: two nodes of different size with a gap in the numbers of their    *)
(* CPUs, a first node of one CPU, one node that is not node 0 beside one that  *)
(* has memory only; one whose CPUs come and go.                                *)
EXTENDS MemoryRecipes

Steps(b1, b2, b3) ==
    [s \in 1..MaxSize |-> IF s <= b1 THEN {2} ELSE IF s <= b2 THEN {4} ELSE IF s <= b3 THEN {8} ELSE {16}]

Noisy == [s \in 1..MaxSize |-> IF s = 3 THEN {3} ELSE IF s = 6 THEN {4, 8} ELSE Steps(3, 7, 20)[s]]

ThreeLevels == [s \in 1..MaxSize |-> IF s <= 6 THEN {2} ELSE IF s <= 20 THEN {4} ELSE {8}]

Jumpy == [s \in 1..MaxSize |-> IF s <= 3 THEN {2} ELSE IF s <= 10 THEN {4} ELSE IF s <= 20 THEN {4, 8} ELSE {8, 16}]

\* The first measurement is slow, as one of quick mode may be.
SlowStart == [s \in 1..MaxSize |-> IF s = 1 THEN {16} ELSE Steps(3, 7, 20)[s]]

Node(n, cpus) == n :> cpus

Cache(level, type, cpus, size) == [level |-> level, type |-> type, cpus |-> cpus, size |-> size]

\* Caches of its own for every CPU.
Private(cpus) == UNION {{Cache(1, "D", {c}, 4), Cache(1, "I", {c}, 2)} : c \in cpus}

\* CPU 0 is offline, and there is neither CPU 4 nor CPU 5.
TwoNodes == [cpus |-> {0, 1, 2, 3, 6, 7}, online |-> {1, 2, 3, 6, 7}, hotplug |-> {},
             caches |-> Private({1, 2, 3, 6, 7}) \cup {Cache(2, "U", {1, 2, 3}, 16), Cache(2, "U", {6, 7}, 16)},
             nodes |-> Node(0, {0, 1, 2, 3}) @@ Node(1, {6, 7}), arch |-> "arm", sve |-> 1..7]

OneCpu == [cpus |-> 0..3, online |-> 0..3, hotplug |-> {},
           caches |-> Private(0..3) \cup {Cache(2, "U", {0}, 16), Cache(2, "U", {1, 2, 3}, 16), Cache(3, "U", {1, 2, 3}, 32)},
           nodes |-> Node(0, {0}) @@ Node(1, 1..3), arch |-> "x86_64", sve |-> {}]

MemoryNode == [cpus |-> 2..3, online |-> 2..3, hotplug |-> {}, caches |-> Private(2..3),
               nodes |-> Node(0, {}) @@ Node(1, 2..3), arch |-> "arm", sve |-> {}]

\* CPU 3 goes offline, or CPU 0 online, while the files are read; the CPUs differ.
Changing == [cpus |-> 0..3, online |-> 1..3, hotplug |-> {0, 3},
             caches |-> Private(0..2) \cup {Cache(1, "U", {3}, 8), Cache(2, "U", 0..1, 16), Cache(2, "U", 2..3, 16), Cache(3, "U", 0..3, 32)},
             nodes |-> Node(0, 0..1) @@ Node(1, 2..3), arch |-> "arm", sve |-> {0}]

MCSystems ==
    {<<Steps(1, b2, b3), TwoNodes>> : b2 \in {4, 7, 10}, b3 \in {16, 31}}
    \cup {<<Steps(2, b2, b3), OneCpu>> : b2 \in {5, 11}, b3 \in {12, 27}}
    \cup {<<Steps(3, b2, b3), MemoryNode>> : b2 \in {4, 7}, b3 \in {12, 31}}
    \cup {<<Noisy, TwoNodes>>, <<Jumpy, OneCpu>>, <<SlowStart, MemoryNode>>, <<ThreeLevels, TwoNodes>>, <<ThreeLevels, Changing>>}

MCMachines == {s[1] : s \in MCSystems}

MCLevel == <<"L1", "L2", "LLC", "DRAM">>

MCUserRanges == {<<3, 32>>}

MCInjectedNops == <<10, 0>>

MCSweepSteps == <<1, 2>>

\* Jobs that start and end at different times; one that only reads, one that is shorter than a second.
MCFioRuns == {<<[start |-> 0, read |-> 4, write |-> 0], [start |-> 1, read |-> 3, write |-> 5]>>,
              <<[start |-> 1, read |-> 0, write |-> 4], [start |-> 5, read |-> 1, write |-> 0]>>}
=============================================================================
