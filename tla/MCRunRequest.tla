---------------------------- MODULE MCRunRequest ----------------------------
(* Sessions of one or two commands over the real table of recipes.  The       *)
(* keywords select by default, by name, by tag and against a dependency; the  *)
(* settings are valid, equal to the default, unreadable, unknown, meant for   *)
(* another recipe, lists with ranges, an empty list of steps, and a range     *)
(* that never ends.  The bar is animated, written to the log, or off.         *)
EXTENDS RunRequest

Entry(recipe, field, raw) == [recipe |-> recipe, field |-> field, raw |-> raw]
Null == [k |-> "null"]
N(n) == [k |-> "num", n |-> n]
T(t) == [k |-> "text", t |-> t]
U(n, u) == [k |-> "unit", n |-> n, u |-> u]
R(lo, hi, step) == [k |-> "range", lo |-> lo, hi |-> hi, step |-> step]
L(s) == [k |-> "items", s |-> s]

Updates ==
    {{},
     {Entry("il", "duration", N(1)), Entry("idle-latency", "data_size", U(4, "kib"))},
     {Entry("idle-latency", "duration", U(2500, "tick")), Entry("ll", "injected_nops", L(<<R(0, 4, 2), R(6, 7, 1)>>))},
     {Entry("ll", "injected_nops", L(<<R(3, 1, 0), R(1, 2, 1)>>)), Entry("nosuch", "port", N(1)),
       Entry("sids", "iodepth_sweep_steps", L(<<T("deep"), R(1, 2, 0)>>)),
       Entry("il", "nosuch", N(1)), Entry("il", "duration", T("soon"))},
     {Entry("srss", "create_temp_file", T("false")), Entry("ipts", "client_affinities", L(<<N(1), N(2)>>)),
       Entry("ipts", "message_size_sweep_steps", L(<<N(0), N(9)>>)),
       Entry("cmn", "diagram", T("true"))},
     {Entry("srss", "create_temp_file", N(0)), Entry("srss", "filenames", T("f")),
       Entry("pb", "data_size", U(7, "kb"))},
     {Entry("ll", "injected_nops", L(<<R(5, 3, 1)>>)), Entry("sids", "iodepth_sweep_steps", R(2, 1, 1))},
     {Entry("ll", "injected_nops", L(<<R(1, 2, 0)>>))}}

MCDisks ==
    {[exists |-> FALSE, entries |-> {}],
     [exists |-> TRUE, entries |-> {}],
     [exists |-> TRUE, entries |->
        {Entry("il", "duration", U(5, "m")), Entry("il", "data_size", Null),
          Entry("ipts", "server_host", Null), Entry("ipts", "server_affinity", Null), Entry("ipts", "port", Null),
          Entry("ll", "injected_nops", L(<<N(5)>>)), Entry("cmn", "detect", N(1))}],
     [exists |-> TRUE, entries |-> {Entry("nosuch", "port", N(1))}]}

Command(name, positive, negative, update, usefile, dry, quick) ==
    [name |-> name, positive |-> positive, negative |-> negative, update |-> update, usefile |-> usefile,
     dry |-> dry, quick |-> quick, detect |-> FALSE, force |-> TRUE,
     quiet |-> FALSE, nobar |-> FALSE, logfile |-> FALSE]

\* --quiet, --no-progress-bar and --log-file.
Shown(c, quiet, nobar, logfile) == [c EXCEPT !.quiet = quiet, !.nobar = nobar, !.logfile = logfile]

Keywords ==
    {<<{}, {}>>, <<{"il", "ll"}, {}>>, <<{"il"}, {"ls"}>>, <<{"all"}, {"latency"}>>, <<{"storage"}, {"saps"}>>,
     <<{"network"}, {"udp"}>>, <<{"memory"}, {"sweep"}>>}

Runs == {Command("run", k[1], k[2], u, TRUE, FALSE, q) : k \in Keywords, u \in Updates, q \in {FALSE}}
        \cup {Command("run", {"latency", "storage", "iperf3"}, {}, u, TRUE, d, ~d) : u \in Updates, d \in BOOLEAN}
        \cup {Shown(Command("run", {"latency", "storage"}, {"ccl"}, u, FALSE, FALSE, FALSE), b[1], b[2], b[3]) :
                  u \in Updates, b \in {<<TRUE, FALSE, FALSE>>, <<TRUE, FALSE, TRUE>>, <<FALSE, TRUE, FALSE>>}}

Reports == {[Command("report", p, {"network-info"}, u, TRUE, d, FALSE) EXCEPT !.detect = ~d] :
                p \in {{}, {"cmn"}, {"sysreg"}}, u \in Updates, d \in BOOLEAN}

Saves == {[Command("save", p, {}, u, FALSE, FALSE, FALSE) EXCEPT !.force = f] :
              p \in {{"all"}, {"latency"}}, u \in Updates, f \in BOOLEAN}

MCSessions ==
    {<<c>> : c \in Runs \cup Reports}
    \cup {<<s, Command("check", {}, {}, {}, TRUE, FALSE, FALSE)>> : s \in Saves}
    \cup {<<s, Command("run", {"latency", "storage", "iperf3"}, {}, {}, TRUE, FALSE, FALSE)>> : s \in Saves}
    \cup {<<Command("check", {}, {}, {}, TRUE, FALSE, FALSE)>>}

Machine(hidden, fio, numactl, iperf3, numa, engines, cached, failing) ==
    [hidden |-> hidden, numa |-> numa, engines |-> engines, cached |-> cached, failing |-> failing,
     cpus |-> 2, access |-> 3, sizes |-> 3,
     tools |-> [fio |-> fio, numactl |-> numactl, iperf3 |-> iperf3, mpstat |-> "good"]]

NoFailure == [n \in {} |-> "none"]
StepFailure(n) == n :> "step"

MCMachines ==
    {Machine({}, "good", "good", "old", 1, {"libaio"}, {}, NoFailure),
     Machine({}, "good", "good", "good", 2, {"libaio"}, {},
             StepFailure("idle-latency") @@ StepFailure("storage-access-pattern-sweep")
             @@ ("latency-sweep" :> "generator") @@ StepFailure("cmn")),
     Machine({"ucie", "dms", "pss", "sysreg"}, "old", "good", "unknown", 1, {"io_uring"}, {"latency-sweep"},
             StepFailure("iperf3-tcp-sweep") @@ StepFailure("network-info") @@ ("loaded-latency" :> "other")),
     Machine({"sysreg"}, "unknown", "silent", "absent", 1, {"libaio"}, {"latency-sweep", "network-info"}, NoFailure),
     Machine({"sysreg"}, "absent", "good", "silent", 0, {"psync"}, {}, NoFailure),
     Machine({}, "good", "absent", "good", 1, {"psync"}, {"network-info"}, NoFailure)}
=============================================================================
