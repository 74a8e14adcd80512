--------------------------- MODULE MCIperf3Sweep ---------------------------
(* Two recipes that manage a server, with the same affinity or not, and each  *)
(* of them next to a recipe with an external server or a refused setting; two *)
(* runs of one point, or of two points where only one recipe can run.       *)
EXTENDS Iperf3Sweep

Cfg(host, port, affinity, sizes, cpus) ==
    [host |-> host, port |-> port, affinity |-> affinity, sizes |-> sizes, client_affinities |-> cpus]

Managed(a) == Cfg("none", "user", a, <<>>, <<>>)

MCSettings ==
    {<<Managed(a), Managed(b)>> : a, b \in {None, "cpu0"}}
    \cup {<<Managed(None), Cfg("none", "user", "cpu0", <<>>, <<"cpu1">>)>>,
          <<Managed("cpu0"), Cfg("v4", "user", None, <<>>, <<>>)>>,
          <<Cfg("v4", "system", None, <<>>, <<>>), Cfg("none", "system", None, <<>>, <<>>)>>,
          <<Cfg("v6", "user", None, <<>>, <<>>), Cfg("none", "user", None, <<64, 1500>>, <<>>)>>}

MCDefaultSizes == <<1500>>
=============================================================================
