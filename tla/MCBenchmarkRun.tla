--------------------------- MODULE MCBenchmarkRun ---------------------------
(* Recipes of an `asct run`: latency-sweep, idle-latency, which needs it, and *)
(* a storage sweep with its temporary file; a second instance has an iperf3   *)
(* sweep with its own server instead.  numactl is a shared singleton.  The    *)
(* first list also serves as one of an `asct report`: its loop is the same    *)
(* for every recipe, and its resources too are shared singletons and owned.   *)
EXTENDS BenchmarkRun, TLC

CONSTANTS sweep, idle, storage, iperf,
          outdir, hp1, hp2, numactl, rawdir, tmpfile, server

MCOrder == <<sweep, idle, storage>>
MCOrderNet == <<sweep, iperf>>
MCResource == {outdir, hp1, hp2, numactl, rawdir, tmpfile, server}
MCLocal == (sweep :> <<hp1, numactl>>) @@ (idle :> <<hp2, numactl>>)
           @@ (storage :> <<numactl, rawdir, tmpfile>>)
MCLocalNet == (sweep :> <<hp1, numactl>>) @@ (iperf :> <<rawdir, server>>)
MCGlobal == <<outdir>>
MCDependsOn == (sweep :> {}) @@ (idle :> {sweep}) @@ (storage :> {})
MCDependsOnNet == (sweep :> {}) @@ (iperf :> {})
=============================================================================
