-------------------------- MODULE MCProcessControl --------------------------
(* One iperf3 server, one load that ignores SIGINT and is killed, and the     *)
(* measured command.                                                          *)
EXTENDS ProcessControl
=============================================================================
