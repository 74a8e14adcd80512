---------------------------- MODULE Iperf3Sweep ----------------------------
(***************************************************************************)
(* The iperf3 recipes (core/recipes/impl/iperf3.py) and the server they    *)
(* share (Iperf3Server, core/resources/network_resources.py).              *)
(*                                                                         *)
(* All recipes are set up before the first one runs and torn down after    *)
(* the last, so the second recipe usually meets the server of the first    *)
(* on its port and reuses it.  Other programs come and go on that port at  *)
(* any time, also between the probe of the port and the start of a server, *)
(* and a server may die.  Each step runs one client, which writes its      *)
(* JSON result to a log file of the raw results folder; a folder used      *)
(* before (--force) still holds the files of the earlier run.              *)
(***************************************************************************)
EXTENDS Integers, Sequences, Functions

CONSTANTS NumberOfRuns,   \* IPERF3_SWEEP_DEFAULT_CONFIG["number_of_runs"]
          Affinities,     \* CPU numbers server_affinity can name
          ClientCpus,     \* CPU numbers client_affinities can name
          DefaultSizes,   \* default of message_size_sweep_steps
          Settings,       \* the configurations of the two recipes, as pairs
          MaxOutside      \* bound: changes made by other programs

Recipe == 1..2
None == "none"

ASSUME SweepAssumption ==
    /\ NumberOfRuns \in Nat
    /\ MaxOutside \in Nat
    /\ None \notin Affinities \cup ClientCpus
    /\ DefaultSizes \in Seq(Nat) /\ DefaultSizes # <<>>
    /\ \A s \in Settings : DOMAIN s = {1, 2}
    /\ \A s \in Settings : \A r \in {1, 2} :
           /\ s[r].host \in {"none", "v4", "v6"}
           /\ s[r].port \in {"user", "system"}
           /\ s[r].affinity \in Affinities \cup {None}
           /\ s[r].sizes \in Seq(Nat)
           /\ s[r].client_affinities \in Seq(ClientCpus)

VARIABLES cfg,       \* the configuration of each recipe
          phase,     \* setup, alloc, run, teardown, done
          cur,       \* the recipe the loop is at
          pc,        \* inside Iperf3Server.setup of that recipe
          listener,  \* who listens on the port
          server,    \* server[r]: the server process recipe r started
          owns,      \* Iperf3Server._owns_server
          applied,   \* Resource.applied
          status,    \* of each recipe: setup, ready, skipped, completed, failed
          rows,      \* Iperf3SweepBase.rows
          logs,      \* the JSON documents in each log file
          shaken,    \* history: the listener changed after recipe r had been set up
          outside

net == <<listener, server, outside>>
vars == <<cfg, phase, cur, pc, net, owns, applied, status, rows, logs, shaken>>

Nobody == [kind |-> "nobody", of |-> 0, affinity |-> None]

Listeners ==
    {Nobody, [kind |-> "program", of |-> 0, affinity |-> None]}
    \cup {[kind |-> "iperf3", of |-> r, affinity |-> a] : r \in Recipe \cup {0}, a \in Affinities \cup {None}}

----------------------------------------------------------------------------
(* Configuration and steps *)

\* An address of version 6 is refused; every other host is an external server.
ConfiguredServerHost(c) ==
    CASE c.host = "none" -> None
      [] c.host = "v6"   -> "refused"
      [] OTHER           -> "external"

CheckPortValue(c) == c.port = "user"

ManagesServer(c) == ConfiguredServerHost(c) = None

\* Creating the resources of the recipe raises.
RefusedConfig(c) ==
    \/ ConfiguredServerHost(c) = "refused"
    \/ ManagesServer(c) /\ ~CheckPortValue(c)

SweepValues(setting) == IF setting = <<>> THEN DefaultSizes ELSE setting

ClientAffinitySweepValues(setting) == IF setting = <<>> THEN <<None>> ELSE setting

\* itertools.product of two of the dimensions; the others have one value.
SweepSteps(c) ==
    LET sizes == SweepValues(c.sizes)
        cpus == ClientAffinitySweepValues(c.client_affinities)
    IN [i \in 1..Len(sizes) * Len(cpus) |->
            <<cpus[((i - 1) \div Len(sizes)) + 1], sizes[((i - 1) % Len(sizes)) + 1]>>]

\* Fault: the last run is forgotten.
GenStepsRunShort(c) ==
    LET steps == SweepSteps(c)
    IN [k \in 1..(NumberOfRuns - 1) * Len(steps) |->
            <<((k - 1) \div Len(steps)) + 1, steps[((k - 1) % Len(steps)) + 1]>>]

\* The steps of the first run, then those of the second, ...
GenSteps(c) ==
    LET steps == SweepSteps(c)
    IN [k \in 1..NumberOfRuns * Len(steps) |->
            <<((k - 1) \div Len(steps)) + 1, steps[((k - 1) % Len(steps)) + 1]>>]

\* Fault: the file is named after the run only.
LogfileNameOfRun(run, k) == <<run, 0>>

LogfileName(run, k) == <<run, k>>

LogfileNames(c) == (1..NumberOfRuns) \X (0..Len(GenSteps(c)))

OldDocument == [step |-> 0, ok |-> TRUE, pinned |-> None]

\* The option --affinity of the client: its CPU, and the CPU of the server.
AffinityArg(c, cpu) ==
    CASE cpu = None -> <<>>
      [] cpu # None /\ c.affinity = None -> <<cpu>>
      [] OTHER -> <<cpu, c.affinity>>

Init ==
    /\ cfg \in Settings
    /\ phase = "setup"
    /\ cur = 1
    /\ pc = "next"
    /\ listener \in {l \in Listeners : l.of = 0}
    /\ server = [r \in Recipe |-> "none"]
    /\ owns = [r \in Recipe |-> FALSE]
    /\ applied = [r \in Recipe |-> FALSE]
    /\ status = [r \in Recipe |-> "setup"]
    /\ rows = [r \in Recipe |-> <<>>]
    /\ \E reused \in BOOLEAN :
           logs = [r \in Recipe |-> [n \in LogfileNames(cfg[r]) |->
                      IF reused THEN <<OldDocument>> ELSE <<>>]]
    /\ shaken = [r \in Recipe |-> FALSE]
    /\ outside = 0

\* The loops over the recipes go on with the next one.
NextPhase == CASE phase = "setup" -> "alloc" [] phase = "alloc" -> "run"
               [] phase = "run" -> "teardown" [] OTHER -> "done"

\* Fault: the loop goes one too far.
AdvancePastEnd ==
    /\ pc' = "next"
    /\ IF cur = 3 THEN cur' = 1 /\ phase' = NextPhase
                  ELSE cur' = cur + 1 /\ UNCHANGED phase

Advance ==
    /\ pc' = "next"
    /\ IF cur = 2 THEN cur' = 1 /\ phase' = NextPhase
                  ELSE cur' = cur + 1 /\ UNCHANGED phase

At(p, where) == phase = p /\ pc = where

SetStatus(s) == status' = [status EXCEPT ![cur] = s]

----------------------------------------------------------------------------
(* Setup of the recipes, then of their servers *)

CreateResources ==
    /\ At("setup", "next")
    /\ SetStatus(IF RefusedConfig(cfg[cur]) THEN "skipped" ELSE "ready")
    /\ Advance
    /\ UNCHANGED <<cfg, net, owns, applied, rows, logs, shaken>>

\* A recipe that was skipped, or that uses an external server.
NoServer ==
    /\ phase \in {"alloc", "run", "teardown"}
    /\ pc = "next"
    /\ IF phase = "alloc" THEN status[cur] = "skipped" \/ ~ManagesServer(cfg[cur])
                          ELSE status[cur] = "skipped"
    /\ Advance
    /\ UNCHANGED <<cfg, net, owns, applied, status, rows, logs, shaken>>

ProbePort ==
    /\ At("alloc", "next")
    /\ status[cur] = "ready"
    /\ ManagesServer(cfg[cur])
    /\ pc' = IF listener = Nobody THEN "start" ELSE "inspect"
    /\ UNCHANGED <<cfg, phase, cur, net, owns, applied, status, rows, logs, shaken>>

\* Fault: any server will do.
AffinityCompatibleAlways(requested, actual) == TRUE

\* A server has one CPU or none: that a list of CPUs holds the requested one, and
\* the short option -A, are left out.
AffinityCompatible(requested, actual) ==
    IF requested = None THEN actual = None ELSE actual \in {None, requested}

\* A client with one byte to send gets an answer.
HasExistingServer == listener.kind = "iperf3"

\* The command line of the running server is compared with the configuration.
ExistingServerMatches == HasExistingServer /\ AffinityCompatible(cfg[cur].affinity, listener.affinity)

Reuse ==
    /\ At("alloc", "inspect")
    /\ ExistingServerMatches
    /\ owns' = [owns EXCEPT ![cur] = FALSE]
    /\ applied' = [applied EXCEPT ![cur] = TRUE]
    /\ Advance
    /\ UNCHANGED <<cfg, net, status, rows, logs, shaken>>

\* Fault: the port is probed again instead of giving up.
PortInUseRetry ==
    /\ At("alloc", "inspect")
    /\ ~ExistingServerMatches
    /\ pc' = "next"
    /\ UNCHANGED <<cfg, phase, cur, net, owns, applied, status, rows, logs, shaken>>

PortInUse ==
    /\ At("alloc", "inspect")
    /\ ~ExistingServerMatches
    /\ SetStatus("skipped")
    /\ Advance
    /\ UNCHANGED <<cfg, net, owns, applied, rows, logs, shaken>>

\* The process binds its port, or ends at once when somebody was faster.
StartServer ==
    /\ At("alloc", "start")
    /\ IF listener = Nobody
       THEN /\ listener' = [kind |-> "iperf3", of |-> cur, affinity |-> cfg[cur].affinity]
            /\ server' = [server EXCEPT ![cur] = "up"]
       ELSE /\ server' = [server EXCEPT ![cur] = "dead"]
            /\ UNCHANGED listener
    /\ pc' = "started"
    /\ UNCHANGED <<cfg, phase, cur, outside, owns, applied, status, rows, logs, shaken>>

\* After a second retcode is read: it is set only if the thread saw the end.  A
\* server does not end with 0, which AsyncRunner would answer by starting it again.
ServerStarted ==
    /\ At("alloc", "started")
    /\ owns' = [owns EXCEPT ![cur] = TRUE]
    /\ applied' = [applied EXCEPT ![cur] = TRUE]
    /\ shaken' = [shaken EXCEPT ![cur] = server[cur] = "dead"]
    /\ Advance
    /\ UNCHANGED <<cfg, net, status, rows, logs>>

ServerFailed ==
    /\ At("alloc", "started")
    /\ server[cur] = "dead"
    /\ SetStatus("skipped")
    /\ Advance
    /\ UNCHANGED <<cfg, net, owns, applied, rows, logs, shaken>>

----------------------------------------------------------------------------
(* The steps of the recipes *)

\* What a client writes: a result, a document with an error, or nothing when
\* it is killed.  iperf3 appends to its log file, and the server runs the test
\* on the CPU the client names, else on its own.
ClientWrites(c, k, cpu) ==
    LET reachable == ~ManagesServer(c) \/ listener.kind = "iperf3"
        arg == AffinityArg(c, cpu)
        document(ok) == [step |-> k, ok |-> ok,
                         pinned |-> IF Len(arg) = 2 THEN arg[2] ELSE listener.affinity]
    IN {<<>>, <<document(FALSE)>>} \cup (IF reachable THEN {<<document(TRUE)>>} ELSE {})

\* A log file is a success if it is one JSON object without an error.
Parse(docs) == IF Len(docs) = 1 /\ docs[1].ok THEN "success" ELSE "error"

StepsDone == Len(rows[cur])

OneStep ==
    /\ At("run", "next")
    /\ status[cur] = "ready"
    /\ CheckPortValue(cfg[cur])
    /\ StepsDone < Len(GenSteps(cfg[cur]))
    /\ LET k == StepsDone + 1
           step == GenSteps(cfg[cur])[k]
           name == LogfileName(step[1], k)
       IN \E written \in ClientWrites(cfg[cur], k, step[2][1]) :
              LET docs == logs[cur][name] \o written
              IN /\ logs' = [logs EXCEPT ![cur][name] = docs]
                 /\ rows' = [rows EXCEPT ![cur] = Append(@,
                        [run |-> step[1], point |-> step[2], status |-> Parse(docs),
                         source |-> IF docs = <<>> THEN OldDocument ELSE docs[1],
                         wrote |-> written # <<>>, settled |-> ~shaken[cur]])]
    /\ UNCHANGED <<cfg, phase, cur, pc, net, owns, applied, status, shaken>>

\* With an external server the port is first looked at when a client is made.
StepRaises ==
    /\ At("run", "next")
    /\ status[cur] = "ready"
    /\ ~CheckPortValue(cfg[cur])
    /\ SetStatus("failed")
    /\ Advance
    /\ UNCHANGED <<cfg, net, owns, applied, rows, logs, shaken>>

\* Fault: a recipe stops its server as soon as it is done.
FinishRecipeAndStop ==
    /\ At("run", "next")
    /\ status[cur] = "ready"
    /\ CheckPortValue(cfg[cur])
    /\ StepsDone >= Len(GenSteps(cfg[cur]))
    /\ SetStatus("completed")
    /\ server' = [server EXCEPT ![cur] = "none"]
    /\ listener' = IF listener.of = cur THEN Nobody ELSE listener
    /\ Advance
    /\ UNCHANGED <<cfg, outside, owns, applied, rows, logs, shaken>>

FinishRecipe ==
    /\ At("run", "next")
    /\ status[cur] = "ready"
    /\ CheckPortValue(cfg[cur])
    /\ StepsDone >= Len(GenSteps(cfg[cur]))
    /\ SetStatus("completed")
    /\ Advance
    /\ UNCHANGED <<cfg, net, owns, applied, rows, logs, shaken>>

----------------------------------------------------------------------------
(* Teardown *)

\* Fault: every recipe takes the server for another's.
StopsServerNever(r) == FALSE

StopsServer(r) == applied[r] /\ owns[r]

Teardown ==
    /\ At("teardown", "next")
    /\ status[cur] # "skipped"
    /\ server' = [server EXCEPT ![cur] = IF StopsServer(cur) THEN "none" ELSE @]
    /\ listener' = IF StopsServer(cur) /\ listener.of = cur THEN Nobody ELSE listener
    /\ owns' = [owns EXCEPT ![cur] = FALSE]
    /\ applied' = [applied EXCEPT ![cur] = FALSE]
    /\ Advance
    /\ UNCHANGED <<cfg, outside, status, rows, logs, shaken>>

----------------------------------------------------------------------------
(* Other programs, and a server that dies *)

Outside ==
    /\ phase # "done"
    /\ outside < MaxOutside
    /\ outside' = outside + 1
    /\ listener' \in {l \in Listeners : l.of = 0} \ {listener}
    /\ listener # Nobody => listener' = Nobody
    /\ server' = [r \in Recipe |-> IF listener.of = r THEN "dead" ELSE server[r]]
    /\ shaken' = [r \in Recipe |-> shaken[r] \/ applied[r]]
    /\ UNCHANGED <<cfg, phase, cur, pc, owns, applied, status, rows, logs>>

Done == phase = "done" /\ UNCHANGED vars

Step ==
    \/ CreateResources \/ NoServer \/ ProbePort \/ Reuse \/ PortInUse
    \/ StartServer \/ ServerStarted \/ ServerFailed
    \/ OneStep \/ StepRaises \/ FinishRecipe \/ Teardown

Next == Step \/ Outside \/ Done

Spec == Init /\ [][Next]_vars /\ WF_vars(Step)

----------------------------------------------------------------------------
(* Properties *)

Document(c) == [step : 0..Len(GenSteps(c)), ok : BOOLEAN, pinned : Affinities \cup {None}]

Row(c) == [run : 1..NumberOfRuns, point : Range(SweepSteps(c)), status : {"success", "error"},
           source : Document(c), wrote : BOOLEAN, settled : BOOLEAN]

TypeOK ==
    /\ cfg \in Settings
    /\ phase \in {"setup", "alloc", "run", "teardown", "done"}
    /\ cur \in Recipe
    /\ pc \in {"next", "inspect", "start", "started"}
    /\ listener \in Listeners
    /\ server \in [Recipe -> {"none", "up", "dead"}]
    /\ owns \in [Recipe -> BOOLEAN]
    /\ applied \in [Recipe -> BOOLEAN]
    /\ status \in [Recipe -> {"setup", "ready", "skipped", "completed", "failed"}]
    /\ shaken \in [Recipe -> BOOLEAN]
    /\ DOMAIN rows = Recipe /\ \A r \in Recipe : rows[r] \in Seq(Row(cfg[r]))
    /\ DOMAIN logs = Recipe /\ \A r \in Recipe : logs[r] \in [LogfileNames(cfg[r]) -> Seq(Document(cfg[r]))]
    /\ outside \in 0..MaxOutside

(* The program leaves no server behind: at its end nobody listens on behalf of *)
(* a recipe and no server process it started is up, whichever recipe started   *)
(* the server, reused it, failed or met another program on the port.           *)
NoServerLeft ==
    phase = "done" => listener.of = 0 /\ \A r \in Recipe : server[r] # "up"

(* A recipe that completes has one row for each run and each combination of    *)
(* the swept values, in the order of gen_steps, whatever happened to clients   *)
(* and server: a step that fails is a row with an error, not a missing row.    *)
RowsOfEveryStep ==
    \A r \in Recipe : status[r] = "completed" =>
        LET sizes == SweepValues(cfg[r].sizes)
            cpus == ClientAffinitySweepValues(cfg[r].client_affinities)
            all == (1..NumberOfRuns) \X (Range(cpus) \X Range(sizes))
        IN /\ Len(rows[r]) = NumberOfRuns * Len(sizes) * Len(cpus)
           /\ {<<rows[r][i].run, rows[r][i].point>> : i \in DOMAIN rows[r]} = all
           /\ \A i, j \in DOMAIN rows[r] : i < j => rows[r][i].run <= rows[r][j].run

(* A row that reports success reports the document its own client wrote.  The  *)
(* exception is the hazard of a reused folder: the client is killed before it  *)
(* writes, and the file an earlier invocation left under the same name is      *)
(* taken for its result, because check_output and process_output only look     *)
(* whether the file exists.                                                    *)
SuccessIsOwnResult ==
    \A r \in Recipe : \A i \in DOMAIN rows[r] : rows[r][i].status = "success" =>
        \/ rows[r][i].source.step = i
        \/ rows[r][i].source = OldDocument /\ ~rows[r][i].wrote

(* As long as no other program has touched the port since the server of a      *)
(* recipe was set up, its successful rows were measured on the server CPU the  *)
(* recipe asks for.  The exception: a running server without an affinity is    *)
(* reused, and without client affinities nothing tells it the CPU.             *)
MeasuredAsRequested ==
    \A r \in Recipe : \A i \in DOMAIN rows[r] :
        LET row == rows[r][i]
        IN (row.status = "success" /\ row.source.step = i /\ row.settled /\ ManagesServer(cfg[r]))
           => \/ row.source.pinned = cfg[r].affinity
              \/ row.source.pinned = None /\ ~owns[r] /\ cfg[r].client_affinities = <<>>

(* The server another recipe started is not stopped by the program while a     *)
(* recipe that reuses it still has steps to run.                               *)
ServerOutlivesItsUsers ==
    [][\A r \in Recipe : (server[r] = "up" /\ server'[r] = "none")
          => \A q \in Recipe : status[q] # "ready"]_vars

(* Every invocation comes to its end.                                          *)
Finishes == <>(phase = "done")

(* Every row is the result of its own step: no step is missing, a success is   *)
(* what the step's own client wrote, and it was measured as requested.         *)
RowsAreResults == TypeOK /\ RowsOfEveryStep /\ SuccessIsOwnResult /\ MeasuredAsRequested

(* Two recipes share a server to the end: neither stops it while the other     *)
(* needs it, and neither waits for the port for ever.                          *)
SharedServerServes == ServerOutlivesItsUsers /\ Finishes

----------------------------------------------------------------------------
(* The inductive invariant *)

(* How far the loops over the recipes have come.                               *)
StatusFits ==
    /\ \A r \in Recipe : status[r] \in
           CASE phase = "setup" -> IF r < cur THEN {"ready", "skipped"} ELSE {"setup"}
             [] phase = "alloc" -> {"ready", "skipped"}
             [] phase = "run"   -> IF r < cur THEN {"skipped", "completed", "failed"} ELSE {"ready", "skipped"}
             [] OTHER           -> {"skipped", "completed", "failed"}
    /\ pc # "next" => phase = "alloc" /\ status[cur] = "ready" /\ ManagesServer(cfg[cur])
    /\ pc = "started" => server[cur] # "none"

(* A server that is up is the one that listens.                                *)
ServerListens ==
    \A r \in Recipe :
        /\ server[r] = "up" <=> listener.of = r
        /\ listener.of = r => listener = [kind |-> "iperf3", of |-> r, affinity |-> cfg[r].affinity]

(* Before its turn in the setup a recipe has no server.                        *)
NotYet ==
    \A r \in Recipe : (phase = "setup" \/ (phase = "alloc" /\ r >= cur)) =>
        /\ ~applied[r] /\ ~owns[r]
        /\ server[r] = "none" \/ (pc = "started" /\ cur = r)

(* A server that is up has a teardown to come that stops it.                   *)
WillStop ==
    \A r \in Recipe : server[r] = "up" =>
        \/ phase = "alloc" /\ pc = "started" /\ cur = r
        \/ /\ StopsServer(r)
           /\ status[r] # "skipped"
           /\ phase \in {"alloc", "run"} \/ (phase = "teardown" /\ r >= cur)

(* A recipe that is ready to run has a server if it manages one.               *)
ReadyServed ==
    \A r \in Recipe :
        (/\ phase = "run" \/ (phase = "alloc" /\ r < cur)
         /\ status[r] = "ready"
         /\ ManagesServer(cfg[r])) => applied[r]

(* The server a recipe was set up with, as long as nobody touched the port.    *)
StillServed ==
    \A r \in Recipe : (phase \in {"alloc", "run"} /\ applied[r] /\ ~shaken[r]) =>
        /\ listener.kind = "iperf3"
        /\ AffinityCompatible(cfg[r].affinity, listener.affinity)
        /\ owns[r] => listener.affinity = cfg[r].affinity

(* The rows are those of the first steps, and of all once the recipe is done.  *)
RowsFollowSteps ==
    \A r \in Recipe :
        /\ phase \in {"setup", "alloc"} => rows[r] = <<>>
        /\ Len(rows[r]) <= Len(GenSteps(cfg[r]))
        /\ \A i \in 1..Len(rows[r]) : <<rows[r][i].run, rows[r][i].point>> = GenSteps(cfg[r])[i]
        /\ status[r] = "completed" => Len(rows[r]) = Len(GenSteps(cfg[r]))

(* The log file of a step to come is missing, or that of an earlier run.       *)
LogsToCome ==
    \A r \in Recipe : \A n \in LogfileNames(cfg[r]) :
        n[2] > Len(rows[r]) => logs[r][n] \in {<<>>, <<OldDocument>>}

IInv ==
    /\ TypeOK /\ StatusFits
    /\ ServerListens /\ NotYet /\ WillStop
    /\ ReadyServed /\ StillServed
    /\ RowsFollowSteps /\ LogsToCome
    /\ SuccessIsOwnResult /\ MeasuredAsRequested
============================================================================
