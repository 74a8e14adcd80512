------------------------ MODULE Iperf3Sweep_proofs ------------------------
(***************************************************************************)
(* Two iperf3 sweeps and the server they share, for any settings, any      *)
(* number of runs and whatever other programs do on the port.              *)
(*                                                                         *)
(* The argument has two halves.  The server: one that is up is the one     *)
(* that listens (ServerListens), its recipe owns it and has its teardown   *)
(* to come (WillStop), so none is left; and while nobody else touches the  *)
(* port it goes on as it was when a recipe was set up with it              *)
(* (StillServed).  The rows: they follow gen_steps (RowsFollowSteps), whose*)
(* index arithmetic yields every combination in every run (AllSteps); and  *)
(* the log file of a step to come holds nothing, or the document of an     *)
(* earlier invocation (LogsToCome), so a success is the document of the    *)
(* step's own client, measured on the server of StillServed.               *)
(***************************************************************************)
EXTENDS Iperf3Sweep, SequenceTheorems, TLAPS

----------------------------------------------------------------------------
(* Division and the steps of a sweep *)

LEMMA Division ==
    ASSUME NEW a \in Nat, NEW n \in Nat, n > 0
    PROVE  /\ a \div n \in Nat /\ a % n \in 0..(n - 1)
           /\ a = n * (a \div n) + (a % n)
  OBVIOUS

\* Quotient and remainder are determined by the number.
LEMMA Unique ==
    ASSUME NEW n \in Nat, n > 0, NEW q \in Nat, NEW i \in 0..(n - 1)
    PROVE  (n * q + i) \div n = q /\ (n * q + i) % n = i
<1> DEFINE a == n * q + i
           d == a \div n
           m == a % n
<1>1. a \in Nat
  OBVIOUS
<1>2. d \in Nat /\ m \in 0..(n - 1) /\ a = n * d + m
  BY <1>1, Division
<1>3. n * d + m = n * q + i
  BY <1>2
<1> HIDE DEF a, d, m
<1>4. ~(d < q)
  <2> SUFFICES ASSUME d < q PROVE FALSE
    OBVIOUS
  <2>1. n * q >= n * (d + 1)
    BY <1>2
  <2> QED
    BY <2>1, <1>2, <1>3
<1>5. ~(q < d)
  <2> SUFFICES ASSUME q < d PROVE FALSE
    OBVIOUS
  <2>1. n * d >= n * (q + 1)
    BY <1>2
  <2> QED
    BY <2>1, <1>2, <1>3
<1>6. d = q
  BY <1>2, <1>4, <1>5
<1>7. m = i
  BY <1>2, <1>3, <1>6
<1> QED
  BY <1>6, <1>7 DEF a, d, m

LEMMA Mono ==
    ASSUME NEW a \in Nat, NEW b \in Nat, a <= b, NEW n \in Nat, n > 0
    PROVE  a \div n <= b \div n
<1> DEFINE d == a \div n
           e == b \div n
           x == a % n
           y == b % n
<1>1. d \in Nat /\ x \in 0..(n - 1) /\ a = n * d + x
  BY Division
<1>2. e \in Nat /\ y \in 0..(n - 1) /\ b = n * e + y
  BY Division
<1> HIDE DEF d, e, x, y
<1>3. SUFFICES ASSUME e < d PROVE FALSE
  BY <1>1, <1>2 DEF d, e
<1>4. n * d >= n * (e + 1)
  BY <1>1, <1>2, <1>3
<1> QED
  BY <1>1, <1>2, <1>4

LEMMA Below ==
    ASSUME NEW n \in Nat, n > 0, NEW m \in Nat, NEW a \in Nat, a < m * n
    PROVE  a \div n < m
<1> DEFINE d == a \div n
           x == a % n
<1>1. d \in Nat /\ x \in 0..(n - 1) /\ a = n * d + x
  BY Division
<1> HIDE DEF d, x
<1>3. SUFFICES ASSUME m <= d PROVE FALSE
  BY <1>1 DEF d
<1>4. n * d >= n * m
  BY <1>1, <1>3
<1> QED
  BY <1>1, <1>4

\* What a configuration can be.
LEMMA CfgFacts ==
    ASSUME cfg \in Settings, NEW r \in Recipe
    PROVE  /\ cfg[r].host \in {"none", "v4", "v6"}
           /\ cfg[r].port \in {"user", "system"}
           /\ cfg[r].affinity \in Affinities \cup {None}
           /\ cfg[r].sizes \in Seq(Nat)
           /\ cfg[r].client_affinities \in Seq(ClientCpus)
  BY SweepAssumption DEF Recipe

\* The steps of one run are the product of two of the dimensions.
LEMMA SweepStepsFacts ==
    ASSUME NEW c, c.sizes \in Seq(Nat), c.client_affinities \in Seq(ClientCpus)
    PROVE  LET sizes == SweepValues(c.sizes)
               cpus == ClientAffinitySweepValues(c.client_affinities)
           IN /\ sizes \in Seq(Nat) /\ Len(sizes) > 0
              /\ cpus \in Seq(ClientCpus \cup {None}) /\ Len(cpus) > 0
              /\ SweepSteps(c) \in Seq((ClientCpus \cup {None}) \X Nat)
              /\ Len(SweepSteps(c)) = Len(sizes) * Len(cpus)
              /\ Len(SweepSteps(c)) \in Nat /\ Len(SweepSteps(c)) > 0
              /\ \A i \in 1..Len(SweepSteps(c)) :
                    SweepSteps(c)[i] = <<cpus[((i - 1) \div Len(sizes)) + 1], sizes[((i - 1) % Len(sizes)) + 1]>>
              /\ \A i \in 1..Len(SweepSteps(c)) :
                    /\ ((i - 1) \div Len(sizes)) + 1 \in 1..Len(cpus)
                    /\ ((i - 1) % Len(sizes)) + 1 \in 1..Len(sizes)
<1> DEFINE sizes == SweepValues(c.sizes)
           cpus == ClientAffinitySweepValues(c.client_affinities)
           n == Len(sizes)
           m == Len(cpus)
<1>1. sizes \in Seq(Nat) /\ n \in Nat /\ n > 0
  <2>1. sizes \in Seq(Nat) /\ sizes # <<>>
    BY SweepAssumption DEF SweepValues
  <2> HIDE DEF sizes
  <2> QED
    BY <2>1
<1>2. cpus \in Seq(ClientCpus \cup {None}) /\ m \in Nat /\ m > 0
  <2>1. cpus \in Seq(ClientCpus \cup {None}) /\ cpus # <<>>
    <3>1. CASE c.client_affinities = <<>>
      BY <3>1 DEF ClientAffinitySweepValues
    <3>2. CASE c.client_affinities # <<>>
      <4>1. cpus \in Seq(ClientCpus) /\ cpus # <<>>
        BY <3>2 DEF ClientAffinitySweepValues
      <4> HIDE DEF cpus
      <4> QED
        BY <4>1
    <3> QED
      BY <3>1, <3>2
  <2> HIDE DEF cpus
  <2> QED
    BY <2>1
<1>3. SweepSteps(c) = [i \in 1..n * m |-> <<cpus[((i - 1) \div n) + 1], sizes[((i - 1) % n) + 1]>>]
  BY DEF SweepSteps
<1> HIDE DEF sizes, cpus, n, m
<1>4. n * m \in Nat /\ n * m > 0
  BY <1>1, <1>2
<1>5. ASSUME NEW i \in 1..n * m
      PROVE  /\ ((i - 1) \div n) + 1 \in 1..m
             /\ ((i - 1) % n) + 1 \in 1..n
  <2>1. i - 1 \in Nat /\ i - 1 < m * n
    BY <1>1, <1>2, <1>4
  <2>2. (i - 1) \div n \in Nat /\ (i - 1) % n \in 0..(n - 1)
    BY <1>1, <2>1, Division
  <2>3. (i - 1) \div n < m
    BY <1>1, <1>2, <2>1, Below
  <2> QED
    BY <1>1, <1>2, <2>2, <2>3
<1>6. ASSUME NEW i \in 1..n * m
      PROVE  <<cpus[((i - 1) \div n) + 1], sizes[((i - 1) % n) + 1]>> \in (ClientCpus \cup {None}) \X Nat
  <2> DEFINE x == ((i - 1) \div n) + 1
             y == ((i - 1) % n) + 1
  <2>1. x \in 1..m /\ y \in 1..n
    BY <1>5
  <2> HIDE DEF x, y
  <2>2. cpus[x] \in ClientCpus \cup {None} /\ sizes[y] \in Nat
    BY <1>1, <1>2, <2>1 DEF n, m
  <2> QED
    BY <2>2 DEF x, y
<1>7. SweepSteps(c) \in Seq((ClientCpus \cup {None}) \X Nat) /\ Len(SweepSteps(c)) = n * m
  BY <1>3, <1>4, <1>6
<1>8. \A i \in 1..Len(SweepSteps(c)) :
          /\ ((i - 1) \div n) + 1 \in 1..m
          /\ ((i - 1) % n) + 1 \in 1..n
  BY <1>5, <1>7
<1>9. \A i \in 1..Len(SweepSteps(c)) : SweepSteps(c)[i] = <<cpus[((i - 1) \div n) + 1], sizes[((i - 1) % n) + 1]>>
  BY <1>3, <1>7
<1> QED
  BY <1>1, <1>2, <1>4, <1>7, <1>8, <1>9 DEF sizes, cpus, n, m

\* What gen_steps returns: number_of_runs times the steps of the sweep.
LEMMA GenStepsFacts ==
    ASSUME NEW c, c.sizes \in Seq(Nat), c.client_affinities \in Seq(ClientCpus)
    PROVE  LET n == Len(SweepSteps(c))
           IN /\ GenSteps(c) \in Seq((1..NumberOfRuns) \X Range(SweepSteps(c)))
              /\ Len(GenSteps(c)) \in Nat
              /\ Len(GenSteps(c)) = NumberOfRuns * n
              /\ \A k \in 1..Len(GenSteps(c)) :
                    /\ GenSteps(c)[k] = <<((k - 1) \div n) + 1, SweepSteps(c)[((k - 1) % n) + 1]>>
                    /\ ((k - 1) \div n) + 1 \in 1..NumberOfRuns
                    /\ ((k - 1) % n) + 1 \in 1..n
<1> DEFINE steps == SweepSteps(c)
           n == Len(steps)
           m == NumberOfRuns
<1>1. steps \in Seq((ClientCpus \cup {None}) \X Nat) /\ n \in Nat /\ n > 0 /\ m \in Nat
  BY SweepStepsFacts, SweepAssumption
<1>2. GenSteps(c) = [k \in 1..m * n |-> <<((k - 1) \div n) + 1, steps[((k - 1) % n) + 1]>>]
  BY DEF GenSteps
<1> HIDE DEF steps, n, m
<1>3. m * n \in Nat
  BY <1>1
<1>4. ASSUME NEW k \in 1..m * n
      PROVE  /\ ((k - 1) \div n) + 1 \in 1..m
             /\ ((k - 1) % n) + 1 \in 1..n
  <2>1. k - 1 \in Nat /\ k - 1 < m * n
    BY <1>3
  <2>2. (k - 1) \div n \in Nat /\ (k - 1) % n \in 0..(n - 1)
    BY <1>1, <2>1, Division
  <2>3. (k - 1) \div n < m
    BY <1>1, <2>1, Below
  <2> QED
    BY <1>1, <2>2, <2>3
<1>5. ASSUME NEW k \in 1..m * n
      PROVE  <<((k - 1) \div n) + 1, steps[((k - 1) % n) + 1]>> \in (1..m) \X Range(steps)
  <2> DEFINE x == ((k - 1) \div n) + 1
             y == ((k - 1) % n) + 1
  <2>1. x \in 1..m /\ y \in 1..n
    BY <1>4
  <2> HIDE DEF x, y
  <2>2. steps[y] \in Range(steps)
    BY <1>1, <2>1 DEF n, Range
  <2> QED
    BY <2>1, <2>2 DEF x, y
<1>6. GenSteps(c) \in Seq((1..m) \X Range(steps)) /\ Len(GenSteps(c)) = m * n
  BY <1>2, <1>3, <1>5
<1>7. \A k \in 1..Len(GenSteps(c)) : GenSteps(c)[k] = <<((k - 1) \div n) + 1, steps[((k - 1) % n) + 1]>>
  BY <1>2, <1>6
<1> QED
  BY <1>3, <1>4, <1>6, <1>7 DEF steps, n, m

\* Row u, column v of a table of m rows and n columns that is read row by row.
InTable(n, m, u, v) == \E k \in 1..(m * n) : ((k - 1) \div n) + 1 = u /\ ((k - 1) % n) + 1 = v

LEMMA ReadBack ==
    ASSUME NEW n \in Nat, n > 0, NEW m \in Nat, NEW u \in 1..m, NEW v \in 1..n
    PROVE  InTable(n, m, u, v)
<1> DEFINE k == n * (u - 1) + v
<1>1. u - 1 \in Nat /\ v - 1 \in 0..(n - 1)
  OBVIOUS
<1>2. k - 1 = n * (u - 1) + (v - 1)
  BY <1>1
<1>3. (n * (u - 1) + (v - 1)) \div n = u - 1 /\ (n * (u - 1) + (v - 1)) % n = v - 1
  BY <1>1, Unique
<1>4. ((k - 1) \div n) + 1 = u /\ ((k - 1) % n) + 1 = v
  BY <1>2, <1>3
<1>5. k \in 1..(m * n)
  <2>1. n * (u - 1) >= 0 /\ k \in Int /\ k >= 1
    BY <1>1
  <2>2. n * (u - 1) <= n * (m - 1)
    BY <1>1
  <2>3. n * (m - 1) + n = m * n
    OBVIOUS
  <2> QED
    BY <2>1, <2>2, <2>3
<1> HIDE DEF k
<1> QED
  BY <1>4, <1>5 DEF InTable

\* The steps are all of the product, and a run is over before the next begins.
LEMMA AllSteps ==
    ASSUME NEW c, c.sizes \in Seq(Nat), c.client_affinities \in Seq(ClientCpus)
    PROVE  LET sizes == SweepValues(c.sizes)
               cpus == ClientAffinitySweepValues(c.client_affinities)
           IN /\ Len(GenSteps(c)) = NumberOfRuns * Len(sizes) * Len(cpus)
              /\ {GenSteps(c)[k] : k \in 1..Len(GenSteps(c))} = (1..NumberOfRuns) \X (Range(cpus) \X Range(sizes))
              /\ \A j, k \in 1..Len(GenSteps(c)) : j < k => GenSteps(c)[j][1] <= GenSteps(c)[k][1]
<1> DEFINE sizes == SweepValues(c.sizes)
           cpus == ClientAffinitySweepValues(c.client_affinities)
           steps == SweepSteps(c)
           n == Len(steps)
           m == NumberOfRuns
<1>1. /\ sizes \in Seq(Nat) /\ Len(sizes) \in Nat /\ Len(sizes) > 0
      /\ cpus \in Seq(ClientCpus \cup {None}) /\ Len(cpus) \in Nat /\ Len(cpus) > 0
  BY SweepStepsFacts
<1>2. /\ steps \in Seq((ClientCpus \cup {None}) \X Nat)
      /\ n \in Nat /\ n > 0 /\ n = Len(sizes) * Len(cpus)
      /\ \A i \in 1..n :
            /\ steps[i] = <<cpus[((i - 1) \div Len(sizes)) + 1], sizes[((i - 1) % Len(sizes)) + 1]>>
            /\ ((i - 1) \div Len(sizes)) + 1 \in 1..Len(cpus)
            /\ ((i - 1) % Len(sizes)) + 1 \in 1..Len(sizes)
  BY SweepStepsFacts
<1>3. /\ m \in Nat
      /\ Len(GenSteps(c)) \in Nat /\ Len(GenSteps(c)) = m * n
      /\ \A k \in 1..(m * n) :
            /\ GenSteps(c)[k] = <<((k - 1) \div n) + 1, steps[((k - 1) % n) + 1]>>
            /\ ((k - 1) \div n) + 1 \in 1..m
            /\ ((k - 1) % n) + 1 \in 1..n
  BY GenStepsFacts, SweepAssumption
<1> HIDE DEF sizes, cpus, steps, n, m
<1>4. /\ n \in Nat /\ n > 0 /\ m \in Nat
      /\ Len(sizes) \in Nat /\ Len(sizes) > 0 /\ Len(cpus) \in Nat
  BY <1>1, <1>2, <1>3
<1>5. DOMAIN steps = 1..n /\ DOMAIN cpus = 1..Len(cpus) /\ DOMAIN sizes = 1..Len(sizes)
  BY <1>1, <1>2 DEF n
<1>6. Len(GenSteps(c)) = m * Len(sizes) * Len(cpus)
  BY <1>1, <1>2, <1>3
<1>7. Range(steps) = Range(cpus) \X Range(sizes)
  <2>1. ASSUME NEW p \in Range(steps) PROVE p \in Range(cpus) \X Range(sizes)
    <3>1. PICK i \in 1..n : p = steps[i]
      BY <1>5 DEF Range
    <3> DEFINE x == ((i - 1) \div Len(sizes)) + 1
               y == ((i - 1) % Len(sizes)) + 1
    <3>2. p = <<cpus[x], sizes[y]>> /\ x \in 1..Len(cpus) /\ y \in 1..Len(sizes)
      BY <1>2, <3>1
    <3> HIDE DEF x, y
    <3> QED
      BY <1>5, <3>2 DEF Range
  <2>2. ASSUME NEW p \in Range(cpus) \X Range(sizes) PROVE p \in Range(steps)
    <3>1. PICK u \in 1..Len(cpus), v \in 1..Len(sizes) : p = <<cpus[u], sizes[v]>>
      BY <1>5 DEF Range
    <3>2. InTable(Len(sizes), Len(cpus), u, v)
      BY <1>4, ReadBack
    <3>3. PICK i \in 1..(Len(cpus) * Len(sizes)) :
             ((i - 1) \div Len(sizes)) + 1 = u /\ ((i - 1) % Len(sizes)) + 1 = v
      BY <3>2, Zenon DEF InTable
    <3>4. i \in 1..n
      BY <1>1, <1>2, <3>3
    <3>5. steps[i] = p
      BY <1>2, <3>1, <3>3, <3>4
    <3> QED
      BY <1>5, <3>4, <3>5 DEF Range
  <2> QED
    BY <2>1, <2>2
<1>8. {GenSteps(c)[k] : k \in 1..Len(GenSteps(c))} = (1..m) \X Range(steps)
  <2>1. ASSUME NEW k \in 1..Len(GenSteps(c)) PROVE GenSteps(c)[k] \in (1..m) \X Range(steps)
    <3> DEFINE x == ((k - 1) \div n) + 1
               y == ((k - 1) % n) + 1
    <3>1. GenSteps(c)[k] = <<x, steps[y]>> /\ x \in 1..m /\ y \in 1..n
      BY <1>3
    <3> HIDE DEF x, y
    <3> QED
      BY <1>5, <3>1 DEF Range
  <2>2. ASSUME NEW q \in (1..m) \X Range(steps)
        PROVE  \E k \in 1..Len(GenSteps(c)) : GenSteps(c)[k] = q
    <3>1. PICK u \in 1..m, v \in 1..n : q = <<u, steps[v]>>
      BY <1>5 DEF Range
    <3>2. InTable(n, m, u, v)
      BY <1>4, ReadBack
    <3>3. PICK k \in 1..(m * n) : ((k - 1) \div n) + 1 = u /\ ((k - 1) % n) + 1 = v
      BY <3>2, Zenon DEF InTable
    <3> QED
      BY <1>3, <3>1, <3>3
  <2> QED
    BY <2>1, <2>2
<1>9. ASSUME NEW j \in 1..Len(GenSteps(c)), NEW k \in 1..Len(GenSteps(c)), j < k
      PROVE  GenSteps(c)[j][1] <= GenSteps(c)[k][1]
  <2>1. j - 1 \in Nat /\ k - 1 \in Nat /\ j - 1 <= k - 1
    BY <1>3, <1>9
  <2>2. (j - 1) \div n <= (k - 1) \div n
    BY <1>2, <2>1, Mono
  <2>3. GenSteps(c)[j][1] = ((j - 1) \div n) + 1 /\ GenSteps(c)[k][1] = ((k - 1) \div n) + 1
    BY <1>3
  <2>4. (j - 1) \div n \in Int /\ (k - 1) \div n \in Int
    BY <1>2, <2>1, Division
  <2> QED
    BY <2>2, <2>3, <2>4
<1> QED
  BY <1>6, <1>7, <1>8, <1>9 DEF sizes, cpus, m

----------------------------------------------------------------------------
(* What the steps leave alone, and what a client adds *)

LEMMA Frames ==
    ASSUME [Next]_vars
    PROVE  /\ cfg' = cfg
           /\ OneStep \/ UNCHANGED <<rows, logs>>
  BY DEF Next, Step, vars, net, CreateResources, NoServer, ProbePort, Reuse, PortInUse, StartServer,
         ServerStarted, ServerFailed, OneStep, StepRaises, FinishRecipe, Teardown, Outside, Done

LEMMA OneStepFrame ==
    ASSUME OneStep
    PROVE  /\ UNCHANGED <<cfg, phase, cur, pc, net, owns, applied, status, shaken>>
           /\ phase = "run" /\ pc = "next" /\ status[cur] = "ready"
  BY DEF OneStep, At

\* Short log files.
LEMMA ShortSeqs ==
    ASSUME NEW S, NEW a \in S, NEW d \in S
    PROVE  /\ <<>> \in Seq(S) /\ <<a>> \in Seq(S) /\ <<a, d>> \in Seq(S)
           /\ <<>> \o <<d>> = <<d>> /\ <<a>> \o <<d>> = <<a, d>>
           /\ <<>> \o <<>> = <<>> /\ <<a>> \o <<>> = <<a>>
           /\ Len(<<a>>) = 1 /\ Len(<<a, d>>) = 2 /\ <<a>> # <<>> /\ <<a, d>> # <<>>
           /\ <<a>>[1] = a /\ <<a, d>>[1] = a
<1>1. <<>> \in Seq(S) /\ <<a>> \in Seq(S) /\ <<a, d>> \in Seq(S)
  OBVIOUS
<1>2. <<>> \o <<d>> = <<d>> /\ <<>> \o <<>> = <<>> /\ <<a>> \o <<>> = <<a>>
  OBVIOUS
<1>3. <<a>> \o <<d>> = <<a, d>>
  <2>1. <<a>> \in Seq(S) /\ <<d>> \in Seq(S) /\ Len(<<a>>) = 1 /\ Len(<<d>>) = 1
    OBVIOUS
  <2> DEFINE s == <<a>> \o <<d>>
  <2>2. s \in Seq(S) /\ Len(s) = 2 /\ s[1] = a /\ s[2] = d
    BY <2>1, ConcatProperties
  <2>3. \A i \in 1..2 : s[i] = <<a, d>>[i]
    BY <2>2
  <2> HIDE DEF s
  <2>4. s = <<a, d>>
    BY <1>1, <2>2, <2>3, SeqEqual
  <2> QED
    BY <2>4 DEF s
<1>4. Len(<<a>>) = 1 /\ Len(<<a, d>>) = 2 /\ <<a>> # <<>> /\ <<a, d>> # <<>>
  OBVIOUS
<1>5. <<a>>[1] = a /\ <<a, d>>[1] = a
  OBVIOUS
<1> QED
  BY <1>1, <1>2, <1>3, <1>4, <1>5

\* The documents a client may add to its log file.
LEMMA ClientFacts ==
    ASSUME TypeOK, NEW k \in 0..Len(GenSteps(cfg[cur])), NEW cpu,
           NEW written \in ClientWrites(cfg[cur], k, cpu)
    PROVE  \/ written = <<>>
           \/ \E d \in Document(cfg[cur]) :
                 /\ written = <<d>>
                 /\ d.step = k
                 /\ d.ok /\ ManagesServer(cfg[cur]) => listener.kind = "iperf3"
                 /\ d.pinned = IF cpu # None /\ cfg[cur].affinity # None THEN cfg[cur].affinity ELSE listener.affinity
<1> DEFINE c == cfg[cur]
           arg == AffinityArg(c, cpu)
           pin == IF Len(arg) = 2 THEN arg[2] ELSE listener.affinity
           document(ok) == [step |-> k, ok |-> ok, pinned |-> pin]
<1>1. pin = IF cpu # None /\ c.affinity # None THEN c.affinity ELSE listener.affinity
  <2>1. CASE cpu = None
    BY <2>1 DEF AffinityArg
  <2>2. CASE cpu # None /\ c.affinity = None
    BY <2>2 DEF AffinityArg
  <2>3. CASE cpu # None /\ c.affinity # None
    BY <2>3 DEF AffinityArg
  <2> QED
    BY <2>1, <2>2, <2>3
<1>2. pin \in Affinities \cup {None}
  <2>1. c.affinity \in Affinities \cup {None}
    BY CfgFacts DEF TypeOK
  <2>2. listener.affinity \in Affinities \cup {None}
    BY DEF TypeOK, Listeners, Nobody
  <2> QED
    BY <1>1, <2>1, <2>2
<1>3. \/ written = <<>>
      \/ written = <<document(FALSE)>>
      \/ written = <<document(TRUE)>> /\ (~ManagesServer(c) \/ listener.kind = "iperf3")
  BY DEF ClientWrites
<1> HIDE DEF pin
<1>4. document(FALSE) \in Document(c) /\ document(TRUE) \in Document(c)
  BY <1>2 DEF Document
<1> QED
  BY <1>1, <1>3, <1>4

\* A step adds one row.  It is a success only if its log file holds one
\* document: the one of its own client, or the old one when the client wrote
\* nothing.
LEMMA OneStepFacts ==
    ASSUME IInv, OneStep
    PROVE  LET c == cfg[cur]
               k == Len(rows[cur]) + 1
               step == GenSteps(c)[k]
               name == <<step[1], k>>
           IN /\ k \in 1..Len(GenSteps(c)) /\ name \in LogfileNames(c)
              /\ \E docs \in Seq(Document(c)), row \in Row(c) :
                    /\ logs' = [logs EXCEPT ![cur][name] = docs]
                    /\ rows' = [rows EXCEPT ![cur] = Append(@, row)]
                    /\ row.run = step[1] /\ row.point = step[2] /\ row.settled = ~shaken[cur]
                    /\ row.status = "success" =>
                          \/ row.source = OldDocument /\ ~row.wrote
                          \/ /\ row.source.step = k
                             /\ ManagesServer(c) => listener.kind = "iperf3"
                             /\ row.source.pinned = IF step[2][1] # None /\ c.affinity # None
                                                    THEN c.affinity ELSE listener.affinity
<1> DEFINE c == cfg[cur]
           k == Len(rows[cur]) + 1
           step == GenSteps(c)[k]
           name == <<step[1], k>>
           old == logs[cur][name]
           settled == ~shaken[cur]
<1>1. cur \in Recipe /\ TypeOK /\ c.sizes \in Seq(Nat) /\ c.client_affinities \in Seq(ClientCpus)
  BY CfgFacts DEF IInv, TypeOK
<1>2. /\ GenSteps(c) \in Seq((1..NumberOfRuns) \X Range(SweepSteps(c)))
      /\ Len(GenSteps(c)) \in Nat
  BY <1>1, GenStepsFacts
<1>3. k \in 1..Len(GenSteps(c)) /\ Len(rows[cur]) \in Nat
  <2>1. Len(rows[cur]) \in Nat
    BY <1>1 DEF TypeOK
  <2>2. Len(rows[cur]) < Len(GenSteps(c))
    BY DEF OneStep, StepsDone
  <2> QED
    BY <1>2, <2>1, <2>2
<1>4. step[1] \in 1..NumberOfRuns /\ step[2] \in Range(SweepSteps(c))
  BY <1>2, <1>3
<1>5. name \in LogfileNames(c)
  BY <1>2, <1>3, <1>4 DEF LogfileNames
<1>6. old \in {<<>>, <<OldDocument>>}
  <2>1. name[2] > Len(rows[cur])
    BY <1>3
  <2> HIDE DEF name, c
  <2> QED
    BY <1>1, <1>5, <2>1 DEF IInv, LogsToCome, c
<1>7. PICK written \in ClientWrites(c, k, step[2][1]) :
          /\ logs' = [logs EXCEPT ![cur][name] = old \o written]
          /\ rows' = [rows EXCEPT ![cur] = Append(@,
                 [run |-> step[1], point |-> step[2], status |-> Parse(old \o written),
                  source |-> IF old \o written = <<>> THEN OldDocument ELSE (old \o written)[1],
                  wrote |-> written # <<>>, settled |-> settled])]
  BY DEF OneStep, StepsDone, LogfileName
<1> DEFINE docs == old \o written
           row == [run |-> step[1], point |-> step[2], status |-> Parse(docs),
                   source |-> IF docs = <<>> THEN OldDocument ELSE docs[1],
                   wrote |-> written # <<>>, settled |-> settled]
<1>8. OldDocument \in Document(c) /\ settled \in BOOLEAN
  BY <1>2 DEF OldDocument, Document
<1>9. /\ logs' = [logs EXCEPT ![cur][name] = docs]
      /\ rows' = [rows EXCEPT ![cur] = Append(@, row)]
  BY <1>7
<1> HIDE DEF docs, old, step, k, c, settled, name
<1>10. /\ row.run = step[1] /\ row.point = step[2] /\ row.settled = settled
       /\ row.status = Parse(docs) /\ row.wrote = (written # <<>>)
       /\ row.source = IF docs = <<>> THEN OldDocument ELSE docs[1]
  OBVIOUS
<1> DEFINE OwnResult ==
              \/ row.source = OldDocument /\ ~row.wrote
              \/ /\ row.source.step = k
                 /\ ManagesServer(c) => listener.kind = "iperf3"
                 /\ row.source.pinned = IF step[2][1] # None /\ c.affinity # None
                                        THEN c.affinity ELSE listener.affinity
<1>11. docs \in Seq(Document(c)) /\ row \in Row(c) /\ (row.status = "success" => OwnResult)
  <2>1. CASE written = <<>>
    <3>1. docs \in {<<>>, <<OldDocument>>}
      BY <1>6, <1>8, <2>1, ShortSeqs DEF docs
    <3>2. docs \in Seq(Document(c)) /\ row.source = OldDocument /\ ~row.wrote
      <4> HIDE DEF row
      <4>1. CASE docs = <<>>
        BY <1>8, <1>10, <2>1, <4>1, ShortSeqs
      <4>2. CASE docs = <<OldDocument>>
        BY <1>8, <1>10, <2>1, <4>2, ShortSeqs
      <4> QED
        BY <3>1, <4>1, <4>2
    <3>3. row \in Row(c)
      BY <1>4, <1>8, <2>1, <3>1 DEF Row, Parse
    <3> HIDE DEF row
    <3> QED
      BY <3>2, <3>3
  <2>2. CASE written # <<>>
    <3>1. PICK d \in Document(c) :
              /\ written = <<d>>
              /\ d.step = k
              /\ d.ok /\ ManagesServer(c) => listener.kind = "iperf3"
              /\ d.pinned = IF step[2][1] # None /\ c.affinity # None THEN c.affinity ELSE listener.affinity
      <4>1. k \in 0..Len(GenSteps(c))
        BY <1>2, <1>3
      <4> QED
        BY <1>1, <1>7, <2>2, <4>1, ClientFacts DEF c
    <3>2. docs = <<d>> \/ docs = <<OldDocument, d>>
      <4>1. <<>> \o <<d>> = <<d>> /\ <<OldDocument>> \o <<d>> = <<OldDocument, d>>
        BY <1>8, ShortSeqs
      <4> QED
        BY <1>6, <3>1, <4>1 DEF docs
    <3>3. docs \in Seq(Document(c))
      <4>1. <<d>> \in Seq(Document(c)) /\ <<OldDocument, d>> \in Seq(Document(c))
        BY <1>8, ShortSeqs
      <4> QED
        BY <3>2, <4>1
    <3>4. Parse(docs) \in {"success", "error"} /\ (Parse(docs) = "success" => docs = <<d>> /\ d.ok)
      BY <1>8, <3>1, <3>2, ShortSeqs DEF Parse
    <3>5. docs # <<>> /\ docs[1] \in Document(c)
      <4>1. CASE docs = <<d>>
        BY <1>8, <4>1, ShortSeqs
      <4>2. CASE docs = <<OldDocument, d>>
        BY <1>8, <4>2, ShortSeqs
      <4> QED
        BY <3>2, <4>1, <4>2
    <3>6. row \in Row(c)
      BY <1>4, <1>8, <3>4, <3>5 DEF Row
    <3> HIDE DEF row
    <3>7. row.status = "success" => row.source = d /\ d.ok
      BY <1>10, <3>2, <3>4
    <3> QED
      BY <3>1, <3>3, <3>6, <3>7
  <2> QED
    BY <2>1, <2>2
<1> HIDE DEF row
<1>12. \E dd \in Seq(Document(c)), rr \in Row(c) :
          /\ logs' = [logs EXCEPT ![cur][name] = dd]
          /\ rows' = [rows EXCEPT ![cur] = Append(@, rr)]
          /\ rr.run = step[1] /\ rr.point = step[2] /\ rr.settled = settled
          /\ rr.status = "success" =>
                \/ rr.source = OldDocument /\ ~rr.wrote
                \/ /\ rr.source.step = k
                   /\ ManagesServer(c) => listener.kind = "iperf3"
                   /\ rr.source.pinned = IF step[2][1] # None /\ c.affinity # None
                                         THEN c.affinity ELSE listener.affinity
  BY <1>9, <1>10, <1>11
<1> QED
  BY <1>3, <1>5, <1>12 DEF step, k, c, name, settled

----------------------------------------------------------------------------
(* The rows *)

LEMMA RowsTyped ==
    ASSUME IInv, OneStep
    PROVE  /\ DOMAIN rows' = Recipe /\ \A r \in Recipe : rows'[r] \in Seq(Row(cfg[r]))
           /\ DOMAIN logs' = Recipe /\ \A r \in Recipe : logs'[r] \in [LogfileNames(cfg[r]) -> Seq(Document(cfg[r]))]
<1> DEFINE c == cfg[cur]
           name == <<GenSteps(c)[Len(rows[cur]) + 1][1], Len(rows[cur]) + 1>>
<1>1. name \in LogfileNames(c)
  BY OneStepFacts
<1>2. PICK docs \in Seq(Document(c)), row \in Row(c) :
          /\ logs' = [logs EXCEPT ![cur][name] = docs]
          /\ rows' = [rows EXCEPT ![cur] = Append(@, row)]
  BY OneStepFacts
<1>3. cur \in Recipe /\ TypeOK
  BY DEF IInv, TypeOK
<1> HIDE DEF name
<1>4. Append(rows[cur], row) \in Seq(Row(c))
  BY <1>3, AppendProperties DEF TypeOK
<1>5. DOMAIN rows' = Recipe /\ \A r \in Recipe : rows'[r] \in Seq(Row(cfg[r]))
  BY <1>2, <1>3, <1>4 DEF TypeOK
<1>6. [logs[cur] EXCEPT ![name] = docs] \in [LogfileNames(c) -> Seq(Document(c))]
  BY <1>1, <1>3 DEF TypeOK
<1>7. DOMAIN logs' = Recipe /\ \A r \in Recipe : logs'[r] \in [LogfileNames(cfg[r]) -> Seq(Document(cfg[r]))]
  BY <1>2, <1>3, <1>6 DEF TypeOK
<1> QED
  BY <1>5, <1>7

\* The row that is added, and the rows that stay.
LEMMA RowAdded ==
    ASSUME IInv, OneStep
    PROVE  LET c == cfg[cur]
               k == Len(rows[cur]) + 1
           IN /\ k \in 1..Len(GenSteps(c)) /\ Len(rows[cur]) \in Nat /\ Len(rows'[cur]) = k
              /\ \A i \in 1..Len(rows[cur]) : rows'[cur][i] = rows[cur][i]
              /\ \A r \in Recipe \ {cur} : rows'[r] = rows[r] /\ logs'[r] = logs[r]
              /\ \A n \in LogfileNames(c) : n[2] # k => logs'[cur][n] = logs[cur][n]
              /\ <<rows'[cur][k].run, rows'[cur][k].point>> = GenSteps(c)[k]
              /\ rows'[cur][k].settled = ~shaken[cur]
              /\ rows'[cur][k].status = "success" =>
                    \/ rows'[cur][k].source = OldDocument /\ ~rows'[cur][k].wrote
                    \/ /\ rows'[cur][k].source.step = k
                       /\ ManagesServer(c) => listener.kind = "iperf3"
                       /\ rows'[cur][k].source.pinned = IF GenSteps(c)[k][2][1] # None /\ c.affinity # None
                                                        THEN c.affinity ELSE listener.affinity
<1> DEFINE c == cfg[cur]
           k == Len(rows[cur]) + 1
           step == GenSteps(c)[k]
           name == <<step[1], k>>
<1>1. k \in 1..Len(GenSteps(c)) /\ name \in LogfileNames(c)
  BY OneStepFacts
<1>2. PICK docs \in Seq(Document(c)), row \in Row(c) :
          /\ logs' = [logs EXCEPT ![cur][name] = docs]
          /\ rows' = [rows EXCEPT ![cur] = Append(@, row)]
          /\ row.run = step[1] /\ row.point = step[2] /\ row.settled = ~shaken[cur]
          /\ row.status = "success" =>
                \/ row.source = OldDocument /\ ~row.wrote
                \/ /\ row.source.step = k
                   /\ ManagesServer(c) => listener.kind = "iperf3"
                   /\ row.source.pinned = IF step[2][1] # None /\ c.affinity # None
                                          THEN c.affinity ELSE listener.affinity
  BY OneStepFacts
<1>3. cur \in Recipe /\ TypeOK /\ c.sizes \in Seq(Nat) /\ c.client_affinities \in Seq(ClientCpus)
  BY CfgFacts DEF IInv, TypeOK
<1>4. step = <<step[1], step[2]>>
  <2>1. GenSteps(c) \in Seq((1..NumberOfRuns) \X Range(SweepSteps(c)))
    BY <1>3, GenStepsFacts
  <2>2. step \in (1..NumberOfRuns) \X Range(SweepSteps(c))
    BY <1>1, <2>1
  <2> HIDE DEF step
  <2> QED
    BY <2>2
<1>5. /\ Len(rows[cur]) \in Nat /\ Len(Append(rows[cur], row)) = k
      /\ \A i \in 1..Len(rows[cur]) : Append(rows[cur], row)[i] = rows[cur][i]
      /\ Append(rows[cur], row)[k] = row
  BY <1>3, AppendProperties DEF TypeOK
<1>6. /\ rows'[cur] = Append(rows[cur], row)
      /\ \A r \in Recipe \ {cur} : rows'[r] = rows[r] /\ logs'[r] = logs[r]
  BY <1>2, <1>3 DEF TypeOK
<1>7. \A n \in LogfileNames(c) : n[2] # k => logs'[cur][n] = logs[cur][n]
  BY <1>1, <1>2, <1>3 DEF TypeOK
<1> HIDE DEF c, k, step, name
<1>8. rows'[cur][k] = row
  BY <1>5, <1>6
<1> QED
  BY <1>1, <1>2, <1>4, <1>5, <1>6, <1>7, <1>8 DEF c, k, step

LEMMA RowsFollowStepsNext ==
    ASSUME IInv, [Next]_vars
    PROVE  RowsFollowSteps'
<1>1. CASE OneStep
  <2>1. cur \in Recipe /\ cfg' = cfg /\ phase' = "run" /\ status' = status /\ status[cur] = "ready"
    BY <1>1, OneStepFrame DEF IInv, TypeOK
  <2> SUFFICES ASSUME NEW r \in Recipe
               PROVE  /\ Len(rows'[r]) <= Len(GenSteps(cfg[r]))
                      /\ \A i \in 1..Len(rows'[r]) : <<rows'[r][i].run, rows'[r][i].point>> = GenSteps(cfg[r])[i]
                      /\ status[r] = "completed" => Len(rows'[r]) = Len(GenSteps(cfg[r]))
    BY <2>1 DEF RowsFollowSteps
  <2>2. CASE r # cur
    <3>1. rows'[r] = rows[r]
      BY <1>1, <2>2, RowAdded
    <3> QED
      BY <3>1 DEF IInv, RowsFollowSteps
  <2>3. CASE r = cur
    <3> DEFINE k == Len(rows[cur]) + 1
    <3>1. /\ k \in 1..Len(GenSteps(cfg[cur])) /\ Len(rows[cur]) \in Nat /\ Len(rows'[cur]) = k
          /\ \A i \in 1..Len(rows[cur]) : rows'[cur][i] = rows[cur][i]
          /\ <<rows'[cur][k].run, rows'[cur][k].point>> = GenSteps(cfg[cur])[k]
      BY <1>1, RowAdded
    <3>2. \A i \in 1..Len(rows[cur]) : <<rows[cur][i].run, rows[cur][i].point>> = GenSteps(cfg[cur])[i]
      BY <2>1 DEF IInv, RowsFollowSteps
    <3>3. Len(GenSteps(cfg[cur])) \in Nat
      BY <2>1, CfgFacts, GenStepsFacts DEF IInv, TypeOK
    <3>4. ASSUME NEW i \in 1..Len(rows'[cur])
          PROVE  <<rows'[cur][i].run, rows'[cur][i].point>> = GenSteps(cfg[cur])[i]
      <4>1. i = k \/ i \in 1..Len(rows[cur])
        BY <3>1
      <4> QED
        BY <3>1, <3>2, <4>1
    <3> QED
      BY <2>1, <2>3, <3>1, <3>3, <3>4
  <2> QED
    BY <2>2, <2>3
<1>2. CASE ~OneStep
  <2>1. rows' = rows /\ cfg' = cfg
    BY <1>2, Frames
  <2>2. phase' \in {"setup", "alloc"} => phase \in {"setup", "alloc"}
    BY <1>2 DEF IInv, TypeOK, Next, Step, vars, net, CreateResources, NoServer, ProbePort, Reuse, PortInUse,
       StartServer, ServerStarted, ServerFailed, StepRaises, FinishRecipe, Teardown, Outside, Done, Advance, NextPhase, At
  <2>3. ASSUME NEW r \in Recipe, status'[r] = "completed"
        PROVE  status[r] = "completed" \/ (r = cur /\ StepsDone >= Len(GenSteps(cfg[cur])))
    BY <1>2, <2>3 DEF IInv, TypeOK, Next, Step, vars, net, CreateResources, NoServer, ProbePort, Reuse, PortInUse,
       StartServer, ServerStarted, ServerFailed, StepRaises, FinishRecipe, Teardown, Outside, Done, SetStatus
  <2>4. ASSUME NEW r \in Recipe PROVE Len(rows[r]) \in Nat /\ Len(GenSteps(cfg[r])) \in Nat
    BY <2>4, CfgFacts, GenStepsFacts DEF IInv, TypeOK
  <2>5. ASSUME NEW r \in Recipe, status'[r] = "completed" PROVE Len(rows[r]) = Len(GenSteps(cfg[r]))
    BY <2>3, <2>4, <2>5 DEF IInv, RowsFollowSteps, StepsDone
  <2> QED
    BY <2>1, <2>2, <2>5 DEF IInv, RowsFollowSteps
<1> QED
  BY <1>1, <1>2

LEMMA LogsToComeNext ==
    ASSUME IInv, [Next]_vars
    PROVE  LogsToCome'
<1>1. CASE OneStep
  <2>1. cur \in Recipe /\ cfg' = cfg
    BY <1>1, OneStepFrame DEF IInv, TypeOK
  <2> SUFFICES ASSUME NEW r \in Recipe, NEW n \in LogfileNames(cfg[r]), n[2] > Len(rows'[r])
               PROVE  logs'[r][n] \in {<<>>, <<OldDocument>>}
    BY <2>1 DEF LogsToCome
  <2>2. CASE r # cur
    BY <1>1, <2>2, RowAdded DEF IInv, LogsToCome
  <2>3. CASE r = cur
    <3>1. n[2] \in Int
      BY DEF LogfileNames
    <3>2. n[2] > Len(rows[cur]) /\ logs'[cur][n] = logs[cur][n]
      BY <1>1, <2>3, <3>1, RowAdded
    <3> QED
      BY <2>1, <2>3, <3>2 DEF IInv, LogsToCome
  <2> QED
    BY <2>2, <2>3
<1>2. CASE ~OneStep
  BY <1>2, Frames DEF IInv, LogsToCome
<1> QED
  BY <1>1, <1>2

LEMMA SuccessIsOwnResultNext ==
    ASSUME IInv, [Next]_vars
    PROVE  SuccessIsOwnResult'
<1>1. CASE OneStep
  <2>1. cur \in Recipe /\ \A r \in Recipe : DOMAIN rows[r] = 1..Len(rows[r]) /\ DOMAIN rows'[r] = 1..Len(rows'[r])
    BY <1>1, RowsTyped DEF IInv, TypeOK
  <2> SUFFICES ASSUME NEW r \in Recipe, NEW i \in 1..Len(rows'[r]), rows'[r][i].status = "success"
               PROVE  \/ rows'[r][i].source.step = i
                      \/ rows'[r][i].source = OldDocument /\ ~rows'[r][i].wrote
    BY <2>1 DEF SuccessIsOwnResult, OldDocument
  <2>2. CASE r # cur
    BY <1>1, <2>1, <2>2, RowAdded DEF IInv, SuccessIsOwnResult
  <2>3. CASE r = cur /\ i = Len(rows[cur]) + 1
    BY <1>1, <2>3, RowAdded
  <2>4. CASE r = cur /\ i \in 1..Len(rows[cur])
    BY <1>1, <2>1, <2>4, RowAdded DEF IInv, SuccessIsOwnResult
  <2>5. r = cur => i = Len(rows[cur]) + 1 \/ i \in 1..Len(rows[cur])
    BY <1>1, RowAdded
  <2> QED
    BY <2>2, <2>3, <2>4, <2>5
<1>2. CASE ~OneStep
  BY <1>2, Frames DEF IInv, SuccessIsOwnResult, OldDocument
<1> QED
  BY <1>1, <1>2

\* With client affinities every step names a CPU.
LEMMA StepNamesCpu ==
    ASSUME NEW c, c.sizes \in Seq(Nat), c.client_affinities \in Seq(ClientCpus), c.client_affinities # <<>>,
           NEW k \in 1..Len(GenSteps(c))
    PROVE  GenSteps(c)[k][2][1] # None
<1> DEFINE cpus == ClientAffinitySweepValues(c.client_affinities)
           l == Len(SweepValues(c.sizes))
           n == Len(SweepSteps(c))
           i == ((k - 1) % n) + 1
           x == ((i - 1) \div l) + 1
<1>1. GenSteps(c)[k][2] = SweepSteps(c)[i] /\ i \in 1..n
  <2>1. \A j \in 1..Len(GenSteps(c)) :
            /\ GenSteps(c)[j] = <<((j - 1) \div n) + 1, SweepSteps(c)[((j - 1) % n) + 1]>>
            /\ ((j - 1) % n) + 1 \in 1..n
    BY GenStepsFacts
  <2>2. GenSteps(c)[k] = <<((k - 1) \div n) + 1, SweepSteps(c)[i]>> /\ i \in 1..n
    BY <2>1
  <2> HIDE DEF i, n
  <2> QED
    BY <2>2
<1>2. \A j \in 1..n : SweepSteps(c)[j][1] = cpus[((j - 1) \div l) + 1] /\ ((j - 1) \div l) + 1 \in 1..Len(cpus)
  <2> DEFINE sizes == SweepValues(c.sizes)
  <2>1. \A j \in 1..n :
            /\ SweepSteps(c)[j] = <<cpus[((j - 1) \div l) + 1], sizes[((j - 1) % l) + 1]>>
            /\ ((j - 1) \div l) + 1 \in 1..Len(cpus)
    BY SweepStepsFacts
  <2> HIDE DEF cpus, l, n, sizes
  <2> QED
    BY <2>1
<1>3. cpus = c.client_affinities
  BY DEF ClientAffinitySweepValues
<1> HIDE DEF cpus, l, n, i
<1>4. SweepSteps(c)[i][1] = cpus[x] /\ x \in 1..Len(cpus)
  BY <1>1, <1>2
<1> HIDE DEF x
<1>5. cpus[x] \in ClientCpus
  BY <1>3, <1>4
<1> QED
  BY <1>1, <1>4, <1>5, SweepAssumption

LEMMA MeasuredAsRequestedNext ==
    ASSUME IInv, [Next]_vars
    PROVE  MeasuredAsRequested'
<1> DEFINE Fits(r, row, i) ==
              (row.status = "success" /\ row.source.step = i /\ row.settled /\ ManagesServer(cfg[r]))
              => \/ row.source.pinned = cfg[r].affinity
                 \/ row.source.pinned = None /\ ~owns'[r] /\ cfg[r].client_affinities = <<>>
<1>1. /\ cfg' = cfg
      /\ \A r \in Recipe : owns'[r] => owns[r] \/ rows[r] = <<>>
  <2>1. cfg' = cfg
    BY Frames
  <2>2. \A r \in Recipe : owns'[r] => owns[r] \/ phase = "alloc"
    BY DEF IInv, TypeOK, Next, Step, vars, net, CreateResources, NoServer, ProbePort, Reuse, PortInUse,
       StartServer, ServerStarted, ServerFailed, OneStep, StepRaises, FinishRecipe, Teardown, Outside, Done, At
  <2> QED
    BY <2>1, <2>2 DEF IInv, RowsFollowSteps
<1>2. \A r \in Recipe : DOMAIN rows[r] = 1..Len(rows[r]) /\ Len(rows[r]) \in Nat
  BY DEF IInv, TypeOK
<1>3. ASSUME NEW r \in Recipe, NEW i \in 1..Len(rows[r])
      PROVE  Fits(r, rows[r][i], i)
  <2>1. rows[r] # <<>>
    BY <1>2, <1>3
  <2>2. owns'[r] => owns[r]
    BY <1>1, <2>1
  <2> QED
    BY <1>2, <2>2 DEF IInv, MeasuredAsRequested
<1>4. CASE OneStep
  <2> DEFINE c == cfg[cur]
             k == Len(rows[cur]) + 1
  <2>1. /\ cur \in Recipe /\ \A r \in Recipe : DOMAIN rows'[r] = 1..Len(rows'[r])
        /\ c.sizes \in Seq(Nat) /\ c.client_affinities \in Seq(ClientCpus)
    BY <1>4, RowsTyped, CfgFacts DEF IInv, TypeOK
  <2>2. phase = "run" /\ status[cur] = "ready" /\ owns' = owns
    BY <1>4, OneStepFrame
  <2> SUFFICES ASSUME NEW r \in Recipe, NEW i \in 1..Len(rows'[r])
               PROVE  Fits(r, rows'[r][i], i)
    BY <1>1, <2>1 DEF MeasuredAsRequested
  <2>3. CASE r # cur
    <3>1. rows'[r] = rows[r]
      BY <1>4, <2>3, RowAdded
    <3> QED
      BY <1>3, <3>1
  <2>4. CASE r = cur /\ i \in 1..Len(rows[cur])
    <3>1. rows'[r][i] = rows[r][i]
      BY <1>4, <2>4, RowAdded
    <3> QED
      BY <1>3, <2>4, <3>1
  <2>5. CASE r = cur /\ i = k
    <3> DEFINE row == rows'[cur][k]
               cpu == GenSteps(c)[k][2][1]
    <3> SUFFICES ASSUME row.status = "success", row.source.step = k, row.settled, ManagesServer(c)
                 PROVE  \/ row.source.pinned = c.affinity
                        \/ row.source.pinned = None /\ ~owns[cur] /\ c.client_affinities = <<>>
      BY <2>2, <2>5
    <3>1. k \in 1..Len(GenSteps(c)) /\ Len(rows[cur]) \in Nat /\ row.settled = ~shaken[cur]
      BY <1>4, RowAdded
    <3>2. row.source # OldDocument
      BY <3>1 DEF OldDocument
    <3>3. row.source.pinned = IF cpu # None /\ c.affinity # None THEN c.affinity ELSE listener.affinity
      BY <1>4, <3>2, RowAdded
    <3>4. applied[cur]
      BY <2>1, <2>2 DEF IInv, ReadyServed
    <3>5. /\ AffinityCompatible(c.affinity, listener.affinity)
          /\ owns[cur] => listener.affinity = c.affinity
      BY <2>1, <2>2, <3>1, <3>4 DEF IInv, StillServed, TypeOK
    <3>6. cpu = None => c.client_affinities = <<>>
      BY <2>1, <3>1, StepNamesCpu
    <3> HIDE DEF row, cpu, c, k
    <3> QED
      BY <3>3, <3>5, <3>6 DEF AffinityCompatible
  <2>6. r = cur => i = k \/ i \in 1..Len(rows[cur])
    BY <1>4, RowAdded
  <2> QED
    BY <2>3, <2>4, <2>5, <2>6
<1>5. CASE ~OneStep
  <2>1. rows' = rows
    BY <1>5, Frames
  <2> QED
    BY <1>1, <1>2, <1>3, <2>1 DEF MeasuredAsRequested
<1> QED
  BY <1>4, <1>5

LEMMA TypeOKNext ==
    ASSUME IInv, [Next]_vars
    PROVE  TypeOK'
<1> USE SweepAssumption DEF IInv, TypeOK, Listeners, Nobody, Recipe, At, vars, net
<1>1. CASE UNCHANGED vars
  BY <1>1
<1>2. CASE CreateResources
  BY <1>2 DEF CreateResources, Advance, NextPhase, SetStatus
<1>3. CASE NoServer
  BY <1>3 DEF NoServer, Advance, NextPhase, SetStatus
<1>4. CASE ProbePort
  BY <1>4 DEF ProbePort
<1>5. CASE Reuse
  BY <1>5 DEF Reuse, Advance, NextPhase, SetStatus, ExistingServerMatches, HasExistingServer
<1>6. CASE PortInUse
  BY <1>6 DEF PortInUse, Advance, NextPhase, SetStatus, ExistingServerMatches, HasExistingServer
<1>7. CASE StartServer
  BY <1>7 DEF StartServer
<1>8. CASE ServerStarted
  BY <1>8 DEF ServerStarted, Advance, NextPhase, SetStatus
<1>9. CASE ServerFailed
  BY <1>9 DEF ServerFailed, Advance, NextPhase, SetStatus
<1>10. CASE OneStep
  <2>1. UNCHANGED <<cfg, phase, cur, pc, net, owns, applied, status, shaken>>
    BY <1>10, OneStepFrame
  <2>2. /\ DOMAIN rows' = Recipe /\ \A r \in Recipe : rows'[r] \in Seq(Row(cfg[r]))
        /\ DOMAIN logs' = Recipe /\ \A r \in Recipe : logs'[r] \in [LogfileNames(cfg[r]) -> Seq(Document(cfg[r]))]
    BY <1>10, RowsTyped
  <2> QED
    BY <2>1, <2>2 DEF IInv, TypeOK, net
<1>11. CASE StepRaises
  BY <1>11 DEF StepRaises, Advance, NextPhase, SetStatus
<1>12. CASE FinishRecipe
  BY <1>12 DEF FinishRecipe, Advance, NextPhase, SetStatus
<1>13. CASE Teardown
  BY <1>13 DEF Teardown, Advance, NextPhase, SetStatus, StopsServer
<1>14. CASE Outside
  BY <1>14 DEF Outside
<1>15. CASE Done
  BY <1>15 DEF Done
<1> QED
  BY <1>1, <1>2, <1>3, <1>4, <1>5, <1>6, <1>7, <1>8,
     <1>9, <1>10, <1>11, <1>12, <1>13, <1>14, <1>15
  DEF Next, Step

LEMMA StatusFitsNext ==
    ASSUME IInv, [Next]_vars
    PROVE  StatusFits'
<1> USE DEF IInv, TypeOK, StatusFits, Recipe, At, vars, net
<1>1. CASE UNCHANGED vars
  BY <1>1
<1>2. CASE CreateResources
  BY <1>2 DEF CreateResources, Advance, NextPhase, SetStatus
<1>3. CASE NoServer
  BY <1>3 DEF NoServer, Advance, NextPhase, SetStatus
<1>4. CASE ProbePort
  BY <1>4 DEF ProbePort
<1>5. CASE Reuse
  BY <1>5 DEF Reuse, Advance, NextPhase, SetStatus, ExistingServerMatches, HasExistingServer
<1>6. CASE PortInUse
  BY <1>6 DEF PortInUse, Advance, NextPhase, SetStatus, ExistingServerMatches, HasExistingServer
<1>7. CASE StartServer
  BY <1>7 DEF StartServer
<1>8. CASE ServerStarted
  BY <1>8 DEF ServerStarted, Advance, NextPhase, SetStatus
<1>9. CASE ServerFailed
  BY <1>9 DEF ServerFailed, Advance, NextPhase, SetStatus
<1>10. CASE OneStep
  BY <1>10, OneStepFrame
<1>11. CASE StepRaises
  BY <1>11 DEF StepRaises, Advance, NextPhase, SetStatus
<1>12. CASE FinishRecipe
  BY <1>12 DEF FinishRecipe, Advance, NextPhase, SetStatus
<1>13. CASE Teardown
  BY <1>13 DEF Teardown, Advance, NextPhase, SetStatus, StopsServer
<1>14. CASE Outside
  BY <1>14 DEF Outside
<1>15. CASE Done
  BY <1>15 DEF Done
<1> QED
  BY <1>1, <1>2, <1>3, <1>4, <1>5, <1>6, <1>7, <1>8,
     <1>9, <1>10, <1>11, <1>12, <1>13, <1>14, <1>15
  DEF Next, Step

\* A server is started where nobody listens; whoever ends it frees the port.
LEMMA ServerListensNext ==
    ASSUME IInv, [Next]_vars
    PROVE  ServerListens'
<1> USE DEF IInv, TypeOK, StatusFits, ServerListens, NotYet, Listeners, Nobody, Recipe, At, vars, net
<1>1. CASE UNCHANGED vars
  BY <1>1
<1>2. CASE CreateResources
  BY <1>2 DEF CreateResources, Advance, NextPhase, SetStatus
<1>3. CASE NoServer
  BY <1>3 DEF NoServer, Advance, NextPhase, SetStatus
<1>4. CASE ProbePort
  BY <1>4 DEF ProbePort
<1>5. CASE Reuse
  BY <1>5 DEF Reuse, Advance, NextPhase, SetStatus, ExistingServerMatches, HasExistingServer
<1>6. CASE PortInUse
  BY <1>6 DEF PortInUse, Advance, NextPhase, SetStatus, ExistingServerMatches, HasExistingServer
<1>7. CASE StartServer
  BY <1>7 DEF StartServer
<1>8. CASE ServerStarted
  BY <1>8 DEF ServerStarted, Advance, NextPhase, SetStatus
<1>9. CASE ServerFailed
  BY <1>9 DEF ServerFailed, Advance, NextPhase, SetStatus
<1>10. CASE OneStep
  BY <1>10, OneStepFrame
<1>11. CASE StepRaises
  BY <1>11 DEF StepRaises, Advance, NextPhase, SetStatus
<1>12. CASE FinishRecipe
  BY <1>12 DEF FinishRecipe, Advance, NextPhase, SetStatus
<1>13. CASE Teardown
  BY <1>13 DEF Teardown, Advance, NextPhase, SetStatus, StopsServer
<1>14. CASE Outside
  BY <1>14 DEF Outside
<1>15. CASE Done
  BY <1>15 DEF Done
<1> QED
  BY <1>1, <1>2, <1>3, <1>4, <1>5, <1>6, <1>7, <1>8,
     <1>9, <1>10, <1>11, <1>12, <1>13, <1>14, <1>15
  DEF Next, Step

LEMMA NotYetNext ==
    ASSUME IInv, [Next]_vars
    PROVE  NotYet'
<1> USE DEF IInv, TypeOK, StatusFits, ServerListens, NotYet, Recipe, At, vars, net
<1>1. CASE UNCHANGED vars
  BY <1>1
<1>2. CASE CreateResources
  BY <1>2 DEF CreateResources, Advance, NextPhase, SetStatus
<1>3. CASE NoServer
  BY <1>3 DEF NoServer, Advance, NextPhase, SetStatus
<1>4. CASE ProbePort
  BY <1>4 DEF ProbePort
<1>5. CASE Reuse
  BY <1>5 DEF Reuse, Advance, NextPhase, SetStatus, ExistingServerMatches, HasExistingServer
<1>6. CASE PortInUse
  BY <1>6 DEF PortInUse, Advance, NextPhase, SetStatus, ExistingServerMatches, HasExistingServer
<1>7. CASE StartServer
  BY <1>7 DEF StartServer
<1>8. CASE ServerStarted
  BY <1>8 DEF ServerStarted, Advance, NextPhase, SetStatus
<1>9. CASE ServerFailed
  BY <1>9 DEF ServerFailed, Advance, NextPhase, SetStatus
<1>10. CASE OneStep
  BY <1>10, OneStepFrame
<1>11. CASE StepRaises
  BY <1>11 DEF StepRaises, Advance, NextPhase, SetStatus
<1>12. CASE FinishRecipe
  BY <1>12 DEF FinishRecipe, Advance, NextPhase, SetStatus
<1>13. CASE Teardown
  BY <1>13 DEF Teardown, Advance, NextPhase, SetStatus, StopsServer
<1>14. CASE Outside
  BY <1>14 DEF Outside
<1>15. CASE Done
  BY <1>15 DEF Done
<1> QED
  BY <1>1, <1>2, <1>3, <1>4, <1>5, <1>6, <1>7, <1>8,
     <1>9, <1>10, <1>11, <1>12, <1>13, <1>14, <1>15
  DEF Next, Step

\* A server that is started becomes one its recipe owns, and its recipe is not
\* skipped any more; the loop of the teardown comes to it.
LEMMA WillStopNext ==
    ASSUME IInv, [Next]_vars
    PROVE  WillStop'
<1> USE DEF IInv, TypeOK, StatusFits, ServerListens, NotYet, WillStop, StopsServer, Recipe, At, vars, net
<1>1. CASE UNCHANGED vars
  BY <1>1
<1>2. CASE CreateResources
  BY <1>2 DEF CreateResources, Advance, NextPhase, SetStatus
<1>3. CASE NoServer
  BY <1>3 DEF NoServer, Advance, NextPhase, SetStatus
<1>4. CASE ProbePort
  BY <1>4 DEF ProbePort
<1>5. CASE Reuse
  BY <1>5 DEF Reuse, Advance, NextPhase, SetStatus, ExistingServerMatches, HasExistingServer
<1>6. CASE PortInUse
  BY <1>6 DEF PortInUse, Advance, NextPhase, SetStatus, ExistingServerMatches, HasExistingServer
<1>7. CASE StartServer
  BY <1>7 DEF StartServer
<1>8. CASE ServerStarted
  BY <1>8 DEF ServerStarted, Advance, NextPhase, SetStatus
<1>9. CASE ServerFailed
  BY <1>9 DEF ServerFailed, Advance, NextPhase, SetStatus
<1>10. CASE OneStep
  BY <1>10, OneStepFrame
<1>11. CASE StepRaises
  BY <1>11 DEF StepRaises, Advance, NextPhase, SetStatus
<1>12. CASE FinishRecipe
  BY <1>12 DEF FinishRecipe, Advance, NextPhase, SetStatus
<1>13. CASE Teardown
  BY <1>13 DEF Teardown, Advance, NextPhase, SetStatus, StopsServer
<1>14. CASE Outside
  BY <1>14 DEF Outside
<1>15. CASE Done
  BY <1>15 DEF Done
<1> QED
  BY <1>1, <1>2, <1>3, <1>4, <1>5, <1>6, <1>7, <1>8,
     <1>9, <1>10, <1>11, <1>12, <1>13, <1>14, <1>15
  DEF Next, Step

LEMMA ReadyServedNext ==
    ASSUME IInv, [Next]_vars
    PROVE  ReadyServed'
<1> USE DEF IInv, TypeOK, StatusFits, ReadyServed, Recipe, At, vars, net
<1>1. CASE UNCHANGED vars
  BY <1>1
<1>2. CASE CreateResources
  BY <1>2 DEF CreateResources, Advance, NextPhase, SetStatus
<1>3. CASE NoServer
  BY <1>3 DEF NoServer, Advance, NextPhase, SetStatus
<1>4. CASE ProbePort
  BY <1>4 DEF ProbePort
<1>5. CASE Reuse
  BY <1>5 DEF Reuse, Advance, NextPhase, SetStatus, ExistingServerMatches, HasExistingServer
<1>6. CASE PortInUse
  BY <1>6 DEF PortInUse, Advance, NextPhase, SetStatus, ExistingServerMatches, HasExistingServer
<1>7. CASE StartServer
  BY <1>7 DEF StartServer
<1>8. CASE ServerStarted
  BY <1>8 DEF ServerStarted, Advance, NextPhase, SetStatus
<1>9. CASE ServerFailed
  BY <1>9 DEF ServerFailed, Advance, NextPhase, SetStatus
<1>10. CASE OneStep
  BY <1>10, OneStepFrame
<1>11. CASE StepRaises
  BY <1>11 DEF StepRaises, Advance, NextPhase, SetStatus
<1>12. CASE FinishRecipe
  BY <1>12 DEF FinishRecipe, Advance, NextPhase, SetStatus
<1>13. CASE Teardown
  BY <1>13 DEF Teardown, Advance, NextPhase, SetStatus, StopsServer
<1>14. CASE Outside
  BY <1>14 DEF Outside
<1>15. CASE Done
  BY <1>15 DEF Done
<1> QED
  BY <1>1, <1>2, <1>3, <1>4, <1>5, <1>6, <1>7, <1>8,
     <1>9, <1>10, <1>11, <1>12, <1>13, <1>14, <1>15
  DEF Next, Step

\* A recipe that is set up has an iperf3 server on its port, so no other recipe
\* starts one there; who else changes the port is noticed.
LEMMA StillServedNext ==
    ASSUME IInv, [Next]_vars
    PROVE  StillServed'
<1> USE DEF IInv, TypeOK, StatusFits, ServerListens, NotYet, StillServed, Nobody, Recipe, At, vars, net
<1>1. CASE UNCHANGED vars
  BY <1>1
<1>2. CASE CreateResources
  BY <1>2 DEF CreateResources, Advance, NextPhase, SetStatus
<1>3. CASE NoServer
  BY <1>3 DEF NoServer, Advance, NextPhase, SetStatus
<1>4. CASE ProbePort
  BY <1>4 DEF ProbePort
<1>5. CASE Reuse
  BY <1>5 DEF Reuse, Advance, NextPhase, SetStatus, ExistingServerMatches, HasExistingServer
<1>6. CASE PortInUse
  BY <1>6 DEF PortInUse, Advance, NextPhase, SetStatus, ExistingServerMatches, HasExistingServer
<1>7. CASE StartServer
  BY <1>7 DEF StartServer
<1>8. CASE ServerStarted
  <2>1. /\ cur \in Recipe /\ cfg' = cfg /\ listener' = listener
        /\ \A r \in Recipe \ {cur} : applied'[r] = applied[r] /\ owns'[r] = owns[r] /\ shaken'[r] = shaken[r]
        /\ phase = "alloc"
    BY <1>8 DEF ServerStarted
  <2>2. ASSUME ~shaken'[cur]
        PROVE  listener.kind = "iperf3" /\ listener.affinity = cfg[cur].affinity
    <3>1. server[cur] = "up"
      <4>1. server[cur] # "dead"
        BY <1>8, <2>1, <2>2 DEF ServerStarted
      <4>2. server[cur] # "none"
        BY <1>8 DEF ServerStarted
      <4> QED
        BY <2>1, <4>1, <4>2
    <3> QED
      BY <2>1, <3>1
  <2>3. AffinityCompatible(cfg[cur].affinity, cfg[cur].affinity)
    BY DEF AffinityCompatible
  <2>4. ASSUME NEW r \in Recipe, applied'[r], ~shaken'[r]
        PROVE  /\ listener.kind = "iperf3"
               /\ AffinityCompatible(cfg[r].affinity, listener.affinity)
               /\ owns'[r] => listener.affinity = cfg[r].affinity
    <3>1. CASE r = cur
      BY <2>2, <2>3, <2>4, <3>1
    <3>2. CASE r # cur
      BY <2>1, <2>4, <3>2
    <3> QED
      BY <3>1, <3>2
  <2> QED
    BY <2>1, <2>4
<1>9. CASE ServerFailed
  BY <1>9 DEF ServerFailed, Advance, NextPhase, SetStatus
<1>10. CASE OneStep
  BY <1>10, OneStepFrame
<1>11. CASE StepRaises
  BY <1>11 DEF StepRaises, Advance, NextPhase, SetStatus
<1>12. CASE FinishRecipe
  BY <1>12 DEF FinishRecipe, Advance, NextPhase, SetStatus
<1>13. CASE Teardown
  BY <1>13 DEF Teardown, Advance, NextPhase, SetStatus, StopsServer
<1>14. CASE Outside
  BY <1>14 DEF Outside
<1>15. CASE Done
  BY <1>15 DEF Done
<1> QED
  BY <1>1, <1>2, <1>3, <1>4, <1>5, <1>6, <1>7, <1>8,
     <1>9, <1>10, <1>11, <1>12, <1>13, <1>14, <1>15
  DEF Next, Step

----------------------------------------------------------------------------
(* The theorems *)

LEMMA InitIInv == Init => IInv
<1> SUFFICES ASSUME Init PROVE IInv
  OBVIOUS
<1> USE DEF Init
<1>1. \A r \in Recipe : cfg[r].sizes \in Seq(Nat) /\ cfg[r].client_affinities \in Seq(ClientCpus)
  BY CfgFacts
<1>2. \A r \in Recipe : Len(GenSteps(cfg[r])) \in Nat
  BY <1>1, GenStepsFacts
<1>3. PICK first \in {<<>>, <<OldDocument>>} :
          logs = [r \in Recipe |-> [n \in LogfileNames(cfg[r]) |-> first]]
  BY Zenon
<1>4. \A r \in Recipe : \A n \in LogfileNames(cfg[r]) : logs[r][n] \in {<<>>, <<OldDocument>>}
  BY <1>3
<1>5. TypeOK
  <2>1. \A r \in Recipe : OldDocument \in Document(cfg[r])
    BY <1>2 DEF OldDocument, Document
  <2>2. \A r \in Recipe : <<>> \in Seq(Document(cfg[r])) /\ <<OldDocument>> \in Seq(Document(cfg[r]))
    BY <2>1, ShortSeqs
  <2>3. \A r \in Recipe : first \in Seq(Document(cfg[r]))
    BY <2>2
  <2>4. DOMAIN logs = Recipe /\ \A r \in Recipe : logs[r] \in [LogfileNames(cfg[r]) -> Seq(Document(cfg[r]))]
    BY <1>3, <2>3
  <2>5. DOMAIN rows = Recipe /\ \A r \in Recipe : rows[r] \in Seq(Row(cfg[r]))
    OBVIOUS
  <2>6. listener \in Listeners /\ cur \in Recipe /\ outside \in 0..MaxOutside
    BY SweepAssumption DEF Recipe
  <2> QED
    BY <2>4, <2>5, <2>6 DEF TypeOK
<1>6. StatusFits /\ NotYet /\ WillStop /\ ReadyServed /\ StillServed
  BY DEF StatusFits, NotYet, WillStop, ReadyServed, StillServed, Recipe
<1>7. ServerListens
  BY DEF ServerListens, Recipe
<1>8. RowsFollowSteps /\ LogsToCome /\ SuccessIsOwnResult /\ MeasuredAsRequested
  BY <1>2, <1>4 DEF RowsFollowSteps, LogsToCome, SuccessIsOwnResult, MeasuredAsRequested
<1> QED
  BY <1>5, <1>6, <1>7, <1>8 DEF IInv

(* The inductive invariant holds in every state, whatever the settings and the *)
(* number of runs, and whatever other programs do on the port.                 *)
THEOREM Invariance == Spec => []IInv
<1>1. Init => IInv
  BY InitIInv
<1>2. IInv /\ [Next]_vars => IInv'
  BY TypeOKNext, StatusFitsNext, ServerListensNext, NotYetNext, WillStopNext, ReadyServedNext, StillServedNext,
     RowsFollowStepsNext, LogsToComeNext, SuccessIsOwnResultNext, MeasuredAsRequestedNext
  DEF IInv
<1> QED
  BY <1>1, <1>2, PTL DEF Spec

(* At the end of the command nobody listens on behalf of a recipe and no       *)
(* server it started is up.                                                    *)
THEOREM StopsEveryServer == Spec => []NoServerLeft
<1>1. IInv => NoServerLeft
  BY DEF IInv, TypeOK, NoServerLeft, WillStop, ServerListens, Listeners, Nobody, Recipe
<1> QED
  BY <1>1, Invariance, PTL

(* Every row is the result of its own step: a recipe that completes has one    *)
(* row for each run and each combination of the swept values, a success is     *)
(* what the step's own client wrote, and it was measured as requested.         *)
THEOREM EveryRowIsItsResult == Spec => []RowsAreResults
<1>1. IInv => RowsAreResults
  <2> SUFFICES ASSUME IInv PROVE RowsOfEveryStep
    BY DEF IInv, RowsAreResults
  <2> SUFFICES ASSUME NEW r \in Recipe, status[r] = "completed"
               PROVE  LET sizes == SweepValues(cfg[r].sizes)
                          cpus == ClientAffinitySweepValues(cfg[r].client_affinities)
                          all == (1..NumberOfRuns) \X (Range(cpus) \X Range(sizes))
                      IN /\ Len(rows[r]) = NumberOfRuns * Len(sizes) * Len(cpus)
                         /\ {<<rows[r][i].run, rows[r][i].point>> : i \in DOMAIN rows[r]} = all
                         /\ \A i, j \in DOMAIN rows[r] : i < j => rows[r][i].run <= rows[r][j].run
    BY DEF RowsOfEveryStep
  <2> DEFINE sizes == SweepValues(cfg[r].sizes)
             cpus == ClientAffinitySweepValues(cfg[r].client_affinities)
             all == (1..NumberOfRuns) \X (Range(cpus) \X Range(sizes))
             steps == GenSteps(cfg[r])
  <2>1. /\ DOMAIN rows[r] = 1..Len(steps) /\ Len(rows[r]) = Len(steps)
        /\ \A i \in 1..Len(steps) : <<rows[r][i].run, rows[r][i].point>> = steps[i]
    <3>1. DOMAIN rows[r] = 1..Len(rows[r])
      BY DEF IInv, TypeOK
    <3>2. /\ Len(rows[r]) = Len(steps)
          /\ \A i \in 1..Len(rows[r]) : <<rows[r][i].run, rows[r][i].point>> = steps[i]
      BY DEF IInv, RowsFollowSteps
    <3> QED
      BY <3>1, <3>2
  <2>2. cfg[r].sizes \in Seq(Nat) /\ cfg[r].client_affinities \in Seq(ClientCpus)
    BY CfgFacts DEF IInv, TypeOK
  <2>3. /\ Len(steps) = NumberOfRuns * Len(sizes) * Len(cpus)
        /\ {steps[k] : k \in 1..Len(steps)} = all
        /\ \A j, k \in 1..Len(steps) : j < k => steps[j][1] <= steps[k][1]
    BY <2>2, AllSteps
  <2> HIDE DEF sizes, cpus, all, steps
  <2>4. {<<rows[r][i].run, rows[r][i].point>> : i \in DOMAIN rows[r]} = {steps[k] : k \in 1..Len(steps)}
    BY <2>1
  <2>5. \A i \in 1..Len(steps) : rows[r][i].run = steps[i][1]
    BY <2>1
  <2>6. \A i, j \in DOMAIN rows[r] : i < j => rows[r][i].run <= rows[r][j].run
    BY <2>1, <2>3, <2>5
  <2> QED
    BY <2>1, <2>3, <2>4, <2>6 DEF sizes, cpus, all
<1> QED
  BY <1>1, Invariance, PTL

(* The program does not stop a server while a recipe has steps to run.         *)
THEOREM ServerServesToTheEnd == Spec => ServerOutlivesItsUsers
<1> DEFINE Outlives == \A r \in Recipe : (server[r] = "up" /\ server'[r] = "none")
                          => \A q \in Recipe : status[q] # "ready"
<1>1. IInv /\ [Next]_vars => [Outlives]_vars
  <2> SUFFICES ASSUME IInv, Next PROVE Outlives
    OBVIOUS
  <2>1. CASE Teardown
    BY <2>1 DEF IInv, StatusFits, Teardown, At
  <2>2. CASE ~Teardown
    BY <2>2 DEF IInv, TypeOK, NotYet, StatusFits, Next, Step, vars, net, CreateResources, NoServer, ProbePort, Reuse,
       PortInUse, StartServer, ServerStarted, ServerFailed, OneStep, StepRaises, FinishRecipe, Outside, Done
  <2> QED
    BY <2>1, <2>2
<1> QED
  BY <1>1, Invariance, PTL DEF Spec, ServerOutlivesItsUsers
===========================================================================
