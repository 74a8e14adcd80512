SPECIFICATION FairSpec
CONSTANTS
    Command = {"run", "report"}
    sweep = sweep
    idle = idle
    storage = storage
    iperf = iperf
    outdir = outdir
    hp1 = hp1
    hp2 = hp2
    numactl = numactl
    rawdir = rawdir
    tmpfile = tmpfile
    server = server
    Order <- MCOrder
    Resource <- MCResource
    Local <- MCLocal
    Global <- MCGlobal
    DependsOn <- MCDependsOn
    TeardownMayFail = {rawdir, outdir}
    LeavesPartial = {tmpfile}
    ClearsApplied = {server}
    TeardownOnce = {hp1, hp2}
    MaxInterrupts = 2
INVARIANTS
    RunsPrepared
    OutcomeRecorded
    CleanExit
PROPERTIES
    RestoredInReverse
    Terminates
