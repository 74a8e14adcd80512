----------------------------- MODULE MCRunDiff -----------------------------
(* Two folders of this version and one that an older one may have left; the   *)
(* base name of the first is that of the second.  Two keys, whose rows may    *)
(* come in either order.                                                      *)
EXTENDS RunDiff

MCRunName == [f \in Folder |-> IF f = "a/run" THEN "run" ELSE f]

Row(key, value) == [key |-> key, value |-> value]

Number(n) == [number |-> n]

\* 1.5 and 0.002.
InOrder == <<Row("a", Number(1500)), Row("b", Number(2))>>

\* The same the other way round; a zero; a text and a small difference.
MCResults ==
    {InOrder, <<Row("b", Number(2)), Row("a", Number(1500))>>,
     <<Row("a", Number(0))>>, <<Row("b", [text |-> "x"]), Row("a", Number(1497))>>}

OldRun(version) == [version |-> version, results |-> [r \in Recipe |-> InOrder]]

MCOldRuns == [f \in Folder |-> IF f = "old" THEN {OldRun("0.4"), OldRun("0.5"), OldRun("0.6")} ELSE {}]

MCCommands ==
    {[dirs |-> <<"a/run", "run">>, baseline |-> {}, only |-> {}],
     [dirs |-> <<"a/run", "old">>, baseline |-> {}, only |-> {}],
     [dirs |-> <<"a/run", "run", "old">>, baseline |-> {"old"}, only |-> {}],
     [dirs |-> <<"old", "a/run">>, baseline |-> {"a/run"}, only |-> {"latency-sweep"}]}
=============================================================================
