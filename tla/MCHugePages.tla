---------------------------- MODULE MCHugePages ----------------------------
(* Three recipes on two nodes.  Node 1 lists only the small page size, node 2 *)
(* only the large one.  r1 asks for a large page on both (node 1 falls back   *)
(* to two small ones), r2 wants one small page on node 1 and two large ones   *)
(* on node 2, and r3 wants a small page on both, which node 2 cannot give.    *)
EXTENDS HugePages, TLC

CONSTANTS r1, r2, r3

MCAvailable == (1 :> {1}) @@ (2 :> {2})

Ask(s, c) == [size |-> s, count |-> c]

MCRequestInfo == (r1 :> <<Ask(2, 1), Ask(2, 1)>>)
              @@ (r2 :> <<Ask(1, 1), Ask(2, 2)>>)
              @@ (r3 :> <<Ask(1, 1), Ask(1, 1)>>)

\* What the memory recipes ask for: one large page on every node.
MCSmallOnly == [n \in 1 .. NodeCount |-> {1}]
MCBothSizes == [n \in 1 .. NodeCount |-> {1, 2}]
MCSameRequest == [r \in Requestor |-> [n \in 1 .. NodeCount |-> Ask(2, 1)]]
=============================================================================
