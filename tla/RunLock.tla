------------------------------ MODULE RunLock ------------------------------
(***************************************************************************)
(* What the process mutex promises (ProcessMutex, core/asct_env.py), as    *)
(* its callers run and resume rely on it: an invocation asks once, is let  *)
(* in when nobody else is, or is refused; at most one of them is inside;   *)
(* the death of the one inside makes room for the next.                    *)
(***************************************************************************)
CONSTANTS Process, Free  \* Free is not a process

VARIABLES owner,  \* the invocation inside, or Free
          where   \* where[p]: "out", "asking", "inside" or "gone"

lockVars == <<owner, where>>

Init == owner = Free /\ where = [p \in Process |-> "out"]

Ask(p) ==
    /\ where[p] = "out"
    /\ where' = [where EXCEPT ![p] = "asking"]
    /\ UNCHANGED owner

Enter(p) ==
    /\ where[p] = "asking"
    /\ owner = Free
    /\ owner' = p
    /\ where' = [where EXCEPT ![p] = "inside"]

Refuse(p) ==
    /\ where[p] = "asking"
    /\ where' = [where EXCEPT ![p] = "gone"]
    /\ UNCHANGED owner

\* It leaves by itself, or its death frees the lock.
Leave(p) ==
    /\ where[p] # "gone"
    /\ where' = [where EXCEPT ![p] = "gone"]
    /\ owner' = IF owner = p THEN Free ELSE owner

Next == \E p \in Process : Ask(p) \/ Enter(p) \/ Refuse(p) \/ Leave(p)

Spec == Init /\ [][Next]_lockVars

\* At most one invocation is inside, and it is the owner.
OneInside == \A p \in Process : where[p] = "inside" <=> owner = p
============================================================================
