------------------------------ MODULE HugePages ------------------------------
(***************************************************************************)
(* Huge page allocation for one asct process                               *)
(* (core/resources/hugepages.py): HugePageSizeResolver, HugePageManager,   *)
(* HugepageImpl (under sudo) and PreallocatedHugepageImpl (without sudo),  *)
(* over the kernel's per-node nr_hugepages counters.                       *)
(*                                                                         *)
(* A requestor is the Hugepage resource of one recipe.  Stage "setup" of   *)
(* setup_benchmarks constructs every resource, stage "alloc" sets them up: *)
(* stage[r] follows one resource through both and through its teardown.    *)
(***************************************************************************)
EXTENDS Integers, FiniteSets

CONSTANTS Requestor,       \* the Hugepage resources of the selected recipes
          NodeCount,       \* number of NUMA nodes, visited in index order
          Size,            \* page sizes the kernel or a recipe may name
          Available,       \* Available[n]: sizes listed in node n's sysfs directory
          RequestInfo,     \* RequestInfo[r][n]: [size, count] asked for on node n
          DisableResize,   \* ASCT_DEBUG_DISABLE_HUGEPAGE_RESIZE
          MaxCount,        \* bound: largest page count after size adjustment
          InitialPages     \* possible nr_hugepages values before the run

Node == 1 .. NodeCount
Slot == Node \X Size

READY == "ready"
SUCCESS == "success"
FAILED == "failed"

\* Fault (never part of the specification): forgetting to scale the count.
ScaledNotAtAll(count, size, a) == count

\* Pages of size `a` that replace `count` pages of `size`.
Scaled(count, size, a) == count * (size \div a)

NoRequest == [size |-> 0, count |-> 0, state |-> "none"]
Request == [size : Size, count : 1 .. MaxCount, state : {READY, SUCCESS, FAILED}]

ASSUME HugePagesAssumption ==
    /\ NodeCount \in Nat
    /\ Size \subseteq Nat \ {0}
    /\ MaxCount \in Nat
    /\ Available \in [Node -> SUBSET Size]
    /\ RequestInfo \in [Requestor -> [Node -> [size : Size, count : 1 .. MaxCount]]]
    /\ DisableResize \in BOOLEAN
    /\ InitialPages \subseteq Nat
    /\ \A r \in Requestor, n \in Node : \A a \in Available[n] :
          LET info == RequestInfo[r][n]
          IN  a < info.size => Scaled(info.count, info.size, a) <= MaxCount

VARIABLES nr,              \* kernel: nr_hugepages of each node and size
          sudo,            \* which implementation Hugepage() picked
          requests,        \* HugePageAllocStatus, by requestor and node
          initial_count,   \* HugePageAllocSizeEntry.initial_count
          allocated_count, \* HugePageAllocSizeEntry.allocated_count
          alloc_done,      \* HugePageManager._alloc_done
          stage,           \* progress of each resource
          nr0,             \* history: nr_hugepages before the run
          stuck            \* history: slots whose write-back raised OSError

vars == <<nr, sudo, requests, initial_count, allocated_count, alloc_done, stage, nr0, stuck>>

Stage == {"new", "rejected", "requested", "skipped", "acquired", "failed", "released"}

-----------------------------------------------------------------------------
(* Size resolution. *)

\* Sizes that can stand in for `size`: smaller, and dividing it.
Fallback(n, size) == {a \in Available[n] : a < size /\ size % a = 0}

\* The pairs <<size, count>> that _adjust_to_available_size may return when
\* valid_func accepts the sizes in `valid`: one pair, or none where it raises
\* MemoryError.
Adjust(n, size, count, valid) ==
    IF size \in Available[n] \cap valid
    THEN {<<size, count>>}
    ELSE LET usable == {a \in Fallback(n, size) \cap valid : ~DisableResize}
         IN  {<<a, Scaled(count, size, a)>> : a \in {b \in usable : \A c \in usable : c <= b}}

AdjustToAvailableSize(n, size, count) == Adjust(n, size, count, Size)

\* The sizes in which node n has enough free pages for the request.
EnoughFreePages(n, size, count, free) ==
    {a \in Size : free[<<n, a>>] >= IF a = size THEN count ELSE Scaled(count, size, a)}

AdjustToFreeSize(n, size, count, free) ==
    Adjust(n, size, count, EnoughFreePages(n, size, count, free))

Asked(r, n) == AdjustToAvailableSize(n, RequestInfo[r][n].size, RequestInfo[r][n].count)

AskedFree(r, n, free) ==
    AdjustToFreeSize(n, RequestInfo[r][n].size, RequestInfo[r][n].count, free)

-----------------------------------------------------------------------------
(* The manager's bookkeeping, seen per node and size. *)

Registered(r, sl) == /\ requests[r][sl[1]] # NoRequest
                     /\ requests[r][sl[1]].size = sl[2]

Holders(sl) == {r \in Requestor : Registered(r, sl)}

ReadyCounts(sl) ==
    {requests[r][sl[1]].count : r \in {q \in Holders(sl) : requests[q][sl[1]].state = READY}}

-----------------------------------------------------------------------------
Init ==
    /\ nr \in [Slot -> InitialPages]
    /\ nr0 = nr
    /\ sudo \in BOOLEAN
    /\ requests = [r \in Requestor |-> [n \in Node |-> NoRequest]]
    /\ initial_count = [sl \in Slot |-> 0]
    /\ allocated_count = [sl \in Slot |-> 0]
    /\ alloc_done = FALSE
    /\ stage = [r \in Requestor |-> "new"]
    /\ stuck = {}

\* Construction of the resource.  Under sudo it registers one request per node
\* and stops at the first node that has no suitable size: the requests of the
\* nodes before it stay registered, and the recipe is skipped.
RequestAllocation(r) ==
    /\ stage[r] = "new"
    /\ LET unsuitable == {n \in Node : Asked(r, n) = {}}
           reached == {n \in Node : \A m \in unsuitable : n < m}
       IN  IF sudo
           THEN /\ requests' = [requests EXCEPT ![r] = [n \in Node |->
                       IF n \in reached
                       THEN LET adj == CHOOSE a \in Asked(r, n) : TRUE
                            IN  [size |-> adj[1], count |-> adj[2], state |-> READY]
                       ELSE NoRequest]]
                /\ stage' = [stage EXCEPT ![r] = IF unsuitable = {} THEN "requested" ELSE "rejected"]
           ELSE /\ stage' = [stage EXCEPT ![r] = "requested"]
                /\ UNCHANGED requests
    /\ UNCHANGED <<nr, sudo, initial_count, allocated_count, alloc_done, nr0, stuck>>

\* setup_benchmarks finishes stage "setup" for every recipe before it starts
\* stage "alloc" for the first one.
SetupStageOver == \A r \in Requestor : stage[r] # "new"

\* The recipe is skipped before its resources are set up (a recipe it depends
\* on was skipped): the resource is never acquired and never released.
Skip(r) ==
    /\ SetupStageOver
    /\ stage[r] = "requested"
    /\ stage' = [stage EXCEPT ![r] = "skipped"]
    /\ UNCHANGED <<nr, sudo, requests, initial_count, allocated_count, alloc_done, nr0, stuck>>

\* What trying the distinct READY counts of a slot from the largest down can
\* end in: `won` is the count the kernel granted (0: none), `added` the pages
\* present afterwards on top of the initial ones.  A failed attempt may leave
\* any number of the pages it asked for behind.
SlotOutcome(sl, won, added) ==
    \/ /\ won \in ReadyCounts(sl)
       /\ added = won
    \/ /\ won = 0
       /\ added = 0 \/ \E c \in ReadyCounts(sl) : added <= c

\* Fault: only the requests for exactly the granted count are served.
SettleExactOnly(req, won) ==
    IF req.state # READY THEN req
    ELSE [req EXCEPT !.state = IF req.count = won THEN SUCCESS ELSE FAILED]

\* Marking of the requests of a slot once its attempts are over.
Settle(req, won) ==
    IF req.state # READY THEN req
    ELSE IF req.count <= won THEN [req EXCEPT !.state = SUCCESS]
                             ELSE [req EXCEPT !.state = FAILED]

\* _preverify, _get_hugepage_settings and the allocation loop of _allocate.
\* `unread` are the slots whose counter cannot be read.
Allocate ==
    \E unread \in SUBSET {sl \in Slot : Holders(sl) # {}} :
    \E won \in [Slot -> 0 .. MaxCount] :
       /\ \A sl \in Slot : won[sl] \in ReadyCounts(sl) \cup {0} /\ (sl \in unread => won[sl] = 0)
       /\ \E added \in [Slot -> 0 .. MaxCount] :
             /\ \A sl \in Slot : /\ SlotOutcome(sl, won[sl], added[sl])
                                 /\ sl \in unread => added[sl] = 0
             /\ initial_count' = [sl \in Slot |->
                    IF Holders(sl) = {} \/ sl \in unread THEN initial_count[sl] ELSE nr[sl]]
             /\ allocated_count' = [sl \in Slot |->
                    IF won[sl] > 0 THEN nr[sl] + won[sl] ELSE allocated_count[sl]]
             /\ nr' = [sl \in Slot |-> nr[sl] + added[sl]]
             /\ requests' = [r \in Requestor |-> [n \in Node |->
                    IF requests[r][n] = NoRequest THEN NoRequest
                    ELSE Settle(requests[r][n], won[<<n, requests[r][n].size>>])]]

\* acquire(): the first caller allocates for everybody; the caller fails if
\* one of its own requests did.
Acquire(r) ==
    /\ sudo
    /\ stage[r] = "requested"
    /\ SetupStageOver
    /\ IF alloc_done
       THEN UNCHANGED <<nr, requests, initial_count, allocated_count>>
       ELSE Allocate
    /\ alloc_done' = TRUE
    /\ stage' = [stage EXCEPT ![r] =
           IF \E n \in Node : requests'[r][n].state = FAILED THEN "failed" ELSE "acquired"]
    /\ UNCHANGED <<sudo, nr0, stuck>>

\* PreallocatedHugepageImpl.setup: find free pages, reserve nothing.
AcquirePreallocated(r) ==
    /\ ~sudo
    /\ stage[r] = "requested"
    /\ SetupStageOver
    /\ \E free \in [Slot -> 0 .. MaxCount] :
          /\ \A sl \in Slot : free[sl] <= nr[sl]
          /\ IF \A n \in Node : AskedFree(r, n, free) # {}
             THEN /\ requests' = [requests EXCEPT ![r] = [n \in Node |->
                         LET adj == CHOOSE a \in AskedFree(r, n, free) : TRUE
                         IN  [size |-> adj[1], count |-> adj[2], state |-> SUCCESS]]]
                  /\ stage' = [stage EXCEPT ![r] = "acquired"]
             ELSE /\ stage' = [stage EXCEPT ![r] = "failed"]
                  /\ UNCHANGED requests
    /\ UNCHANGED <<nr, sudo, initial_count, allocated_count, alloc_done, nr0, stuck>>

\* Faults: resizing although others still hold requests, and looking for other
\* holders before r's own request is deleted.
LastHolderIgnoringOthers(r) ==
    {sl \in Slot : Registered(r, sl) /\ allocated_count[sl] > initial_count[sl]}
LastHolderBeforeDelete(r) ==
    {sl \in Slot : Holders(sl) = {} /\ allocated_count[sl] > initial_count[sl]}

\* The slots that release(r) resizes back: r held the last request there.
LastHolder(r) ==
    {sl \in Slot : Holders(sl) = {r} /\ allocated_count[sl] > initial_count[sl]}

\* Fault: giving back every page instead of the ones that were added.
RestoredCountZero(sl) == 0

RestoredCount(sl) == initial_count[sl]

\* release(): forget the requests of r and give back what nobody holds any
\* more.  A write that raises OSError is logged and forgotten.
Release(r) ==
    /\ sudo
    /\ stage[r] = "acquired"
    /\ \E lost \in SUBSET LastHolder(r) :
          /\ nr' = [sl \in Slot |->
                       IF sl \in LastHolder(r) \ lost THEN RestoredCount(sl) ELSE nr[sl]]
          /\ stuck' = stuck \cup lost
    /\ requests' = [requests EXCEPT ![r] = [n \in Node |-> NoRequest]]
    /\ stage' = [stage EXCEPT ![r] = "released"]
    /\ UNCHANGED <<sudo, initial_count, allocated_count, alloc_done, nr0>>

ReleasePreallocated(r) ==
    /\ ~sudo
    /\ stage[r] = "acquired"
    /\ stage' = [stage EXCEPT ![r] = "released"]
    /\ UNCHANGED <<nr, sudo, requests, initial_count, allocated_count, alloc_done, nr0, stuck>>

Next == \E r \in Requestor :
    \/ RequestAllocation(r)
    \/ Skip(r)
    \/ Acquire(r)
    \/ AcquirePreallocated(r)
    \/ Release(r)
    \/ ReleasePreallocated(r)

Spec == Init /\ [][Next]_vars

-----------------------------------------------------------------------------
(* Properties. *)

\* Every variable keeps its type.
TypeOK ==
    /\ nr \in [Slot -> Nat]
    /\ nr0 \in [Slot -> Nat]
    /\ sudo \in BOOLEAN
    /\ requests \in [Requestor -> [Node -> Request \cup {NoRequest}]]
    /\ initial_count \in [Slot -> Nat]
    /\ allocated_count \in [Slot -> Nat]
    /\ alloc_done \in BOOLEAN
    /\ stage \in [Requestor -> Stage]
    /\ stuck \subseteq Slot

\* The pages a grant comes on top of: without sudo it comes out of them.
Base(sl) == IF sudo THEN nr0[sl] ELSE 0

\* A recipe whose Hugepage resource is set up finds on every node the pages
\* its request stands for, on top of the pages present before the run, until
\* it releases them itself: no other recipe's acquire or release takes them.
AcquiredIsBacked ==
    \A r \in Requestor : stage[r] = "acquired" =>
        \A n \in Node : LET q == requests[r][n]
                        IN  /\ q.state = SUCCESS
                            /\ nr[<<n, q.size>>] >= Base(<<n, q.size>>) + q.count

\* A registered request stands for exactly the memory the recipe asked for,
\* in pages no larger than it asked for, whatever size was available
\* (_adjust_to_available_size scales the count).
RequestCoversMemory ==
    \A r \in Requestor, n \in Node : requests[r][n] # NoRequest =>
        LET q == requests[r][n]
            info == RequestInfo[r][n]
        IN  /\ q.size * q.count = info.size * info.count
            /\ q.size <= info.size

\* Requests of one node and size are granted from the smallest up: a recipe is
\* never refused where one asking for at least as much was served.
GrantedBySize ==
    \A p, q \in Requestor, n \in Node :
        /\ requests[p][n] # NoRequest
        /\ requests[q][n] # NoRequest
        /\ requests[p][n].size = requests[q][n].size
        /\ requests[p][n].count <= requests[q][n].count
        /\ requests[q][n].state = SUCCESS
        /\ sudo
        => requests[p][n].state = SUCCESS

\* Once nobody holds a request on a slot that was grown, its counter is what
\* it was before the run, unless the write-back itself raised OSError.
RestoredWhenReleased ==
    \A sl \in Slot :
        (Holders(sl) = {} /\ allocated_count[sl] > initial_count[sl] /\ sl \notin stuck)
            => nr[sl] = nr0[sl]

\* asct never takes away huge pages that were there before it started.
SystemPagesKept == \A sl \in Slot : nr[sl] >= nr0[sl]

\* The inductive invariant behind the properties above: which resources have
\* registered requests, what an allocation that has (not) happened implies for
\* their states, and that a slot that was grown remembers the right count.
RequestsFollowStage ==
    \A r \in Requestor :
        /\ (sudo /\ stage[r] \in {"requested", "skipped", "acquired", "failed"})
               => \A n \in Node : requests[r][n] # NoRequest
        /\ (sudo /\ stage[r] \in {"new", "released"})
               => \A n \in Node : requests[r][n] = NoRequest
        /\ stage[r] = "acquired"
               => \A n \in Node : requests[r][n] # NoRequest /\ requests[r][n].state = SUCCESS
        /\ alloc_done => stage[r] # "new"
        /\ (sudo /\ stage[r] = "acquired") => alloc_done

AllocationIsOnce ==
    /\ ~alloc_done => /\ nr = nr0
                      /\ allocated_count = [sl \in Slot |-> 0]
                      /\ initial_count = [sl \in Slot |-> 0]
    /\ alloc_done => sudo
    /\ sudo => \A r \in Requestor, n \in Node : requests[r][n] # NoRequest =>
                  (requests[r][n].state = READY <=> ~alloc_done)

GrownFromStart ==
    \A sl \in Slot : allocated_count[sl] > initial_count[sl] => initial_count[sl] = nr0[sl]

SuccessIsBacked ==
    \A r \in Requestor, n \in Node :
        (requests[r][n] # NoRequest /\ requests[r][n].state = SUCCESS) =>
            LET sl == <<n, requests[r][n].size>>
            IN  /\ nr[sl] >= Base(sl) + requests[r][n].count
                /\ sudo => allocated_count[sl] > initial_count[sl]

IInv ==
    /\ TypeOK
    /\ RequestsFollowStage
    /\ AllocationIsOnce
    /\ GrownFromStart
    /\ SuccessIsBacked
    /\ RequestCoversMemory
    /\ GrantedBySize
    /\ RestoredWhenReleased
    /\ SystemPagesKept
=============================================================================
