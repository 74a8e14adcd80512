-------------------------- MODULE HugePages_proofs --------------------------
(***************************************************************************)
(* Proofs about HugePages for any recipes, nodes, page sizes, requests and *)
(* initial page counts.  At the end, proofs about Topology, CacheSweep and *)
(* MemoryRecipes: the machine that the pages are taken from, the levels of *)
(* its memory, and the CPUs and tables of the recipes that run on it.      *)
(***************************************************************************)
EXTENDS HugePages, MemoryRecipes, FiniteSetTheorems, SequenceTheorems, TLAPS

\* Splitting a page of `size` into pages of a size that divides it keeps the
\* memory and needs at least one page.
LEMMA Scaling ==
    ASSUME NEW size \in Nat \ {0}, NEW a \in Nat \ {0}, NEW count \in Nat \ {0},
           a < size, size % a = 0
    PROVE  /\ Scaled(count, size, a) \in Nat \ {0}
           /\ a * Scaled(count, size, a) = size * count
<1> DEFINE q == size \div a
<1>1. q \in Int
  OBVIOUS
<1>2. size = a * q
  OBVIOUS
<1>3. q > 0
  <2> HIDE DEF q
  <2>1. CASE q <= 0
    <3>1. a * q <= 0
      BY <2>1, <1>1, SMT
    <3> QED BY <3>1, <1>2
  <2> QED BY <2>1, <1>1
<1>4. count * q \in Nat \ {0}
  <2> HIDE DEF q
  <2> QED BY <1>1, <1>3, SMT
<1>5. a * (count * q) = size * count
  <2> HIDE DEF q
  <2>1. a * (count * q) = (a * q) * count
    BY <1>1, SMT
  <2> QED BY <2>1, <1>2
<1> QED BY <1>4, <1>5 DEF Scaled

\* The size and count a resource settles for are sound, whichever of the two
\* searches produced them.
Sound(r, n, adj) ==
    /\ adj[1] \in Size
    /\ adj[2] \in 1 .. MaxCount
    /\ adj[1] * adj[2] = RequestInfo[r][n].size * RequestInfo[r][n].count
    /\ adj[1] <= RequestInfo[r][n].size

\* What a recipe asks for on a node.
LEMMA InfoType ==
    ASSUME NEW r \in Requestor, NEW n \in Node
    PROVE  /\ RequestInfo[r][n].size \in Size
           /\ RequestInfo[r][n].size \in Nat \ {0}
           /\ RequestInfo[r][n].count \in 1 .. MaxCount
           /\ RequestInfo[r][n].count \in Nat \ {0}
           /\ Available[n] \subseteq Size
<1>1. RequestInfo[r][n] \in [size : Size, count : 1 .. MaxCount]
  BY HugePagesAssumption
<1>2. Size \subseteq Nat \ {0} /\ MaxCount \in Nat /\ Available[n] \subseteq Size
  BY HugePagesAssumption
<1>3. RequestInfo[r][n].size \in Size /\ RequestInfo[r][n].count \in 1 .. MaxCount
  BY <1>1
<1>4. \A c \in 1 .. MaxCount : c \in Nat \ {0}
  BY <1>2
<1>5. RequestInfo[r][n].count \in Nat \ {0}
  BY <1>3, <1>4, Zenon
<1>6. RequestInfo[r][n].size \in Nat \ {0}
  BY <1>2, <1>3, Zenon
<1> QED BY <1>2, <1>3, <1>5, <1>6, Zenon

\* A fallback size with the scaled count is sound.
LEMMA FallbackSound ==
    ASSUME NEW r \in Requestor, NEW n \in Node,
           NEW a \in Fallback(n, RequestInfo[r][n].size)
    PROVE  Sound(r, n, <<a, Scaled(RequestInfo[r][n].count, RequestInfo[r][n].size, a)>>)
<1> DEFINE size == RequestInfo[r][n].size
           count == RequestInfo[r][n].count
<1>1. /\ size \in Nat \ {0} /\ count \in Nat \ {0} /\ size \in Size
      /\ a \in Nat \ {0} /\ a \in Size /\ a \in Available[n] /\ a < size /\ size % a = 0
  BY InfoType, HugePagesAssumption DEF Fallback
<1>0. Scaled(count, size, a) <= MaxCount
  BY <1>1, HugePagesAssumption
<1> HIDE DEF size, count
<1>2. /\ Scaled(count, size, a) \in Nat \ {0}
      /\ a * Scaled(count, size, a) = size * count
  BY <1>1, Scaling
<1> DEFINE c == Scaled(count, size, a)
<1>3. c \in Nat \ {0} /\ a * c = size * count /\ c <= MaxCount
  BY <1>0, <1>2
<1> HIDE DEF c
<1>4. c \in 1 .. MaxCount /\ a <= size
  BY <1>1, <1>3, HugePagesAssumption
<1> QED
  BY <1>1, <1>3, <1>4 DEF Sound, c, size, count

\* A size that is available as asked for is sound.
LEMMA ExactSound ==
    ASSUME NEW r \in Requestor, NEW n \in Node
    PROVE  Sound(r, n, <<RequestInfo[r][n].size, RequestInfo[r][n].count>>)
BY InfoType DEF Sound

\* What the search over the available sizes returns is sound.
LEMMA AskedSound ==
    ASSUME NEW r \in Requestor, NEW n \in Node, NEW adj \in Asked(r, n)
    PROVE  Sound(r, n, adj)
BY ExactSound, FallbackSound DEF Asked, AdjustToAvailableSize, Adjust

\* What the search over the free pages returns is sound and free.
LEMMA AskedFreeSound ==
    ASSUME NEW r \in Requestor, NEW n \in Node, NEW free, NEW adj \in AskedFree(r, n, free)
    PROVE  Sound(r, n, adj) /\ free[<<n, adj[1]>>] >= adj[2]
<1> DEFINE size == RequestInfo[r][n].size
           count == RequestInfo[r][n].count
<1>1. CASE adj = <<size, count>> /\ free[<<n, size>>] >= count
  BY <1>1, ExactSound
<1>2. CASE \E a \in Fallback(n, size) : /\ adj = <<a, Scaled(count, size, a)>>
                                        /\ free[<<n, a>>] >= Scaled(count, size, a)
  BY <1>2, FallbackSound
<1>3. adj \in Adjust(n, size, count, EnoughFreePages(n, size, count, free))
  BY DEF AskedFree, AdjustToFreeSize
<1>4. \A a \in Fallback(n, size) : a # size
  <2>1. size \in Nat
    BY InfoType
  <2> QED BY <2>1 DEF Fallback
<1> HIDE DEF size, count
<1> QED
  BY <1>1, <1>2, <1>3, <1>4 DEF Adjust, EnoughFreePages

-----------------------------------------------------------------------------
\* Facts about the bookkeeping that the action lemmas share.
LEMMA Distinct ==
    /\ \A q \in Request : q # NoRequest
    /\ NoRequest.state \notin {READY, SUCCESS, FAILED}
    /\ READY # SUCCESS /\ READY # FAILED /\ SUCCESS # FAILED
<1>1. \A q \in Request : q.state \in {READY, SUCCESS, FAILED}
  BY DEF Request
<1>2. NoRequest.state = "none" /\ "none" \notin {READY, SUCCESS, FAILED}
  BY DEF NoRequest, READY, SUCCESS, FAILED
<1>3. READY # SUCCESS /\ READY # FAILED /\ SUCCESS # FAILED
  BY DEF READY, SUCCESS, FAILED
<1> QED BY <1>1, <1>2, <1>3

\* The fields of a registered request.
LEMMA RequestFields ==
    ASSUME TypeOK, NEW r \in Requestor, NEW n \in Node, requests[r][n] # NoRequest
    PROVE  /\ requests[r][n] \in Request
           /\ requests[r][n].size \in Size
           /\ requests[r][n].count \in 1 .. MaxCount
           /\ requests[r][n].count \in Nat
           /\ requests[r][n].state \in {READY, SUCCESS, FAILED}
           /\ <<n, requests[r][n].size>> \in Slot
<1>1. requests[r][n] \in Request
  BY DEF TypeOK
<1>2. MaxCount \in Nat
  BY HugePagesAssumption
<1>3. /\ requests[r][n].size \in Size
      /\ requests[r][n].count \in 1 .. MaxCount
      /\ requests[r][n].state \in {READY, SUCCESS, FAILED}
  BY <1>1 DEF Request
<1>4. requests[r][n].count \in Nat
  <2>1. \A c \in 1 .. MaxCount : c \in Nat
    BY <1>2
  <2> QED BY <2>1, <1>3, Zenon
<1> QED BY <1>1, <1>3, <1>4 DEF Slot

\* A request that reached a slot makes its requestor a holder of it.
LEMMA HolderOf ==
    ASSUME NEW r \in Requestor, NEW n \in Node, requests[r][n] # NoRequest
    PROVE  r \in Holders(<<n, requests[r][n].size>>)
BY DEF Holders, Registered

\* Before any recipe registers, the invariant holds.
LEMMA InitIInv == Init => IInv
<1> SUFFICES ASSUME Init PROVE IInv
  OBVIOUS
<1>1. TypeOK
  BY HugePagesAssumption DEF Init, TypeOK, Stage
<1>2. \A r \in Requestor, n \in Node : requests[r][n] = NoRequest
  BY DEF Init
<1>3. \A r \in Requestor : stage[r] = "new"
  BY DEF Init
<1>4. RequestsFollowStage /\ AllocationIsOnce
  BY <1>2, <1>3 DEF Init, RequestsFollowStage, AllocationIsOnce
<1>5. \A sl \in Slot : ~(allocated_count[sl] > initial_count[sl])
  BY DEF Init
<1>6. GrownFromStart /\ SuccessIsBacked /\ RequestCoversMemory /\ GrantedBySize
  BY <1>2, <1>5 DEF GrownFromStart, SuccessIsBacked, RequestCoversMemory, GrantedBySize
<1>7. RestoredWhenReleased /\ SystemPagesKept
  BY <1>1, <1>5 DEF Init, RestoredWhenReleased, SystemPagesKept, TypeOK
<1> QED BY <1>1, <1>4, <1>6, <1>7 DEF IInv

\* Steps that leave the requests and the counters alone keep every part of the
\* invariant that does not mention stage.
LEMMA CountersKept ==
    ASSUME IInv, UNCHANGED <<nr, sudo, requests, initial_count, allocated_count, alloc_done, nr0, stuck>>
    PROVE  /\ AllocationIsOnce' /\ GrownFromStart' /\ SuccessIsBacked' /\ RequestCoversMemory'
           /\ GrantedBySize' /\ RestoredWhenReleased' /\ SystemPagesKept'
<1>1. AllocationIsOnce' /\ GrownFromStart' /\ SystemPagesKept'
  BY DEF IInv, AllocationIsOnce, GrownFromStart, SystemPagesKept
<1>2. SuccessIsBacked' /\ RequestCoversMemory' /\ GrantedBySize'
  BY DEF IInv, SuccessIsBacked, RequestCoversMemory, GrantedBySize, Base
<1>3. RestoredWhenReleased'
  BY DEF IInv, RestoredWhenReleased, Holders, Registered
<1> QED BY <1>1, <1>2, <1>3

\* Skipping a recipe leaves its requests registered and keeps the invariant.
LEMMA SkipIInv ==
    ASSUME IInv, NEW r \in Requestor, Skip(r)
    PROVE  IInv'
<1>1. AllocationIsOnce' /\ GrownFromStart' /\ SuccessIsBacked' /\ RequestCoversMemory'
      /\ GrantedBySize' /\ RestoredWhenReleased' /\ SystemPagesKept'
  BY CountersKept DEF Skip
<1>2. TypeOK'
  BY DEF IInv, TypeOK, Skip, Stage
<1>3. RequestsFollowStage'
  BY DEF IInv, TypeOK, RequestsFollowStage, Skip
<1> QED BY <1>1, <1>2, <1>3 DEF IInv

\* Without sudo a teardown changes nothing but the stage.
LEMMA ReleasePreallocatedIInv ==
    ASSUME IInv, NEW r \in Requestor, ReleasePreallocated(r)
    PROVE  IInv'
<1>1. AllocationIsOnce' /\ GrownFromStart' /\ SuccessIsBacked' /\ RequestCoversMemory'
      /\ GrantedBySize' /\ RestoredWhenReleased' /\ SystemPagesKept'
  BY CountersKept DEF ReleasePreallocated
<1>2. TypeOK'
  BY DEF IInv, TypeOK, ReleasePreallocated, Stage
<1>3. RequestsFollowStage'
  BY DEF IInv, TypeOK, RequestsFollowStage, AllocationIsOnce, ReleasePreallocated
<1> QED BY <1>1, <1>2, <1>3 DEF IInv

\* Registration happens before the allocation, so nothing has been grown and
\* nothing has been granted yet.
LEMMA RequestAllocationIInv ==
    ASSUME IInv, NEW r \in Requestor, RequestAllocation(r)
    PROVE  IInv'
<1> DEFINE unsuitable == {n \in Node : Asked(r, n) = {}}
           reached == {n \in Node : \A m \in unsuitable : n < m}
           Adj(n) == CHOOSE a \in Asked(r, n) : TRUE
           Req(n) == [size |-> Adj(n)[1], count |-> Adj(n)[2], state |-> READY]
<1>t. TypeOK
  BY DEF IInv
<1>u. UNCHANGED <<nr, sudo, initial_count, allocated_count, alloc_done, nr0, stuck>>
  BY DEF RequestAllocation
<1>1. CASE ~sudo
  <2>1. /\ UNCHANGED requests
        /\ stage' = [stage EXCEPT ![r] = "requested"]
    BY <1>1 DEF RequestAllocation
  <2>2. AllocationIsOnce' /\ GrownFromStart' /\ SuccessIsBacked' /\ RequestCoversMemory'
        /\ GrantedBySize' /\ RestoredWhenReleased' /\ SystemPagesKept'
    BY <1>u, <2>1, CountersKept
  <2>3. TypeOK'
    BY <1>u, <1>t, <2>1 DEF TypeOK, Stage
  <2>4. RequestsFollowStage'
    BY <1>t, <1>u, <2>1, <1>1 DEF IInv, TypeOK, RequestsFollowStage
  <2> QED BY <2>2, <2>3, <2>4 DEF IInv
<1>2. CASE sudo
  <2>1. /\ requests' = [requests EXCEPT ![r] = [n \in Node |->
                            IF n \in reached THEN Req(n) ELSE NoRequest]]
        /\ stage' = [stage EXCEPT ![r] = IF unsuitable = {} THEN "requested" ELSE "rejected"]
        /\ stage[r] = "new"
    BY <1>2 DEF RequestAllocation
  <2>2. ~alloc_done
    BY <2>1 DEF IInv, RequestsFollowStage
  <2>3. \A n \in reached : Asked(r, n) # {}
    <3>1. MaxCount \in Nat /\ \A n \in Node : ~(n < n)
      BY HugePagesAssumption DEF Node
    <3> QED BY <3>1
  <2>4. \A n \in reached : Sound(r, n, Adj(n))
    <3>1. \A n \in reached : Adj(n) \in Asked(r, n)
      BY <2>3
    <3> QED BY <3>1, AskedSound
  <2>5. \A n \in reached : /\ Req(n) \in Request
                           /\ Req(n).state = READY
                           /\ Req(n).size * Req(n).count = RequestInfo[r][n].size * RequestInfo[r][n].count
                           /\ Req(n).size <= RequestInfo[r][n].size
    <3> SUFFICES ASSUME NEW n \in reached
                 PROVE  /\ Req(n) \in Request
                        /\ Req(n).state = READY
                        /\ Req(n).size * Req(n).count = RequestInfo[r][n].size * RequestInfo[r][n].count
                        /\ Req(n).size <= RequestInfo[r][n].size
      OBVIOUS
    <3>1. Sound(r, n, Adj(n))
      BY <2>4
    <3> HIDE DEF Adj
    <3>2. Req(n).size = Adj(n)[1] /\ Req(n).count = Adj(n)[2] /\ Req(n).state = READY
      OBVIOUS
    <3>3. Req(n) \in Request
      BY <3>1 DEF Sound, Request
    <3> QED BY <3>1, <3>2, <3>3 DEF Sound
  <2> HIDE DEF Req, Adj
  <2>6. /\ \A p \in Requestor \ {r} : requests'[p] = requests[p] /\ stage'[p] = stage[p]
        /\ \A n \in Node : requests'[r][n] = IF n \in reached THEN Req(n) ELSE NoRequest
        /\ stage'[r] = IF unsuitable = {} THEN "requested" ELSE "rejected"
    BY <2>1, <1>t DEF TypeOK
  <2>7. TypeOK'
    <3>1. requests' \in [Requestor -> [Node -> Request \cup {NoRequest}]]
      BY <2>1, <2>5, <1>t DEF TypeOK
    <3>2. stage' \in [Requestor -> Stage]
      BY <2>1, <1>t DEF TypeOK, Stage
    <3> QED BY <3>1, <3>2, <1>u, <1>t DEF TypeOK
  <2>8. RequestsFollowStage'
    <3>1. unsuitable = {} => reached = Node
      OBVIOUS
    <3>2. \A n \in reached : Req(n) # NoRequest
      BY <2>5, Distinct
    <3> HIDE DEF unsuitable, reached
    <3> QED BY <3>1, <3>2, <2>6, <2>2, <1>u DEF IInv, RequestsFollowStage
  <2>11. \A p \in Requestor, n \in Node : requests'[p][n] # NoRequest => requests'[p][n].state = READY
    <3> SUFFICES ASSUME NEW p \in Requestor, NEW n \in Node, requests'[p][n] # NoRequest
                 PROVE  requests'[p][n].state = READY
      OBVIOUS
    <3>1. CASE p = r
      BY <3>1, <2>6, <2>5
    <3>2. CASE p # r
      <4>1. requests[p][n] # NoRequest => requests[p][n].state = READY
        BY <2>2, <1>2 DEF IInv, AllocationIsOnce
      <4> QED BY <4>1, <3>2, <2>6
    <3> QED BY <3>1, <3>2
  <2>9. AllocationIsOnce'
    BY <2>11, <2>2, <1>u, <1>2 DEF IInv, AllocationIsOnce
  <2>10. GrownFromStart' /\ SystemPagesKept'
    BY <1>u DEF IInv, GrownFromStart, SystemPagesKept
  <2>12. SuccessIsBacked' /\ GrantedBySize'
    BY <2>11, Distinct DEF SuccessIsBacked, GrantedBySize
  <2>13. RequestCoversMemory'
    BY <2>6, <2>5 DEF IInv, RequestCoversMemory
  <2>14. RestoredWhenReleased'
    BY <1>u, <2>2 DEF IInv, AllocationIsOnce, RestoredWhenReleased
  <2> QED BY <2>7, <2>8, <2>9, <2>10, <2>12, <2>13, <2>14 DEF IInv
<1> QED BY <1>1, <1>2

\* Without sudo nothing is allocated: a grant comes out of free pages.
LEMMA AcquirePreallocatedIInv ==
    ASSUME IInv, NEW r \in Requestor, AcquirePreallocated(r)
    PROVE  IInv'
<1>t. TypeOK
  BY DEF IInv
<1>u. /\ UNCHANGED <<nr, sudo, initial_count, allocated_count, alloc_done, nr0, stuck>>
      /\ ~sudo
  BY DEF AcquirePreallocated
<1>0. ~alloc_done
  BY <1>u DEF IInv, AllocationIsOnce
<1>1. PICK free \in [Slot -> 0 .. MaxCount] :
        /\ \A sl \in Slot : free[sl] <= nr[sl]
        /\ IF \A n \in Node : AskedFree(r, n, free) # {}
           THEN /\ requests' = [requests EXCEPT ![r] = [n \in Node |->
                       LET adj == CHOOSE a \in AskedFree(r, n, free) : TRUE
                       IN  [size |-> adj[1], count |-> adj[2], state |-> SUCCESS]]]
                /\ stage' = [stage EXCEPT ![r] = "acquired"]
           ELSE /\ stage' = [stage EXCEPT ![r] = "failed"]
                /\ UNCHANGED requests
  BY DEF AcquirePreallocated
<1>2. CASE ~(\A n \in Node : AskedFree(r, n, free) # {})
  <2>1. /\ UNCHANGED requests
        /\ stage' = [stage EXCEPT ![r] = "failed"]
    BY <1>1, <1>2
  <2>2. AllocationIsOnce' /\ GrownFromStart' /\ SuccessIsBacked' /\ RequestCoversMemory'
        /\ GrantedBySize' /\ RestoredWhenReleased' /\ SystemPagesKept'
    BY <1>u, <2>1, CountersKept
  <2>3. TypeOK'
    BY <1>u, <1>t, <2>1 DEF TypeOK, Stage
  <2>4. RequestsFollowStage'
    BY <1>t, <1>u, <1>0, <2>1 DEF IInv, TypeOK, RequestsFollowStage
  <2> QED BY <2>2, <2>3, <2>4 DEF IInv
<1>3. CASE \A n \in Node : AskedFree(r, n, free) # {}
  <2> DEFINE Adj(n) == CHOOSE a \in AskedFree(r, n, free) : TRUE
             Req(n) == [size |-> Adj(n)[1], count |-> Adj(n)[2], state |-> SUCCESS]
  <2>1. /\ requests' = [requests EXCEPT ![r] = [n \in Node |-> Req(n)]]
        /\ stage' = [stage EXCEPT ![r] = "acquired"]
    BY <1>1, <1>3
  <2>2. ASSUME NEW n \in Node
        PROVE  /\ Req(n) \in Request
               /\ Req(n).state = SUCCESS
               /\ Req(n).size * Req(n).count = RequestInfo[r][n].size * RequestInfo[r][n].count
               /\ Req(n).size <= RequestInfo[r][n].size
               /\ nr[<<n, Req(n).size>>] >= Req(n).count
    <3>1. Adj(n) \in AskedFree(r, n, free)
      BY <1>3
    <3> HIDE DEF Adj
    <3>2. Sound(r, n, Adj(n)) /\ free[<<n, Adj(n)[1]>>] >= Adj(n)[2]
      BY <3>1, AskedFreeSound
    <3>3. Req(n).size = Adj(n)[1] /\ Req(n).count = Adj(n)[2] /\ Req(n).state = SUCCESS
      OBVIOUS
    <3>4. Req(n) \in Request
      BY <3>2 DEF Sound, Request
    <3>5. <<n, Adj(n)[1]>> \in Slot
      BY <3>2 DEF Sound, Slot
    <3>6. nr[<<n, Adj(n)[1]>>] >= Adj(n)[2]
      <4>1. Adj(n)[2] \in Int /\ free[<<n, Adj(n)[1]>>] \in Int /\ nr[<<n, Adj(n)[1]>>] \in Int
        <5>1. Adj(n)[2] \in 1 .. MaxCount
          BY <3>2 DEF Sound
        <5>2. free[<<n, Adj(n)[1]>>] \in 0 .. MaxCount
          BY <3>5, <1>1
        <5>3. nr[<<n, Adj(n)[1]>>] \in Nat
          BY <3>5, <1>t DEF TypeOK
        <5> QED BY <5>1, <5>2, <5>3
      <4>2. free[<<n, Adj(n)[1]>>] <= nr[<<n, Adj(n)[1]>>]
        BY <1>1, <3>5
      <4> QED BY <4>1, <4>2, <3>2
    <3> QED BY <3>2, <3>3, <3>4, <3>6 DEF Sound
  <2> HIDE DEF Req, Adj
  <2>3. /\ \A p \in Requestor \ {r} : requests'[p] = requests[p] /\ stage'[p] = stage[p]
        /\ \A n \in Node : requests'[r][n] = Req(n)
        /\ stage'[r] = "acquired"
    BY <2>1, <1>t DEF TypeOK
  <2>4. TypeOK'
    <3>1. requests' \in [Requestor -> [Node -> Request \cup {NoRequest}]]
      BY <2>1, <2>2, <1>t DEF TypeOK
    <3>2. stage' \in [Requestor -> Stage]
      BY <2>1, <1>t DEF TypeOK, Stage
    <3> QED BY <3>1, <3>2, <1>u, <1>t DEF TypeOK
  <2>5. RequestsFollowStage'
    BY <2>3, <2>2, <1>u, <1>0, Distinct DEF IInv, RequestsFollowStage
  <2>6. AllocationIsOnce' /\ GrownFromStart' /\ SystemPagesKept'
    BY <1>u DEF IInv, AllocationIsOnce, GrownFromStart, SystemPagesKept
  <2>7. SuccessIsBacked'
    <3> SUFFICES ASSUME NEW p \in Requestor, NEW n \in Node,
                        requests'[p][n] # NoRequest, requests'[p][n].state = SUCCESS
                 PROVE  nr[<<n, requests'[p][n].size>>] >= 0 + requests'[p][n].count
      BY <1>u DEF SuccessIsBacked, Base
    <3>1. CASE p = r
      <4>1. Req(n).count \in Int
        <5>1. Req(n).count \in 1 .. MaxCount
          BY <2>2 DEF Request
        <5> QED BY <5>1
      <4> QED BY <3>1, <4>1, <2>2, <2>3
    <3>2. CASE p # r
      BY <3>2, <2>3, <1>u DEF IInv, SuccessIsBacked, Base
    <3> QED BY <3>1, <3>2
  <2>8. RequestCoversMemory'
    BY <2>3, <2>2 DEF IInv, RequestCoversMemory
  <2>9. GrantedBySize' 
    BY <1>u DEF GrantedBySize
  <2>10. RestoredWhenReleased'
    BY <1>u, <1>0 DEF IInv, AllocationIsOnce, RestoredWhenReleased
  <2> QED BY <2>4, <2>5, <2>6, <2>7, <2>8, <2>9, <2>10 DEF IInv
<1> QED BY <1>2, <1>3

\* Releasing takes pages back only on slots nobody else holds, and only to the
\* count from before the run.
LEMMA ReleaseIInv ==
    ASSUME IInv, NEW r \in Requestor, Release(r)
    PROVE  IInv'
<1>t. TypeOK
  BY DEF IInv
<1>u. /\ UNCHANGED <<sudo, initial_count, allocated_count, alloc_done, nr0>>
      /\ sudo
      /\ stage[r] = "acquired"
      /\ requests' = [requests EXCEPT ![r] = [n \in Node |-> NoRequest]]
      /\ stage' = [stage EXCEPT ![r] = "released"]
  BY DEF Release
<1>1. PICK lost \in SUBSET LastHolder(r) :
         /\ nr' = [sl \in Slot |-> IF sl \in LastHolder(r) \ lost THEN initial_count[sl] ELSE nr[sl]]
         /\ stuck' = stuck \cup lost
  BY DEF Release, RestoredCount
<1>2. LastHolder(r) \subseteq Slot
  BY DEF LastHolder
<1>3. /\ \A p \in Requestor \ {r} : requests'[p] = requests[p] /\ stage'[p] = stage[p]
      /\ \A n \in Node : requests'[r][n] = NoRequest
      /\ stage'[r] = "released"
  BY <1>u, <1>t DEF TypeOK
<1>4. TypeOK'
  <2>1. nr' \in [Slot -> Nat] /\ stuck' \subseteq Slot
    BY <1>1, <1>2, <1>t DEF TypeOK
  <2>2. requests' \in [Requestor -> [Node -> Request \cup {NoRequest}]]
    BY <1>u, <1>t DEF TypeOK
  <2>3. stage' \in [Requestor -> Stage]
    BY <1>u, <1>t DEF TypeOK, Stage
  <2> QED BY <2>1, <2>2, <2>3, <1>u, <1>t DEF TypeOK
<1>5. alloc_done
  BY <1>u DEF IInv, RequestsFollowStage
<1>6. \A sl \in Slot : nr'[sl] >= nr0[sl] /\ (nr'[sl] # nr[sl] => sl \in LastHolder(r))
  BY <1>1, <1>2, <1>t DEF IInv, SystemPagesKept, GrownFromStart, LastHolder, TypeOK
<1>7. RequestsFollowStage'
  BY <1>3, <1>u, <1>5 DEF IInv, RequestsFollowStage
<1>8. AllocationIsOnce'
  <2> SUFFICES ASSUME NEW p \in Requestor, NEW n \in Node, requests'[p][n] # NoRequest
               PROVE  requests'[p][n].state # READY
    BY <1>u, <1>5 DEF AllocationIsOnce
  <2>1. p # r /\ requests'[p][n] = requests[p][n]
    BY <1>3
  <2> QED BY <2>1, <1>5, <1>u DEF IInv, AllocationIsOnce
<1>9. GrownFromStart' /\ SystemPagesKept'
  BY <1>u, <1>6 DEF IInv, GrownFromStart, SystemPagesKept
<1>10. SuccessIsBacked'
  <2> SUFFICES ASSUME NEW p \in Requestor, NEW n \in Node,
                      requests'[p][n] # NoRequest, requests'[p][n].state = SUCCESS
               PROVE  LET sl == <<n, requests[p][n].size>>
                      IN  /\ requests'[p][n] = requests[p][n]
                          /\ nr'[sl] >= nr0[sl] + requests[p][n].count
                          /\ allocated_count[sl] > initial_count[sl]
    BY <1>u DEF SuccessIsBacked, Base
  <2> DEFINE sl == <<n, requests[p][n].size>>
  <2>1. p # r /\ requests'[p][n] = requests[p][n] /\ requests[p][n] # NoRequest
    BY <1>3
  <2>2. sl \in Slot /\ p \in Holders(sl)
    BY <2>1, <1>t, RequestFields, HolderOf
  <2>3. sl \notin LastHolder(r)
    BY <2>1, <2>2 DEF LastHolder
  <2>4. nr'[sl] = nr[sl]
    BY <2>2, <2>3, <1>6
  <2> QED BY <2>1, <2>4, <1>u DEF IInv, SuccessIsBacked, Base
<1>11. RequestCoversMemory'
  BY <1>3 DEF IInv, RequestCoversMemory
<1>12. GrantedBySize'
  BY <1>3, <1>u DEF IInv, GrantedBySize
<1>13. RestoredWhenReleased'
  <2> SUFFICES ASSUME NEW sl \in Slot, Holders(sl)' = {},
                      allocated_count[sl] > initial_count[sl], sl \notin stuck'
               PROVE  nr'[sl] = nr0[sl]
    BY <1>u DEF RestoredWhenReleased
  <2>1. Holders(sl) \subseteq {r}
    <3> SUFFICES ASSUME NEW p \in Holders(sl), p # r PROVE FALSE
      OBVIOUS
    <3>1. requests'[p] = requests[p] /\ p \in Requestor
      BY <1>3 DEF Holders
    <3>2. p \in Holders(sl)'
      BY <3>1 DEF Holders, Registered
    <3> QED BY <3>2
  <2>2. CASE Holders(sl) = {r}
    <3>1. sl \in LastHolder(r) \ lost
      BY <2>2, <1>1 DEF LastHolder
    <3> QED BY <3>1, <1>1 DEF IInv, GrownFromStart
  <2>3. CASE Holders(sl) = {}
    <3>1. sl \notin stuck /\ sl \notin LastHolder(r)
      BY <2>3, <1>1 DEF LastHolder
    <3> QED BY <3>1, <2>3, <1>6 DEF IInv, RestoredWhenReleased
  <2> QED BY <2>1, <2>2, <2>3
<1> QED BY <1>4, <1>7, <1>8, <1>9, <1>10, <1>11, <1>12, <1>13 DEF IInv

\* The invariant without the two parts that speak of the caller's stage.
Bookkeeping ==
    /\ nr \in [Slot -> Nat]
    /\ requests \in [Requestor -> [Node -> Request \cup {NoRequest}]]
    /\ initial_count \in [Slot -> Nat]
    /\ allocated_count \in [Slot -> Nat]
    /\ \A r \in Requestor, n \in Node : requests[r][n] # NoRequest => requests[r][n].state # READY
    /\ GrownFromStart
    /\ SuccessIsBacked
    /\ RequestCoversMemory
    /\ GrantedBySize
    /\ RestoredWhenReleased
    /\ SystemPagesKept

\* Settling a request keeps what was asked for and decides its state by
\* comparing its count with the granted one.
LEMMA SettleResult ==
    ASSUME NEW q \in Request, q.state = READY, NEW won \in Nat
    PROVE  /\ Settle(q, won) \in Request
           /\ Settle(q, won) # NoRequest
           /\ Settle(q, won).size = q.size
           /\ Settle(q, won).count = q.count
           /\ Settle(q, won).state \in {SUCCESS, FAILED}
           /\ Settle(q, won).state = SUCCESS <=> q.count <= won
<1>1. Settle(q, won) \in Request
  BY DEF Settle, Request
<1>2. Settle(q, won) # NoRequest
  BY <1>1, Distinct
<1>3. q.count <= won => Settle(q, won) = [q EXCEPT !.state = SUCCESS]
  BY DEF Settle
<1>4. ~(q.count <= won) => Settle(q, won) = [q EXCEPT !.state = FAILED]
  BY DEF Settle
<1>5. /\ [q EXCEPT !.state = SUCCESS].size = q.size
      /\ [q EXCEPT !.state = SUCCESS].count = q.count
      /\ [q EXCEPT !.state = SUCCESS].state = SUCCESS
      /\ [q EXCEPT !.state = FAILED].size = q.size
      /\ [q EXCEPT !.state = FAILED].count = q.count
      /\ [q EXCEPT !.state = FAILED].state = FAILED
  BY DEF Request
<1> QED BY <1>1, <1>2, <1>3, <1>4, <1>5, Distinct, Zenon

\* _allocate() decides every request and grows exactly the slots it granted.
LEMMA AllocateBookkeeping ==
    ASSUME IInv, sudo, ~alloc_done, Allocate, UNCHANGED <<sudo, nr0>>, stuck' = stuck
    PROVE  /\ Bookkeeping'
           /\ \A r \in Requestor, n \in Node : requests'[r][n] = NoRequest <=> requests[r][n] = NoRequest
<1>t. TypeOK
  BY DEF IInv
<1>0. PICK unread \in SUBSET {sl \in Slot : Holders(sl) # {}} :
      \E won \in [Slot -> 0 .. MaxCount] :
       /\ \A sl \in Slot : won[sl] \in ReadyCounts(sl) \cup {0} /\ (sl \in unread => won[sl] = 0)
       /\ \E added \in [Slot -> 0 .. MaxCount] :
             /\ \A sl \in Slot : /\ SlotOutcome(sl, won[sl], added[sl])
                                 /\ sl \in unread => added[sl] = 0
             /\ initial_count' = [sl \in Slot |->
                    IF Holders(sl) = {} \/ sl \in unread THEN initial_count[sl] ELSE nr[sl]]
             /\ allocated_count' = [sl \in Slot |->
                    IF won[sl] > 0 THEN nr[sl] + won[sl] ELSE allocated_count[sl]]
             /\ nr' = [sl \in Slot |-> nr[sl] + added[sl]]
             /\ requests' = [r \in Requestor |-> [n \in Node |->
                    IF requests[r][n] = NoRequest THEN NoRequest
                    ELSE Settle(requests[r][n], won[<<n, requests[r][n].size>>])]]
  BY DEF Allocate
<1>1. PICK won \in [Slot -> 0 .. MaxCount] :
       /\ \A sl \in Slot : won[sl] \in ReadyCounts(sl) \cup {0} /\ (sl \in unread => won[sl] = 0)
       /\ \E added \in [Slot -> 0 .. MaxCount] :
             /\ \A sl \in Slot : /\ SlotOutcome(sl, won[sl], added[sl])
                                 /\ sl \in unread => added[sl] = 0
             /\ initial_count' = [sl \in Slot |->
                    IF Holders(sl) = {} \/ sl \in unread THEN initial_count[sl] ELSE nr[sl]]
             /\ allocated_count' = [sl \in Slot |->
                    IF won[sl] > 0 THEN nr[sl] + won[sl] ELSE allocated_count[sl]]
             /\ nr' = [sl \in Slot |-> nr[sl] + added[sl]]
             /\ requests' = [r \in Requestor |-> [n \in Node |->
                    IF requests[r][n] = NoRequest THEN NoRequest
                    ELSE Settle(requests[r][n], won[<<n, requests[r][n].size>>])]]
  BY <1>0
<1>2. PICK added \in [Slot -> 0 .. MaxCount] :
             /\ \A sl \in Slot : SlotOutcome(sl, won[sl], added[sl])
             /\ initial_count' = [sl \in Slot |->
                    IF Holders(sl) = {} \/ sl \in unread THEN initial_count[sl] ELSE nr[sl]]
             /\ allocated_count' = [sl \in Slot |->
                    IF won[sl] > 0 THEN nr[sl] + won[sl] ELSE allocated_count[sl]]
             /\ nr' = [sl \in Slot |-> nr[sl] + added[sl]]
             /\ requests' = [r \in Requestor |-> [n \in Node |->
                    IF requests[r][n] = NoRequest THEN NoRequest
                    ELSE Settle(requests[r][n], won[<<n, requests[r][n].size>>])]]
  BY <1>1
\* the counters before the allocation
<1>3. \A sl \in Slot : /\ nr[sl] = nr0[sl] /\ nr[sl] \in Nat
                       /\ allocated_count[sl] = 0 /\ initial_count[sl] = 0
  BY <1>t DEF IInv, AllocationIsOnce, TypeOK
\* and after it
<1>4. \A sl \in Slot : won[sl] \in Nat /\ added[sl] \in Nat
  <2>1. \A sl \in Slot : won[sl] \in 0 .. MaxCount /\ added[sl] \in 0 .. MaxCount
    OBVIOUS
  <2>2. \A k \in 0 .. MaxCount : k \in Nat
    BY HugePagesAssumption
  <2> QED BY <2>1, <2>2, Zenon
<1>5. \A sl \in Slot : won[sl] > 0 => added[sl] = won[sl]
  BY <1>2, <1>4 DEF SlotOutcome
<1>6. \A sl \in Slot : won[sl] > 0 => Holders(sl) # {} /\ sl \notin unread
  <2>1. \A sl \in Slot : ReadyCounts(sl) # {} => Holders(sl) # {}
    BY DEF ReadyCounts
  <2> QED BY <2>1, <1>1, <1>4
<1>7. \A sl \in Slot : /\ nr'[sl] = nr[sl] + added[sl]
                       /\ allocated_count'[sl] = IF won[sl] > 0 THEN nr[sl] + won[sl] ELSE 0
                       /\ initial_count'[sl] = IF Holders(sl) = {} \/ sl \in unread THEN 0 ELSE nr[sl]
  BY <1>2, <1>3
<1>8. \A sl \in Slot : allocated_count'[sl] > initial_count'[sl] <=> won[sl] > 0
  BY <1>3, <1>4, <1>6, <1>7
<1>9. \A sl \in Slot : won[sl] > 0 => initial_count'[sl] = nr0[sl] /\ nr'[sl] = nr0[sl] + won[sl]
  BY <1>3, <1>5, <1>6, <1>7
\* the requests
<1>10. ASSUME NEW r \in Requestor, NEW n \in Node, requests[r][n] # NoRequest
       PROVE  LET sl == <<n, requests[r][n].size>>
              IN  /\ sl \in Slot
                  /\ requests[r][n] \in Request
                  /\ requests[r][n].count \in Nat
                  /\ requests[r][n].count > 0
                  /\ requests'[r][n] \in Request
                  /\ requests'[r][n] # NoRequest
                  /\ requests'[r][n].size = requests[r][n].size
                  /\ requests'[r][n].count = requests[r][n].count
                  /\ requests'[r][n].state \in {SUCCESS, FAILED}
                  /\ requests'[r][n].state = SUCCESS <=> requests[r][n].count <= won[sl]
  <2> DEFINE sl == <<n, requests[r][n].size>>
  <2>1. /\ requests[r][n] \in Request /\ sl \in Slot
        /\ requests[r][n].count \in Nat /\ requests[r][n].count \in 1 .. MaxCount
    BY <1>10, <1>t, RequestFields
  <2>2. requests[r][n].state = READY
    BY <1>10 DEF IInv, AllocationIsOnce
  <2>3. requests'[r][n] = Settle(requests[r][n], won[sl])
    BY <1>2, <1>10
  <2>4. won[sl] \in Nat
    BY <2>1, <1>4
  <2>5. requests[r][n].count > 0
    BY <2>1
  <2> HIDE DEF sl
  <2>6. /\ requests'[r][n] \in Request
        /\ requests'[r][n] # NoRequest
        /\ requests'[r][n].size = requests[r][n].size
        /\ requests'[r][n].count = requests[r][n].count
        /\ requests'[r][n].state \in {SUCCESS, FAILED}
        /\ requests'[r][n].state = SUCCESS <=> requests[r][n].count <= won[sl]
    BY <2>1, <2>2, <2>3, <2>4, SettleResult
  <2> QED BY <2>1, <2>5, <2>6 DEF sl
<1>11. ASSUME NEW r \in Requestor, NEW n \in Node
       PROVE  requests'[r][n] = NoRequest <=> requests[r][n] = NoRequest
  <2>1. requests[r][n] = NoRequest => requests'[r][n] = NoRequest
    BY <1>2
  <2> QED BY <2>1, <1>10
<1>12. /\ nr' \in [Slot -> Nat]
       /\ initial_count' \in [Slot -> Nat]
       /\ allocated_count' \in [Slot -> Nat]
  BY <1>2, <1>3, <1>4
<1>13. requests' \in [Requestor -> [Node -> Request \cup {NoRequest}]]
  <2>1. \A r \in Requestor, n \in Node : requests'[r][n] \in Request \cup {NoRequest}
    BY <1>10, <1>11
  <2>2. requests' = [r \in Requestor |-> [n \in Node |-> requests'[r][n]]]
    BY <1>2
  <2> QED BY <2>1, <2>2
<1>14. \A r \in Requestor, n \in Node : requests'[r][n] # NoRequest => requests'[r][n].state # READY
  BY <1>10, <1>11, Distinct
<1>15. GrownFromStart' /\ SystemPagesKept'
  <2>1. \A sl \in Slot : nr'[sl] >= nr0[sl]
    BY <1>3, <1>4, <1>7
  <2> QED BY <2>1, <1>8, <1>9 DEF GrownFromStart, SystemPagesKept
<1>16. SuccessIsBacked'
  <2> SUFFICES ASSUME NEW r \in Requestor, NEW n \in Node,
                      requests'[r][n] # NoRequest, requests'[r][n].state = SUCCESS
               PROVE  LET sl == <<n, requests'[r][n].size>>
                      IN  /\ nr'[sl] >= nr0[sl] + requests'[r][n].count
                          /\ allocated_count'[sl] > initial_count'[sl]
    BY DEF SuccessIsBacked, Base
  <2> DEFINE sl == <<n, requests[r][n].size>>
  <2>1. /\ sl \in Slot /\ requests'[r][n].size = requests[r][n].size
        /\ requests'[r][n].count = requests[r][n].count
        /\ requests[r][n].count \in Nat /\ requests[r][n].count > 0
        /\ requests[r][n].count <= won[sl]
    BY <1>10, <1>11
  <2>2. won[sl] > 0 /\ nr0[sl] \in Nat /\ won[sl] \in Nat
    BY <2>1, <1>3, <1>4
  <2> QED BY <2>1, <2>2, <1>8, <1>9
<1>17. RequestCoversMemory'
  <2> SUFFICES ASSUME NEW r \in Requestor, NEW n \in Node, requests'[r][n] # NoRequest
               PROVE  /\ requests'[r][n].size * requests'[r][n].count
                             = RequestInfo[r][n].size * RequestInfo[r][n].count
                      /\ requests'[r][n].size <= RequestInfo[r][n].size
    BY DEF RequestCoversMemory
  <2> QED BY <1>10, <1>11 DEF IInv, RequestCoversMemory
<1>18. GrantedBySize'
  <2> SUFFICES ASSUME NEW p \in Requestor, NEW q \in Requestor, NEW n \in Node,
                      requests'[p][n] # NoRequest, requests'[q][n] # NoRequest,
                      requests'[p][n].size = requests'[q][n].size,
                      requests'[p][n].count <= requests'[q][n].count,
                      requests'[q][n].state = SUCCESS
               PROVE  requests'[p][n].state = SUCCESS
    BY DEF GrantedBySize
  <2>1. requests[p][n] # NoRequest /\ requests[q][n] # NoRequest
    BY <1>11
  <2> DEFINE w == won[<<n, requests[q][n].size>>]
  <2>2. /\ requests[p][n].size = requests[q][n].size
        /\ requests[p][n].count <= requests[q][n].count
        /\ requests[p][n].count \in Nat /\ requests[q][n].count \in Nat
        /\ requests[q][n].count <= w
        /\ w \in Nat
    BY <2>1, <1>10, <1>4
  <2>3. requests[p][n].count <= w
    BY <2>2
  <2> QED BY <2>1, <2>2, <2>3, <1>10
<1>19. RestoredWhenReleased'
  <2> SUFFICES ASSUME NEW sl \in Slot, Holders(sl)' = {}, won[sl] > 0
               PROVE  FALSE
    BY <1>8 DEF RestoredWhenReleased
  <2>1. PICK r \in Holders(sl) : TRUE
    BY <1>6
  <2>2. /\ r \in Requestor /\ sl[1] \in Node /\ requests[r][sl[1]] # NoRequest
        /\ requests[r][sl[1]].size = sl[2]
    BY <2>1 DEF Holders, Registered, Slot
  <2>3. r \in Holders(sl)'
    BY <2>2, <1>10 DEF Holders, Registered
  <2> QED BY <2>3
<1> QED BY <1>11, <1>12, <1>13, <1>14, <1>15, <1>16, <1>17, <1>18, <1>19 DEF Bookkeeping

\* acquire(): after it the allocation has happened, and the caller got through
\* only if none of its requests failed, hence only if all succeeded.
LEMMA AcquireIInv ==
    ASSUME IInv, NEW r \in Requestor, Acquire(r)
    PROVE  IInv'
<1>t. TypeOK
  BY DEF IInv
<1>u. /\ UNCHANGED <<sudo, nr0, stuck>> /\ sudo /\ alloc_done'
      /\ stage[r] = "requested"
      /\ SetupStageOver
      /\ stage' = [stage EXCEPT ![r] =
            IF \E n \in Node : requests'[r][n].state = FAILED THEN "failed" ELSE "acquired"]
  BY DEF Acquire
<1>1. /\ Bookkeeping'
      /\ \A p \in Requestor, n \in Node : requests'[p][n] = NoRequest <=> requests[p][n] = NoRequest
      /\ \A p \in Requestor : stage[p] = "acquired" => requests'[p] = requests[p]
  <2>1. CASE alloc_done
    <3>1. UNCHANGED <<nr, requests, initial_count, allocated_count>>
      BY <2>1 DEF Acquire
    <3>2. UNCHANGED <<nr, sudo, requests, initial_count, allocated_count, alloc_done, nr0, stuck>>
      BY <3>1, <1>u, <2>1, <1>t DEF TypeOK
    <3>3. /\ GrownFromStart' /\ SuccessIsBacked' /\ RequestCoversMemory'
          /\ GrantedBySize' /\ RestoredWhenReleased' /\ SystemPagesKept'
      BY <3>2, CountersKept
    <3>4. \A p \in Requestor, n \in Node : requests'[p][n] # NoRequest => requests'[p][n].state # READY
      BY <3>1, <2>1, <1>u DEF IInv, AllocationIsOnce
    <3> QED BY <3>1, <3>3, <3>4, <1>t DEF Bookkeeping, TypeOK
  <2>2. CASE ~alloc_done
    <3>1. Allocate
      BY <2>2 DEF Acquire
    <3>2. \A p \in Requestor : stage[p] # "acquired"
      BY <2>2, <1>u DEF IInv, RequestsFollowStage
    <3> QED BY <3>1, <3>2, <2>2, <1>u, AllocateBookkeeping
  <2> QED BY <2>1, <2>2
<1>2. TypeOK'
  <2>1. stage' \in [Requestor -> Stage]
    BY <1>u, <1>t DEF TypeOK, Stage
  <2> QED BY <2>1, <1>1, <1>u, <1>t DEF Bookkeeping, TypeOK
<1>3. AllocationIsOnce'
  BY <1>1, <1>u DEF Bookkeeping, AllocationIsOnce
<1>4. /\ \A p \in Requestor \ {r} : stage'[p] = stage[p]
      /\ stage'[r] \in {"failed", "acquired"}
      /\ stage'[r] = "acquired" => \A n \in Node : requests'[r][n].state # FAILED
  BY <1>u, <1>t DEF TypeOK
<1>5. \A n \in Node : requests'[r][n] # NoRequest
  BY <1>1, <1>u DEF IInv, RequestsFollowStage
<1>6. \A n \in Node : requests'[r][n].state \in {SUCCESS, FAILED}
  <2> SUFFICES ASSUME NEW n \in Node PROVE requests'[r][n].state \in {SUCCESS, FAILED}
    OBVIOUS
  <2>1. requests'[r][n] \in Request
    BY <1>5, <1>2 DEF TypeOK
  <2>2. requests'[r][n].state \in {READY, SUCCESS, FAILED}
    BY <2>1 DEF Request
  <2> QED BY <2>2, <1>1, <1>5 DEF Bookkeeping
<1>7. RequestsFollowStage'
  <2> SUFFICES ASSUME NEW p \in Requestor
               PROVE  /\ stage'[p] \in {"requested", "skipped", "acquired", "failed"}
                            => \A n \in Node : requests'[p][n] # NoRequest
                      /\ stage'[p] \in {"new", "released"}
                            => \A n \in Node : requests'[p][n] = NoRequest
                      /\ stage'[p] = "acquired"
                            => \A n \in Node : requests'[p][n] # NoRequest /\ requests'[p][n].state = SUCCESS
                      /\ stage'[p] # "new"
    BY <1>u DEF RequestsFollowStage
  <2>1. CASE p = r
    BY <2>1, <1>4, <1>5, <1>6
  <2>2. CASE p # r
    <3>1. stage'[p] = stage[p] /\ stage[p] # "new"
      BY <2>2, <1>4, <1>u DEF SetupStageOver
    <3> QED BY <3>1, <1>1, <1>u DEF IInv, RequestsFollowStage
  <2> QED BY <2>1, <2>2
<1> QED BY <1>1, <1>2, <1>3, <1>7 DEF Bookkeeping, IInv

\* Every step keeps the invariant.
LEMMA NextIInv == IInv /\ [Next]_vars => IInv'
<1> SUFFICES ASSUME IInv, [Next]_vars PROVE IInv'
  OBVIOUS
<1>1. CASE Next
  <2>1. PICK r \in Requestor :
           \/ RequestAllocation(r) \/ Skip(r) \/ Acquire(r)
           \/ AcquirePreallocated(r) \/ Release(r) \/ ReleasePreallocated(r)
    BY <1>1 DEF Next
  <2> QED BY <2>1, RequestAllocationIInv, SkipIInv, AcquireIInv, AcquirePreallocatedIInv,
             ReleaseIInv, ReleasePreallocatedIInv
<1>2. CASE UNCHANGED vars
  <2>1. UNCHANGED <<nr, sudo, requests, initial_count, allocated_count, alloc_done, nr0, stuck, stage>>
    BY <1>2 DEF vars
  <2>2. TypeOK' /\ RequestsFollowStage'
    BY <2>1 DEF IInv, TypeOK, RequestsFollowStage
  <2> QED BY <2>1, <2>2, CountersKept DEF IInv
<1> QED BY <1>1, <1>2

-----------------------------------------------------------------------------
\* The inductive invariant holds in every reachable state.
THEOREM Invariance == Spec => []IInv
<1>1. Init => IInv
  BY InitIInv
<1>2. IInv /\ [Next]_vars => IInv'
  BY NextIInv
<1> QED BY <1>1, <1>2, PTL DEF Spec

\* HugePageManager's state keeps its types for every request pattern.
THEOREM TypeCorrect == Spec => []TypeOK
<1>1. IInv => TypeOK
  BY DEF IInv
<1> QED BY <1>1, Invariance, PTL

\* A recipe that got through acquire() has its pages on every node until it
\* calls release() itself.
THEOREM AcquiredBacked == Spec => []AcquiredIsBacked
<1>1. IInv => AcquiredIsBacked
  <2> SUFFICES ASSUME IInv, NEW r \in Requestor, stage[r] = "acquired", NEW n \in Node
               PROVE  /\ requests[r][n].state = SUCCESS
                      /\ nr[<<n, requests[r][n].size>>]
                            >= Base(<<n, requests[r][n].size>>) + requests[r][n].count
    BY DEF AcquiredIsBacked
  <2>1. requests[r][n] # NoRequest /\ requests[r][n].state = SUCCESS
    BY DEF IInv, RequestsFollowStage
  <2> QED BY <2>1 DEF IInv, SuccessIsBacked
<1> QED BY <1>1, Invariance, PTL

\* _adjust_to_available_size never changes the amount of memory asked for.
THEOREM MemoryCovered == Spec => []RequestCoversMemory
<1>1. IInv => RequestCoversMemory
  BY DEF IInv
<1> QED BY <1>1, Invariance, PTL

\* The descending search of _allocate never refuses a request while serving a
\* larger one.
THEOREM GrantOrder == Spec => []GrantedBySize
<1>1. IInv => GrantedBySize
  BY DEF IInv
<1> QED BY <1>1, Invariance, PTL

\* release() by the last holder restores the counter from before the run.
THEOREM Restoration == Spec => []RestoredWhenReleased
<1>1. IInv => RestoredWhenReleased
  BY DEF IInv
<1> QED BY <1>1, Invariance, PTL

\* No step takes away pages that were there before the run.
THEOREM PagesKept == Spec => []SystemPagesKept
<1>1. IInv => SystemPagesKept
  BY DEF IInv
<1> QED BY <1>1, Invariance, PTL

----------------------------------------------------------------------------
(* Topology: lists of CPUs and the loop over the groups *)

\* The numbers of a finite set have places, in the order of their size.
LEMMA Places ==
    ASSUME NEW S \in SUBSET Nat, IsFiniteSet(S)
    PROVE  \E place \in [S -> 1 .. Cardinality(S)] :
               /\ \A k \in 1 .. Cardinality(S) : \E c \in S : place[c] = k
               /\ \A c, e \in S : c < e => place[c] < place[e]
               /\ \A c \in S : \A k \in 1 .. Cardinality(S) : Cardinality({d \in S : d < c}) = k - 1 <=> place[c] = k
<1> DEFINE Less(c) == {d \in S : d < c}
           n == Cardinality(S)
           place == [c \in S |-> Cardinality(Less(c)) + 1]
<1>0. n \in Nat
  BY FS_CardinalityType
<1>1. ASSUME NEW c \in S
      PROVE  IsFiniteSet(Less(c)) /\ Cardinality(Less(c)) \in 0 .. n - 1
  <2>1. Less(c) \in SUBSET S /\ Less(c) # S
    OBVIOUS
  <2> HIDE DEF Less
  <2>2. IsFiniteSet(Less(c)) /\ Cardinality(Less(c)) <= n /\ Cardinality(Less(c)) # n
    BY <2>1, FS_Subset
  <2>3. Cardinality(Less(c)) \in Nat
    BY <2>2, FS_CardinalityType
  <2> QED
    BY <1>0, <2>2, <2>3
<1>2. ASSUME NEW c \in S, NEW e \in S, c < e
      PROVE  Cardinality(Less(c)) < Cardinality(Less(e))
  <2>1. Less(c) \in SUBSET Less(e) /\ Less(c) # Less(e)
    <3>1. \A d \in S : d < c => d < e
      BY <1>2
    <3>2. c \in Less(e) /\ c \notin Less(c)
      BY <1>2
    <3> QED
      BY <3>1, <3>2
  <2>2. IsFiniteSet(Less(e)) /\ Cardinality(Less(e)) \in Nat /\ Cardinality(Less(c)) \in Nat
    BY <1>1
  <2> HIDE DEF Less
  <2>3. Cardinality(Less(c)) <= Cardinality(Less(e)) /\ Cardinality(Less(c)) # Cardinality(Less(e))
    BY <2>1, <2>2, FS_Subset
  <2> QED
    BY <2>2, <2>3
<1>3. \A c, e \in S : place[c] = place[e] => c = e
  <2> SUFFICES ASSUME NEW c \in S, NEW e \in S, c # e PROVE place[c] # place[e]
    OBVIOUS
  <2>1. c < e \/ e < c
    OBVIOUS
  <2>2. Cardinality(Less(c)) \in Nat /\ Cardinality(Less(e)) \in Nat /\ Cardinality(Less(c)) # Cardinality(Less(e))
    BY <1>1, <1>2, <2>1
  <2> HIDE DEF Less
  <2> QED
    BY <2>2
<1>4. place \in [S -> 1 .. n]
  BY <1>0, <1>1
<1>5. \A k \in 1 .. n : \E c \in S : place[c] = k
  <2>1. place \in Injection(S, 1 .. n)
    BY <1>3, <1>4 DEF Injection, IsInjective
  <2>2. IsFiniteSet(1 .. n) /\ Cardinality(1 .. n) = n
    BY <1>0, FS_Interval
  <2>3. place \in Surjection(S, 1 .. n)
    BY <2>1, <2>2, FS_Injection
  <2> QED
    BY <2>3 DEF Surjection
<1>6. \A c \in S : \A k \in 1 .. n : Cardinality(Less(c)) = k - 1 <=> place[c] = k
  BY <1>1
<1>7. \A c, e \in S : c < e => place[c] < place[e]
  <2> SUFFICES ASSUME NEW c \in S, NEW e \in S, c < e PROVE place[c] < place[e]
    OBVIOUS
  <2>1. Cardinality(Less(c)) \in Nat /\ Cardinality(Less(e)) \in Nat /\ Cardinality(Less(c)) < Cardinality(Less(e))
    BY <1>1, <1>2
  <2> HIDE DEF Less
  <2> QED
    BY <2>1
<1> HIDE DEF place
<1> QED
  BY <1>4, <1>5, <1>6, <1>7

\* intmask_list lists each CPU of a mask once.
LEMMA AscendingLists ==
    ASSUME NEW S \in SUBSET Nat, IsFiniteSet(S)
    PROVE  /\ Range(Ascending(S)) = S
           /\ Ascending(S) \in Seq(S)
           /\ Len(Ascending(S)) = Cardinality(S)
<1> DEFINE Less(c) == {d \in S : d < c}
           n == Cardinality(S)
<1>0. n \in Nat
  BY FS_CardinalityType
<1>1. PICK place \in [S -> 1 .. n] :
          /\ \A k \in 1 .. n : \E c \in S : place[c] = k
          /\ \A c, e \in S : c < e => place[c] < place[e]
          /\ \A c \in S : \A k \in 1 .. n : Cardinality(Less(c)) = k - 1 <=> place[c] = k
  BY Places
<1>7. Ascending(S) = [k \in 1 .. n |-> CHOOSE c \in S : Cardinality(Less(c)) = k - 1]
  BY DEF Ascending
<1>2. \A c, e \in S : place[c] = place[e] => c = e
  <2> SUFFICES ASSUME NEW c \in S, NEW e \in S, c # e PROVE place[c] # place[e]
    OBVIOUS
  <2>1. c < e \/ e < c
    OBVIOUS
  <2>2. place[c] \in Int /\ place[e] \in Int /\ (place[c] < place[e] \/ place[e] < place[c])
    BY <1>0, <1>1, <2>1
  <2> QED
    BY <2>2
<1> HIDE DEF Less, n
<1>8. ASSUME NEW k \in 1 .. n PROVE Ascending(S)[k] \in S /\ place[Ascending(S)[k]] = k
  <2> DEFINE At(c) == Cardinality(Less(c)) = k - 1
  <2>1. \E c \in S : At(c)
    BY <1>1
  <2>2. Ascending(S)[k] = CHOOSE c \in S : At(c)
    BY <1>7
  <2>3. Ascending(S)[k] \in S /\ At(Ascending(S)[k])
    <3> HIDE DEF At
    <3> QED
      BY <2>1, <2>2
  <2> QED
    BY <1>1, <2>3
<1>9. \A c \in S : Ascending(S)[place[c]] = c
  BY <1>1, <1>2, <1>8
<1>10. DOMAIN Ascending(S) = 1 .. n
  BY <1>7
<1>11. Range(Ascending(S)) = S
  <2>1. \A c \in S : place[c] \in 1 .. n
    BY <1>1
  <2>2. \A k \in 1 .. n : Ascending(S)[k] \in S
    BY <1>8
  <2> QED
    BY <2>1, <2>2, <1>9, <1>10, Zenon DEF Range
<1>12. Ascending(S) \in [1 .. n -> S]
  BY <1>7, <1>8
<1>13. Ascending(S) \in Seq(S) /\ Len(Ascending(S)) = n
  BY <1>0, <1>10, <1>12, SeqDef, LenProperties
<1> QED
  BY <1>11, <1>13 DEF n

\* A finite set of numbers has a greatest one.
LEMMA GreatestNumber ==
    ASSUME NEW S \in SUBSET Nat, IsFiniteSet(S), S # {}
    PROVE  Max(S) \in S
<1> DEFINE n == Cardinality(S)
<1>0. n \in Nat \ {0}
  BY FS_CardinalityType, FS_EmptySet
<1>1. PICK place \in [S -> 1 .. n] :
          /\ \A k \in 1 .. n : \E c \in S : place[c] = k
          /\ \A c, e \in S : c < e => place[c] < place[e]
  BY Places
<1> HIDE DEF n
<1>2. PICK c \in S : place[c] = n
  BY <1>0, <1>1
<1>3. ASSUME NEW e \in S PROVE c >= e
  <2>1. place[e] <= n /\ place[e] \in Int /\ c \in Nat /\ e \in Nat
    BY <1>0, <1>1
  <2>2. ~(c < e)
    BY <1>0, <1>1, <1>2, <2>1
  <2> QED
    BY <2>1, <2>2
<1> QED
  BY <1>3 DEF Max

\* A set of numbers has a least one.
LEMMA LeastNumber ==
    ASSUME NEW S \in SUBSET Nat, S # {}
    PROVE  Min(S) \in S
<1> DEFINE R == OpToRel(<, Nat)
<1>1. IsWellFoundedOn(R, Nat)
  BY NatLessThanWellFounded
<1>2. \A x, y \in Nat : y < x => <<y, x>> \in R
  BY Zenon DEF OpToRel
<1> HIDE DEF R
<1>3. \E x \in S : \A y \in S : ~(<<y, x>> \in R)
  BY <1>1, WFMin
<1>4. \E x \in S : \A y \in S : x <= y
  <2>1. PICK x \in S : \A y \in S : ~(<<y, x>> \in R)
    BY <1>3
  <2>2. ASSUME NEW y \in S PROVE x <= y
    <3>1. x \in Nat /\ y \in Nat /\ ~(y < x)
      BY <1>2, <2>1
    <3> QED
      BY <3>1
  <2> QED
    BY <2>2
<1> QED
  BY <1>4 DEF Min

\* Induction over the numbers.
LEMMA NumberInduction ==
    ASSUME NEW S \in SUBSET Nat, 0 \in S, \A n \in S : n + 1 \in S
    PROVE  S = Nat
<1>1. SUFFICES ASSUME Nat \ S # {} PROVE FALSE
  OBVIOUS
<1>2. PICK x \in Nat : x \notin S /\ \A y \in Nat : y < x => y \in S
  <2> DEFINE R == OpToRel(<, Nat)
             T == Nat \ S
  <2>1. IsWellFoundedOn(R, Nat)
    BY NatLessThanWellFounded
  <2>2. T \subseteq Nat /\ T # {}
    BY <1>1
  <2>3. \A x, y \in Nat : y < x => <<y, x>> \in R
    BY Zenon DEF OpToRel
  <2> HIDE DEF R, T
  <2>4. \E x \in T : \A y \in T : ~(<<y, x>> \in R)
    BY <2>1, <2>2, WFMin
  <2> QED
    BY <2>3, <2>4 DEF T
<1>3. CASE x = 0
  BY <1>2, <1>3
<1>4. CASE x # 0
  <2>1. x - 1 \in Nat /\ x - 1 < x /\ x = (x - 1) + 1
    BY <1>2, <1>4
  <2> QED
    BY <1>2, <2>1
<1> QED
  BY <1>3, <1>4

\* g lists what N steps make of base.
Iterates(g, N, base, step) == g[0] = base /\ \A n \in 1 .. N : g[n] = step[<<g[n - 1], n>>]

\* Any number of steps can be taken from base: the recursive functions below exist.
LEMMA IterationExists ==
    ASSUME NEW N \in Nat, NEW S, NEW base \in S, NEW step \in [S \X (1 .. N) -> S]
    PROVE  \E g \in [0 .. N -> S] : Iterates(g, N, base, step)
<1> DEFINE Begun(g, m) == g[0] = base /\ \A n \in 1 .. m : g[n] = step[<<g[n - 1], n>>]
           I == {m \in Nat : m <= N => \E g \in [0 .. m -> S] : Begun(g, m)}
<1>1. 0 \in I
  <2> DEFINE g == [n \in 0 .. 0 |-> base]
  <2>1. g \in [0 .. 0 -> S] /\ Begun(g, 0)
    OBVIOUS
  <2> HIDE DEF g, Begun
  <2> QED
    BY <2>1
<1>2. ASSUME NEW m \in I PROVE m + 1 \in I
  <2>1. CASE m + 1 > N
    BY <2>1
  <2>2. CASE m + 1 <= N
    <3>1. PICK g \in [0 .. m -> S] : Begun(g, m)
      BY <2>2
    <3> DEFINE h == [n \in 0 .. (m + 1) |-> IF n = m + 1 THEN step[<<g[m], m + 1>>] ELSE g[n]]
    <3>2. step[<<g[m], m + 1>>] \in S
      BY <2>2
    <3>3. h \in [0 .. (m + 1) -> S]
      BY <3>2
    <3>4. h[0] = base
      BY <3>1
    <3>5. ASSUME NEW n \in 1 .. (m + 1) PROVE h[n] = step[<<h[n - 1], n>>]
      <4>1. CASE n = m + 1
        <5>1. n - 1 = m /\ m \in 0 .. (m + 1) /\ m # m + 1 /\ n \in 0 .. (m + 1)
          BY <4>1
        <5>2. h[n - 1] = g[m] /\ h[n] = step[<<g[m], n>>]
          BY <4>1, <5>1
        <5> QED
          BY <5>2
      <4>2. CASE n # m + 1
        <5>1. n \in 1 .. m /\ n - 1 \in 0 .. m /\ n - 1 # m + 1
          BY <4>2
        <5>2. h[n] = g[n] /\ h[n - 1] = g[n - 1]
          BY <5>1
        <5> QED
          BY <5>1, <5>2, <3>1
      <4> QED
        BY <4>1, <4>2
    <3> HIDE DEF h
    <3>6. Begun(h, m + 1)
      BY <3>4, <3>5
    <3> HIDE DEF Begun
    <3> QED
      BY <3>3, <3>6
  <2> QED
    BY <2>1, <2>2
<1>3. I = Nat
  <2> HIDE DEF I
  <2>1. I \in SUBSET Nat
    BY DEF I
  <2> QED
    BY <1>1, <1>2, <2>1, NumberInduction
<1>4. N \in I
  BY <1>3
<1> QED
  BY <1>4 DEF Iterates

\* One group is compared with the best parent so far.
Narrowed(g, best, gp) == IF gp # g /\ g \subseteq gp /\ gp \subseteq best THEN gp ELSE best

\* The loop over the groups, group by group.
LEMMA ParentLoop ==
    ASSUME NEW groups \in Seq(SUBSET hw.cpus), NEW g
    PROVE  \E best \in [0 .. Len(groups) -> SUBSET hw.cpus] :
               /\ BestParent(g, groups) = best[Len(groups)]
               /\ best[0] = hw.cpus
               /\ \A k \in 1 .. Len(groups) : best[k] = Narrowed(g, best[k - 1], groups[k])
<1> DEFINE N == Len(groups)
           S == SUBSET hw.cpus
           Body(b) == [k \in 0 .. N |-> IF k = 0 THEN hw.cpus ELSE Narrowed(g, b[k - 1], groups[k])]
           best == CHOOSE b : b = Body(b)
           step == [p \in S \X (1 .. N) |-> Narrowed(g, p[1], groups[p[2]])]
<1>1. BestParent(g, groups) = best[N]
  BY DEF BestParent, Narrowed
<1>2. N \in Nat /\ \A k \in 1 .. N : groups[k] \in S
  OBVIOUS
<1>3. hw.cpus \in S
  OBVIOUS
<1> HIDE DEF S, N
<1>4. \A b \in S : \A k \in 1 .. N : Narrowed(g, b, groups[k]) \in S
  BY <1>2 DEF Narrowed
<1>5. step \in [S \X (1 .. N) -> S]
  BY <1>4
<1>6. \A b \in S : \A k \in 1 .. N : step[<<b, k>>] = Narrowed(g, b, groups[k])
  OBVIOUS
<1> HIDE DEF step
<1>7. PICK b \in [0 .. N -> S] : Iterates(b, N, hw.cpus, step)
  BY <1>2, <1>3, <1>5, IterationExists, Zenon
<1>8. b[0] = hw.cpus /\ \A k \in 1 .. N : b[k] = step[<<b[k - 1], k>>]
  BY <1>7 DEF Iterates
<1>9. ASSUME NEW k \in 1 .. N PROVE b[k] = Narrowed(g, b[k - 1], groups[k])
  <2>1. k - 1 \in 0 .. N
    BY <1>2
  <2> QED
    BY <2>1, <1>6, <1>8
<1>10. ASSUME NEW b1 \in [0 .. N -> S], b1[0] = hw.cpus, \A k \in 1 .. N : b1[k] = Narrowed(g, b1[k - 1], groups[k])
       PROVE  b1 = Body(b1)
  <2>1. ASSUME NEW k \in 0 .. N PROVE b1[k] = IF k = 0 THEN hw.cpus ELSE Narrowed(g, b1[k - 1], groups[k])
    <3>1. CASE k = 0
      BY <3>1, <1>10
    <3>2. CASE k # 0
      <4>1. k \in 1 .. N
        BY <3>2, <1>2
      <4> QED
        BY <3>2, <4>1, <1>10
    <3> QED
      BY <3>1, <3>2
  <2> QED
    BY <2>1
<1>11. best = Body(best)
  <2>1. b = Body(b)
    BY <1>8, <1>9, <1>10
  <2> HIDE DEF Body
  <2> QED
    BY <2>1, Zenon
<1> HIDE DEF best
<1>12. ASSUME NEW k \in 0 .. N PROVE best[k] = IF k = 0 THEN hw.cpus ELSE Narrowed(g, best[k - 1], groups[k])
  <2> DEFINE entry(j) == IF j = 0 THEN hw.cpus ELSE Narrowed(g, best[j - 1], groups[j])
  <2>1. Body(best) = [j \in 0 .. N |-> entry(j)]
    OBVIOUS
  <2> HIDE DEF entry, Body
  <2>2. best[k] = entry(k)
    <3>1. [j \in 0 .. N |-> entry(j)][k] = entry(k)
      OBVIOUS
    <3> QED
      BY <3>1, <2>1, <1>11, Zenon
  <2> QED
    BY <2>2 DEF entry
<1>13. DOMAIN best = 0 .. N
  <2>1. DOMAIN Body(best) = 0 .. N
    OBVIOUS
  <2> HIDE DEF Body
  <2> QED
    BY <2>1, <1>11, Zenon
<1>14. best[0] = hw.cpus
  <2>1. 0 \in 0 .. N
    BY <1>2
  <2> QED
    BY <2>1, <1>12
<1>15. \A k \in 1 .. N : best[k] = Narrowed(g, best[k - 1], groups[k])
  <2> SUFFICES ASSUME NEW k \in 1 .. N PROVE best[k] = Narrowed(g, best[k - 1], groups[k])
    OBVIOUS
  <2>1. k \in 0 .. N /\ k # 0
    BY <1>2
  <2> QED
    BY <2>1, <1>12
<1>16. \A k \in 0 .. N : best[k] \in S
  <2> DEFINE I == {k \in Nat : k <= N => best[k] \in S}
  <2>1. 0 \in I
    BY <1>3, <1>14
  <2>2. ASSUME NEW k \in I PROVE k + 1 \in I
    <3> SUFFICES ASSUME k + 1 <= N PROVE best[k + 1] \in S
      OBVIOUS
    <3>1. best[k] \in S /\ k + 1 \in 1 .. N /\ (k + 1) - 1 = k
      BY <1>2
    <3>2. best[k + 1] = Narrowed(g, best[k], groups[k + 1])
      BY <1>15, <3>1
    <3> QED
      BY <1>4, <3>1, <3>2
  <2>3. I = Nat
    <3> HIDE DEF I
    <3>1. I \in SUBSET Nat
      BY DEF I
    <3> QED
      BY <2>1, <2>2, <3>1, NumberInduction
  <2> QED
    BY <2>3, <1>2
<1>17. best = [k \in 0 .. N |-> best[k]]
  <2>1. Body(best) = [k \in 0 .. N |-> Body(best)[k]]
    OBVIOUS
  <2> HIDE DEF Body
  <2> QED
    BY <2>1, <1>11, Zenon
<1>18. best \in [0 .. N -> S]
  BY <1>16, <1>17
<1> QED
  BY <1>1, <1>14, <1>15, <1>18 DEF S, N

\* The parent of a group is the smallest group that holds it.
LEMMA ParentNests ==
    ASSUME NEW groups \in Seq(SUBSET hw.cpus), hw.cpus \in Range(groups),
           NEW g \in Range(groups), g # hw.cpus, NEW p, p = BestParent(g, groups)
    PROVE  /\ p \in Range(groups) /\ g \subseteq p /\ g # p
           /\ ~ \E h \in Range(groups) : g \subseteq h /\ h \subseteq p /\ h \notin {g, p}
<1> DEFINE N == Len(groups)
<1>1. PICK best \in [0 .. N -> SUBSET hw.cpus] :
          /\ BestParent(g, groups) = best[N]
          /\ best[0] = hw.cpus
          /\ \A k \in 1 .. N : best[k] = Narrowed(g, best[k - 1], groups[k])
  BY ParentLoop
<1>2. N \in Nat /\ DOMAIN groups = 1 .. N /\ \A k \in 1 .. N : groups[k] \in Range(groups)
  BY DEF Range
<1>3. g \subseteq hw.cpus
  BY DEF Range
<1> DEFINE Between(j, b) == groups[j] # g /\ g \subseteq groups[j] /\ groups[j] \subseteq b /\ groups[j] # b
           Nests(k) == /\ best[k] \in Range(groups) /\ g \subseteq best[k] /\ g # best[k]
                       /\ \A j \in 1 .. k : ~Between(j, best[k])
           I == {k \in Nat : k <= N => Nests(k)}
<1>4. 0 \in I
  BY <1>1, <1>3
<1>5. ASSUME NEW k \in I PROVE k + 1 \in I
  <2> SUFFICES ASSUME k + 1 <= N PROVE Nests(k + 1)
    OBVIOUS
  <2>1. Nests(k) /\ k + 1 \in 1 .. N /\ (k + 1) - 1 = k
    BY <1>2
  <2> DEFINE gp == groups[k + 1]
             b == best[k]
  <2>2. best[k + 1] = Narrowed(g, b, gp)
    BY <1>1, <2>1
  <2>3. \A j \in 1 .. k + 1 : j \in 1 .. k \/ j = k + 1
    OBVIOUS
  <2>4. CASE gp # g /\ g \subseteq gp /\ gp \subseteq b
    <3>1. best[k + 1] = gp /\ gp \in Range(groups)
      BY <2>1, <2>2, <2>4, <1>2 DEF Narrowed
    <3>2. \A j \in 1 .. k : ~Between(j, gp)
      BY <2>1, <2>4
    <3> QED
      BY <3>1, <3>2, <2>3, <2>4
  <2>5. CASE ~(gp # g /\ g \subseteq gp /\ gp \subseteq b)
    <3>1. best[k + 1] = b
      BY <2>2, <2>5 DEF Narrowed
    <3> QED
      BY <3>1, <2>1, <2>3, <2>5
  <2> QED
    BY <2>4, <2>5
<1>6. I = Nat
  <2> HIDE DEF I
  <2>1. I \in SUBSET Nat
    BY DEF I
  <2> QED
    BY <1>4, <1>5, <2>1, NumberInduction
<1>7. Nests(N)
  BY <1>2, <1>6
<1>8. p = best[N]
  BY <1>1
<1>9. ASSUME NEW h \in Range(groups), g \subseteq h, h \subseteq p, h # g, h # p PROVE FALSE
  <2>1. PICK j \in 1 .. N : groups[j] = h
    BY <1>2 DEF Range
  <2> QED
    BY <1>7, <1>8, <1>9, <2>1
<1> QED
  BY <1>7, <1>8, <1>9

----------------------------------------------------------------------------
(* The machine is found *)

\* The groups that a CPU's caches add are new sets of CPUs.
LEMMA MasksAreGroups ==
    ASSUME MachineOK, FoundOK, NEW c, NEW masks,
           masks = {cache.cpus : cache \in CachesForCpu(c)} \ Range(found.groups),
           NEW order \in SetToSeqs(masks)
    PROVE  found.groups \o order \in Seq(SUBSET hw.cpus)
<1> DEFINE S == SUBSET hw.cpus
<1>1. masks \subseteq S
  BY DEF MachineOK, IsHardware, CachesForCpu, Seen
<1>2. IsFiniteSet(S)
  BY FS_SUBSET DEF MachineOK, IsHardware
<1>3. Cardinality(masks) \in Nat
  BY <1>1, <1>2, FS_Subset, FS_CardinalityType
<1>4. order \in [1 .. Cardinality(masks) -> masks]
  BY DEF SetToSeqs
<1>5. found.groups \in Seq(S)
  BY DEF FoundOK
<1> HIDE DEF S
<1>6. order \in Seq(S)
  <2>1. order \in [1 .. Cardinality(masks) -> S]
    BY <1>1, <1>4
  <2> QED
    BY <1>3, <2>1, SeqDef
<1>7. found.groups \o order \in Seq(S)
  BY <1>5, <1>6, ConcatProperties
<1> QED
  BY <1>7 DEF S

\* The groups with the one of all CPUs.
LEMMA AllCpusGroup ==
    ASSUME FoundOK, NEW groups, groups = found.groups \o IF hw.cpus \in Range(found.groups) THEN <<>> ELSE <<hw.cpus>>
    PROVE  groups \in Seq(SUBSET hw.cpus) /\ hw.cpus \in Range(groups)
<1> DEFINE S == SUBSET hw.cpus
           all == hw.cpus
<1>1. found.groups \in Seq(S) /\ all \in S
  BY DEF FoundOK
<1> HIDE DEF S
<1>2. CASE all \in Range(found.groups)
  <2>1. groups = found.groups
    BY <1>1, <1>2
  <2> QED
    BY <1>1, <1>2, <2>1 DEF S
<1>3. CASE all \notin Range(found.groups)
  <2>1. groups = found.groups \o <<all>>
    BY <1>3
  <2> HIDE DEF all
  <2>0. <<all>> \in Seq(S) /\ Len(<<all>>) = 1 /\ <<all>>[1] = all
    BY <1>1
  <2>2. /\ groups \in Seq(S)
        /\ Len(groups) = Len(found.groups) + 1
        /\ groups[Len(found.groups) + 1] = all
    <3> DEFINE s == found.groups
               t == <<all>>
    <3>1. s \in Seq(S) /\ t \in Seq(S) /\ Len(t) = 1 /\ t[1] = all
      BY <1>1, <2>0
    <3> HIDE DEF s, t
    <3>2. s \o t \in Seq(S) /\ Len(s \o t) = Len(s) + 1 /\ (s \o t)[Len(s) + 1] = all
      <4>1. Len(s) \in Nat /\ Len(s) + 1 \in 1 .. Len(s) + Len(t) /\ (Len(s) + 1) - Len(s) = 1
        BY <3>1, LenProperties
      <4>2. /\ s \o t \in Seq(S) /\ Len(s \o t) = Len(s) + Len(t)
            /\ \A i \in 1 .. Len(s) + Len(t) : (s \o t)[i] = IF i <= Len(s) THEN s[i] ELSE t[i - Len(s)]
        BY <3>1, ConcatProperties, Zenon
      <4> QED
        BY <3>1, <4>1, <4>2
    <3> QED
      BY <2>1, <3>2 DEF s, t
  <2>3. Len(groups) \in DOMAIN groups /\ groups[Len(groups)] = all
    <3>1. Len(found.groups) \in Nat
      BY <1>1, LenProperties
    <3>2. DOMAIN groups = 1 .. Len(groups)
      BY <2>2, LenProperties
    <3> DEFINE n == Len(groups)
               m == Len(found.groups)
    <3>3. n = m + 1 /\ m \in Nat /\ groups[m + 1] = all
      BY <3>1, <2>2, Zenon
    <3> HIDE DEF n, m
    <3>4. n \in 1 .. n
      BY <3>3
    <3>5. groups[n] = all
      BY <3>3, Zenon
    <3> QED
      BY <3>2, <3>4, <3>5, Zenon DEF n
  <2> QED
    BY <2>2, <2>3 DEF Range, S, all
<1> QED
  BY <1>2, <1>3

\* Before discover() has read a file.
LEMMA DiscoveryStarts ==
    ASSUME NEW systems, \A h \in systems : IsHardware(h), TopologyInit(systems)
    PROVE  DiscoveryInv /\ StillSo /\ TopologyOfOneMoment
<1> USE DEF TopologyInit, NotFound
<1>1. FoundOK
  BY DEF FoundOK
<1>2. MachineOK
  BY TopologyAssumption DEF MachineOK, IsHardware
<1> QED
  BY <1>1, <1>2 DEF DiscoveryInv, StillSo, TopologyOfOneMoment, GroupsNest

\* discover() fills the System object in order.
LEMMA FoundKept ==
    ASSUME FoundOK, MachineOK, [TopologyNext]_topologyVars
    PROVE  FoundOK'
<1>0. /\ found = [stage |-> found.stage, cpuinfo |-> found.cpuinfo, todo |-> found.todo, parents |-> found.parents,
                  groups |-> found.groups, numa_nodes |-> found.numa_nodes, tree |-> found.tree]
      /\ found.groups \in Seq(SUBSET hw.cpus)
  BY DEF FoundOK
<1>1. hw' = hw
  BY DEF TopologyNext, DiscoveryStep, ReadCpuinfo, ReadCpu, AddNumaNodes, CollectSysHw, DiscoveryRaises, Hotplug, topologyVars
<1>2. CASE found' = found
  BY <1>1, <1>2 DEF FoundOK
<1>3. CASE found' = NotFound
  BY <1>1, <1>3 DEF FoundOK, NotFound
<1>4. CASE ReadCpuinfo
  BY <1>0, <1>1, <1>4 DEF FoundOK, ReadCpuinfo
<1>5. ASSUME NEW c \in found.todo, ReadCpu(c) PROVE FoundOK'
  <2> DEFINE masks == {cache.cpus : cache \in CachesForCpu(c)} \ Range(found.groups)
             left == found.todo \ {c}
  <2>1. \/ found' = NotFound
        \/ \E order \in SetToSeqs(masks) :
               found' = [found EXCEPT !.todo = left, !.parents = LinkedCaches(@, CachesForCpu(c)),
                                      !.groups = @ \o order, !.stage = IF left = {} THEN "numa" ELSE @]
    BY <1>5 DEF ReadCpu, DiscoveryRaises
  <2>2. found.stage = "sysfs"
    BY <1>5 DEF ReadCpu
  <2>3. ASSUME NEW order \in SetToSeqs(masks),
               found' = [found EXCEPT !.todo = left, !.parents = LinkedCaches(@, CachesForCpu(c)),
                                      !.groups = @ \o order, !.stage = IF left = {} THEN "numa" ELSE @]
        PROVE  FoundOK'
    <3>1. found.groups \o order \in Seq(SUBSET hw.cpus)
      BY MasksAreGroups
    <3>2. found'.groups = found.groups \o order /\ found'.stage \in {"numa", "sysfs"}
      BY <1>0, <2>2, <2>3
    <3>3. found' = [stage |-> found'.stage, cpuinfo |-> found'.cpuinfo, todo |-> found'.todo, parents |-> found'.parents,
                    groups |-> found'.groups, numa_nodes |-> found'.numa_nodes, tree |-> found'.tree]
      BY <1>0, <2>3
    <3> QED
      BY <1>1, <3>1, <3>2, <3>3 DEF FoundOK
  <2> QED
    BY <1>3, <2>1, <2>3
<1>6. CASE AddNumaNodes
  <2> DEFINE groups == found.groups \o IF hw.cpus \in Range(found.groups) THEN <<>> ELSE <<hw.cpus>>
  <2>1. groups \in Seq(SUBSET hw.cpus)
    BY AllCpusGroup
  <2>2. found' = [found EXCEPT !.stage = "collect",
                               !.numa_nodes = [n \in ListedNodes |-> Ascending(hw.nodes[n] \cap online)],
                               !.groups = groups,
                               !.tree = [g \in Range(groups) \ {hw.cpus} |-> BestParent(g, groups)]]
    BY <1>6 DEF AddNumaNodes
  <2> HIDE DEF groups
  <2>3. found'.groups = groups /\ found'.stage = "collect"
    BY <1>0, <2>2
  <2>4. found' = [stage |-> found'.stage, cpuinfo |-> found'.cpuinfo, todo |-> found'.todo, parents |-> found'.parents,
                  groups |-> found'.groups, numa_nodes |-> found'.numa_nodes, tree |-> found'.tree]
    BY <1>0, <2>2
  <2> QED
    BY <1>1, <2>1, <2>3, <2>4 DEF FoundOK
<1>7. CASE CollectSysHw
  <2>1. found' = NotFound \/ found' = [NotFound EXCEPT !.stage = "end"]
    BY <1>7 DEF CollectSysHw, DiscoveryRaises
  <2>2. CASE found' = [NotFound EXCEPT !.stage = "end"]
    <3>1. found' = [stage |-> "end", cpuinfo |-> {}, todo |-> {}, parents |-> Empty, groups |-> <<>>,
                    numa_nodes |-> Empty, tree |-> Empty]
      BY <2>2 DEF NotFound
    <3> QED
      BY <3>1 DEF FoundOK
  <2> QED
    BY <1>3, <2>1, <2>2
<1> QED
  BY <1>2, <1>4, <1>5, <1>6, <1>7 DEF TopologyNext, DiscoveryStep, Hotplug, topologyVars

\* CPUs go and come until the machine is known.
LEMMA MachineKept ==
    ASSUME FoundOK, MachineOK, [TopologyNext]_topologyVars
    PROVE  MachineOK'
<1> USE TopologyAssumption DEF MachineOK
<1>1. CASE ReadCpuinfo
  BY <1>1 DEF ReadCpuinfo
<1>2. ASSUME NEW c \in found.todo, ReadCpu(c) PROVE MachineOK'
  BY <1>2 DEF ReadCpu, DiscoveryRaises
<1>3. CASE AddNumaNodes
  BY <1>3 DEF AddNumaNodes
<1>4. CASE CollectSysHw
  BY <1>4 DEF CollectSysHw, DiscoveryRaises, NotFound
<1>5. CASE Hotplug
  BY <1>5 DEF Hotplug, IsHardware
<1>6. CASE UNCHANGED topologyVars
  BY <1>6 DEF topologyVars
<1> QED
  BY <1>1, <1>2, <1>3, <1>4, <1>5, <1>6 DEF TopologyNext, DiscoveryStep

\* add_groups makes the tree of inclusion.
LEMMA TreeKept ==
    ASSUME FoundOK, MachineOK, GroupsNest, [TopologyNext]_topologyVars
    PROVE  GroupsNest'
<1>1. CASE AddNumaNodes
  <2> DEFINE groups == found.groups \o IF hw.cpus \in Range(found.groups) THEN <<>> ELSE <<hw.cpus>>
             tree == [g \in Range(groups) \ {hw.cpus} |-> BestParent(g, groups)]
  <2>0. found = [stage |-> found.stage, cpuinfo |-> found.cpuinfo, todo |-> found.todo, parents |-> found.parents,
                 groups |-> found.groups, numa_nodes |-> found.numa_nodes, tree |-> found.tree]
    BY DEF FoundOK
  <2>1. groups \in Seq(SUBSET hw.cpus) /\ hw.cpus \in Range(groups)
    BY AllCpusGroup
  <2>2. found' = [found EXCEPT !.stage = "collect",
                               !.numa_nodes = [n \in ListedNodes |-> Ascending(hw.nodes[n] \cap online)],
                               !.groups = groups,
                               !.tree = tree]
    BY <1>1 DEF AddNumaNodes
  <2> HIDE DEF groups
  <2>3. found'.groups = groups /\ found'.tree = tree
    BY <2>0, <2>2
  <2>4. ASSUME NEW g \in DOMAIN tree
        PROVE  /\ tree[g] \in Range(groups) /\ g \subseteq tree[g] /\ g # tree[g]
               /\ ~ \E h \in Range(groups) : g \subseteq h /\ h \subseteq tree[g] /\ h \notin {g, tree[g]}
    <3>1. g \in Range(groups) /\ g # hw.cpus /\ tree[g] = BestParent(g, groups)
      OBVIOUS
    <3> HIDE DEF tree
    <3> QED
      BY <2>1, <3>1, ParentNests
  <2> HIDE DEF tree
  <2> QED
    BY <2>3, <2>4 DEF GroupsNest
<1>2. CASE UNCHANGED found
  BY <1>2 DEF GroupsNest
<1>3. CASE found'.stage # "collect"
  BY <1>3 DEF GroupsNest
<1>4. CASE ReadCpuinfo
  <2>1. found'.stage = "sysfs"
    BY <1>4 DEF ReadCpuinfo, FoundOK
  <2> QED
    BY <1>3, <2>1
<1>5. ASSUME NEW c \in found.todo, ReadCpu(c) PROVE GroupsNest'
  <2>1. found'.stage \in {"cpuinfo", "numa", "sysfs"}
    <3>1. CASE found' = NotFound
      BY <3>1 DEF NotFound
    <3>2. CASE found' # NotFound
      <4>1. \E groups, parents, rest : found' = [found EXCEPT !.todo = rest, !.parents = parents, !.groups = groups,
                                                            !.stage = IF rest = {} THEN "numa" ELSE @]
        BY <1>5, <3>2 DEF ReadCpu, DiscoveryRaises
      <4>2. found.stage = "sysfs"
        BY <1>5 DEF ReadCpu
      <4> QED
        BY <4>1, <4>2 DEF FoundOK
    <3> QED
      BY <3>1, <3>2
  <2> QED
    BY <1>3, <2>1
<1>6. CASE CollectSysHw
  <2>1. found'.stage \in {"cpuinfo", "end"}
    BY <1>6 DEF CollectSysHw, DiscoveryRaises, NotFound
  <2> QED
    BY <1>3, <2>1
<1> QED
  BY <1>1, <1>2, <1>4, <1>5, <1>6 DEF TopologyNext, DiscoveryStep, Hotplug, topologyVars

\* One CPU more or one less is another number of CPUs.
LEMMA CountTells ==
    ASSUME MachineOK, Hotplug
    PROVE  Cardinality(online') # Cardinality(online)
<1>1. IsFiniteSet(online)
  BY FS_Subset DEF MachineOK, IsHardware
<1>2. Cardinality(online) \in Nat
  BY <1>1, FS_CardinalityType
<1>3. PICK c : online' = IF c \in online THEN online \ {c} ELSE online \cup {c}
  BY DEF Hotplug
<1>4. CASE c \in online
  BY <1>1, <1>2, <1>3, <1>4, FS_RemoveElement
<1>5. CASE c \notin online
  BY <1>1, <1>2, <1>3, <1>5, FS_AddElement
<1> QED
  BY <1>4, <1>5

\* Caches are read as the machine shows them now.
LEMMA StillSoKept ==
    ASSUME FoundOK, MachineOK, StillSo, MaxHotplugs <= 1, [TopologyNext]_topologyVars
    PROVE  StillSo'
<1> DEFINE Reading == found.stage \in {"sysfs", "numa", "collect"}
<1>0. found = [stage |-> found.stage, cpuinfo |-> found.cpuinfo, todo |-> found.todo, parents |-> found.parents,
               groups |-> found.groups, numa_nodes |-> found.numa_nodes, tree |-> found.tree]
  BY DEF FoundOK
<1>1. CASE ReadCpuinfo
  <2>1. found = NotFound /\ hw' = hw /\ online' = online
    BY <1>1 DEF FoundOK, ReadCpuinfo
  <2>2. found' = [found EXCEPT !.stage = "sysfs", !.cpuinfo = online, !.todo = hw.cpus]
    BY <1>1 DEF ReadCpuinfo, CpuinfoCpus
  <2>3. found'.stage = "sysfs" /\ found'.cpuinfo = online' /\ found'.todo = hw'.cpus /\ found'.parents = Empty
    BY <1>0, <2>1, <2>2 DEF NotFound
  <2>4. DOMAIN found'.parents = {}
    BY <2>3 DEF Empty
  <2>5. (UNION {CachesForCpu(c) : c \in hw.cpus \ found.todo})' = {}
    BY <2>3
  <2> QED
    BY <2>3, <2>4, <2>5 DEF StillSo
<1>2. ASSUME NEW c \in found.todo, ReadCpu(c) PROVE StillSo'
  <2> DEFINE left == found.todo \ {c}
             caches == CachesForCpu(c)
  <2>1. CASE found' = NotFound
    BY <2>1 DEF StillSo, NotFound
  <2>2. CASE found' # NotFound
    <3>1. PICK groups : found' = [found EXCEPT !.todo = left, !.parents = LinkedCaches(@, caches), !.groups = groups,
                                               !.stage = IF left = {} THEN "numa" ELSE @]
      BY <1>2, <2>2 DEF ReadCpu, DiscoveryRaises
    <3>2. found.stage = "sysfs" /\ hw' = hw /\ online' = online /\ hotplugs' = hotplugs
      BY <1>2, <2>2 DEF ReadCpu, DiscoveryRaises
    <3>3. /\ found'.cpuinfo = found.cpuinfo
          /\ found'.todo = left
          /\ found'.parents = LinkedCaches(found.parents, caches)
          /\ found'.stage = IF left = {} THEN "numa" ELSE "sysfs"
      BY <1>0, <3>1, <3>2
    <3>4. CASE hotplugs = MaxHotplugs /\ ~CpuCountAgrees
      BY <3>2, <3>3, <3>4 DEF StillSo, CpuCountAgrees, NCpus
    <3>5. CASE ~(hotplugs = MaxHotplugs /\ ~CpuCountAgrees)
      <4>1. /\ found.cpuinfo = online /\ found.todo \subseteq hw.cpus
            /\ DOMAIN found.parents = UNION {CachesForCpu(d) : d \in hw.cpus \ found.todo}
        BY <3>2, <3>5 DEF StillSo
      <4>2. DOMAIN found'.parents = DOMAIN found.parents \cup caches
        BY <3>3 DEF LinkedCaches
      <4>3. hw.cpus \ left = (hw.cpus \ found.todo) \cup {c}
        BY <4>1
      <4>4. UNION {CachesForCpu(d) : d \in hw.cpus \ left} = (UNION {CachesForCpu(d) : d \in hw.cpus \ found.todo}) \cup caches
        BY <4>3
      <4>5. (UNION {CachesForCpu(d) : d \in hw.cpus \ found.todo})' = UNION {CachesForCpu(d) : d \in hw.cpus \ left}
        BY <3>2, <3>3 DEF CachesForCpu, Seen
      <4>6. DOMAIN found'.parents = (UNION {CachesForCpu(d) : d \in hw.cpus \ found.todo})'
        BY <4>1, <4>2, <4>4, <4>5
      <4>7. /\ found'.cpuinfo = online' /\ found'.todo \subseteq hw'.cpus
            /\ found'.stage # "sysfs" => found'.todo = {}
            /\ found'.stage # "collect"
        BY <3>2, <3>3, <4>1
      <4> QED
        BY <4>6, <4>7 DEF StillSo
    <3> QED
      BY <3>4, <3>5
  <2> QED
    BY <2>1, <2>2
<1>3. CASE AddNumaNodes
  <2>1. found.stage = "numa" /\ hw' = hw /\ online' = online /\ hotplugs' = hotplugs
    BY <1>3 DEF AddNumaNodes
  <2>2. PICK groups, tree : found' = [found EXCEPT !.stage = "collect",
                               !.numa_nodes = [n \in ListedNodes |-> Ascending(hw.nodes[n] \cap online)],
                               !.groups = groups,
                               !.tree = tree]
    BY <1>3 DEF AddNumaNodes
  <2>3. /\ found'.cpuinfo = found.cpuinfo /\ found'.todo = found.todo /\ found'.parents = found.parents
        /\ found'.stage = "collect"
        /\ found'.numa_nodes = [n \in ListedNodes |-> Ascending(hw.nodes[n] \cap online)]
    BY <1>0, <2>2
  <2>4. CASE hotplugs = MaxHotplugs /\ ~CpuCountAgrees
    BY <2>1, <2>3, <2>4 DEF StillSo, CpuCountAgrees, NCpus
  <2>5. CASE ~(hotplugs = MaxHotplugs /\ ~CpuCountAgrees)
    <3>1. /\ found.cpuinfo = online /\ found.todo = {}
          /\ DOMAIN found.parents = UNION {CachesForCpu(d) : d \in hw.cpus \ found.todo}
      BY <2>1, <2>5 DEF StillSo
    <3>2. (UNION {CachesForCpu(d) : d \in hw.cpus \ found.todo})' = UNION {CachesForCpu(d) : d \in hw.cpus \ found.todo}
      BY <2>1, <2>3 DEF CachesForCpu, Seen
    <3>3. [n \in ListedNodes |-> Ascending(hw.nodes[n] \cap online)]' = [n \in ListedNodes |-> Ascending(hw.nodes[n] \cap online)]
      BY <2>1 DEF ListedNodes, Ascending
    <3>4. /\ found'.cpuinfo = online' /\ found'.todo \subseteq hw'.cpus /\ found'.todo = {}
          /\ DOMAIN found'.parents = (UNION {CachesForCpu(d) : d \in hw.cpus \ found.todo})'
          /\ found'.numa_nodes = [n \in ListedNodes |-> Ascending(hw.nodes[n] \cap online)]'
      BY <2>1, <2>3, <3>1, <3>2, <3>3
    <3> QED
      BY <3>4 DEF StillSo
  <2> QED
    BY <2>4, <2>5
<1>4. CASE CollectSysHw
  <2>1. found'.stage \in {"cpuinfo", "end"}
    BY <1>4 DEF CollectSysHw, DiscoveryRaises, NotFound
  <2> QED
    BY <2>1 DEF StillSo
<1>5. CASE Hotplug
  <2>1. /\ found' = found /\ hotplugs < MaxHotplugs /\ hotplugs' = hotplugs + 1 /\ hotplugs \in Nat
        /\ hotplugs' = MaxHotplugs
    BY <1>5, TopologyAssumption DEF Hotplug, MachineOK
  <2>2. SUFFICES ASSUME Reading PROVE (~CpuCountAgrees)'
    BY <2>1 DEF StillSo
  <2>3. found.cpuinfo = online
    BY <2>1, <2>2 DEF StillSo
  <2>4. Cardinality(online') # Cardinality(online)
    BY <1>5, CountTells
  <2> QED
    BY <2>1, <2>3, <2>4 DEF CpuCountAgrees, NCpus
<1>6. CASE UNCHANGED topologyVars
  <2>1. hw' = hw /\ online' = online /\ found' = found /\ hotplugs' = hotplugs
    BY <1>6 DEF topologyVars
  <2> QED
    BY <2>1 DEF StillSo, CachesForCpu, Seen, ListedNodes, Ascending, CpuCountAgrees, NCpus
<1> QED
  BY <1>1, <1>2, <1>3, <1>4, <1>5, <1>6 DEF TopologyNext, DiscoveryStep

\* The size that is kept of a level is that of a cache for data of that level.
LEMMA SizeOfACache ==
    ASSUME NEW caches, \A c \in caches : c.cpus \subseteq Nat /\ c.cpus # {}, NEW l \in DOMAIN CacheSizeDict(caches)
    PROVE  \E c \in caches : c.level = l /\ c.size = CacheSizeDict(caches)[l] /\ Holds(c, "D")
<1> DEFINE data == {c \in caches : Holds(c, "D")}
           ofLevel == {d \in data : d.level = l}
           firsts == {Min(c.cpus) : c \in ofLevel}
           first == Min(firsts)
           kept(c) == c.level = l /\ Min(c.cpus) = first
<1>1. l \in {c.level : c \in data}
  BY DEF CacheSizeDict
<1>2. CacheSizeDict(caches)[l] = (CHOOSE c \in data : kept(c)).size
  BY DEF CacheSizeDict
<1>3. firsts # {} /\ firsts \subseteq Nat
  <2>1. ofLevel # {}
    BY <1>1
  <2>2. \A c \in ofLevel : Min(c.cpus) \in Nat
    BY LeastNumber
  <2> QED
    BY <2>1, <2>2
<1>4. first \in firsts
  <2> HIDE DEF firsts
  <2> QED
    BY <1>3, LeastNumber
<1>5. \E c \in data : kept(c)
  <2> HIDE DEF first
  <2> QED
    BY <1>4
<1>6. PICK c \in data : kept(c) /\ c = CHOOSE d \in data : kept(d)
  <2> HIDE DEF kept, data
  <2> QED
    BY <1>5
<1> QED
  BY <1>2, <1>6

\* Once every CPU was read, all caches that have a CPU online are known.
LEMMA AllCachesRead ==
    ASSUME MachineOK
    PROVE  UNION {CachesForCpu(c) : c \in hw.cpus} = CachesNow
<1>1. \A cache \in hw.caches : cache.cpus \subseteq hw.cpus
  BY DEF MachineOK, IsHardware
<1>2. \A c : CachesForCpu(c) \subseteq CachesNow
  BY DEF CachesForCpu, CachesNow
<1>3. \A cache \in hw.caches : \A c \in cache.cpus \cap online : c \in hw.cpus /\ Seen(cache) \in CachesForCpu(c)
  BY <1>1 DEF CachesForCpu
<1> QED
  BY <1>2, <1>3 DEF CachesNow

\* get_cpu_count lets only a machine of one moment through.
LEMMA MomentKept ==
    ASSUME FoundOK, MachineOK, StillSo, TopologyOfOneMoment, [TopologyNext]_topologyVars
    PROVE  TopologyOfOneMoment'
<1>1. CASE CollectSysHw /\ CpuCountAgrees
  <2>1. /\ found.stage = "collect" /\ hw' = hw /\ online' = online
        /\ machine'.n_cpus = NCpus
        /\ machine'.numa_nodes = found.numa_nodes
        /\ machine'.cache_size_dict = CacheSizeDict(DOMAIN found.parents)
        /\ machine'.caches = LsCaches(DOMAIN found.parents)
    BY <1>1 DEF CollectSysHw
  <2>2. /\ found.cpuinfo = online /\ found.todo = {}
        /\ DOMAIN found.parents = UNION {CachesForCpu(c) : c \in hw.cpus \ found.todo}
        /\ found.numa_nodes = [n \in ListedNodes |-> Ascending(hw.nodes[n] \cap online)]
    BY <1>1, <2>1 DEF StillSo
  <2>3. DOMAIN found.parents = CachesNow
    <3>1. hw.cpus \ found.todo = hw.cpus
      BY <2>2
    <3> QED
      BY <2>2, <3>1, AllCachesRead
  <2>4. ListedNodes' = ListedNodes /\ CachesNow' = CachesNow
    BY <2>1 DEF ListedNodes, CachesNow, Seen
  <2>5. machine'.n_cpus = Cardinality(online')
    BY <1>1, <2>1 DEF CpuCountAgrees
  <2>6. ASSUME NEW n \in ListedNodes PROVE Range(machine'.numa_nodes[n]) = hw.nodes[n] \cap online
    <3>1. machine'.numa_nodes[n] = Ascending(hw.nodes[n] \cap online)
      BY <2>1, <2>2
    <3>2. hw.nodes[n] \cap online \in SUBSET Nat /\ IsFiniteSet(hw.nodes[n] \cap online)
      BY FS_Subset DEF MachineOK, IsHardware
    <3> QED
      BY <3>1, <3>2, AscendingLists
  <2>7. machine'.caches = LsCaches(CachesNow)
    BY <2>1, <2>3
  <2>8. ASSUME NEW l \in DOMAIN machine'.cache_size_dict
        PROVE  \E c \in CachesNow : c.level = l /\ c.size = machine'.cache_size_dict[l] /\ Holds(c, "D")
    <3>1. ASSUME NEW c \in CachesNow PROVE c.cpus \subseteq Nat /\ c.cpus # {}
      <4>1. PICK cache \in hw.caches : cache.cpus \cap online # {} /\ c = Seen(cache)
        BY DEF CachesNow
      <4>2. c.cpus = cache.cpus \cap online
        BY <4>1 DEF Seen, MachineOK, IsHardware
      <4> QED
        BY <4>1, <4>2 DEF MachineOK, IsHardware
    <3> QED
      BY <2>1, <2>3, <2>8, <3>1, SizeOfACache
  <2>9. LsCaches(CachesNow)' = LsCaches(CachesNow)
    BY <2>4 DEF LsCaches
  <2> QED
    BY <2>1, <2>4, <2>5, <2>6, <2>7, <2>8, <2>9 DEF TopologyOfOneMoment, Holds
<1>2. CASE Hotplug
  BY <1>2 DEF Hotplug, TopologyOfOneMoment
<1>3. CASE UNCHANGED <<hw, online, machine>>
  <2>1. ListedNodes' = ListedNodes /\ CachesNow' = CachesNow
    BY <1>3 DEF ListedNodes, CachesNow, Seen
  <2>2. LsCaches(CachesNow)' = LsCaches(CachesNow)
    BY <2>1 DEF LsCaches
  <2> QED
    BY <1>3, <2>1, <2>2 DEF TopologyOfOneMoment, Holds
<1>4. CASE CollectSysHw /\ ~CpuCountAgrees
  BY <1>3, <1>4 DEF CollectSysHw, DiscoveryRaises
<1> QED
  BY <1>1, <1>2, <1>3, <1>4 DEF TopologyNext, DiscoveryStep, ReadCpuinfo, ReadCpu, AddNumaNodes, DiscoveryRaises, topologyVars

----------------------------------------------------------------------------
(* MemoryRecipes: lists of lists *)

\* The loop of FlattenSeq.
LEMMA FlattenLoop ==
    ASSUME NEW S, NEW seqs \in Seq(Seq(S)), Len(seqs) > 0
    PROVE  \E f \in [1 .. Len(seqs) -> Seq(S)] :
               /\ FlattenSeq(seqs) = f[Len(seqs)]
               /\ f[1] = seqs[1]
               /\ \A i \in 2 .. Len(seqs) : f[i] = f[i - 1] \o seqs[i]
<1> DEFINE N == Len(seqs)
           T == Seq(S)
           Body(b) == [i \in 1 .. N |-> IF i = 1 THEN seqs[i] ELSE b[i - 1] \o seqs[i]]
           flat == CHOOSE b : b = Body(b)
           step == [p \in T \X (1 .. (N - 1)) |-> p[1] \o seqs[p[2] + 1]]
<1>1. FlattenSeq(seqs) = flat[N]
  BY DEF FlattenSeq
<1>2. N \in Nat \ {0} /\ \A k \in 1 .. N : seqs[k] \in T
  OBVIOUS
<1>3. \A s, t \in T : s \o t \in T
  OBVIOUS
<1> HIDE DEF T, N
<1>4. step \in [T \X (1 .. (N - 1)) -> T]
  BY <1>2, <1>3
<1>5. \A s \in T : \A k \in 1 .. (N - 1) : step[<<s, k>>] = s \o seqs[k + 1]
  OBVIOUS
<1> HIDE DEF step
<1>6. PICK g \in [0 .. (N - 1) -> T] : Iterates(g, N - 1, seqs[1], step)
  <2>1. N - 1 \in Nat /\ seqs[1] \in T
    BY <1>2
  <2> QED
    BY <2>1, <1>4, IterationExists, Zenon
<1>7. g[0] = seqs[1] /\ \A k \in 1 .. (N - 1) : g[k] = step[<<g[k - 1], k>>]
  BY <1>6 DEF Iterates
<1> DEFINE f == [i \in 1 .. N |-> g[i - 1]]
<1>8. f \in [1 .. N -> T]
  BY <1>2
<1>9. f[1] = seqs[1]
  BY <1>2, <1>7
<1>10. ASSUME NEW i \in 2 .. N PROVE f[i] = f[i - 1] \o seqs[i]
  <2>1. i - 1 \in 1 .. (N - 1) /\ i - 1 \in 1 .. N /\ i \in 1 .. N /\ (i - 1) - 1 \in 0 .. (N - 1) /\ (i - 1) + 1 = i
    BY <1>2
  <2>2. f[i] = g[i - 1] /\ f[i - 1] = g[(i - 1) - 1] /\ g[(i - 1) - 1] \in T
    BY <2>1
  <2> QED
    BY <2>1, <2>2, <1>5, <1>7
<1> HIDE DEF f
<1>11. f = Body(f)
  <2>1. ASSUME NEW i \in 1 .. N PROVE f[i] = IF i = 1 THEN seqs[i] ELSE f[i - 1] \o seqs[i]
    <3>1. CASE i = 1
      BY <3>1, <1>9
    <3>2. CASE i # 1
      <4>1. i \in 2 .. N
        BY <3>2, <1>2
      <4> QED
        BY <3>2, <4>1, <1>10
    <3> QED
      BY <3>1, <3>2
  <2> QED
    BY <2>1, <1>8
<1>12. flat = Body(flat)
  <2> HIDE DEF Body
  <2> QED
    BY <1>11, Zenon
<1> HIDE DEF flat
<1>13. /\ DOMAIN flat = 1 .. N
       /\ \A i \in 1 .. N : flat[i] = IF i = 1 THEN seqs[i] ELSE flat[i - 1] \o seqs[i]
  <2> DEFINE H == Body(flat)
  <2>1. DOMAIN H = 1 .. N /\ \A i \in 1 .. N : H[i] = IF i = 1 THEN seqs[i] ELSE flat[i - 1] \o seqs[i]
    OBVIOUS
  <2>2. flat = H
    BY <1>12
  <2> HIDE DEF H
  <2> QED
    BY <2>1, <2>2
<1>14. \A i \in 1 .. N : flat[i] \in T
  <2> DEFINE I == {n \in Nat : n + 1 <= N => flat[n + 1] \in T}
  <2>1. 0 \in I
    <3>1. 1 \in 1 .. N /\ 0 + 1 = 1
      BY <1>2
    <3>2. flat[1] \in T
      BY <3>1, <1>2, <1>13
    <3> QED
      BY <3>1, <3>2
  <2>2. ASSUME NEW n \in I PROVE n + 1 \in I
    <3>1. CASE (n + 1) + 1 <= N
      <4>1. (n + 1) + 1 \in 1 .. N /\ (n + 1) + 1 # 1 /\ ((n + 1) + 1) - 1 = n + 1 /\ n + 1 <= N
        BY <3>1, <1>2
      <4>2. flat[(n + 1) + 1] = flat[n + 1] \o seqs[(n + 1) + 1]
        BY <4>1, <1>13
      <4>3. flat[n + 1] \in T /\ seqs[(n + 1) + 1] \in T
        BY <4>1, <1>2
      <4>4. flat[(n + 1) + 1] \in T
        BY <4>2, <4>3, <1>3
      <4> QED
        BY <4>4
    <3> QED
      BY <3>1
  <2>3. I = Nat
    <3> HIDE DEF I
    <3>1. I \in SUBSET Nat
      BY DEF I
    <3> QED
      BY <2>1, <2>2, <3>1, NumberInduction
  <2>4. ASSUME NEW i \in 1 .. N PROVE flat[i] \in T
    <3>1. i - 1 \in Nat /\ (i - 1) + 1 = i /\ i <= N
      BY <1>2
    <3>2. i - 1 \in I
      BY <2>3, <3>1
    <3>3. (i - 1) + 1 <= N => flat[(i - 1) + 1] \in T
      BY <3>2
    <3> QED
      BY <3>1, <3>3
  <2> QED
    BY <2>4
<1>15. flat \in [1 .. N -> T]
  <2>1. flat = [i \in 1 .. N |-> flat[i]]
    BY <1>12, <1>13
  <2> QED
    BY <2>1, <1>14
<1>16. flat[1] = seqs[1] /\ \A i \in 2 .. N : flat[i] = flat[i - 1] \o seqs[i]
  <2>1. 1 \in 1 .. N /\ \A i \in 2 .. N : i \in 1 .. N /\ i # 1
    BY <1>2
  <2> QED
    BY <2>1, <1>13
<1> QED
  BY <1>1, <1>15, <1>16 DEF N, T

\* What a list of lists flattens to is a list of what they hold.
LEMMA FlattenType ==
    ASSUME NEW S, NEW seqs \in Seq(Seq(S))
    PROVE  FlattenSeq(seqs) \in Seq(S)
<1>1. CASE Len(seqs) > 0
  <2>1. PICK f \in [1 .. Len(seqs) -> Seq(S)] : FlattenSeq(seqs) = f[Len(seqs)]
    BY <1>1, FlattenLoop
  <2>2. Len(seqs) \in 1 .. Len(seqs)
    BY <1>1
  <2> QED
    BY <2>1, <2>2, Zenon
<1>2. CASE Len(seqs) = 0
  <2>1. seqs = <<>>
    BY <1>2
  <2>2. FlattenSeq(seqs) = seqs
    BY <1>2 DEF FlattenSeq
  <2>3. <<>> \in Seq(S)
    OBVIOUS
  <2> QED
    BY <2>1, <2>2, <2>3, Zenon
<1> QED
  BY <1>1, <1>2

\* No value is at two places of the list.
Injective(s) == \A i, j \in 1 .. Len(s) : s[i] = s[j] => i = j

\* Lists that share nothing flatten to a list of everything, each value once.
LEMMA FlattenApart ==
    ASSUME NEW S, NEW seqs \in Seq(Seq(S)), Len(seqs) > 0,
           \A i \in 1 .. Len(seqs) : Injective(seqs[i]),
           \A i, j \in 1 .. Len(seqs) : i # j => Range(seqs[i]) \cap Range(seqs[j]) = {}
    PROVE  /\ Range(FlattenSeq(seqs)) = UNION {Range(seqs[i]) : i \in 1 .. Len(seqs)}
           /\ Injective(FlattenSeq(seqs))
<1> DEFINE N == Len(seqs)
<1>1. PICK f \in [1 .. N -> Seq(S)] :
          /\ FlattenSeq(seqs) = f[N]
          /\ f[1] = seqs[1]
          /\ \A i \in 2 .. N : f[i] = f[i - 1] \o seqs[i]
  BY FlattenLoop
<1>2. N \in Nat \ {0} /\ \A k \in 1 .. N : seqs[k] \in Seq(S)
  OBVIOUS
<1> HIDE DEF N
<1> DEFINE Upto(n) == UNION {Range(seqs[i]) : i \in 1 .. n}
           I == {n \in Nat : n + 1 <= N => Range(f[n + 1]) = Upto(n + 1) /\ Injective(f[n + 1])}
<1>3. 0 \in I
  <2>1. 1 \in 1 .. N /\ 0 + 1 = 1 /\ 1 .. 1 = {1}
    BY <1>2
  <2>2. Upto(1) = Range(seqs[1])
    BY <2>1
  <2>3. Range(f[1]) = Upto(1) /\ Injective(f[1])
    BY <2>1, <2>2, <1>1 DEF N
  <2> HIDE DEF Upto
  <2> QED
    BY <2>1, <2>3
<1>4. ASSUME NEW n \in I PROVE n + 1 \in I
  <2> DEFINE m == n + 1
             s == f[m]
             t == seqs[m + 1]
  <2>1. CASE m + 1 <= N
    <3>1. m \in 1 .. N /\ m + 1 \in 2 .. N /\ m + 1 \in 1 .. N /\ (m + 1) - 1 = m /\ m <= N
      BY <2>1, <1>2
    <3>2. f[m + 1] = s \o t
      BY <3>1, <1>1
    <3>3. s \in Seq(S) /\ t \in Seq(S)
      BY <3>1, <1>1, <1>2
    <3>4. Range(s) = Upto(m) /\ Injective(s)
      BY <3>1
    <3>5. Injective(t)
      BY <3>1 DEF N
    <3>6. Range(s) \cap Range(t) = {}
      <4>1. ASSUME NEW i \in 1 .. m PROVE Range(seqs[i]) \cap Range(t) = {}
        <5>1. i \in 1 .. N /\ i # m + 1
          BY <3>1, <1>2 DEF m
        <5> QED
          BY <3>1, <5>1 DEF N
      <4> QED
        BY <3>4, <4>1
    <3>7. Upto(m + 1) = Upto(m) \cup Range(t)
      <4>1. 1 .. (m + 1) = (1 .. m) \cup {m + 1}
        BY <3>1
      <4>2. \A x, k : x \in Upto(k) <=> \E i \in 1 .. k : x \in Range(seqs[i])
        BY Zenon
      <4> HIDE DEF Upto, m
      <4>3. ASSUME NEW x PROVE x \in Upto(m + 1) <=> x \in Upto(m) \/ x \in Range(t)
        BY <4>1, <4>2, Zenon
      <4> QED
        BY <4>3, Zenon
    <3> HIDE DEF s, t, m, Upto
    <3>8. Range(s \o t) = Range(s) \cup Range(t)
      BY <3>3, RangeConcatenation
    <3>9. Injective(s \o t)
      <4>1. /\ Len(s) \in Nat /\ Len(t) \in Nat /\ Len(s \o t) = Len(s) + Len(t)
            /\ DOMAIN s = 1 .. Len(s) /\ DOMAIN t = 1 .. Len(t)
            /\ \A i \in 1 .. Len(s) + Len(t) : (s \o t)[i] = IF i <= Len(s) THEN s[i] ELSE t[i - Len(s)]
        BY <3>3, LenProperties, ConcatProperties
      <4>2. SUFFICES ASSUME NEW i \in 1 .. Len(s) + Len(t), NEW j \in 1 .. Len(s) + Len(t), (s \o t)[i] = (s \o t)[j]
                     PROVE  i = j
        BY <4>1 DEF Injective
      <4>3. \A k \in 1 .. Len(s) : s[k] \in Range(s)
        BY <4>1 DEF Range
      <4>4. \A k \in 1 .. Len(t) : t[k] \in Range(t)
        BY <4>1 DEF Range
      <4>5. CASE i <= Len(s) /\ j <= Len(s)
        BY <3>4, <4>1, <4>2, <4>5 DEF Injective
      <4>6. CASE ~(i <= Len(s)) /\ ~(j <= Len(s))
        <5>1. i - Len(s) \in 1 .. Len(t) /\ j - Len(s) \in 1 .. Len(t)
          BY <4>1, <4>6
        <5>2. t[i - Len(s)] = t[j - Len(s)]
          BY <4>1, <4>2, <4>6
        <5>3. i - Len(s) = j - Len(s)
          BY <5>1, <5>2, <3>5 DEF Injective
        <5> QED
          BY <5>3, <4>1
      <4>7. CASE i <= Len(s) /\ ~(j <= Len(s))
        <5>1. i \in 1 .. Len(s) /\ j - Len(s) \in 1 .. Len(t)
          BY <4>1, <4>7
        <5>2. s[i] = t[j - Len(s)]
          BY <4>1, <4>2, <4>7
        <5> QED
          BY <5>1, <5>2, <4>3, <4>4, <3>6, Zenon
      <4>8. CASE ~(i <= Len(s)) /\ j <= Len(s)
        <5>1. j \in 1 .. Len(s) /\ i - Len(s) \in 1 .. Len(t)
          BY <4>1, <4>8
        <5>2. s[j] = t[i - Len(s)]
          BY <4>1, <4>2, <4>8
        <5> QED
          BY <5>1, <5>2, <4>3, <4>4, <3>6, Zenon
      <4> QED
        BY <4>5, <4>6, <4>7, <4>8
    <3>10. Range(f[m + 1]) = Upto(m + 1) /\ Injective(f[m + 1])
      BY <3>2, <3>4, <3>7, <3>8, <3>9
    <3> QED
      BY <3>10 DEF m
  <2> QED
    BY <2>1
<1>5. I = Nat
  <2> HIDE DEF I
  <2>1. I \in SUBSET Nat
    BY DEF I
  <2> QED
    BY <1>3, <1>4, <2>1, NumberInduction
<1>6. N - 1 \in I /\ (N - 1) + 1 = N
  <2>1. N - 1 \in Nat /\ (N - 1) + 1 = N
    BY <1>2
  <2> QED
    BY <1>5, <2>1
<1>7. Range(f[N]) = Upto(N) /\ Injective(f[N])
  <2> HIDE DEF Upto
  <2>1. (N - 1) + 1 <= N => Range(f[(N - 1) + 1]) = Upto((N - 1) + 1) /\ Injective(f[(N - 1) + 1])
    BY <1>6
  <2> QED
    BY <1>2, <1>6, <2>1
<1> QED
  BY <1>1, <1>7 DEF N

----------------------------------------------------------------------------
(* MemoryRecipes: the nodes and their CPUs *)

\* Every node that the recipes see has CPUs, and no CPU is on two of them.
NodesSound ==
    /\ Nodes \in SUBSET Nat /\ IsFiniteSet(Nodes) /\ Nodes # {}
    /\ Nodes \subseteq DOMAIN machine.numa_nodes
    /\ \A n \in Nodes : /\ CpusOf(n) \in SUBSET Nat /\ IsFiniteSet(CpusOf(n)) /\ CpusOf(n) # {}
                        /\ CpuListPerNode[n] \in Seq(CpusOf(n))
                        /\ Len(CpuListPerNode[n]) = Cardinality(CpusOf(n))
    /\ \A m, n \in Nodes : m # n => CpusOf(m) \cap CpusOf(n) = {}
    /\ AllCpus \in SUBSET Nat /\ IsFiniteSet(AllCpus)

\* That is so of any machine discover() was able to read.
LEMMA NodesFound ==
    ASSUME MachineOK, NodesKnown, machine # NoMachine
    PROVE  NodesSound
<1>1. PICK cpus \in SUBSET hw.cpus :
          /\ hw.online \ hw.hotplug \subseteq cpus
          /\ machine.numa_nodes = [n \in ListedNodes |-> Ascending(hw.nodes[n] \cap cpus)]
  BY DEF NodesKnown, NodesListed
<1> DEFINE at(n) == hw.nodes[n] \cap cpus
<1>2. /\ hw.cpus \subseteq Nat /\ IsFiniteSet(hw.cpus)
      /\ DOMAIN hw.nodes \subseteq Nat /\ IsFiniteSet(DOMAIN hw.nodes)
      /\ \A n \in DOMAIN hw.nodes : hw.nodes[n] \subseteq hw.cpus
      /\ \A m, n \in DOMAIN hw.nodes : m # n => hw.nodes[m] \cap hw.nodes[n] = {}
  BY DEF MachineOK, IsHardware
<1>3. ListedNodes \subseteq DOMAIN hw.nodes
  BY DEF ListedNodes
<1>4. DOMAIN machine.numa_nodes = ListedNodes /\ \A n \in ListedNodes : machine.numa_nodes[n] = Ascending(at(n))
  BY <1>1
<1>5. \A n \in ListedNodes : at(n) \in SUBSET Nat /\ IsFiniteSet(at(n)) /\ at(n) \subseteq hw.cpus
  <2>1. ASSUME NEW n \in ListedNodes PROVE at(n) \in SUBSET Nat /\ IsFiniteSet(at(n)) /\ at(n) \subseteq hw.cpus
    BY <1>2, <1>3, FS_Subset
  <2> QED
    BY <2>1
<1>6. ASSUME NEW n \in ListedNodes
      PROVE  /\ Range(Ascending(at(n))) = at(n)
             /\ Ascending(at(n)) \in Seq(at(n))
             /\ Len(Ascending(at(n))) = Cardinality(at(n))
             /\ Ascending(at(n)) # <<>> <=> at(n) # {}
  <2> DEFINE T == at(n)
  <2>1. T \in SUBSET Nat /\ IsFiniteSet(T)
    BY <1>5
  <2> HIDE DEF T
  <2>2. Range(Ascending(T)) = T /\ Ascending(T) \in Seq(T) /\ Len(Ascending(T)) = Cardinality(T)
    BY <2>1, AscendingLists
  <2>3. Cardinality(T) = 0 <=> T = {}
    BY <2>1, FS_EmptySet
  <2>4. Ascending(T) # <<>> <=> Len(Ascending(T)) # 0
    BY <2>2
  <2>5. Ascending(T) # <<>> <=> T # {}
    BY <2>2, <2>3, <2>4
  <2> QED
    BY <2>2, <2>5 DEF T
<1> HIDE DEF at
<1>7. Nodes = {n \in ListedNodes : at(n) # {}}
  BY <1>4, <1>6 DEF Nodes, CpuListPerNode
<1>8. \A n \in Nodes : CpuListPerNode[n] = Ascending(at(n)) /\ CpusOf(n) = at(n)
  <2>1. \A n \in Nodes : CpuListPerNode[n] = machine.numa_nodes[n]
    BY DEF Nodes, CpuListPerNode
  <2> QED
    BY <2>1, <1>4, <1>6, <1>7 DEF CpusOf
<1>9. Nodes \in SUBSET Nat /\ IsFiniteSet(Nodes)
  <2>1. Nodes \in SUBSET DOMAIN hw.nodes
    BY <1>3, <1>7
  <2> QED
    BY <2>1, <1>2, FS_Subset
<1>10. Nodes # {}
  <2>1. PICK n \in ListedNodes : (hw.nodes[n] \cap hw.online) \ hw.hotplug # {}
    BY DEF NodesKnown
  <2>2. at(n) # {}
    BY <1>1, <2>1 DEF at
  <2> QED
    BY <2>1, <2>2, <1>7
<1>11. \A n \in Nodes : /\ CpusOf(n) \in SUBSET Nat /\ IsFiniteSet(CpusOf(n)) /\ CpusOf(n) # {}
                        /\ CpuListPerNode[n] \in Seq(CpusOf(n))
                        /\ Len(CpuListPerNode[n]) = Cardinality(CpusOf(n))
  BY <1>5, <1>6, <1>7, <1>8
<1>12. \A m, n \in Nodes : m # n => CpusOf(m) \cap CpusOf(n) = {}
  BY <1>2, <1>3, <1>7, <1>8 DEF at
<1>13. AllCpus \in SUBSET hw.cpus
  BY <1>5, <1>7, <1>8 DEF AllCpus
<1>14. AllCpus \in SUBSET Nat /\ IsFiniteSet(AllCpus)
  BY <1>2, <1>13, FS_Subset
<1> QED
  BY <1>4, <1>7, <1>9, <1>10, <1>11, <1>12, <1>14 DEF NodesSound

\* The CPUs that recipes choose are CPUs of the node they are meant for.
LEMMA ChoicesOnNodes ==
    ASSUME NodesSound
    PROVE  /\ \A n \in Nodes : LastCpu(n) \in CpusOf(n) /\ CpusOf(n) \subseteq AllCpus
           /\ \A n \in Nodes : \A c \in CpusOf(n) : NodeOfCpu(c) = n
           /\ \A c \in AllCpus : NodeOfCpu(c) \in Nodes /\ c \in CpusOf(NodeOfCpu(c))
           /\ DefaultNumaNode \in Nodes
           /\ SingleCoreCpuChoice \in CpusOf(DefaultNumaNode)
           /\ AllCpus # {}
<1>1. \A n \in Nodes : LastCpu(n) \in CpusOf(n)
  BY GreatestNumber DEF NodesSound, LastCpu
<1>2. \A n \in Nodes : CpusOf(n) \subseteq AllCpus
  BY DEF AllCpus
<1>3. \A c \in AllCpus : \E n \in Nodes : c \in CpusOf(n)
  BY DEF AllCpus
<1>4. \A c \in AllCpus : NodeOfCpu(c) \in Nodes /\ c \in CpusOf(NodeOfCpu(c))
  BY <1>3 DEF NodeOfCpu
<1>5. \A n \in Nodes : \A c \in CpusOf(n) : NodeOfCpu(c) = n
  BY <1>2, <1>4 DEF NodesSound
<1>6. Min(Nodes) \in Nodes
  BY LeastNumber DEF NodesSound
<1>7. SingleCoreCpuChoice \in CpusOf(Min(Nodes))
  BY <1>1, <1>6 DEF SingleCoreCpuChoice
<1>8. DefaultNumaNode = Min(Nodes)
  BY <1>5, <1>6, <1>7 DEF DefaultNumaNode
<1>9. AllCpus # {}
  BY <1>2, <1>6, <1>7
<1> QED
  BY <1>1, <1>2, <1>4, <1>5, <1>6, <1>7, <1>8, <1>9

\* A list is as long as the set of what it holds just when it holds nothing twice.
LEMMA ListedOnce ==
    ASSUME NEW S, NEW s \in Seq(S), Range(s) = S
    PROVE  /\ Len(s) = Cardinality(S) /\ IsFiniteSet(S) => Injective(s)
           /\ Injective(s) => Len(s) = Cardinality(S)
<1>1. Len(s) \in Nat /\ s \in [1 .. Len(s) -> S] /\ DOMAIN s = 1 .. Len(s)
  BY LenProperties
<1> DEFINE D == 1 .. Len(s)
<1>2. IsFiniteSet(D) /\ Cardinality(D) = Len(s)
  BY <1>1, FS_Interval
<1>3. s \in Surjection(D, S)
  <2>1. \A t \in S : \E i \in D : s[i] = t
    BY <1>1 DEF Range
  <2> QED
    BY <1>1, <2>1 DEF Surjection
<1>4. s \in Injection(D, S) <=> Injective(s)
  BY <1>1 DEF Injection, IsInjective, Injective
<1> HIDE DEF D
<1>5. Cardinality(S) = Cardinality(D) <=> s \in Injection(D, S)
  BY <1>2, <1>3, FS_Surjection
<1> QED
  BY <1>2, <1>4, <1>5

\* cpu_list holds every CPU once.
LEMMA CpuListWhole ==
    ASSUME NodesSound
    PROVE  /\ CpuList \in Seq(AllCpus)
           /\ Range(CpuList) = AllCpus
           /\ Injective(CpuList)
           /\ Len(CpuList) = Cardinality(AllCpus)
<1> DEFINE N == Len(NodeSeq)
           lists == [k \in DOMAIN NodeSeq |-> CpuListPerNode[NodeSeq[k]]]
<1>1. /\ Range(NodeSeq) = Nodes /\ NodeSeq \in Seq(Nodes) /\ Len(NodeSeq) = Cardinality(Nodes)
  BY AscendingLists DEF NodesSound, NodeSeq
<1>2. Injective(NodeSeq)
  BY <1>1, ListedOnce DEF NodesSound
<1>3. N \in Nat \ {0} /\ DOMAIN NodeSeq = 1 .. N /\ \A k \in 1 .. N : NodeSeq[k] \in Nodes
  <2>1. N \in Nat /\ DOMAIN NodeSeq = 1 .. N /\ \A k \in 1 .. N : NodeSeq[k] \in Nodes
    BY <1>1, LenProperties
  <2>2. N # 0
    BY <1>1, FS_EmptySet DEF NodesSound
  <2> QED
    BY <2>1, <2>2
<1>4. \A k \in 1 .. N : /\ lists[k] = CpuListPerNode[NodeSeq[k]] /\ lists[k] \in Seq(AllCpus)
                        /\ Range(lists[k]) = CpusOf(NodeSeq[k])
                        /\ Injective(lists[k])
  <2>1. SUFFICES ASSUME NEW k \in 1 .. N
                 PROVE  /\ lists[k] = CpuListPerNode[NodeSeq[k]] /\ lists[k] \in Seq(AllCpus)
                        /\ Range(lists[k]) = CpusOf(NodeSeq[k])
                        /\ Injective(lists[k])
    OBVIOUS
  <2> DEFINE n == NodeSeq[k]
  <2>2. n \in Nodes /\ lists[k] = CpuListPerNode[n]
    BY <1>3
  <2> HIDE DEF lists, n
  <2>3. CpusOf(n) \subseteq AllCpus
    BY <2>2 DEF AllCpus
  <2>4. /\ CpuListPerNode[n] \in Seq(CpusOf(n)) /\ Range(CpuListPerNode[n]) = CpusOf(n)
        /\ Len(CpuListPerNode[n]) = Cardinality(CpusOf(n)) /\ IsFiniteSet(CpusOf(n))
    BY <2>2 DEF NodesSound, CpusOf
  <2>5. CpuListPerNode[n] \in Seq(AllCpus)
    BY <2>3, <2>4, SeqMonotonic
  <2>6. Injective(CpuListPerNode[n])
    BY <2>4, ListedOnce
  <2> QED
    BY <2>2, <2>4, <2>5, <2>6 DEF n
<1>5. Len(lists) = N /\ lists \in Seq(Seq(AllCpus))
  <2>1. lists \in [1 .. N -> Seq(AllCpus)]
    BY <1>3, <1>4
  <2>2. lists \in Seq(Seq(AllCpus)) /\ DOMAIN lists = 1 .. N
    BY <2>1, <1>3, SeqDef
  <2>3. DOMAIN lists = 1 .. Len(lists) /\ Len(lists) \in Nat
    BY <2>2, LenProperties
  <2> QED
    BY <2>2, <2>3, <1>3
<1>6. CpuList = FlattenSeq(lists)
  BY DEF CpuList
<1> HIDE DEF lists, N
<1>7. \A i, j \in 1 .. N : i # j => Range(lists[i]) \cap Range(lists[j]) = {}
  <2>1. \A i, j \in 1 .. N : i # j => NodeSeq[i] # NodeSeq[j]
    BY <1>2, <1>3 DEF Injective, N
  <2>2. \A m, n \in Nodes : m # n => CpusOf(m) \cap CpusOf(n) = {}
    BY DEF NodesSound
  <2>3. ASSUME NEW i \in 1 .. N, NEW j \in 1 .. N, i # j PROVE Range(lists[i]) \cap Range(lists[j]) = {}
    <3>1. Range(lists[i]) = CpusOf(NodeSeq[i]) /\ Range(lists[j]) = CpusOf(NodeSeq[j])
      BY <1>4
    <3>2. NodeSeq[i] \in Nodes /\ NodeSeq[j] \in Nodes /\ NodeSeq[i] # NodeSeq[j]
      BY <2>1, <2>3, <1>3
    <3> QED
      BY <2>2, <3>1, <3>2
  <2> QED
    BY <2>3
<1>8. Range(CpuList) = UNION {Range(lists[i]) : i \in 1 .. N} /\ Injective(CpuList)
  <2>1. /\ Len(lists) > 0
        /\ \A i \in 1 .. Len(lists) : Injective(lists[i])
        /\ \A i, j \in 1 .. Len(lists) : i # j => Range(lists[i]) \cap Range(lists[j]) = {}
    BY <1>3, <1>4, <1>5, <1>7
  <2>2. /\ Range(FlattenSeq(lists)) = UNION {Range(lists[i]) : i \in 1 .. Len(lists)}
        /\ Injective(FlattenSeq(lists))
    BY <1>5, <2>1, FlattenApart
  <2> QED
    BY <1>5, <1>6, <2>2
<1>9. CpuList \in Seq(AllCpus)
  BY <1>5, <1>6, FlattenType
<1>10. Range(CpuList) = AllCpus
  <2>1. Range(CpuList) \subseteq AllCpus
    BY <1>9, RangeOfSeq
  <2>2. ASSUME NEW c \in AllCpus PROVE c \in Range(CpuList)
    <3>1. PICK n \in Nodes : c \in CpusOf(n)
      BY DEF AllCpus
    <3>2. PICK k \in 1 .. N : NodeSeq[k] = n
      BY <1>1, <1>3 DEF Range
    <3>3. c \in Range(lists[k])
      BY <3>1, <3>2, <1>4
    <3> QED
      BY <3>3, <1>8
  <2> QED
    BY <2>1, <2>2
<1>11. Len(CpuList) = Cardinality(AllCpus)
  BY <1>8, <1>9, <1>10, ListedOnce
<1> QED
  BY <1>8, <1>9, <1>10, <1>11

\* itertools.product pairs what the two lists hold.
LEMMA ProductType ==
    ASSUME NEW S, NEW T, NEW s \in Seq(S), NEW t \in Seq(T)
    PROVE  Product(s, t) \in Seq(S \X T)
<1> DEFINE row(i) == [j \in DOMAIN t |-> <<s[i], t[j]>>]
           rows_ == [i \in DOMAIN s |-> row(i)]
<1>1. /\ Len(s) \in Nat /\ DOMAIN s = 1 .. Len(s) /\ \A i \in 1 .. Len(s) : s[i] \in S
      /\ Len(t) \in Nat /\ DOMAIN t = 1 .. Len(t) /\ \A j \in 1 .. Len(t) : t[j] \in T
  BY LenProperties
<1>2. \A i \in 1 .. Len(s) : row(i) \in [1 .. Len(t) -> S \X T]
  BY <1>1
<1>3. \A i \in 1 .. Len(s) : row(i) \in Seq(S \X T)
  BY <1>1, <1>2, SeqDef
<1> HIDE DEF row
<1>4. rows_ \in [1 .. Len(s) -> Seq(S \X T)]
  BY <1>1, <1>3
<1>5. rows_ \in Seq(Seq(S \X T))
  BY <1>1, <1>4, SeqDef
<1>6. Product(s, t) = FlattenSeq(rows_)
  BY DEF Product, row
<1> HIDE DEF rows_
<1> QED
  BY <1>5, <1>6, FlattenType

\* The steps of core-to-core-latency: CPUs with nodes, and the one that finishes.
LEMMA C2CStepsType ==
    ASSUME NodesSound, NEW settings \in C2CSettings
    PROVE  C2CSteps(settings) \in Seq((AllCpus \X Nodes) \cup {None})
<1> DEFINE chosen(n) == NodeToCpus(settings)[n]
           lists == [k \in DOMAIN NodeSeq |-> chosen(NodeSeq[k])]
           cpus == FlattenSeq(lists)
           pairs == AllCpus \X Nodes
           again == [r \in 1 .. settings.number_of_runs |-> Product(cpus, NodeSeq)]
<1>1. NodeSeq \in Seq(Nodes)
  BY AscendingLists DEF NodesSound, NodeSeq
<1>2. Len(NodeSeq) \in Nat /\ DOMAIN NodeSeq = 1 .. Len(NodeSeq) /\ \A k \in 1 .. Len(NodeSeq) : NodeSeq[k] \in Nodes
  BY <1>1, LenProperties
<1>3. ASSUME NEW n \in Nodes PROVE chosen(n) \in Seq(AllCpus)
  <2> DEFINE all == CpuListPerNode[n]
             k == Len(all)
  <2>1. CpusOf(n) \subseteq AllCpus
    BY DEF AllCpus
  <2>2. all \in Seq(AllCpus)
    BY <2>1, SeqMonotonic DEF NodesSound
  <2>3. chosen(n) = IF settings.all_cpus \/ k < 2 THEN all ELSE SubSeq(all, k - 1, k)
    BY DEF NodeToCpus
  <2> HIDE DEF all, chosen
  <2>4. k \in Nat /\ \A i \in 1 .. k : all[i] \in AllCpus
    BY <2>2, LenProperties
  <2>5. CASE ~(k < 2)
    <3>1. \A i \in (k - 1) .. k : all[i] \in AllCpus
      BY <2>4, <2>5
    <3>2. k - 1 \in Int /\ k \in Int
      BY <2>4
    <3> HIDE DEF k
    <3>3. SubSeq(all, k - 1, k) \in Seq(AllCpus)
      BY <3>1, <3>2, SubSeqProperties
    <3> QED
      BY <2>2, <2>3, <3>3, Zenon
  <2> HIDE DEF k
  <2> QED
    BY <2>2, <2>3, <2>5, Zenon
<1> HIDE DEF chosen
<1>4. lists \in [1 .. Len(NodeSeq) -> Seq(AllCpus)]
  BY <1>2, <1>3
<1>5. lists \in Seq(Seq(AllCpus))
  BY <1>2, <1>4, SeqDef
<1>6. C2CSteps(settings) = FlattenSeq(again) \o <<None>>
  BY DEF C2CSteps, chosen
<1> HIDE DEF lists
<1>7. cpus \in Seq(AllCpus)
  BY <1>5, FlattenType
<1> HIDE DEF cpus
<1>8. Product(cpus, NodeSeq) \in Seq(pairs)
  BY <1>1, <1>7, ProductType
<1>9. settings.number_of_runs \in Nat
  BY DEF C2CSettings
<1>10. again \in [1 .. settings.number_of_runs -> Seq(pairs)]
  BY <1>8
<1>11. again \in Seq(Seq(pairs))
  BY <1>9, <1>10, SeqDef
<1> HIDE DEF again
<1>12. FlattenSeq(again) \in Seq(pairs)
  BY <1>11, FlattenType
<1> HIDE DEF pairs
<1>13. FlattenSeq(again) \in Seq(pairs \cup {None}) /\ <<None>> \in Seq(pairs \cup {None})
  <2>1. FlattenSeq(again) \in Seq(pairs \cup {None})
    BY <1>12, SeqMonotonic
  <2>2. <<None>> \in Seq(pairs \cup {None})
    OBVIOUS
  <2> QED
    BY <2>1, <2>2
<1>14. FlattenSeq(again) \o <<None>> \in Seq(pairs \cup {None})
  BY <1>13, ConcatProperties
<1> QED
  BY <1>6, <1>14 DEF pairs

----------------------------------------------------------------------------
(* MemoryRecipes: steps of the recipes *)

\* A step of a recipe leaves the discovery alone.
LEMMA DiscoveryInside ==
    ASSUME [RecipesNext]_allVars
    PROVE  [TopologyNext]_topologyVars
BY DEF RecipesNext, allVars, topologyVars, BeginRecipe, CrossNumaStep, PeakStep, LoadedStep, LoadedStepFails, C2CStep,
       StorageStep, RecipeRaises, AllDone, AfterStep

\* The machine does not change once it is known, and no recipe takes a step before.
LEMMA MachineFixed ==
    ASSUME MachineOK, [RecipesNext]_allVars, machine # NoMachine
    PROVE  machine' = machine
<1>1. found.stage = "end"
  BY DEF MachineOK
<1>2. [TopologyNext]_topologyVars
  BY DiscoveryInside
<1> QED
  BY <1>1, <1>2 DEF TopologyNext, DiscoveryStep, ReadCpuinfo, ReadCpu, AddNumaNodes, CollectSysHw, DiscoveryRaises,
                    Hotplug, topologyVars

\* The sweeps run once the machine is known, and end before the first recipe that follows.
LEMMA SweepKeepsOrder ==
    ASSUME [RecipesNext]_allVars
    PROVE  /\ phase' # phase => machine # NoMachine /\ UNCHANGED <<topologyVars, own>> /\ phase # "end"
           /\ phase = "end" => phase' = "end"
BY DEF RecipesNext, allVars, topologyVars, own, sweepVars, progress, BeginRecipe, CrossNumaStep, PeakStep, LoadedStep, LoadedStepFails,
       C2CStep, StorageStep, RecipeRaises, AllDone, AfterStep, SweepNext, Step, StepRaises, KillAndResume,
       StartLatencySweep, OneStep, WritePresweep, Refine, SweetSpot, WriteResults, WriteSummary, BandwidthSweep

\* What the recipes go by stays what was listed at one moment.
LEMMA NodesKept ==
    ASSUME FoundOK, MachineOK, NodesKnown, [RecipesNext]_allVars
    PROVE  NodesKnown'
<1>1. [TopologyNext]_topologyVars
  BY DiscoveryInside
<1>2. hw' = hw
  BY <1>1 DEF TopologyNext, DiscoveryStep, ReadCpuinfo, ReadCpu, AddNumaNodes, CollectSysHw, DiscoveryRaises, Hotplug, topologyVars
<1>3. ListedNodes' = ListedNodes
  BY <1>2 DEF ListedNodes
<1>4. \A lists : NodesListed(lists)' <=> NodesListed(lists)
  BY <1>2, <1>3 DEF NodesListed
<1>5. (hw.online \ hw.hotplug \subseteq online)'
  <2>1. CASE Hotplug
    <3>1. PICK c \in hw.hotplug : online' = IF c \in online THEN online \ {c} ELSE online \cup {c}
      BY <2>1 DEF Hotplug
    <3> QED
      BY <3>1, <1>2 DEF NodesKnown
  <2>2. CASE ~Hotplug
    <3>1. online' = online
      BY <1>1, <2>2 DEF TopologyNext, DiscoveryStep, ReadCpuinfo, ReadCpu, AddNumaNodes, CollectSysHw, DiscoveryRaises, topologyVars
    <3> QED
      BY <3>1, <1>2 DEF NodesKnown
  <2> QED
    BY <2>1, <2>2
<1>6. (\E n \in ListedNodes : (hw.nodes[n] \cap hw.online) \ hw.hotplug # {})'
  BY <1>2, <1>3 DEF NodesKnown
<1>7. (phase # "start" => machine # NoMachine)'
  <2>1. CASE phase' # phase
    BY <2>1, SweepKeepsOrder DEF topologyVars
  <2>2. CASE phase' = phase /\ phase # "start"
    BY <2>2, MachineFixed DEF NodesKnown, NoMachine
  <2> QED
    BY <2>1, <2>2
<1>8. found = [stage |-> found.stage, cpuinfo |-> found.cpuinfo, todo |-> found.todo, parents |-> found.parents,
               groups |-> found.groups, numa_nodes |-> found.numa_nodes, tree |-> found.tree]
  BY DEF FoundOK
<1>9. ASSUME found'.stage = "collect"
      PROVE  \E cpus \in SUBSET hw.cpus :
                 /\ hw.online \ hw.hotplug \subseteq cpus
                 /\ found'.numa_nodes = [n \in ListedNodes |-> Ascending(hw.nodes[n] \cap cpus)]
  <2>1. CASE AddNumaNodes
    <3>1. found'.numa_nodes = [n \in ListedNodes |-> Ascending(hw.nodes[n] \cap online)]
      BY <1>8, <2>1 DEF AddNumaNodes
    <3>2. online \in SUBSET hw.cpus /\ hw.online \ hw.hotplug \subseteq online
      BY DEF MachineOK, NodesKnown
    <3> QED
      BY <3>1, <3>2
  <2>2. CASE ~AddNumaNodes
    <3>1. found' = found
      <4>1. CASE ReadCpuinfo
        BY <1>8, <1>9, <4>1 DEF ReadCpuinfo
      <4>2. ASSUME NEW c, ReadCpu(c) PROVE FALSE
        <5>1. found.stage = "sysfs"
          BY <4>2 DEF ReadCpu
        <5>2. found' = NotFound \/ \E order, parents, left :
                  found' = [found EXCEPT !.todo = left, !.parents = parents, !.groups = @ \o order,
                                         !.stage = IF left = {} THEN "numa" ELSE @]
          BY <4>2 DEF ReadCpu, DiscoveryRaises
        <5>3. CASE found' = NotFound
          BY <1>9, <5>3 DEF NotFound
        <5>4. CASE found' # NotFound
          <6>1. PICK order, parents, left :
                    found' = [found EXCEPT !.todo = left, !.parents = parents, !.groups = @ \o order,
                                           !.stage = IF left = {} THEN "numa" ELSE @]
            BY <5>2, <5>4
          <6>2. found'.stage = IF left = {} THEN "numa" ELSE found.stage
            BY <1>8, <6>1
          <6> QED
            BY <1>9, <5>1, <6>2
        <5> QED
          BY <5>3, <5>4
      <4>3. CASE CollectSysHw
        BY <1>9, <4>3 DEF CollectSysHw, DiscoveryRaises, NotFound
      <4> QED
        BY <1>1, <2>2, <4>1, <4>2, <4>3 DEF TopologyNext, DiscoveryStep, Hotplug, topologyVars
    <3> QED
      BY <3>1, <1>9 DEF NodesKnown, NodesListed
  <2> QED
    BY <2>1, <2>2
<1>10. (found.stage = "collect" => NodesListed(found.numa_nodes))'
  BY <1>2, <1>3, <1>9 DEF NodesListed
<1>11. (machine # NoMachine => NodesListed(machine.numa_nodes))'
  <2>1. CASE machine' = machine
    <3>1. NodesListed(machine.numa_nodes)' <=> NodesListed(machine.numa_nodes)
      BY <2>1, <1>2, <1>3 DEF NodesListed
    <3>2. machine # NoMachine => NodesListed(machine.numa_nodes)
      BY DEF NodesKnown
    <3> QED
      BY <2>1, <3>1, <3>2 DEF NoMachine
  <2>2. CASE machine' # machine
    <3>1. CollectSysHw
      BY <1>1, <2>2 DEF TopologyNext, DiscoveryStep, ReadCpuinfo, ReadCpu, AddNumaNodes, DiscoveryRaises, Hotplug, topologyVars
    <3>2. found.stage = "collect" /\ machine'.numa_nodes = found.numa_nodes
      BY <2>2, <3>1 DEF CollectSysHw, DiscoveryRaises
    <3> QED
      BY <3>2, <1>2, <1>3 DEF NodesKnown, NodesListed
  <2> QED
    BY <2>1, <2>2
<1> QED
  BY <1>5, <1>6, <1>7, <1>10, <1>11 DEF NodesKnown

\* What the recipes make of the machine.
LEMMA SameMachine ==
    ASSUME machine' = machine
    PROVE  /\ CpuListPerNode' = CpuListPerNode /\ Nodes' = Nodes /\ AllCpus' = AllCpus
           /\ \A n : CpusOf(n)' = CpusOf(n)
           /\ DefaultNumaNode' = DefaultNumaNode
           /\ SingleCoreCpuChoice' = SingleCoreCpuChoice
           /\ DefaultLoaded' = DefaultLoaded
<1>1. CpuListPerNode' = CpuListPerNode
  BY DEF CpuListPerNode
<1>2. Nodes' = Nodes
  BY <1>1 DEF Nodes
<1>3. \A n : CpusOf(n)' = CpusOf(n)
  BY <1>1 DEF CpusOf
<1>4. AllCpus' = AllCpus
  BY <1>2, <1>3 DEF AllCpus
<1>5. \A n : LastCpu(n)' = LastCpu(n)
  BY <1>1 DEF LastCpu, CpusOf
<1>6. SingleCoreCpuChoice' = SingleCoreCpuChoice
  BY <1>1 DEF SingleCoreCpuChoice, LastCpu, CpusOf, Nodes
<1>7. DefaultNumaNode' = DefaultNumaNode
  BY <1>1, <1>6 DEF DefaultNumaNode, NodeOfCpu, CpusOf, Nodes
<1>8. DefaultLoaded' = DefaultLoaded
  BY <1>1, <1>7 DEF DefaultLoaded, LastCpu, CpusOf
<1> QED
  BY <1>1, <1>2, <1>3, <1>4, <1>6, <1>7, <1>8

\* The same recipe with the same settings on the same machine.
SameRecipe == UNCHANGED <<machine, phase, recipe, cfg>>

\* Then the settings mean the same.
LEMMA SameSettings ==
    ASSUME SameRecipe
    PROVE  /\ Running' = Running
           /\ KeptApart' <=> KeptApart
           /\ FullLoad' <=> FullLoad
           /\ SettingsOK' <=> SettingsOK
           /\ SoundRow' = SoundRow
<1> USE SameMachine DEF SameRecipe
<1>1. Running' = Running
  BY DEF Running
<1>2. KeptApart' <=> KeptApart
  BY <1>1 DEF KeptApart
<1>3. FullLoad' <=> FullLoad
  BY <1>1 DEF FullLoad, CpusOf
<1>4. SettingsOK' <=> SettingsOK
  BY <1>1 DEF SettingsOK, CpusOf
<1>5. SoundRow' = SoundRow
  BY DEF SoundRow
<1> QED
  BY <1>1, <1>2, <1>3, <1>4, <1>5

\* A step of a recipe whose processes can run side by side.
LEMMA StepKept ==
    ASSUME SettingsOK, StepsOK, RoundsOK, SameRecipe, recipe > 0, steps # <<>>, steps' = Tail(steps),
           \A k \in DOMAIN procs' : RoundOK(procs'[k])
    PROVE  SettingsOK' /\ StepsOK' /\ RoundsOK'
<1>1. SettingsOK'
  BY SameSettings
<1>2. StepsOK'
  <2>1. Running' = Running /\ Nodes' = Nodes /\ AllCpus' = AllCpus
    BY SameSettings, SameMachine DEF SameRecipe
  <2>2. \A X : steps \in Seq(X) => Tail(steps) \in Seq(X)
    OBVIOUS
  <2> QED
    BY <2>1, <2>2 DEF StepsOK, None
<1>3. RoundsOK'
  <2>1. /\ KeptApart' <=> KeptApart
        /\ FullLoad' <=> FullLoad
        /\ machine' = machine /\ AllCpus' = AllCpus
        /\ \A n : CpusOf(n)' = CpusOf(n)
    BY SameSettings, SameMachine DEF SameRecipe
  <2>2. \A k \in DOMAIN procs' : RoundOK(procs[k])'
    <3>1. SUFFICES ASSUME NEW k \in DOMAIN procs' PROVE RoundOK(procs[k])'
      OBVIOUS
    <3>2. RoundOK(procs'[k])
      OBVIOUS
    <3> QED
      BY <2>1, <3>2 DEF RoundOK, CpusOf
  <2> QED
    BY <2>2 DEF RoundsOK, SameRecipe
<1> QED
  BY <1>1, <1>2, <1>3

\* A recipe that ends without a table.
LEMMA NothingKept ==
    ASSUME SettingsOK, RoundsOK, SameRecipe, steps' = <<>>, procs' = <<>>, rows' = <<>>
    PROVE  SettingsOK' /\ StepsOK' /\ RoundsOK' /\ RowsOK'
<1>1. SettingsOK'
  BY SameSettings
<1>2. StepsOK'
  BY DEF StepsOK
<1>3. RoundsOK'
  BY DEF RoundsOK, SameRecipe
<1>4. RowsOK'
  BY DEF RowsOK
<1> QED
  BY <1>1, <1>2, <1>3, <1>4

\* After a step the recipe is the same, and one step is done.
LEMMA StepTaken ==
    ASSUME RoundsOK, Running # "none", steps # <<>>, NEW round, NEW newRows, NEW report,
           AfterStep(round, newRows, report)
    PROVE  SameRecipe /\ recipe > 0 /\ steps' = Tail(steps) /\ procs' = round /\ rows' = newRows
BY DEF RoundsOK, Running, AfterStep, SameRecipe, sweepVars, progress, topologyVars, Recipes

\* Rows are only looked at where bandwidth is measured.
LEMMA OtherRows ==
    ASSUME SameRecipe, Running \notin {"peak-bandwidth", "loaded-latency"}
    PROVE  RowsOK'
<1>1. Running' = Running
  BY SameSettings
<1> QED
  BY <1>1 DEF RowsOK, FullLoad

\* idle-latency and cross-numa-bandwidth run one process on CPUs of one node.
LEMMA CrossNumaKept ==
    ASSUME NodesSound, SettingsOK, StepsOK, RoundsOK, CrossNumaStep
    PROVE  SettingsOK' /\ StepsOK' /\ RoundsOK' /\ RowsOK'
<1>1. Running \in {"idle-latency", "cross-numa-bandwidth"} /\ steps # <<>>
  BY DEF CrossNumaStep
<1>2. Head(steps) \in Nodes \X Nodes
  BY <1>1 DEF StepsOK
<1> DEFINE run == Head(steps)[1]
           mem == Head(steps)[2]
           p == IF Running = "idle-latency" THEN Process("latency", {LastCpu(run)}, mem)
                ELSE Process("bandwidth", CpusOf(run), mem)
           filled == SetCell(rows, run, mem, p)
<1>3. run \in Nodes /\ mem \in Nodes
  BY <1>2
<1>4. AfterStep(<<{p}>>, filled, MatrixReport(filled))
  BY DEF CrossNumaStep
<1> HIDE DEF run, mem, filled
<1>5. p.cpus # {} /\ p.cpus \subseteq AllCpus /\ p.mem # {} /\ p.mem \subseteq DOMAIN machine.numa_nodes
  BY <1>3, ChoicesOnNodes DEF Process, NodesSound
<1> HIDE DEF p
<1> DEFINE round == {p}
<1>6. RoundOK(round)
  BY <1>1, <1>5 DEF RoundOK, FullLoad
<1> HIDE DEF round
<1>7. SameRecipe /\ recipe > 0 /\ steps' = Tail(steps) /\ procs' = <<round>>
  BY <1>1, <1>4, StepTaken DEF round
<1>8. \A k \in DOMAIN procs' : RoundOK(procs'[k])
  BY <1>6, <1>7
<1> QED
  BY <1>1, <1>7, <1>8, StepKept, OtherRows

\* core-to-core-latency runs pingpong on all CPUs.
LEMMA C2CKept ==
    ASSUME NodesSound, SettingsOK, StepsOK, RoundsOK, C2CStep
    PROVE  SettingsOK' /\ StepsOK' /\ RoundsOK' /\ RowsOK'
<1>1. Running = "core-to-core-latency" /\ steps # <<>>
  BY DEF C2CStep
<1>2. Head(steps) \in (AllCpus \X Nodes) \cup {None}
  BY <1>1 DEF StepsOK
<1>3. CASE Head(steps) = None
  <2>1. AfterStep(<<>>, rows, C2CReport(rows))
    BY <1>3 DEF C2CStep
  <2>2. SameRecipe /\ recipe > 0 /\ steps' = Tail(steps) /\ procs' = <<>>
    BY <1>1, <2>1, StepTaken
  <2>3. \A k \in DOMAIN procs' : RoundOK(procs'[k])
    BY <2>2
  <2> QED
    BY <1>1, <2>2, <2>3, StepKept, OtherRows
<1>4. CASE Head(steps) # None
  <2> DEFINE p == [kind |-> "c2c", cpus |-> AllCpus, mem |-> PingpongMemory(Head(steps)[2])]
             all == Compiled(rows, PingpongPairs(Head(steps)[1]), Head(steps)[2], p.mem)
  <2>1. AfterStep(<<{p}>>, all, C2CReport(all))
    BY <1>4 DEF C2CStep
  <2>2. Head(steps)[2] \in Nodes
    BY <1>2, <1>4
  <2>3. p.cpus # {} /\ p.cpus \subseteq AllCpus /\ p.mem # {} /\ p.mem \subseteq DOMAIN machine.numa_nodes
    BY <2>2, ChoicesOnNodes DEF PingpongMemory, NodesSound
  <2> HIDE DEF p, all
  <2> DEFINE round == {p}
  <2>4. RoundOK(round)
    BY <1>1, <2>3 DEF RoundOK, FullLoad
  <2> HIDE DEF round
  <2>5. SameRecipe /\ recipe > 0 /\ steps' = Tail(steps) /\ procs' = <<round>>
    BY <1>1, <2>1, StepTaken DEF round
  <2>6. \A k \in DOMAIN procs' : RoundOK(procs'[k])
    BY <2>4, <2>5
  <2> QED
    BY <1>1, <2>5, <2>6, StepKept, OtherRows
<1> QED
  BY <1>3, <1>4

\* The CPUs of a load on every node but one, and of a process on that one.
LEMMA PeakKept ==
    ASSUME NodesSound, SettingsOK, StepsOK, RoundsOK, RowsOK, PeakStep
    PROVE  SettingsOK' /\ StepsOK' /\ RoundsOK' /\ RowsOK'
<1> DEFINE D == DefaultNumaNode
           measured == Process("bandwidth", cfg.target_cpus, D)
           loads == {Process("bandwidth", CpusOf(n), n) : n \in Nodes \ {D}}
           bw == {Quotient(Rate(measured) * Cardinality(AllCpus), Len(CpuListPerNode[D]))}
           row == [step |-> Head(steps), bw |-> bw, ran |-> BandwidthCpus(loads \cup {measured})]
           all == Append(rows, row)
           round == loads \cup {measured}
<1>1. Running = "peak-bandwidth" /\ steps # <<>>
  BY DEF PeakStep
<1>2. AfterStep(<<round>>, all, all)
  BY DEF PeakStep
<1>3. Head(steps) \in Nat
  BY <1>1 DEF StepsOK
<1>4. D \in Nodes /\ cfg.target_cpus \subseteq CpusOf(D) /\ cfg.target_cpus # {}
  BY <1>1, ChoicesOnNodes DEF SettingsOK, NodesSound
<1>5. measured.cpus = cfg.target_cpus /\ measured.mem = {D} /\ measured.kind = "bandwidth"
  BY DEF Process
<1>6. ASSUME NEW p \in loads
      PROVE  \E n \in Nodes \ {D} : p.cpus = CpusOf(n) /\ p.mem = {n} /\ p.kind = "bandwidth" /\ p = Process("bandwidth", CpusOf(n), n)
  <2>1. PICK n \in Nodes \ {D} : p = Process("bandwidth", CpusOf(n), n)
    OBVIOUS
  <2>2. p.cpus = CpusOf(n) /\ p.mem = {n} /\ p.kind = "bandwidth"
    BY <2>1 DEF Process
  <2> QED
    BY <2>1, <2>2
<1>7. ASSUME NEW n \in Nodes \ {D}
      PROVE  \E p \in loads : p.cpus = CpusOf(n)
  <2>1. Process("bandwidth", CpusOf(n), n) \in loads
    OBVIOUS
  <2>2. Process("bandwidth", CpusOf(n), n).cpus = CpusOf(n)
    BY DEF Process
  <2> QED
    BY <2>1, <2>2
<1>8. \A n \in Nodes : CpusOf(n) # {} /\ CpusOf(n) \subseteq AllCpus /\ n \in DOMAIN machine.numa_nodes
  BY ChoicesOnNodes DEF NodesSound
<1>9. \A m, n \in Nodes : m # n => CpusOf(m) \cap CpusOf(n) = {}
  BY DEF NodesSound
<1>10. \A p \in round : p.cpus # {} /\ p.cpus \subseteq AllCpus /\ p.mem # {} /\ p.mem \subseteq DOMAIN machine.numa_nodes
  <2> HIDE DEF loads, measured
  <2> QED
    BY <1>4, <1>5, <1>6, <1>8
<1>11. \A p, q \in round : p # q => p.cpus \cap q.cpus = {}
  <2> HIDE DEF loads, measured, D
  <2>1. ASSUME NEW p \in loads PROVE p.cpus \cap measured.cpus = {}
    BY <2>1, <1>4, <1>5, <1>6, <1>9
  <2>2. ASSUME NEW p \in loads, NEW q \in loads, p # q PROVE p.cpus \cap q.cpus = {}
    BY <2>2, <1>6, <1>9
  <2> QED
    BY <2>1, <2>2
<1>12. ASSUME FullLoad
       PROVE  /\ UNION {p.cpus : p \in round} = AllCpus
              /\ \A p \in round : \A n \in p.mem : p.cpus \subseteq CpusOf(n)
  <2>1. cfg.target_cpus = CpusOf(D)
    BY <1>1, <1>12 DEF FullLoad
  <2> HIDE DEF loads, measured, D
  <2>2. \A p \in round : p.cpus \subseteq AllCpus
    BY <1>10
  <2>3. ASSUME NEW c \in AllCpus PROVE \E p \in round : c \in p.cpus
    <3>1. PICK n \in Nodes : c \in CpusOf(n)
      BY DEF AllCpus
    <3> QED
      BY <2>1, <3>1, <1>5, <1>7
  <2>4. \A p \in round : \A n \in p.mem : p.cpus \subseteq CpusOf(n)
    BY <2>1, <1>5, <1>6
  <2> QED
    BY <2>2, <2>3, <2>4
<1>13. RoundOK(round)
  BY <1>10, <1>11, <1>12 DEF RoundOK
<1>14. BandwidthCpus(round) = UNION {p.cpus : p \in round}
  <2> HIDE DEF loads, measured, D
  <2>1. \A p \in round : p.kind = "bandwidth"
    BY <1>5, <1>6
  <2> QED
    BY <2>1 DEF BandwidthCpus
<1> HIDE DEF round
<1>15. SameRecipe /\ recipe > 0 /\ steps' = Tail(steps) /\ procs' = <<round>> /\ rows' = all
  <2> HIDE DEF all
  <2> QED
    BY <1>1, <1>2, StepTaken
<1>16. \A k \in DOMAIN procs' : RoundOK(procs'[k])
  BY <1>13, <1>15
<1>17. ASSUME FullLoad PROVE row \in SoundRow
  <2> DEFINE n == Cardinality(CpusOf(D))
             a == Cardinality(AllCpus)
  <2>1. Rate(measured) = n
    BY <1>1, <1>5, <1>17 DEF Rate, FullLoad
  <2>2. Len(CpuListPerNode[D]) = n /\ n \in Nat /\ a \in Nat
    BY <1>4, FS_CardinalityType DEF NodesSound
  <2>3. BandwidthCpus(loads \cup {measured}) = AllCpus
    BY <1>12, <1>14, <1>17 DEF round
  <2> HIDE DEF measured, loads, n, a, D
  <2>4. row.bw = {[num |-> n * a, den |-> n]} /\ row.ran = AllCpus /\ row.step = Head(steps)
    BY <2>1, <2>2, <2>3 DEF Quotient, a
  <2>5. n * a \in Nat
    BY <2>2
  <2>6. row \in [step : Nat, bw : SUBSET [num : Nat, den : Nat], ran : SUBSET AllCpus]
    BY <1>3, <2>1, <2>2, <2>3, <2>5 DEF Quotient, a
  <2>7. \A q \in row.bw : q.num = q.den * Cardinality(row.ran)
    BY <2>4 DEF a
  <2> QED
    BY <2>6, <2>7 DEF SoundRow
<1>18. RowsOK'
  <2>1. (FullLoad' <=> FullLoad) /\ Running' = Running /\ SoundRow' = SoundRow
    BY <1>15, SameSettings
  <2>2. ASSUME FullLoad PROVE rows' \in Seq(SoundRow)
    <3>1. rows \in Seq(SoundRow)
      BY <1>1, <2>2 DEF RowsOK
    <3>2. row \in SoundRow
      BY <1>17, <2>2
    <3> HIDE DEF row
    <3> QED
      BY <1>15, <3>1, <3>2, AppendProperties
  <2> QED
    BY <2>1, <2>2 DEF RowsOK
<1> QED
  BY <1>1, <1>15, <1>16, <1>18, StepKept

\* The latency CPU and the CPUs of every node without it.
LEMMA LoadedKept ==
    ASSUME NodesSound, SettingsOK, StepsOK, RoundsOK, RowsOK, LoadedStep
    PROVE  SettingsOK' /\ StepsOK' /\ RoundsOK' /\ RowsOK'
<1> DEFINE D == DefaultNumaNode
           lat == cfg.cpus.latency_cpu_id
           block == cfg.cpus.bw_cpu_blocklist
           L == LatencyNode
           probe == Process("latency", {lat}, L)
           loads == {Process("bandwidth", BandwidthList(n, block), n) : n \in Nodes}
           measured == Process("bandwidth", BandwidthList(L, block), L)
           bw == IF cfg.phase = "loading" THEN {} ELSE {ExtrapolateTotalBw(Rate(measured))}
           rounds == IF cfg.phase = "both" THEN <<LoadedRound, LoadedRound>> ELSE <<LoadedRound>>
           row == [step |-> Head(steps), bw |-> bw, ran |-> BandwidthCpus(LoadedRound)]
           all == Append(rows, row)
<1>1. Running = "loaded-latency" /\ steps # <<>> /\ Starts(LoadedRound)
  BY DEF LoadedStep
<1>2. AfterStep(rounds, all, all) /\ \A q \in bw : q.den # 0
  BY DEF LoadedStep
<1>3. Head(steps) \in Nat
  BY <1>1 DEF StepsOK
<1>4. lat \in AllCpus /\ L \in Nodes /\ lat \in CpusOf(L)
  BY <1>1, ChoicesOnNodes DEF SettingsOK, LatencyNode
<1>5. LoadedRound = {probe} \cup loads
  BY DEF LoadedRound
<1>6. probe.cpus = {lat} /\ probe.mem = {L} /\ probe.kind = "latency"
  BY DEF Process
<1>7. ASSUME NEW p \in loads
      PROVE  \E n \in Nodes : /\ p.cpus = CpusOf(n) \ block /\ p.mem = {n} /\ p.kind = "bandwidth"
                              /\ p = Process("bandwidth", BandwidthList(n, block), n)
  <2>1. PICK n \in Nodes : p = Process("bandwidth", BandwidthList(n, block), n)
    OBVIOUS
  <2>2. p.cpus = CpusOf(n) \ block /\ p.mem = {n} /\ p.kind = "bandwidth"
    BY <2>1 DEF Process, BandwidthList
  <2> QED
    BY <2>1, <2>2
<1>8. ASSUME NEW n \in Nodes
      PROVE  \E p \in loads : p.cpus = CpusOf(n) \ block
  <2>1. Process("bandwidth", BandwidthList(n, block), n) \in loads
    OBVIOUS
  <2>2. Process("bandwidth", BandwidthList(n, block), n).cpus = CpusOf(n) \ block
    BY DEF Process, BandwidthList
  <2> QED
    BY <2>1, <2>2
<1>9. \A n \in Nodes : CpusOf(n) # {} /\ CpusOf(n) \subseteq AllCpus /\ n \in DOMAIN machine.numa_nodes
  BY ChoicesOnNodes DEF NodesSound
<1>10. \A m, n \in Nodes : m # n => CpusOf(m) \cap CpusOf(n) = {}
  BY DEF NodesSound
<1> HIDE DEF probe, loads, L
<1>11. \A p \in LoadedRound : p.cpus # {} /\ p.cpus \subseteq AllCpus /\ p.mem # {} /\ p.mem \subseteq DOMAIN machine.numa_nodes
  <2>1. \A p \in LoadedRound : p.cpus # {}
    BY <1>1 DEF Starts
  <2>2. probe.cpus \subseteq AllCpus /\ probe.mem # {} /\ probe.mem \subseteq DOMAIN machine.numa_nodes
    BY <1>4, <1>6, <1>9
  <2>3. ASSUME NEW p \in loads PROVE p.cpus \subseteq AllCpus /\ p.mem # {} /\ p.mem \subseteq DOMAIN machine.numa_nodes
    BY <1>7, <1>9
  <2> QED
    BY <2>1, <2>2, <2>3, <1>5
<1>12. ASSUME KeptApart PROVE \A p, q \in LoadedRound : p # q => p.cpus \cap q.cpus = {}
  <2>1. lat \in block
    BY <1>1, <1>12 DEF KeptApart
  <2>2. ASSUME NEW p \in loads PROVE p.cpus \cap probe.cpus = {}
    BY <2>1, <1>6, <1>7
  <2>3. ASSUME NEW p \in loads, NEW q \in loads, p # q PROVE p.cpus \cap q.cpus = {}
    BY <2>3, <1>7, <1>10
  <2> QED
    BY <2>2, <2>3, <1>5
<1>13. UNION {p.cpus : p \in loads} = AllCpus \ block
  <2>1. \A p \in loads : p.cpus \subseteq AllCpus \ block
    BY <1>7, <1>9
  <2>2. ASSUME NEW c \in AllCpus \ block PROVE \E p \in loads : c \in p.cpus
    <3>1. PICK n \in Nodes : c \in CpusOf(n)
      BY DEF AllCpus
    <3> QED
      BY <3>1, <1>8
  <2> QED
    BY <2>1, <2>2
<1>14. ASSUME FullLoad
       PROVE  /\ UNION {p.cpus : p \in LoadedRound} = AllCpus
              /\ \A p \in LoadedRound : \A n \in p.mem : p.cpus \subseteq CpusOf(n)
  <2>1. block = {lat}
    BY <1>1, <1>14 DEF FullLoad
  <2>2. UNION {p.cpus : p \in LoadedRound} = {lat} \cup UNION {p.cpus : p \in loads}
    BY <1>5, <1>6
  <2>3. UNION {p.cpus : p \in LoadedRound} = AllCpus
    BY <2>1, <2>2, <1>4, <1>13
  <2>4. \A p \in LoadedRound : \A n \in p.mem : p.cpus \subseteq CpusOf(n)
    BY <1>4, <1>5, <1>6, <1>7
  <2> QED
    BY <2>3, <2>4
<1>15. RoundOK(LoadedRound)
  BY <1>11, <1>12, <1>14 DEF RoundOK
<1>16. BandwidthCpus(LoadedRound) = AllCpus \ block
  <2>1. {q \in LoadedRound : q.kind = "bandwidth"} = loads
    BY <1>5, <1>6, <1>7
  <2> QED
    BY <2>1, <1>13 DEF BandwidthCpus
<1>17. SameRecipe /\ recipe > 0 /\ steps' = Tail(steps) /\ procs' = rounds /\ rows' = all
  <2> HIDE DEF all, rounds
  <2> QED
    BY <1>1, <1>2, StepTaken
<1>18. \A k \in DOMAIN procs' : RoundOK(procs'[k])
  BY <1>15, <1>17
<1>19. ASSUME FullLoad, cfg.cpus = DefaultLoaded PROVE row \in SoundRow
  <2> DEFINE n == Cardinality(CpusOf(D))
             a == Cardinality(AllCpus)
  <2>1. D \in Nodes /\ lat = LastCpu(D) /\ block = {lat} /\ lat \in CpusOf(D)
    BY <1>1, <1>19, ChoicesOnNodes DEF FullLoad, DefaultLoaded
  <2>2. L = D
    BY <2>1, ChoicesOnNodes DEF L, LatencyNode
  <2>3. /\ Len(CpuListPerNode[D]) = n /\ n \in Nat /\ a \in Nat /\ n <= a
        /\ IsFiniteSet(CpusOf(D)) /\ IsFiniteSet(AllCpus) /\ CpusOf(D) \in SUBSET AllCpus
    BY <2>1, <1>9, FS_CardinalityType, FS_Subset DEF NodesSound
  <2>4. Cardinality(CpusOf(D) \ {lat}) = n - 1 /\ Cardinality(AllCpus \ {lat}) = a - 1
    <3>1. Cardinality(CpusOf(D) \ {lat}) = n - 1
      <4> DEFINE T == CpusOf(D)
      <4>1. lat \in T /\ IsFiniteSet(T)
        BY <2>1, <2>3
      <4> HIDE DEF T
      <4>2. Cardinality(T \ {lat}) = Cardinality(T) - 1
        BY <4>1, FS_RemoveElement
      <4> QED
        BY <4>2 DEF T
    <3>2. Cardinality(AllCpus \ {lat}) = a - 1
      BY <2>3, <1>4, FS_RemoveElement
    <3> QED
      BY <3>1, <3>2
  <2>5. n - 1 \in Nat
    <3>1. n # 0
      BY <2>1, <2>3, FS_EmptySet
    <3> QED
      BY <2>3, <3>1
  <2>6. Rate(measured) = n - 1
    BY <2>1, <2>2, <2>4 DEF Rate, Process, BandwidthList
  <2> DEFINE r == n - 1
             num == r * (a - n) + r * (n - 1)
  <2>7. ExtrapolateTotalBw(Rate(measured)) = [num |-> num, den |-> n - 1]
    BY <2>3, <2>6 DEF ExtrapolateTotalBw, Quotient
  <2>8. BandwidthCpus(LoadedRound) = AllCpus \ {lat}
    BY <2>1, <1>16
  <2> HIDE DEF n, a, measured, D
  <2>9. num \in Nat /\ num = (n - 1) * (a - 1)
    <3>1. a - n \in Nat /\ r \in Nat /\ r = n - 1
      BY <2>3, <2>5
    <3>2. r * (a - n) \in Nat /\ r * (n - 1) \in Nat
      BY <3>1
    <3>3. r * (a - n) + r * (n - 1) = r * ((a - n) + (n - 1))
      BY <3>1
    <3>4. (a - n) + (n - 1) = a - 1
      BY <2>3
    <3> QED
      BY <3>1, <3>2, <3>3, <3>4
  <2> HIDE DEF num, r
  <2>10. bw \in SUBSET [num : Nat, den : Nat] /\ \A q \in bw : q.num = num /\ q.den = n - 1
    BY <2>5, <2>7, <2>9
  <2> HIDE DEF bw
  <2>11. row \in [step : Nat, bw : SUBSET [num : Nat, den : Nat], ran : SUBSET AllCpus]
    BY <1>3, <2>8, <2>10
  <2>12. \A q \in row.bw : q.num = q.den * Cardinality(row.ran)
    BY <2>4, <2>8, <2>9, <2>10 DEF a
  <2> QED
    BY <2>11, <2>12 DEF SoundRow
<1>20. RowsOK'
  <2>1. (FullLoad' <=> FullLoad) /\ Running' = Running /\ SoundRow' = SoundRow /\ cfg' = cfg /\ DefaultLoaded' = DefaultLoaded
    BY <1>17, SameSettings, SameMachine DEF SameRecipe
  <2>2. ASSUME FullLoad, cfg.cpus = DefaultLoaded PROVE rows' \in Seq(SoundRow)
    <3>1. rows \in Seq(SoundRow)
      BY <1>1, <2>2 DEF RowsOK
    <3>2. row \in SoundRow
      BY <1>19, <2>2
    <3> HIDE DEF row
    <3> QED
      BY <1>17, <3>1, <3>2, AppendProperties
  <2> QED
    BY <2>1, <2>2, <1>1 DEF RowsOK
<1> QED
  BY <1>1, <1>17, <1>18, <1>20, StepKept

\* A recipe that fails leaves no process and no row.
LEMMA LoadedFailsKept ==
    ASSUME SettingsOK, RoundsOK, LoadedStepFails \/ RecipeRaises
    PROVE  SettingsOK' /\ StepsOK' /\ RoundsOK' /\ RowsOK'
<1>1. SameRecipe /\ steps' = <<>> /\ procs' = <<>> /\ rows' = <<>>
  BY DEF LoadedStepFails, RecipeRaises, SameRecipe, sweepVars, progress, topologyVars
<1> QED
  BY <1>1, NothingKept

\* mpstat runs on the first CPU of the list, the jobs on the last ones.
LEMMA StorageKept ==
    ASSUME NodesSound, SettingsOK, StepsOK, RoundsOK, StorageStep
    PROVE  SettingsOK' /\ StepsOK' /\ RoundsOK' /\ RowsOK'
<1> DEFINE N == Len(CpuList)
           jobs == Min({cfg.numjobs, N})
           first == Max({1, N - jobs + 1})
           chosen == ChosenCpus(jobs)
           mpstat == Process("mpstat", {CpuList[1]}, DefaultNumaNode)
           fio == [kind |-> "fio", cpus |-> chosen, mem |-> DOMAIN machine.numa_nodes]
           round == {mpstat, fio}
<1>1. Running = "storage" /\ steps # <<>>
  BY DEF StorageStep
<1>2. PICK all : AfterStep(<<round>>, all, all)
  BY DEF StorageStep
<1>3. cfg.numjobs \in 1 .. 2
  BY <1>1 DEF SettingsOK
<1>4. /\ N = Cardinality(AllCpus) /\ N \in Nat \ {0}
      /\ CpuList \in Seq(AllCpus) /\ \A i \in 1 .. N : CpuList[i] \in AllCpus
      /\ \A i, j \in 1 .. N : CpuList[i] = CpuList[j] => i = j
  <2>1. CpuList \in Seq(AllCpus) /\ Injective(CpuList) /\ N = Cardinality(AllCpus)
    BY CpuListWhole
  <2>2. N \in Nat /\ \A i \in 1 .. N : CpuList[i] \in AllCpus
    BY <2>1, LenProperties
  <2>3. N # 0
    BY <2>1, ChoicesOnNodes, FS_EmptySet DEF NodesSound
  <2> QED
    BY <2>1, <2>2, <2>3 DEF Injective
<1> HIDE DEF N
<1>5. jobs \in 1 .. N /\ jobs <= cfg.numjobs
  <2>1. \A x, y \in Nat : Min({x, y}) = IF x <= y THEN x ELSE y
    BY DEF Min
  <2> QED
    BY <2>1, <1>3, <1>4
<1> HIDE DEF jobs
<1>6. first = N - jobs + 1 /\ first \in 1 .. N
  <2>1. \A x \in Nat \ {0} : Max({1, x}) = x
    BY DEF Max
  <2>2. N - jobs + 1 \in Nat \ {0} /\ N - jobs + 1 <= N
    BY <1>4, <1>5
  <2> QED
    BY <2>1, <2>2
<1>7. chosen = {CpuList[i] : i \in first .. N}
  <2> DEFINE s == SubSeq(CpuList, first, N)
  <2>1. chosen = Range(s)
    BY DEF ChosenCpus, N
  <2> HIDE DEF first
  <2>2. \A i \in first .. N : CpuList[i] \in AllCpus
    BY <1>4, <1>6
  <2>3. first \in Int /\ N \in Int
    BY <1>4, <1>6
  <2>4. /\ s \in Seq(AllCpus)
        /\ Len(s) = N - first + 1
        /\ \A i \in 1 .. N - first + 1 : s[i] = CpuList[first + i - 1]
    BY <2>2, <2>3, <1>6, SubSeqProperties
  <2> HIDE DEF s
  <2>5. Range(s) = {s[i] : i \in 1 .. N - first + 1}
    BY <2>4, RangeEquality
  <2>6. ASSUME NEW c \in Range(s) PROVE \E i \in first .. N : c = CpuList[i]
    <3>1. PICK i \in 1 .. N - first + 1 : c = s[i]
      BY <2>5
    <3>2. first + i - 1 \in first .. N
      BY <2>3, <3>1
    <3> QED
      BY <2>4, <3>1, <3>2
  <2>7. ASSUME NEW i \in first .. N PROVE CpuList[i] \in Range(s)
    <3>1. i - first + 1 \in 1 .. N - first + 1 /\ first + (i - first + 1) - 1 = i
      BY <2>3
    <3>2. s[i - first + 1] = CpuList[i]
      BY <2>4, <3>1
    <3> QED
      BY <2>5, <3>1, <3>2
  <2> QED
    BY <2>1, <2>6, <2>7
<1> HIDE DEF chosen, first
<1>8. chosen # {} /\ chosen \subseteq AllCpus
  <2>1. N \in first .. N /\ \A i \in first .. N : i \in 1 .. N
    BY <1>4, <1>6
  <2> QED
    BY <1>4, <1>7, <2>1
<1>9. /\ mpstat.cpus = {CpuList[1]} /\ mpstat.mem = {DefaultNumaNode}
      /\ fio.cpus = chosen /\ fio.mem = DOMAIN machine.numa_nodes
  BY DEF Process
<1>10. CpuList[1] \in AllCpus /\ DefaultNumaNode \in DOMAIN machine.numa_nodes
  <2>1. 1 \in 1 .. N
    BY <1>4
  <2> QED
    BY <1>4, <2>1, ChoicesOnNodes DEF NodesSound
<1>11. ASSUME KeptApart PROVE mpstat.cpus \cap fio.cpus = {}
  <2>1. cfg.numjobs < N
    BY <1>1, <1>4, <1>11 DEF KeptApart
  <2>2. first > 1
    <3>1. jobs \in Nat /\ cfg.numjobs \in Nat /\ jobs <= cfg.numjobs /\ first = N - jobs + 1
      BY <1>3, <1>5, <1>6
    <3> QED
      BY <2>1, <3>1, <1>4
  <2>3. \A i \in first .. N : i \in 1 .. N /\ 1 \in 1 .. N /\ i # 1
    BY <2>2, <1>4, <1>6
  <2>4. CpuList[1] \notin chosen
    BY <2>3, <1>4, <1>7
  <2> QED
    BY <2>4, <1>9
<1> HIDE DEF mpstat, fio
<1>12. RoundOK(round)
  <2>1. ~FullLoad
    BY <1>1 DEF FullLoad
  <2>2. \A p \in round : p.cpus # {} /\ p.cpus \subseteq AllCpus /\ p.mem # {} /\ p.mem \subseteq DOMAIN machine.numa_nodes
    BY <1>8, <1>9, <1>10
  <2>3. KeptApart => \A p, q \in round : p # q => p.cpus \cap q.cpus = {}
    BY <1>11
  <2> QED
    BY <2>1, <2>2, <2>3 DEF RoundOK
<1> HIDE DEF round
<1>13. SameRecipe /\ recipe > 0 /\ steps' = Tail(steps) /\ procs' = <<round>>
  BY <1>1, <1>2, StepTaken
<1>14. \A k \in DOMAIN procs' : RoundOK(procs'[k])
  BY <1>12, <1>13
<1> QED
  BY <1>1, <1>13, <1>14, StepKept, OtherRows

\* _pre_run and gen_steps choose CPUs and nodes of the machine.
LEMMA BeginKept ==
    ASSUME NodesSound, RoundsOK, BeginRecipe
    PROVE  SettingsOK' /\ StepsOK' /\ RoundsOK' /\ RowsOK'
<1>1. /\ recipe \in 0 .. 5 /\ recipe' = recipe + 1 /\ phase' = "end"
      /\ procs' = <<>> /\ rows' = <<>> /\ machine' = machine
  BY DEF BeginRecipe, RoundsOK, Recipes, sweepVars, progress, topologyVars
<1>2. /\ Nodes' = Nodes /\ AllCpus' = AllCpus /\ \A n : CpusOf(n)' = CpusOf(n)
      /\ DefaultNumaNode' = DefaultNumaNode /\ SingleCoreCpuChoice' = SingleCoreCpuChoice
  BY <1>1, SameMachine
<1>3. Running' \in {"idle-latency", "peak-bandwidth", "cross-numa-bandwidth", "loaded-latency", "core-to-core-latency", "storage"}
  BY <1>1 DEF Running, Recipes
<1>4. RoundsOK' /\ RowsOK'
  BY <1>1 DEF RoundsOK, RowsOK, Recipes
<1>5. NodeSeq \in Seq(Nodes)
  BY AscendingLists DEF NodesSound, NodeSeq
<1>6. CASE Running' \in {"idle-latency", "cross-numa-bandwidth"}
  <2>1. steps' = Product(NodeSeq, NodeSeq)
    BY <1>6 DEF BeginRecipe
  <2>2. steps' \in Seq(Nodes \X Nodes)
    BY <2>1, <1>5, ProductType
  <2>3. SettingsOK'
    BY <1>6 DEF SettingsOK
  <2>4. StepsOK'
    BY <2>2, <1>2, <1>6 DEF StepsOK
  <2> QED
    BY <1>4, <2>3, <2>4
<1>7. CASE Running' = "peak-bandwidth"
  <2>1. cfg' \in PeakSettings /\ steps' = AccessTypes
    BY <1>7 DEF BeginRecipe
  <2>2. cfg'.target_cpus \in {CpusOf(DefaultNumaNode), {SingleCoreCpuChoice}}
    BY <2>1 DEF PeakSettings
  <2>3. steps' \in Seq(Nat)
    BY <2>1 DEF AccessTypes
  <2>4. SettingsOK'
    BY <2>2, <1>2, <1>7 DEF SettingsOK, CpusOf
  <2>5. StepsOK'
    BY <2>3, <1>7 DEF StepsOK
  <2> QED
    BY <1>4, <2>4, <2>5
<1>8. CASE Running' = "loaded-latency"
  <2>1. cfg' \in LoadedSettings /\ steps' = InjectedNops
    BY <1>8 DEF BeginRecipe
  <2>2. cfg'.cpus.latency_cpu_id \in {LastCpu(DefaultNumaNode), LastCpu(Max(Nodes))}
    BY <2>1 DEF LoadedSettings, DefaultLoaded
  <2>3. Max(Nodes) \in Nodes
    BY GreatestNumber DEF NodesSound
  <2>4. cfg'.cpus.latency_cpu_id \in AllCpus
    BY <2>2, <2>3, ChoicesOnNodes
  <2>5. SettingsOK'
    BY <2>4, <1>2, <1>8 DEF SettingsOK
  <2>6. StepsOK'
    BY <2>1, <1>8, RecipesAssumption DEF StepsOK
  <2> QED
    BY <1>4, <2>5, <2>6
<1>9. CASE Running' = "core-to-core-latency"
  <2>1. cfg' \in C2CSettings /\ steps' = C2CSteps(cfg')
    BY <1>9 DEF BeginRecipe
  <2>2. steps' \in Seq((AllCpus \X Nodes) \cup {None})
    BY <2>1, C2CStepsType
  <2>3. SettingsOK'
    BY <1>9 DEF SettingsOK
  <2>4. StepsOK'
    BY <2>2, <1>2, <1>9 DEF StepsOK, None
  <2> QED
    BY <1>4, <2>3, <2>4
<1>10. CASE Running' = "storage"
  <2>1. cfg' \in StorageSettings
    BY <1>10 DEF BeginRecipe
  <2>2. cfg'.numjobs \in 1 .. 2
    BY <2>1 DEF StorageSettings
  <2>3. SettingsOK' /\ StepsOK'
    BY <2>2, <1>10 DEF SettingsOK, StepsOK
  <2> QED
    BY <1>4, <2>3
<1> QED
  BY <1>3, <1>6, <1>7, <1>8, <1>9, <1>10

\* Steps that leave the recipe alone.
LEMMA IdleKept ==
    ASSUME MachineOK, NodesKnown, SettingsOK, StepsOK, RoundsOK, RowsOK, [RecipesNext]_allVars, UNCHANGED own
    PROVE  SettingsOK' /\ StepsOK' /\ RoundsOK' /\ RowsOK'
<1>1. recipe' = recipe /\ cfg' = cfg /\ steps' = steps /\ procs' = procs /\ rows' = rows
  BY DEF own
<1>2. CASE recipe = 0
  <2>1. Running' = "none"
    BY <1>1, <1>2 DEF Running
  <2>2. SettingsOK' /\ StepsOK' /\ RowsOK'
    BY <2>1 DEF SettingsOK, StepsOK, RowsOK, FullLoad
  <2>3. RoundsOK'
    BY <1>1, <1>2 DEF RoundsOK, Recipes
  <2> QED
    BY <2>2, <2>3
<1>3. CASE recipe # 0
  <2>1. phase = "end" /\ recipe > 0
    BY <1>3 DEF RoundsOK, Recipes
  <2>2. machine' = machine /\ phase' = phase
    BY <2>1, MachineFixed, SweepKeepsOrder DEF NodesKnown
  <2>3. SameRecipe
    BY <1>1, <2>2 DEF SameRecipe
  <2>4. /\ Running' = Running
        /\ KeptApart' <=> KeptApart
        /\ FullLoad' <=> FullLoad
        /\ SettingsOK'
        /\ SoundRow' = SoundRow
        /\ Nodes' = Nodes /\ AllCpus' = AllCpus /\ DefaultLoaded' = DefaultLoaded
        /\ \A n : CpusOf(n)' = CpusOf(n)
    BY <2>2, <2>3, SameSettings, SameMachine
  <2>5. StepsOK'
    BY <1>1, <2>4 DEF StepsOK, None
  <2>6. RowsOK'
    BY <1>1, <2>4 DEF RowsOK
  <2>7. \A k \in DOMAIN procs' : RoundOK(procs[k])'
    <3>1. SUFFICES ASSUME NEW k \in DOMAIN procs PROVE RoundOK(procs[k])'
      BY <1>1
    <3>2. RoundOK(procs[k])
      BY DEF RoundsOK
    <3> QED
      BY <1>1, <2>2, <2>4, <3>2 DEF RoundOK, CpusOf
  <2>8. RoundsOK'
    BY <1>1, <2>2, <2>7 DEF RoundsOK
  <2> QED
    BY <2>4, <2>5, <2>6, <2>8
<1> QED
  BY <1>2, <1>3

\* Before the first recipe.
LEMMA RecipesStart ==
    ASSUME RecipesInit
    PROVE  DiscoveryInv /\ StillSo /\ TopologyOfOneMoment /\ RecipesIInv
<1>1. PICK s \in Systems : hw = s[2] /\ TopologyInit({s[2]})
  BY DEF RecipesInit, TopologyInit
<1>2. IsHardware(s[2])
  BY RecipesAssumption
<1>3. DiscoveryInv /\ StillSo /\ TopologyOfOneMoment
  BY <1>1, <1>2, DiscoveryStarts
<1>4. NodesKnown
  <2>1. PICK n \in DOMAIN s[2].nodes :
            0..n \subseteq DOMAIN s[2].nodes /\ (s[2].nodes[n] \cap s[2].online) \ s[2].hotplug # {}
    BY RecipesAssumption
  <2>2. n \in ListedNodes /\ (hw.nodes[n] \cap hw.online) \ hw.hotplug # {}
    BY <1>1, <2>1 DEF ListedNodes
  <2>3. online = hw.online /\ found.stage = "cpuinfo" /\ machine = NoMachine
    BY <1>1 DEF TopologyInit, NotFound
  <2>4. phase = "start"
    BY DEF RecipesInit, SweepInit
  <2> QED
    BY <2>2, <2>3, <2>4 DEF NodesKnown
<1>5. SettingsOK /\ StepsOK /\ RoundsOK /\ RowsOK
  BY DEF RecipesInit, SettingsOK, StepsOK, RoundsOK, RowsOK, Running, Recipes, FullLoad
<1> QED
  BY <1>3, <1>4, <1>5 DEF RecipesIInv

\* Every step keeps the CPUs accounted for.
LEMMA RecipesKept ==
    ASSUME DiscoveryInv, RecipesIInv, [RecipesNext]_allVars
    PROVE  RecipesIInv'
<1> USE DEF DiscoveryInv, RecipesIInv
<1>1. NodesKnown'
  BY NodesKept
<1>3. CASE BeginRecipe
  <2>1. NodesSound
    BY <1>3, NodesFound DEF BeginRecipe, NodesKnown
  <2> QED
    BY <1>1, <1>3, <2>1, BeginKept
<1>4. CASE CrossNumaStep \/ PeakStep \/ LoadedStep \/ C2CStep \/ StorageStep
  <2>1. Running # "none"
    BY <1>4 DEF CrossNumaStep, PeakStep, LoadedStep, C2CStep, StorageStep
  <2>2. phase = "end"
    BY <2>1 DEF Running, RoundsOK, Recipes
  <2>3. NodesSound
    BY <2>2, NodesFound DEF NodesKnown
  <2> QED
    BY <1>1, <1>4, <2>3, CrossNumaKept, PeakKept, LoadedKept, C2CKept, StorageKept
<1>5. CASE LoadedStepFails \/ RecipeRaises
  BY <1>1, <1>5, LoadedFailsKept
<1>6. CASE UNCHANGED own
  BY <1>1, <1>6, IdleKept
<1> QED
  BY <1>3, <1>4, <1>5, <1>6 DEF RecipesNext, AllDone, allVars, own

----------------------------------------------------------------------------
(* MemoryRecipes: the tables *)

\* itertools.product of lists without repetition holds every pair once.
LEMMA ProductOnce ==
    ASSUME NEW S, NEW T, NEW s \in Seq(S), NEW t \in Seq(T), Injective(s), Injective(t), Len(s) > 0
    PROVE  Injective(Product(s, t)) /\ Range(Product(s, t)) = Range(s) \X Range(t)
<1> DEFINE row(i) == [j \in DOMAIN t |-> <<s[i], t[j]>>]
           rows_ == [i \in DOMAIN s |-> row(i)]
<1>1. /\ Len(s) \in Nat /\ DOMAIN s = 1 .. Len(s) /\ \A i \in 1 .. Len(s) : s[i] \in S
      /\ Len(t) \in Nat /\ DOMAIN t = 1 .. Len(t) /\ \A j \in 1 .. Len(t) : t[j] \in T
      /\ Range(s) = {s[i] : i \in 1 .. Len(s)} /\ Range(t) = {t[i] : i \in 1 .. Len(t)}
  BY LenProperties, RangeEquality
<1>2. ASSUME NEW i \in 1 .. Len(s)
      PROVE  /\ row(i) \in Seq(S \X T) /\ Injective(row(i))
             /\ Range(row(i)) = {<<s[i], e>> : e \in Range(t)}
  <2>1. row(i) \in [1 .. Len(t) -> S \X T] /\ DOMAIN row(i) = 1 .. Len(t)
    BY <1>1
  <2>2. \A j \in 1 .. Len(t) : row(i)[j] = <<s[i], t[j]>>
    BY <1>1
  <2> HIDE DEF row
  <2>3. row(i) \in Seq(S \X T)
    BY <1>1, <2>1, SeqDef
  <2>4. Len(row(i)) = Len(t)
    BY <1>1, <2>1, <2>3, LenProperties
  <2>5. Injective(row(i))
    BY <1>1, <2>2, <2>4 DEF Injective
  <2>6. Range(row(i)) = {row(i)[j] : j \in 1 .. Len(t)}
    BY <2>3, <2>4, RangeEquality
  <2>7. Range(row(i)) = {<<s[i], e>> : e \in Range(t)}
    BY <2>2, <2>6, <1>1
  <2> QED
    BY <2>3, <2>5, <2>7
<1>3. Product(s, t) = FlattenSeq(rows_)
  BY DEF Product
<1> HIDE DEF row
<1>4. rows_ \in [1 .. Len(s) -> Seq(S \X T)] /\ \A i \in 1 .. Len(s) : rows_[i] = row(i)
  BY <1>1, <1>2
<1> HIDE DEF rows_
<1>5. rows_ \in Seq(Seq(S \X T))
  BY <1>1, <1>4, SeqDef
<1>6. Len(rows_) = Len(s)
  BY <1>1, <1>4, <1>5, LenProperties
<1>7. ASSUME NEW i \in 1 .. Len(s), NEW j \in 1 .. Len(s), i # j PROVE Range(rows_[i]) \cap Range(rows_[j]) = {}
  <2>1. s[i] # s[j]
    BY <1>7 DEF Injective
  <2>2. Range(rows_[i]) = {<<s[i], e>> : e \in Range(t)} /\ Range(rows_[j]) = {<<s[j], e>> : e \in Range(t)}
    BY <1>2, <1>4
  <2> QED
    BY <2>1, <2>2
<1>8. /\ Range(FlattenSeq(rows_)) = UNION {Range(rows_[i]) : i \in 1 .. Len(rows_)}
      /\ Injective(FlattenSeq(rows_))
  <2>1. /\ Len(rows_) > 0
        /\ \A i \in 1 .. Len(rows_) : Injective(rows_[i])
        /\ \A i, j \in 1 .. Len(rows_) : i # j => Range(rows_[i]) \cap Range(rows_[j]) = {}
    BY <1>2, <1>4, <1>6, <1>7
  <2> QED
    BY <1>5, <2>1, FlattenApart
<1>9. UNION {Range(rows_[i]) : i \in 1 .. Len(rows_)} = Range(s) \X Range(t)
  <2> DEFINE U == UNION {Range(rows_[i]) : i \in 1 .. Len(rows_)}
  <2>1. \A i \in 1 .. Len(s) : Range(rows_[i]) = {<<s[i], e>> : e \in Range(t)}
    BY <1>2, <1>4
  <2>2. ASSUME NEW x \in U PROVE x \in Range(s) \X Range(t)
    <3>1. PICK i \in 1 .. Len(s) : x \in Range(rows_[i])
      BY <1>6
    <3>2. PICK e \in Range(t) : x = <<s[i], e>>
      BY <3>1, <2>1
    <3> QED
      BY <3>2, <1>1
  <2>3. ASSUME NEW d \in Range(s), NEW e \in Range(t) PROVE <<d, e>> \in U
    <3>1. PICK i \in 1 .. Len(s) : d = s[i]
      BY <1>1
    <3>2. <<d, e>> \in Range(rows_[i])
      BY <3>1, <2>1
    <3> QED
      BY <3>2, <1>6
  <2> HIDE DEF U
  <2>4. ASSUME NEW x \in Range(s) \X Range(t) PROVE x \in U
    <3>1. x = <<x[1], x[2]>> /\ x[1] \in Range(s) /\ x[2] \in Range(t)
      OBVIOUS
    <3> QED
      BY <3>1, <2>3
  <2>5. U = Range(s) \X Range(t)
    BY <2>2, <2>4
  <2> QED
    BY <2>5 DEF U
<1> QED
  BY <1>3, <1>8, <1>9

\* The nodes, each once.
LEMMA NodesInOrder ==
    ASSUME NodesSound
    PROVE  /\ NodeSeq \in Seq(Nodes) /\ Range(NodeSeq) = Nodes /\ Injective(NodeSeq) /\ Len(NodeSeq) > 0
<1>1. Range(NodeSeq) = Nodes /\ NodeSeq \in Seq(Nodes) /\ Len(NodeSeq) = Cardinality(Nodes)
  BY AscendingLists DEF NodesSound, NodeSeq
<1>2. Injective(NodeSeq)
  BY <1>1, ListedOnce DEF NodesSound
<1>3. Len(NodeSeq) \in Nat /\ Len(NodeSeq) # 0
  <2>1. Cardinality(Nodes) # 0
    BY FS_EmptySet DEF NodesSound
  <2> QED
    BY <1>1, <2>1, LenProperties
<1> QED
  BY <1>1, <1>2, <1>3

\* The columns that were saved are turned back into the rows of the table.
LEMMA ColumnsTurnedBack ==
    ASSUME NEW A, NEW B, NEW D \in SUBSET (A \X B), NEW t, t = [c \in D |-> t[c]]
    PROVE  DiffData(ToDict(t)) = t
<1> DEFINE swapped == {<<key[2], key[1]>> : key \in D}
           u == ToDict(t)
<1>1. DOMAIN t = D
  OBVIOUS
<1>2. u = [k \in swapped |-> t[<<k[2], k[1]>>]]
  BY <1>1 DEF ToDict
<1>3. DOMAIN u = swapped /\ \A k \in swapped : u[k] = t[<<k[2], k[1]>>]
  BY <1>2
<1> HIDE DEF u
<1>4. {<<key[2], key[1]>> : key \in swapped} = D
  <2>1. ASSUME NEW k \in D PROVE \E key \in swapped : k = <<key[2], key[1]>>
    <3>1. k = <<k[1], k[2]>> /\ <<k[2], k[1]>> \in swapped
      OBVIOUS
    <3> QED
      BY <3>1
  <2>2. ASSUME NEW key \in swapped PROVE <<key[2], key[1]>> \in D
    <3>1. PICK k \in D : key = <<k[2], k[1]>>
      OBVIOUS
    <3>2. k = <<k[1], k[2]>>
      OBVIOUS
    <3> QED
      BY <3>1, <3>2
  <2> QED
    BY <2>1, <2>2
<1>5. DiffData(u) = [k \in D |-> u[<<k[2], k[1]>>]]
  BY <1>3, <1>4 DEF DiffData
<1>6. \A k \in D : u[<<k[2], k[1]>>] = t[k]
  <2>1. ASSUME NEW k \in D PROVE u[<<k[2], k[1]>>] = t[k]
    <3>1. k = <<k[1], k[2]>> /\ <<k[2], k[1]>> \in swapped
      OBVIOUS
    <3>2. u[<<k[2], k[1]>>] = t[<<k[1], k[2]>>]
      BY <3>1, <1>3
    <3> QED
      BY <3>1, <3>2
  <2> QED
    BY <2>1
<1>7. DiffData(u) = [k \in D |-> t[k]]
  BY <1>5, <1>6
<1> QED
  BY <1>7 DEF u

\* The first step of a list, and those after it.
LEMMA FirstAndRest ==
    ASSUME NEW S, NEW s \in Seq(S), s # <<>>
    PROVE  /\ Range(s) = {Head(s)} \cup Range(Tail(s))
           /\ Len(s) = 1 => Range(Tail(s)) = {}
<1>1. /\ Len(s) \in Nat \ {0}
      /\ Range(s) = {s[i] : i \in 1 .. Len(s)}
  BY LenProperties, RangeEquality
<1>2. /\ Tail(s) \in Seq(S) /\ Len(Tail(s)) = Len(s) - 1
      /\ \A i \in 1 .. (Len(s) - 1) : Tail(s)[i] = s[i + 1]
  OBVIOUS
<1>3. Range(Tail(s)) = {Tail(s)[i] : i \in 1 .. (Len(s) - 1)}
  BY <1>2, RangeEquality
<1>4. Head(s) = s[1] /\ 1 \in 1 .. Len(s)
  BY <1>1
<1>5. \A i \in 1 .. Len(s) : i = 1 \/ (i - 1 \in 1 .. (Len(s) - 1) /\ (i - 1) + 1 = i)
  BY <1>1
<1>6. \A i \in 1 .. (Len(s) - 1) : i + 1 \in 1 .. Len(s)
  BY <1>1
<1>7. ASSUME NEW x \in Range(s) PROVE x = Head(s) \/ x \in Range(Tail(s))
  <2>1. PICK i \in 1 .. Len(s) : x = s[i]
    BY <1>1
  <2>2. CASE i = 1
    BY <2>1, <2>2, <1>4
  <2>3. CASE i # 1
    <3>1. i - 1 \in 1 .. (Len(s) - 1) /\ Tail(s)[i - 1] = x
      BY <2>1, <2>3, <1>2, <1>5
    <3> QED
      BY <3>1, <1>3
  <2> QED
    BY <2>2, <2>3
<1>8. ASSUME NEW x \in Range(Tail(s)) PROVE x \in Range(s)
  <2>1. PICK i \in 1 .. (Len(s) - 1) : x = Tail(s)[i]
    BY <1>3
  <2>2. x = s[i + 1] /\ i + 1 \in 1 .. Len(s)
    BY <2>1, <1>2, <1>6
  <2> QED
    BY <2>2, <1>1
<1>9. Head(s) \in Range(s)
  BY <1>1, <1>4
<1>10. ASSUME Len(s) = 1 PROVE Range(Tail(s)) = {}
  <2>1. 1 .. (Len(s) - 1) = {}
    BY <1>10
  <2> QED
    BY <1>3, <2>1
<1> QED
  BY <1>7, <1>8, <1>9, <1>10

\* idle-latency and cross-numa-bandwidth fill the cell of their step.
LEMMA CellsFilled ==
    ASSUME NodesSound, StepsOK, RoundsOK, CellsOK, CrossNumaStep
    PROVE  CellsOK'
<1>1. Running \in {"idle-latency", "cross-numa-bandwidth"} /\ steps # <<>>
  BY DEF CrossNumaStep
<1>2. steps \in Seq(Nodes \X Nodes) /\ Head(steps) \in Nodes \X Nodes
  BY <1>1 DEF StepsOK
<1> DEFINE run == Head(steps)[1]
           mem == Head(steps)[2]
           p == IF Running = "idle-latency" THEN Process("latency", {LastCpu(run)}, mem)
                ELSE Process("bandwidth", CpusOf(run), mem)
           filled == SetCell(rows, run, mem, p)
<1>3. run \in Nodes /\ mem \in Nodes /\ Head(steps) = <<run, mem>>
  BY <1>2
<1>4. AfterStep(<<{p}>>, filled, MatrixReport(filled))
  BY DEF CrossNumaStep
<1> HIDE DEF run, mem
<1>5. CellOf(<<run, mem>>, p)
  BY <1>3, ChoicesOnNodes DEF CellOf, Process
<1> HIDE DEF p
<1> DEFINE D == DOMAIN rows \cup {<<run, mem>>}
<1>6. D \subseteq Nodes \X Nodes
  BY <1>1, <1>3 DEF CellsOK
<1>7. filled = [cell \in D |-> IF cell = <<run, mem>> THEN p ELSE rows[cell]]
  BY DEF SetCell
<1>8. \A cell \in D : CellOf(cell, filled[cell])
  <2>1. ASSUME NEW cell \in D PROVE CellOf(cell, filled[cell])
    <3>1. CASE cell = <<run, mem>>
      BY <1>5, <1>7, <3>1
    <3>2. CASE cell # <<run, mem>>
      <4>1. cell \in DOMAIN rows /\ filled[cell] = rows[cell]
        BY <1>7, <3>2
      <4> QED
        BY <1>1, <4>1 DEF CellsOK
    <3> QED
      BY <3>1, <3>2
  <2> QED
    BY <2>1
<1>9. DOMAIN filled = D /\ filled = [cell \in D |-> filled[cell]]
  BY <1>7
<1> HIDE DEF filled
<1>10. SameRecipe /\ recipe > 0 /\ steps' = Tail(steps) /\ rows' = filled
  BY <1>1, <1>4, StepTaken
<1>11. /\ Running' = Running /\ Nodes' = Nodes
       /\ \A n : CpusOf(n)' = CpusOf(n) /\ LastCpu(n)' = LastCpu(n)
       /\ \A cell, q : CellOf(cell, q)' <=> CellOf(cell, q)
  <2>1. Running' = Running /\ Nodes' = Nodes /\ CpuListPerNode' = CpuListPerNode
    BY <1>10, SameSettings, SameMachine DEF SameRecipe
  <2>2. \A n : CpusOf(n)' = CpusOf(n) /\ LastCpu(n)' = LastCpu(n)
    BY <2>1 DEF CpusOf, LastCpu
  <2>3. \A cell, q : CellOf(cell, q)' <=> CellOf(cell, q)
    BY <2>2 DEF CellOf, CpusOf, LastCpu
  <2> QED
    BY <2>1, <2>2, <2>3
<1>12. /\ Range(steps) = {<<run, mem>>} \cup Range(Tail(steps))
       /\ Len(steps) = 1 => Range(Tail(steps)) = {}
  BY <1>1, <1>2, <1>3, FirstAndRest
<1>13. Nodes \X Nodes \subseteq D \cup Range(Tail(steps))
  BY <1>1, <1>12 DEF CellsOK
<1>14. CellsInPlace'
  <2>1. CASE Len(steps) = 1
    <3>1. reported' = MatrixReport(filled)
      BY <1>4, <2>1 DEF AfterStep
    <3>2. DiffData(ToDict(filled)) = filled
      BY <1>6, <1>9, ColumnsTurnedBack
    <3>3. reported'.diff = filled /\ reported'.table = filled
      BY <3>1, <3>2 DEF MatrixReport
    <3>4. Range(Tail(steps)) = {}
      BY <1>12, <2>1
    <3>5. D = Nodes \X Nodes
      BY <1>6, <1>13, <3>4
    <3>6. \A r, m \in Nodes : CellOf(<<r, m>>, filled[<<r, m>>])
      BY <1>8, <3>5
    <3> HIDE DEF D
    <3> QED
      BY <1>11, <3>3, <3>6 DEF CellsInPlace, CellOf
  <2>2. CASE Len(steps) # 1
    <3>1. reported' = reported
      BY <1>4, <2>2 DEF AfterStep
    <3>2. CellsInPlace
      BY <1>1 DEF CellsOK
    <3> QED
      BY <1>11, <3>1, <3>2 DEF CellsInPlace, None
  <2> QED
    BY <2>1, <2>2
<1> HIDE DEF D
<1> QED
  BY <1>6, <1>8, <1>9, <1>10, <1>11, <1>13, <1>14 DEF CellsOK

\* The greatest of a finite set of numbers, and the least of any.
LEMMA Extremes ==
    ASSUME NEW S \in SUBSET Nat, S # {}
    PROVE  /\ IsFiniteSet(S) => Max(S) \in S /\ \A x \in S : x <= Max(S)
           /\ Min(S) \in S /\ \A x \in S : Min(S) <= x
<1>1. ASSUME IsFiniteSet(S) PROVE Max(S) \in S /\ \A x \in S : x <= Max(S)
  <2> DEFINE n == Cardinality(S)
  <2>0. n \in Nat \ {0}
    BY <1>1, FS_CardinalityType, FS_EmptySet
  <2>1. PICK place \in [S -> 1 .. n] :
            /\ \A k \in 1 .. n : \E c \in S : place[c] = k
            /\ \A c, e \in S : c < e => place[c] < place[e]
    BY <1>1, Places
  <2> HIDE DEF n
  <2>2. PICK c \in S : place[c] = n
    BY <2>0, <2>1
  <2>3. ASSUME NEW e \in S PROVE c >= e
    <3>1. place[e] <= n /\ place[e] \in Int /\ c \in Nat /\ e \in Nat
      BY <2>0, <2>1
    <3>2. ~(c < e)
      BY <2>0, <2>1, <2>2, <3>1
    <3> QED
      BY <3>1, <3>2
  <2>4. Max(S) \in S /\ \A x \in S : Max(S) >= x
    BY <2>3 DEF Max
  <2> QED
    BY <2>4
<1>2. Min(S) \in S /\ \A x \in S : Min(S) <= x
  <2> DEFINE R == OpToRel(<, Nat)
  <2>1. IsWellFoundedOn(R, Nat)
    BY NatLessThanWellFounded
  <2>2. \A x, y \in Nat : y < x => <<y, x>> \in R
    BY Zenon DEF OpToRel
  <2> HIDE DEF R
  <2>3. PICK x \in S : \A y \in S : ~(<<y, x>> \in R)
    BY <2>1, WFMin
  <2>4. ASSUME NEW y \in S PROVE x <= y
    <3>1. x \in Nat /\ y \in Nat /\ ~(y < x)
      BY <2>2, <2>3
    <3> QED
      BY <3>1
  <2> QED
    BY <2>4 DEF Min
<1> QED
  BY <1>1, <1>2

\* What fio reports of a job.
FioJob == [start : Nat, read : Nat, write : Nat]

\* The time that a job ran.
RanAt(job, at) == at \in job.start .. (job.start + Max({job.read, job.write}))

\* Every job runs throughout the window that is made of the jobs.
LEMMA WindowInside ==
    ASSUME NEW jobs \in Seq(FioJob), NEW at \in Nat,
           at \in SteadyWindow(jobs).start .. SteadyWindow(jobs).end,
           NEW j \in DOMAIN jobs
    PROVE  RanAt(jobs[j], at)
<1> DEFINE D == DOMAIN jobs
           end(i) == jobs[i].start + Max({jobs[i].read, jobs[i].write})
           starts == {jobs[i].start : i \in D}
           ends == {end(i) : i \in D}
<1>1. Len(jobs) \in Nat /\ D = 1 .. Len(jobs) /\ \A i \in D : jobs[i] \in FioJob
  BY LenProperties
<1>2. IsFiniteSet(D)
  BY <1>1, FS_Interval
<1>3. \A x, y \in Nat : Max({x, y}) \in Nat
  <2>1. \A x, y \in Nat : Max({x, y}) = IF x >= y THEN x ELSE y
    BY DEF Max
  <2> QED
    BY <2>1
<1>4. \A i \in D : jobs[i].start \in Nat /\ end(i) \in Nat
  <2>1. \A i \in D : jobs[i].start \in Nat /\ jobs[i].read \in Nat /\ jobs[i].write \in Nat
    BY <1>1 DEF FioJob
  <2>2. \A i \in D : Max({jobs[i].read, jobs[i].write}) \in Nat
    BY <2>1, <1>3
  <2> QED
    BY <2>1, <2>2
<1>5. SteadyWindow(jobs).start = Max(starts) /\ SteadyWindow(jobs).end = Min(ends)
  BY DEF SteadyWindow
<1> HIDE DEF end
<1>6. starts \in SUBSET Nat /\ ends \in SUBSET Nat /\ jobs[j].start \in starts /\ end(j) \in ends
  BY <1>4
<1>7. IsFiniteSet(starts)
  <2> DEFINE at_ == [i \in D |-> jobs[i].start]
  <2>1. at_ \in Surjection(D, starts)
    BY DEF Surjection
  <2> HIDE DEF at_
  <2> QED
    BY <1>2, <2>1, FS_Surjection
<1> HIDE DEF starts, ends, D
<1>8. Max(starts) \in Nat /\ jobs[j].start <= Max(starts)
  BY <1>6, <1>7, Extremes
<1>9. Min(ends) \in Nat /\ Min(ends) <= end(j)
  BY <1>6, Extremes
<1>10. Max(starts) <= at /\ at <= Min(ends)
  BY <1>5, <1>8, <1>9
<1>11. jobs[j].start \in Nat /\ end(j) \in Nat
  BY <1>4 DEF D
<1>12. at \in jobs[j].start .. end(j)
  BY <1>8, <1>9, <1>10, <1>11
<1> QED
  BY <1>12 DEF RanAt, end

\* The CPUs of a job are the same as long as the recipe is.
LEMMA SameJobs ==
    ASSUME SameRecipe
    PROVE  JobCpus' = JobCpus /\ SoundLoad' = SoundLoad
<1>1. CpuListPerNode' = CpuListPerNode /\ Nodes' = Nodes
  BY SameMachine DEF SameRecipe
<1>2. CpuList' = CpuList
  BY <1>1 DEF CpuList, NodeSeq, Ascending
<1>3. JobCpus' = JobCpus
  BY <1>2 DEF JobCpus, ChosenCpus, SameRecipe
<1>4. SoundLoad' = SoundLoad
  BY <1>3 DEF SoundLoad
<1> QED
  BY <1>3, <1>4

\* A storage sweep keeps the load of the time in which all jobs ran.
LEMMA LoadsMeasured ==
    ASSUME NodesSound, RoundsOK, LoadsOK, StorageStep
    PROVE  LoadsOK'
<1>1. Running = "storage" /\ steps # <<>>
  BY DEF StorageStep
<1>2. /\ cfg \in StorageSettings /\ steps \in Seq(Range(SweepSteps)) /\ rows \in Seq(SoundLoad)
  BY <1>1 DEF LoadsOK
<1>3. PICK jobs \in FioRuns, parsed \in BOOLEAN :
          LET ran == SubSeq(jobs, 1, NumJobs(Head(steps)))
              window == SteadyWindow(ran)
              load == {r \in MpstatRows : parsed /\ r[1] \in window.start .. window.end /\ r[2] \in JobCpus}
              all == Append(rows, [step |-> Head(steps), jobs |-> ran, load |-> load])
          IN AfterStep(<<{Process("mpstat", {CpuList[1]}, DefaultNumaNode),
                          [kind |-> "fio", cpus |-> JobCpus, mem |-> DOMAIN machine.numa_nodes]}>>, all, all)
  BY DEF StorageStep, JobCpus
<1> DEFINE n == NumJobs(Head(steps))
           ran == SubSeq(jobs, 1, n)
           window == SteadyWindow(ran)
           load == {r \in MpstatRows : parsed /\ r[1] \in window.start .. window.end /\ r[2] \in JobCpus}
           row == [step |-> Head(steps), jobs |-> ran, load |-> load]
           all == Append(rows, row)
           mpstat == Process("mpstat", {CpuList[1]}, DefaultNumaNode)
           fio == [kind |-> "fio", cpus |-> JobCpus, mem |-> DOMAIN machine.numa_nodes]
           round == {mpstat, fio}
<1>4. AfterStep(<<round>>, all, all)
  BY <1>3
<1>5. /\ SweepSteps \in Seq(Nat) /\ jobs \in Seq(FioJob) /\ MaxTime \in Nat
      /\ \A k \in {1, 2} \cup Range(SweepSteps) : k <= Len(jobs)
  BY RecipesAssumption DEF FioJob
<1>6. Range(SweepSteps) \in SUBSET Nat
  BY <1>5, RangeOfSeq
<1>7. Head(steps) \in Range(SweepSteps) /\ Tail(steps) \in Seq(Range(SweepSteps))
  BY <1>1, <1>2
<1>8. n \in {1, 2} \cup Range(SweepSteps)
  BY <1>2, <1>7 DEF NumJobs, StorageSettings
<1>9. n \in Nat /\ n <= Len(jobs)
  BY <1>5, <1>6, <1>8
<1> HIDE DEF n
<1>10. ran \in Seq(FioJob)
  <2>1. Len(jobs) \in Nat /\ \A i \in 1 .. Len(jobs) : jobs[i] \in FioJob
    BY <1>5, LenProperties
  <2>2. \A i \in 1 .. n : jobs[i] \in FioJob
    BY <2>1, <1>9
  <2>3. 1 \in Int /\ n \in Int
    BY <1>9
  <2> QED
    BY <2>2, <2>3, SubSeqProperties
<1> HIDE DEF ran
<1>11. \A r \in load : r \in Nat \X JobCpus /\ r[1] \in window.start .. window.end
  <2>1. \A r \in MpstatRows : r[1] \in Nat /\ r = <<r[1], r[2]>>
    BY <1>5 DEF MpstatRows
  <2> HIDE DEF window
  <2> QED
    BY <2>1
<1>12. load \in SUBSET (Nat \X JobCpus)
  BY <1>11
<1>13. \A r \in load : \A j \in DOMAIN ran : RanAt(ran[j], r[1])
  <2>1. ASSUME NEW r \in load, NEW j \in DOMAIN ran PROVE RanAt(ran[j], r[1])
    <3> DEFINE at == r[1]
    <3>1. at \in Nat /\ at \in SteadyWindow(ran).start .. SteadyWindow(ran).end
      BY <1>11
    <3> HIDE DEF at
    <3>2. RanAt(ran[j], at)
      BY <1>10, <3>1, WindowInside
    <3> QED
      BY <3>2 DEF at
  <2> QED
    BY <2>1
<1> HIDE DEF load
<1>14. row \in SoundLoad
  <2>1. Head(steps) \in Nat
    BY <1>6, <1>7
  <2> QED
    BY <1>10, <1>12, <1>13, <2>1 DEF SoundLoad, FioJob, RanAt
<1> HIDE DEF row
<1>15. all \in Seq(SoundLoad)
  BY <1>2, <1>14
<1>16. \A p \in round : p.kind = "fio" => p.cpus = JobCpus
  BY DEF Process
<1> HIDE DEF round, all
<1>17. SameRecipe /\ steps' = Tail(steps) /\ rows' = all /\ procs' = <<round>>
  BY <1>1, <1>4, StepTaken
<1>18. \A k \in DOMAIN procs' : \A p \in procs'[k] : p.kind = "fio" => p.cpus = JobCpus
  BY <1>16, <1>17
<1> QED
  BY <1>2, <1>7, <1>15, <1>17, <1>18, SameJobs DEF LoadsOK, SameRecipe, StorageSettings

----------------------------------------------------------------------------
(* MemoryRecipes: core-to-core-latency *)

\* How often a list holds a value.
Tally(s, x) == Cardinality({i \in 1 .. Len(s) : s[i] = x})

\* A list holds a value as often as its two parts do.
LEMMA TallyConcat ==
    ASSUME NEW S, NEW s \in Seq(S), NEW t \in Seq(S), NEW x
    PROVE  /\ Tally(s \o t, x) = Tally(s, x) + Tally(t, x)
           /\ Tally(s, x) \in Nat /\ Tally(t, x) \in Nat
<1> DEFINE m == Len(s)
           A == {i \in 1 .. Len(s) : s[i] = x}
           B == {i \in 1 .. Len(t) : t[i] = x}
           C == {i \in 1 .. Len(s \o t) : (s \o t)[i] = x}
           E == {i \in C : i > m}
           shift == [i \in B |-> i + m]
<1>1. /\ m \in Nat /\ Len(t) \in Nat /\ Len(s \o t) = m + Len(t)
      /\ \A i \in 1 .. m + Len(t) : (s \o t)[i] = IF i <= m THEN s[i] ELSE t[i - m]
  BY LenProperties, ConcatProperties
<1>2. IsFiniteSet(A) /\ IsFiniteSet(B) /\ IsFiniteSet(C)
  <2>1. IsFiniteSet(1 .. m) /\ IsFiniteSet(1 .. Len(t)) /\ IsFiniteSet(1 .. (m + Len(t)))
    BY <1>1, FS_Interval
  <2> QED
    BY <2>1, <1>1, FS_Subset
<1>3. A \cup E = C /\ A \cap E = {}
  <2>1. ASSUME NEW i PROVE i \in A <=> i \in C /\ ~(i > m)
    <3>1. i \in 1 .. m <=> i \in 1 .. m + Len(t) /\ ~(i > m)
      BY <1>1
    <3>2. i \in 1 .. m => (s \o t)[i] = s[i]
      BY <1>1
    <3> QED
      BY <1>1, <3>1, <3>2
  <2> HIDE DEF A, C
  <2> QED
    BY <2>1
<1>4. shift \in Surjection(B, E) /\ shift \in Injection(B, E)
  <2>1. ASSUME NEW i \in B PROVE i + m \in E
    <3>1. i \in 1 .. Len(t) /\ t[i] = x
      OBVIOUS
    <3>2. i + m \in 1 .. m + Len(t) /\ ~(i + m <= m) /\ (i + m) - m = i /\ i + m > m
      BY <1>1, <3>1
    <3>3. (s \o t)[i + m] = x
      BY <1>1, <3>1, <3>2
    <3> QED
      BY <1>1, <3>2, <3>3
  <2>2. ASSUME NEW k \in E PROVE k - m \in B /\ (k - m) + m = k
    <3>1. k \in 1 .. m + Len(t) /\ k > m /\ (s \o t)[k] = x
      BY <1>1
    <3>2. k - m \in 1 .. Len(t) /\ ~(k <= m) /\ (k - m) + m = k
      BY <1>1, <3>1
    <3> QED
      BY <1>1, <3>1, <3>2
  <2>3. B \in SUBSET Nat
    BY <1>1
  <2> HIDE DEF B, E
  <2>4. shift \in [B -> E]
    BY <2>1
  <2>5. \A k \in E : \E i \in B : shift[i] = k
    BY <2>2
  <2>6. \A i, j \in B : shift[i] = shift[j] => i = j
    BY <2>3, <1>1
  <2> HIDE DEF shift
  <2> QED
    BY <2>4, <2>5, <2>6 DEF Surjection, Injection, IsInjective
<1>5. IsFiniteSet(E)
  BY <1>2, FS_Subset
<1>6. Tally(s, x) = Cardinality(A) /\ Tally(t, x) = Cardinality(B) /\ Tally(s \o t, x) = Cardinality(C)
  BY DEF Tally
<1> HIDE DEF A, B, C, E, shift
<1>7. Cardinality(E) = Cardinality(B)
  BY <1>2, <1>4, FS_Surjection
<1>8. Cardinality(A) \in Nat /\ Cardinality(B) \in Nat /\ Cardinality(E) \in Nat
  BY <1>2, <1>5, FS_CardinalityType
<1>9. Cardinality(C) = Cardinality(A) + Cardinality(E) - Cardinality(A \cap E)
  BY <1>2, <1>3, <1>5, FS_Union
<1>10. Cardinality(A \cap E) = 0
  BY <1>3, FS_EmptySet
<1> QED
  BY <1>6, <1>7, <1>8, <1>9, <1>10

\* A list without repetition holds each of its values once.
LEMMA TallyOnce ==
    ASSUME NEW S, NEW s \in Seq(S), Injective(s), NEW x
    PROVE  Tally(s, x) = IF x \in Range(s) THEN 1 ELSE 0
<1> DEFINE A == {i \in 1 .. Len(s) : s[i] = x}
<1>1. Range(s) = {s[i] : i \in 1 .. Len(s)}
  BY RangeEquality
<1>2. Tally(s, x) = Cardinality(A)
  BY DEF Tally
<1>3. CASE x \in Range(s)
  <2>1. PICK i \in 1 .. Len(s) : s[i] = x
    BY <1>1, <1>3
  <2>2. A = {i}
    BY <2>1 DEF Injective
  <2> QED
    BY <1>2, <1>3, <2>2, FS_Singleton
<1>4. CASE x \notin Range(s)
  <2>1. A = {}
    BY <1>1, <1>4
  <2> QED
    BY <1>2, <1>4, <2>1, FS_EmptySet
<1> QED
  BY <1>3, <1>4

\* One step is taken off the list.
LEMMA TallyTail ==
    ASSUME NEW S, NEW s \in Seq(S), s # <<>>, NEW x
    PROVE  /\ Tally(s, x) = (IF Head(s) = x THEN 1 ELSE 0) + Tally(Tail(s), x)
           /\ Tally(Tail(s), x) \in Nat
           /\ Len(s) = 1 => Tally(Tail(s), x) = 0
<1> DEFINE h == <<Head(s)>>
           t == Tail(s)
<1>1. h \in Seq(S) /\ t \in Seq(S) /\ s = h \o t /\ Len(h) = 1 /\ h[1] = Head(s)
  OBVIOUS
<1>2. Len(s) = 1 => Len(t) = 0
  OBVIOUS
<1> HIDE DEF h, t
<1>3. Injective(h)
  BY <1>1 DEF Injective
<1>4. Range(h) = {Head(s)}
  <2>1. Range(h) = {h[i] : i \in 1 .. 1}
    BY <1>1, RangeEquality
  <2>2. 1 .. 1 = {1}
    OBVIOUS
  <2> QED
    BY <2>1, <2>2, <1>1
<1>5. Tally(h, x) = IF Head(s) = x THEN 1 ELSE 0
  BY <1>1, <1>3, <1>4, TallyOnce
<1>6. Tally(s, x) = Tally(h, x) + Tally(t, x) /\ Tally(t, x) \in Nat
  BY <1>1, TallyConcat
<1>7. ASSUME Len(s) = 1 PROVE Tally(t, x) = 0
  <2>1. {i \in 1 .. Len(t) : t[i] = x} = {}
    <3>1. 1 .. Len(t) = {}
      BY <1>2, <1>7
    <3> QED
      BY <3>1
  <2> QED
    BY <2>1, FS_EmptySet DEF Tally
<1> QED
  BY <1>5, <1>6, <1>7 DEF t

\* The CPUs of core-to-core-latency by node: some of each node, none twice.
LEMMA ChosenPerNode ==
    ASSUME NodesSound, NEW settings \in C2CSettings, NEW n \in Nodes
    PROVE  LET chosen == NodeToCpus(settings)[n]
           IN chosen \in Seq(CpusOf(n)) /\ Injective(chosen) /\ Range(chosen) \subseteq CpusOf(n) /\ Range(chosen) # {}
<1> DEFINE all == CpuListPerNode[n]
           k == Len(all)
           chosen == NodeToCpus(settings)[n]
           last == SubSeq(all, k - 1, k)
<1>1. /\ all \in Seq(CpusOf(n)) /\ Range(all) = CpusOf(n) /\ IsFiniteSet(CpusOf(n)) /\ CpusOf(n) # {}
      /\ k = Cardinality(CpusOf(n))
  BY DEF NodesSound, CpusOf
<1>2. Injective(all)
  BY <1>1, ListedOnce
<1>3. chosen = IF settings.all_cpus \/ k < 2 THEN all ELSE last
  BY DEF NodeToCpus
<1> HIDE DEF all, chosen
<1>4. k \in Nat /\ \A i \in 1 .. k : all[i] \in CpusOf(n)
  BY <1>1, LenProperties
<1>5. CASE ~(k < 2)
  <2>1. \A i \in (k - 1) .. k : all[i] \in CpusOf(n)
    BY <1>4, <1>5
  <2>2. k - 1 \in Int /\ k \in Int /\ k - (k - 1) + 1 = 2 /\ k - 1 <= k
    BY <1>4
  <2>3. /\ last \in Seq(CpusOf(n))
        /\ Len(last) = 2
        /\ \A i \in 1 .. 2 : last[i] = all[(k - 1) + i - 1]
    <3> DEFINE f == k - 1
    <3>1. f \in Int /\ \A i \in f .. k : all[i] \in CpusOf(n)
      BY <2>1, <2>2
    <3> HIDE DEF f, k
    <3>2. /\ SubSeq(all, f, k) \in Seq(CpusOf(n))
          /\ Len(SubSeq(all, f, k)) = IF f <= k THEN k - f + 1 ELSE 0
          /\ \A i \in 1 .. k - f + 1 : SubSeq(all, f, k)[i] = all[f + i - 1]
      BY <3>1, <2>2, SubSeqProperties
    <3> QED
      BY <3>2, <2>2 DEF f
  <2> HIDE DEF last
  <2>4. last[1] = all[k - 1] /\ last[2] = all[k]
    BY <2>3, <1>4
  <2>5. last[1] # last[2]
    BY <2>4, <1>2, <1>4, <1>5 DEF Injective
  <2>6. Injective(last)
    BY <2>3, <2>5 DEF Injective
  <2>7. Range(last) \subseteq CpusOf(n) /\ last[1] \in Range(last)
    BY <2>3, RangeOfSeq, RangeEquality
  <2> HIDE DEF k
  <2> QED
    BY <1>1, <1>2, <1>3, <2>3, <2>6, <2>7, Zenon DEF chosen
<1>6. CASE k < 2
  <2> HIDE DEF k
  <2> QED
    BY <1>1, <1>2, <1>3, <1>6, Zenon DEF chosen
<1> QED
  BY <1>5, <1>6

\* cpus_to_nodes gives every chosen CPU a node.
LEMMA C2CMap ==
    ASSUME NodesSound, NEW settings \in C2CSettings
    PROVE  LET map == CpusToNodes(NodeToCpus(settings))
           IN /\ map \in [DOMAIN map -> Nodes]
              /\ DOMAIN map \subseteq AllCpus
              /\ DOMAIN map = UNION {Range(NodeToCpus(settings)[n]) : n \in Nodes}
<1> DEFINE by == NodeToCpus(settings)
           map == CpusToNodes(by)
           D == UNION {Range(by[n]) : n \in Nodes}
<1>1. DOMAIN by = Nodes
  BY DEF NodeToCpus
<1>2. \A n \in Nodes : Range(by[n]) \subseteq AllCpus
  <2>1. \A n \in Nodes : Range(by[n]) \subseteq CpusOf(n) /\ CpusOf(n) \subseteq AllCpus
    BY ChosenPerNode, ChoicesOnNodes
  <2> QED
    BY <2>1
<1> HIDE DEF by
<1>3. map = [c \in D |-> CHOOSE n \in Nodes : c \in Range(by[n])]
  BY <1>1 DEF CpusToNodes
<1>4. \A c \in D : \E n \in Nodes : c \in Range(by[n])
  OBVIOUS
<1>5. \A c \in D : map[c] \in Nodes
  BY <1>3, <1>4
<1>6. DOMAIN map = D
  BY <1>3
<1>7. D \subseteq AllCpus
  BY <1>2
<1> HIDE DEF D
<1>8. map \in [DOMAIN map -> Nodes]
  BY <1>3, <1>5, <1>6
<1> QED
  BY <1>6, <1>7, <1>8 DEF by, D

\* Every chosen CPU has as many steps as there are runs, with data on each node.
LEMMA C2CStepsCounted ==
    ASSUME NodesSound, NEW settings \in C2CSettings, NEW c \in AllCpus, NEW n \in Nodes
    PROVE  Tally(C2CSteps(settings), <<c, n>>) =
               IF c \in DOMAIN CpusToNodes(NodeToCpus(settings)) THEN settings.number_of_runs ELSE 0
<1> DEFINE chosen(m) == NodeToCpus(settings)[m]
           lists == [k \in DOMAIN NodeSeq |-> chosen(NodeSeq[k])]
           cpus == FlattenSeq(lists)
           M == DOMAIN CpusToNodes(NodeToCpus(settings))
           pairs == AllCpus \X Nodes
           once == Product(cpus, NodeSeq)
           runs == settings.number_of_runs
           again == [r \in 1 .. runs |-> once]
           N == Len(NodeSeq)
<1>1. NodeSeq \in Seq(Nodes) /\ Range(NodeSeq) = Nodes /\ Injective(NodeSeq) /\ N > 0
  BY NodesInOrder
<1>2. /\ N \in Nat /\ DOMAIN NodeSeq = 1 .. N /\ \A k \in 1 .. N : NodeSeq[k] \in Nodes
      /\ Nodes = {NodeSeq[k] : k \in 1 .. N}
  BY <1>1, LenProperties, RangeEquality
<1>3. \A m \in Nodes : /\ chosen(m) \in Seq(CpusOf(m)) /\ Injective(chosen(m))
                       /\ Range(chosen(m)) \subseteq CpusOf(m) /\ Range(chosen(m)) # {}
  BY ChosenPerNode
<1>4. M = UNION {Range(chosen(m)) : m \in Nodes} /\ M \subseteq AllCpus
  BY C2CMap
<1>5. C2CSteps(settings) = FlattenSeq(again) \o <<None>>
  BY DEF C2CSteps
<1> HIDE DEF chosen, M, N
<1>6. \A m \in Nodes : chosen(m) \in Seq(AllCpus)
  <2>1. ASSUME NEW m \in Nodes PROVE chosen(m) \in Seq(AllCpus)
    <3>1. CpusOf(m) \subseteq AllCpus
      BY DEF AllCpus
    <3> QED
      BY <1>3, <3>1, SeqMonotonic
  <2> QED
    BY <2>1
<1>7. /\ lists \in [1 .. N -> Seq(AllCpus)] /\ DOMAIN lists = 1 .. N
      /\ \A k \in 1 .. N : lists[k] = chosen(NodeSeq[k])
  BY <1>2, <1>6
<1> HIDE DEF lists
<1>8. lists \in Seq(Seq(AllCpus))
  BY <1>2, <1>7, SeqDef
<1>9. Len(lists) = N
  BY <1>2, <1>7, <1>8, LenProperties
<1>10. \A i, j \in 1 .. N : i # j => Range(lists[i]) \cap Range(lists[j]) = {}
  <2>1. ASSUME NEW i \in 1 .. N, NEW j \in 1 .. N, i # j PROVE Range(lists[i]) \cap Range(lists[j]) = {}
    <3>1. NodeSeq[i] \in Nodes /\ NodeSeq[j] \in Nodes /\ NodeSeq[i] # NodeSeq[j]
      BY <1>1, <1>2, <2>1 DEF Injective, N
    <3>2. CpusOf(NodeSeq[i]) \cap CpusOf(NodeSeq[j]) = {}
      BY <3>1 DEF NodesSound
    <3>3. Range(lists[i]) \subseteq CpusOf(NodeSeq[i]) /\ Range(lists[j]) \subseteq CpusOf(NodeSeq[j])
      BY <3>1, <1>3, <1>7
    <3> QED
      BY <3>2, <3>3
  <2> QED
    BY <2>1
<1>11. Range(cpus) = UNION {Range(lists[i]) : i \in 1 .. N} /\ Injective(cpus) /\ cpus \in Seq(AllCpus)
  <2>1. /\ Len(lists) > 0
        /\ \A i \in 1 .. Len(lists) : Injective(lists[i])
        /\ \A i, j \in 1 .. Len(lists) : i # j => Range(lists[i]) \cap Range(lists[j]) = {}
    <3>1. N > 0
      BY <1>1 DEF N
    <3>2. \A i \in 1 .. N : Injective(lists[i])
      BY <1>2, <1>3, <1>7
    <3> QED
      BY <3>1, <3>2, <1>9, <1>10
  <2>2. /\ Range(FlattenSeq(lists)) = UNION {Range(lists[i]) : i \in 1 .. Len(lists)}
        /\ Injective(FlattenSeq(lists))
    BY <1>8, <2>1, FlattenApart
  <2>3. FlattenSeq(lists) \in Seq(AllCpus)
    BY <1>8, FlattenType
  <2> QED
    BY <2>2, <2>3, <1>9
<1> HIDE DEF cpus
<1>12. Range(cpus) = M
  <2>1. ASSUME NEW x \in M PROVE x \in Range(cpus)
    <3>1. PICK m \in Nodes : x \in Range(chosen(m))
      BY <1>4
    <3>2. PICK k \in 1 .. N : NodeSeq[k] = m
      BY <1>2
    <3>3. x \in Range(lists[k])
      BY <3>1, <3>2, <1>7
    <3> QED
      BY <3>3, <1>11
  <2>2. ASSUME NEW x \in Range(cpus) PROVE x \in M
    <3>1. PICK k \in 1 .. N : x \in Range(lists[k])
      BY <1>11
    <3>2. NodeSeq[k] \in Nodes /\ x \in Range(chosen(NodeSeq[k]))
      BY <3>1, <1>2, <1>7
    <3> QED
      BY <3>2, <1>4
  <2> QED
    BY <2>1, <2>2
<1>13. Len(cpus) > 0
  <2>1. PICK m \in Nodes : TRUE
    BY DEF NodesSound
  <2>2. PICK x : x \in Range(cpus)
    BY <2>1, <1>3, <1>4, <1>12
  <2>3. Range(cpus) = {cpus[i] : i \in 1 .. Len(cpus)} /\ Len(cpus) \in Nat
    BY <1>11, RangeEquality, LenProperties
  <2>4. PICK i \in 1 .. Len(cpus) : TRUE
    BY <2>2, <2>3
  <2> QED
    BY <2>3, <2>4
<1>14. once \in Seq(pairs) /\ Injective(once) /\ Range(once) = M \X Nodes
  <2>1. once \in Seq(pairs)
    BY <1>1, <1>11, ProductType
  <2>2. Injective(once) /\ Range(once) = Range(cpus) \X Range(NodeSeq)
    BY <1>1, <1>11, <1>13, ProductOnce
  <2> QED
    BY <2>1, <2>2, <1>1, <1>12
<1> HIDE DEF once, pairs
<1>15. Tally(once, <<c, n>>) = IF c \in M THEN 1 ELSE 0
  <2>1. Tally(once, <<c, n>>) = IF <<c, n>> \in Range(once) THEN 1 ELSE 0
    BY <1>14, TallyOnce
  <2>2. <<c, n>> \in Range(once) <=> c \in M
    BY <1>14
  <2> QED
    BY <2>1, <2>2
<1>16. runs \in {1, 2}
  BY DEF C2CSettings
<1> HIDE DEF runs
<1>17. again \in [1 .. runs -> Seq(pairs)] /\ \A r \in 1 .. runs : again[r] = once
  BY <1>14
<1> HIDE DEF again
<1>18. again \in Seq(Seq(pairs))
  BY <1>16, <1>17, SeqDef
<1>19. Len(again) = runs
  BY <1>16, <1>17, <1>18, LenProperties
<1>20. PICK f \in [1 .. runs -> Seq(pairs)] :
           /\ FlattenSeq(again) = f[runs]
           /\ f[1] = again[1]
           /\ \A i \in 2 .. runs : f[i] = f[i - 1] \o again[i]
  <2>1. Len(again) > 0
    BY <1>16, <1>19
  <2> QED
    BY <1>18, <1>19, <2>1, FlattenLoop
<1>21. Tally(FlattenSeq(again), <<c, n>>) = (IF c \in M THEN runs ELSE 0) /\ FlattenSeq(again) \in Seq(pairs)
  <2>1. 1 \in 1 .. runs /\ f[1] = once
    BY <1>16, <1>17, <1>20
  <2>2. CASE runs = 1
    BY <2>1, <2>2, <1>14, <1>15, <1>20
  <2>3. CASE runs = 2
    <3>1. f[2] = once \o once
      <4>1. 2 \in 2 .. runs /\ 2 \in 1 .. runs /\ 2 - 1 = 1
        BY <2>3
      <4>2. f[2] = f[2 - 1] \o again[2]
        BY <4>1, <1>20
      <4> QED
        BY <4>1, <4>2, <2>1, <1>17
    <3>2. /\ Tally(once \o once, <<c, n>>) = Tally(once, <<c, n>>) + Tally(once, <<c, n>>)
          /\ once \o once \in Seq(pairs)
      BY <1>14, TallyConcat
    <3>3. FlattenSeq(again) = once \o once
      BY <2>3, <3>1, <1>20
    <3>4. Tally(once \o once, <<c, n>>) = IF c \in M THEN 2 ELSE 0
      BY <3>2, <1>15
    <3> QED
      BY <2>3, <3>2, <3>3, <3>4
  <2> QED
    BY <2>2, <2>3, <1>16
<1>22. Tally(<<None>>, <<c, n>>) = 0
  <2> DEFINE e == <<None>>
  <2>1. e \in Seq({None}) /\ Injective(e) /\ Range(e) = {None}
    <3>1. e \in Seq({None}) /\ Len(e) = 1 /\ e[1] = None
      OBVIOUS
    <3>2. Range(e) = {e[i] : i \in 1 .. 1}
      BY <3>1, RangeEquality
    <3>3. 1 .. 1 = {1}
      OBVIOUS
    <3> HIDE DEF e
    <3> QED
      BY <3>1, <3>2, <3>3 DEF Injective
  <2>2. <<c, n>> # None
    BY DEF None
  <2> HIDE DEF e
  <2>3. Tally(e, <<c, n>>) = 0
    BY <2>1, <2>2, TallyOnce
  <2> QED
    BY <2>3 DEF e
<1>23. Tally(FlattenSeq(again) \o <<None>>, <<c, n>>) = Tally(FlattenSeq(again), <<c, n>>) + Tally(<<None>>, <<c, n>>)
  <2>1. FlattenSeq(again) \in Seq(pairs \cup {None})
    BY <1>21, SeqMonotonic
  <2>2. <<None>> \in Seq(pairs \cup {None})
    OBVIOUS
  <2> QED
    BY <2>1, <2>2, TallyConcat
<1>24. runs \in Nat
  BY <1>16
<1> QED
  BY <1>5, <1>21, <1>22, <1>23, <1>24 DEF runs, M

\* A view depends on the nodes of the CPUs in its rows only.
LEMMA ViewSame ==
    ASSUME NEW df_, NEW m1, NEW m2,
           \A r \in df_ : /\ r.CPUA \in DOMAIN m1 /\ r.CPUA \in DOMAIN m2 /\ m1[r.CPUA] = m2[r.CPUA]
                          /\ r.CPUB \in DOMAIN m1 /\ r.CPUB \in DOMAIN m2 /\ m1[r.CPUB] = m2[r.CPUB]
    PROVE  C2CView(df_, m1) = C2CView(df_, m2)
<1>1. LatencySummary(df_, m1) = LatencySummary(df_, m2)
  <2>1. {r \in df_ : r.CPUA_NODE # r.MEMBIND_NODE /\ r.CPUB \in DOMAIN m1 /\ m1[r.CPUB] = r.MEMBIND_NODE}
            = {r \in df_ : r.CPUA_NODE # r.MEMBIND_NODE /\ r.CPUB \in DOMAIN m2 /\ m2[r.CPUB] = r.MEMBIND_NODE}
    OBVIOUS
  <2> QED
    BY <2>1 DEF LatencySummary
<1>2. ASSUME NEW part \in SUBSET df_ PROVE NodeMatrix(part, m1) = NodeMatrix(part, m2)
  <2> DEFINE in1 == {r \in part : r.CPUA # r.CPUB /\ r.CPUA \in DOMAIN m1 /\ r.CPUB \in DOMAIN m1}
             in2 == {r \in part : r.CPUA # r.CPUB /\ r.CPUA \in DOMAIN m2 /\ r.CPUB \in DOMAIN m2}
             p1 == {<<m1[r.CPUA], m1[r.CPUB]>> : r \in in1}
             p2 == {<<m2[r.CPUA], m2[r.CPUB]>> : r \in in2}
  <2>1. in1 = in2
    OBVIOUS
  <2>2. \A r \in in1 : <<m1[r.CPUA], m1[r.CPUB]>> = <<m2[r.CPUA], m2[r.CPUB]>>
    OBVIOUS
  <2>3. NodeMatrix(part, m1) = [pair \in p1 |-> {r \in in1 : <<m1[r.CPUA], m1[r.CPUB]>> = pair}]
    BY DEF NodeMatrix
  <2>4. NodeMatrix(part, m2) = [pair \in p2 |-> {r \in in2 : <<m2[r.CPUA], m2[r.CPUB]>> = pair}]
    BY DEF NodeMatrix
  <2> HIDE DEF in1, in2
  <2>5. p1 = p2
    BY <2>1, <2>2
  <2>6. \A pair : {r \in in1 : <<m1[r.CPUA], m1[r.CPUB]>> = pair} = {r \in in2 : <<m2[r.CPUA], m2[r.CPUB]>> = pair}
    BY <2>1, <2>2
  <2> HIDE DEF p1, p2
  <2> QED
    BY <2>3, <2>4, <2>5, <2>6
<1>3. LatencySummary(df_, m1).Local \in SUBSET df_ /\ LatencySummary(df_, m1).Remote \in SUBSET df_
  BY DEF LatencySummary
<1> QED
  BY <1>1, <1>2, <1>3 DEF C2CView

\* How often a pair was measured with data on a node.
Times(results, k) == IF k \in DOMAIN results THEN Len(results[k]) ELSE 0

\* How often it is to be measured.
Wanted(a, b) == IF Lower(a, b) \in DOMAIN CpusToNodes(NodeToCpus(cfg)) THEN cfg.number_of_runs ELSE 0

\* What is left of the steps leads to what is wanted.
PairsDue(results, left) ==
    \A a, b \in AllCpus, n \in Nodes : a # b => Times(results, <<a, b, n>>) + Tally(left, <<Lower(a, b), n>>) = Wanted(a, b)

\* Results are of pairs of CPUs with data on a node.
ResultsOK(results) ==
    /\ DOMAIN results \subseteq {k \in AllCpus \X AllCpus \X Nodes : k[1] # k[2]}
    /\ \A k \in DOMAIN results : results[k] \in Seq({PingpongMemory(k[3])})

\* What core-to-core-latency is to report.
PairsShown(shown) ==
    LET map == CpusToNodes(NodeToCpus(cfg))
        of(df_, a, b) == {r \in df_ : r.CPUA = a /\ r.CPUB = b}
    IN \A a, b \in DOMAIN map :
           /\ Cardinality(of(shown.Local, a, b)) = IF a = b THEN 0 ELSE 1
           /\ Cardinality(of(shown.Remote, a, b)) = IF map[a] = map[b] THEN 0 ELSE 1
           /\ \A r \in of(shown.Local \cup shown.Remote, a, b) : Len(r.lats) = cfg.number_of_runs

\* What diff compares beside it.
DiffShown(report) ==
    LET map == CpusToNodes(NodeToCpus(cfg))
        shown == report.view.summary
    IN /\ report.diff.Local = shown.Local
       /\ shown.Remote = {r \in report.diff.Remote : r.CPUB \in DOMAIN map /\ map[r.CPUB] = r.MEMBIND_NODE}

\* Where the data of the rows was.
RowsHomed(report) ==
    \A r \in report.view.summary.Local \cup report.view.summary.Remote \cup report.diff.Local \cup report.diff.Remote :
        r.MEMBIND_NODE # 0 => \A k \in DOMAIN r.lats : r.lats[k] = {r.MEMBIND_NODE}

\* Once every pair was measured as often as wanted, the report is complete, a
\* later view shows the same, and diff the same and more.
LEMMA ReportSound ==
    ASSUME NodesSound, cfg \in C2CSettings, NEW results, ResultsOK(results),
           \A a, b \in AllCpus, n \in Nodes : a # b => Times(results, <<a, b, n>>) = Wanted(a, b)
    PROVE  /\ C2CReport(results).view = C2CReport(results).run
           /\ PairsShown(C2CReport(results).run.summary)
           /\ DiffShown(C2CReport(results))
           /\ RowsHomed(C2CReport(results))
<1> DEFINE map == CpusToNodes(NodeToCpus(cfg))
           M == DOMAIN map
           Row(a, b, n) == [CPUA |-> a, CPUB |-> b, CPUA_NODE |-> map[a], MEMBIND_NODE |-> n, lats |-> results[<<a, b, n>>]]
           df_ == C2CResults(results, map)
           shown == LatencySummary(df_, map)
           loaded == LoadedNodeMap(df_)
<1>1. M \subseteq AllCpus /\ \A c \in M : map[c] \in Nodes
  BY C2CMap
<1>2. cfg.number_of_runs \in {1, 2}
  BY DEF C2CSettings
<1>3. /\ C2CReport(results).run.summary = shown
      /\ C2CReport(results).run = C2CView(df_, map)
      /\ C2CReport(results).view = C2CView(df_, loaded)
      /\ C2CReport(results).diff = C2CDiffData(df_)
  BY DEF C2CReport, C2CView
<1>4. \A a, b : Wanted(a, b) = IF Lower(a, b) \in M THEN cfg.number_of_runs ELSE 0
  BY DEF Wanted
<1>5. df_ = {Row(k[1], k[2], k[3]) : k \in {key \in DOMAIN results : key[1] \in M /\ key[2] \in M}}
  <2>1. \A k \in DOMAIN results : k = <<k[1], k[2], k[3]>>
    BY DEF ResultsOK
  <2> DEFINE K == {key \in DOMAIN results : key[1] \in M /\ key[2] \in M}
             made(k) == [CPUA |-> k[1], CPUB |-> k[2], CPUA_NODE |-> map[k[1]], MEMBIND_NODE |-> k[3], lats |-> results[k]]
  <2>2. df_ = {made(k) : k \in K}
    BY DEF C2CResults
  <2> HIDE DEF map, M, df_
  <2>3. \A k \in K : made(k) = Row(k[1], k[2], k[3])
    BY <2>1
  <2> HIDE DEF made, Row, K
  <2>4. df_ = {Row(k[1], k[2], k[3]) : k \in K}
    BY <2>2, <2>3
  <2> QED
    BY <2>4 DEF K
<1>6. ASSUME NEW a \in M, NEW b \in M, NEW n \in Nodes, a # b
      PROVE  /\ <<a, b, n>> \in DOMAIN results /\ Len(results[<<a, b, n>>]) = cfg.number_of_runs
             /\ Row(a, b, n) \in df_
  <2>1. Times(results, <<a, b, n>>) = Wanted(a, b)
    BY <1>1, <1>6
  <2>2. Lower(a, b) \in M
    BY DEF Lower
  <2>3. Times(results, <<a, b, n>>) = cfg.number_of_runs
    BY <2>1, <2>2, <1>4
  <2>4. <<a, b, n>> \in DOMAIN results /\ Len(results[<<a, b, n>>]) = cfg.number_of_runs
    BY <2>3, <1>2 DEF Times
  <2> HIDE DEF M, map, df_
  <2>5. \E k \in {key \in DOMAIN results : key[1] \in M /\ key[2] \in M} : Row(a, b, n) = Row(k[1], k[2], k[3])
    <3> DEFINE k == <<a, b, n>>
    <3>1. k[1] = a /\ k[2] = b /\ k[3] = n
      OBVIOUS
    <3>2. k \in DOMAIN results
      BY <2>4
    <3> HIDE DEF k, Row
    <3> QED
      BY <3>1, <3>2
  <2> HIDE DEF Row
  <2> QED
    BY <2>4, <2>5, <1>5
<1> HIDE DEF map, df_
<1>7. ASSUME NEW r \in df_
      PROVE  \E a, b \in M, n \in Nodes : a # b /\ <<a, b, n>> \in DOMAIN results /\ r = Row(a, b, n)
  <2>1. PICK k \in DOMAIN results : k[1] \in M /\ k[2] \in M /\ r = Row(k[1], k[2], k[3])
    BY <1>5
  <2>2. k \in AllCpus \X AllCpus \X Nodes /\ k[1] # k[2]
    BY DEF ResultsOK
  <2>3. k[3] \in Nodes /\ k = <<k[1], k[2], k[3]>>
    BY <2>2
  <2> HIDE DEF M
  <2> QED
    BY <2>1, <2>2, <2>3
<1> HIDE DEF M
<1>8. \A a, b, n : /\ Row(a, b, n).CPUA = a /\ Row(a, b, n).CPUB = b /\ Row(a, b, n).CPUA_NODE = map[a]
                   /\ Row(a, b, n).MEMBIND_NODE = n /\ Row(a, b, n).lats = results[<<a, b, n>>]
  OBVIOUS
<1> HIDE DEF Row
<1>9. /\ shown.Local = {r \in df_ : r.CPUA_NODE = r.MEMBIND_NODE}
      /\ shown.Remote = {r \in df_ : r.CPUA_NODE # r.MEMBIND_NODE /\ r.CPUB \in M /\ map[r.CPUB] = r.MEMBIND_NODE}
      /\ C2CDiffData(df_).Local = {r \in df_ : r.CPUA_NODE = r.MEMBIND_NODE}
      /\ C2CDiffData(df_).Remote = {r \in df_ : r.CPUA_NODE # r.MEMBIND_NODE}
  BY DEF LatencySummary, C2CDiffData, M
<1> HIDE DEF shown
<1>10. ASSUME NEW a \in M, NEW b \in M
       PROVE  /\ Cardinality({r \in shown.Local : r.CPUA = a /\ r.CPUB = b}) = IF a = b THEN 0 ELSE 1
              /\ Cardinality({r \in shown.Remote : r.CPUA = a /\ r.CPUB = b}) = IF map[a] = map[b] THEN 0 ELSE 1
              /\ \A r \in {q \in shown.Local \cup shown.Remote : q.CPUA = a /\ q.CPUB = b} : Len(r.lats) = cfg.number_of_runs
  <2>1. ASSUME NEW r \in df_, r.CPUA = a, r.CPUB = b
        PROVE  a # b /\ r.CPUA_NODE = map[a] /\ Len(r.lats) = cfg.number_of_runs
               /\ r.MEMBIND_NODE \in Nodes /\ r = Row(a, b, r.MEMBIND_NODE)
    <3>1. PICK c \in M, d \in M, n \in Nodes : c # d /\ r = Row(c, d, n)
      BY <1>7
    <3>2. c = a /\ d = b /\ r.MEMBIND_NODE = n
      BY <2>1, <3>1, <1>8
    <3>3. Len(results[<<a, b, n>>]) = cfg.number_of_runs
      BY <3>1, <3>2, <1>6
    <3>4. r.lats = results[<<a, b, n>>] /\ r.CPUA_NODE = map[a]
      BY <3>1, <3>2, <1>8
    <3> QED
      BY <3>1, <3>2, <3>3, <3>4
  <2>2. a # b => map[a] \in Nodes /\ Row(a, b, map[a]) \in df_ /\ map[b] \in Nodes /\ Row(a, b, map[b]) \in df_
    BY <1>1, <1>6
  <2>3. {r \in shown.Local : r.CPUA = a /\ r.CPUB = b} = IF a = b THEN {} ELSE {Row(a, b, map[a])}
    <3>1. ASSUME NEW r \in shown.Local, r.CPUA = a, r.CPUB = b PROVE a # b /\ r = Row(a, b, map[a])
      BY <2>1, <3>1, <1>9
    <3>2. a # b => Row(a, b, map[a]) \in shown.Local
      BY <2>2, <1>8, <1>9
    <3> QED
      BY <3>1, <3>2, <1>8
  <2>4. {r \in shown.Remote : r.CPUA = a /\ r.CPUB = b} = IF map[a] = map[b] THEN {} ELSE {Row(a, b, map[b])}
    <3>1. ASSUME NEW r \in shown.Remote, r.CPUA = a, r.CPUB = b PROVE map[a] # map[b] /\ r = Row(a, b, map[b])
      BY <2>1, <3>1, <1>9
    <3>2. map[a] # map[b] => Row(a, b, map[b]) \in shown.Remote
      BY <2>2, <1>8, <1>9
    <3> QED
      BY <3>1, <3>2, <1>8
  <2>5. \A x : Cardinality({x}) = 1
    BY FS_Singleton
  <2>6. Cardinality({}) = 0
    BY FS_EmptySet
  <2>7. \A r \in shown.Local \cup shown.Remote : r \in df_
    BY <1>9
  <2> QED
    BY <2>1, <2>3, <2>4, <2>5, <2>6, <2>7
<1>11. PairsShown(shown)
  BY <1>10 DEF PairsShown, M, map
<1>12. ASSUME NEW r \in df_, r.MEMBIND_NODE # 0, NEW k \in DOMAIN r.lats
       PROVE  r.lats[k] = {r.MEMBIND_NODE}
  <2>1. PICK a \in M, b \in M, n \in Nodes : <<a, b, n>> \in DOMAIN results /\ r = Row(a, b, n)
    BY <1>7
  <2>2. r.lats = results[<<a, b, n>>] /\ r.MEMBIND_NODE = n
    BY <2>1, <1>8
  <2>3. r.lats \in Seq({PingpongMemory(n)})
    BY <2>1, <2>2 DEF ResultsOK
  <2>4. r.lats[k] = PingpongMemory(n)
    BY <2>3, <1>12
  <2> QED
    BY <1>12, <2>2, <2>4 DEF PingpongMemory
<1>13. C2CView(df_, loaded) = C2CView(df_, map)
  <2>1. loaded = [c \in {r.CPUA : r \in df_} |-> (CHOOSE r \in df_ : r.CPUA = c).CPUA_NODE]
    BY DEF LoadedNodeMap
  <2>2. ASSUME NEW c \in DOMAIN loaded PROVE loaded[c] = map[c] /\ c \in M
    <3> DEFINE q == CHOOSE r \in df_ : r.CPUA = c
    <3>1. \E r \in df_ : r.CPUA = c
      BY <2>1
    <3>2. q \in df_ /\ q.CPUA = c
      BY <3>1
    <3>3. loaded[c] = q.CPUA_NODE
      BY <2>1
    <3> HIDE DEF q
    <3>4. q.CPUA_NODE = map[c] /\ c \in M
      <4>1. PICK a \in M, b \in M, n \in Nodes : q = Row(a, b, n)
        BY <3>2, <1>7
      <4>2. q.CPUA = a /\ q.CPUA_NODE = map[a]
        BY <4>1, <1>8
      <4> QED
        BY <4>2, <3>2
    <3> QED
      BY <3>3, <3>4
  <2>3. ASSUME NEW r \in df_
        PROVE  r.CPUA \in DOMAIN loaded /\ r.CPUB \in DOMAIN loaded
    <3>1. PICK a \in M, b \in M, n \in Nodes : a # b /\ r = Row(a, b, n)
      BY <1>7
    <3>2. Row(b, a, n) \in df_
      BY <3>1, <1>6
    <3>3. r.CPUA \in {q.CPUA : q \in df_} /\ r.CPUB \in {q.CPUA : q \in df_}
      BY <3>1, <3>2, <1>8
    <3> QED
      BY <2>1, <3>3
  <2> HIDE DEF loaded
  <2> QED
    BY <2>2, <2>3, ViewSame DEF M
<1> DEFINE report == C2CReport(results)
<1>14. report.view = report.run /\ report.view.summary = shown /\ report.diff = C2CDiffData(df_)
  BY <1>3, <1>13
<1> HIDE DEF report
<1>15. DiffShown(report)
  BY <1>9, <1>14 DEF DiffShown, M, map
<1>16. RowsHomed(report)
  BY <1>9, <1>12, <1>14 DEF RowsHomed
<1> QED
  BY <1>3, <1>11, <1>13, <1>15, <1>16 DEF report

\* pingpong measures a pair when it is asked for its lower CPU.
LEMMA PairsOfStep ==
    ASSUME NodesSound, NEW c \in AllCpus, NEW a \in AllCpus, NEW b \in AllCpus, a # b
    PROVE  <<a, b>> \in PingpongPairs(c) <=> Lower(a, b) = c
<1>1. a \in Nat /\ b \in Nat /\ c \in Nat
  BY DEF NodesSound
<1>2. <<a, b>> \in PingpongPairs(c) <=> \E d \in {e \in AllCpus : e > c} : <<a, b>> = <<c, d>> \/ <<a, b>> = <<d, c>>
  BY DEF PingpongPairs
<1>3. <<a, b>> \in PingpongPairs(c) <=> (a = c /\ b > c) \/ (b = c /\ a > c)
  BY <1>2
<1> QED
  BY <1>1, <1>3 DEF Lower

\* Only pairs of different CPUs are measured.
LEMMA PairsApart ==
    ASSUME NodesSound, NEW c \in AllCpus, NEW pair \in PingpongPairs(c)
    PROVE  pair = <<pair[1], pair[2]>> /\ pair[1] \in AllCpus /\ pair[2] \in AllCpus /\ pair[1] # pair[2]
<1>1. PICK d \in AllCpus : d > c /\ (pair = <<c, d>> \/ pair = <<d, c>>)
  BY DEF PingpongPairs
<1>2. c \in Nat /\ d \in Nat /\ c # d
  BY <1>1 DEF NodesSound
<1> QED
  BY <1>1, <1>2

\* compile_results adds a latency to each pair that was measured.
LEMMA ResultsAdded ==
    ASSUME NodesSound, NEW results, ResultsOK(results), NEW c \in AllCpus, NEW m \in Nodes
    PROVE  LET all == Compiled(results, PingpongPairs(c), m, PingpongMemory(m))
           IN /\ ResultsOK(all)
              /\ \A a, b \in AllCpus, n \in Nodes : a # b =>
                     Times(all, <<a, b, n>>) = Times(results, <<a, b, n>>) + IF <<c, m>> = <<Lower(a, b), n>> THEN 1 ELSE 0
<1> DEFINE pairs == PingpongPairs(c)
           home == PingpongMemory(m)
           all == Compiled(results, pairs, m, home)
           new == {<<pair[1], pair[2], m>> : pair \in pairs}
           D == DOMAIN results \cup new
           old(k) == IF k \in DOMAIN results THEN results[k] ELSE <<>>
           more(k) == IF k[3] = m /\ <<k[1], k[2]>> \in pairs THEN <<home>> ELSE <<>>
<1>1. all = [k \in D |-> old(k) \o more(k)]
  BY DEF Compiled
<1>2. \A pair \in pairs : pair = <<pair[1], pair[2]>> /\ pair[1] \in AllCpus /\ pair[2] \in AllCpus /\ pair[1] # pair[2]
  BY PairsApart
<1>3. \A a, b \in AllCpus : a # b => (<<a, b>> \in pairs <=> Lower(a, b) = c)
  BY PairsOfStep
<1>4. \A k \in DOMAIN results : /\ k \in AllCpus \X AllCpus \X Nodes /\ k[1] # k[2]
                                /\ results[k] \in Seq({PingpongMemory(k[3])})
  BY DEF ResultsOK
<1> HIDE DEF pairs
<1>5. \A k \in new : k \in AllCpus \X AllCpus \X Nodes /\ k[1] # k[2] /\ k[3] = m /\ <<k[1], k[2]>> \in pairs
  <2>1. ASSUME NEW k \in new
        PROVE  k \in AllCpus \X AllCpus \X Nodes /\ k[1] # k[2] /\ k[3] = m /\ <<k[1], k[2]>> \in pairs
    <3>1. PICK pair \in pairs : k = <<pair[1], pair[2], m>>
      OBVIOUS
    <3>2. pair = <<pair[1], pair[2]>> /\ pair[1] \in AllCpus /\ pair[2] \in AllCpus /\ pair[1] # pair[2]
      BY <1>2
    <3>3. k[1] = pair[1] /\ k[2] = pair[2] /\ k[3] = m
      BY <3>1
    <3> QED
      BY <3>1, <3>2, <3>3
  <2> QED
    BY <2>1
<1>6. \A a, b, n : <<a, b, n>> \in new <=> n = m /\ <<a, b>> \in pairs
  <2>1. ASSUME NEW a, NEW b, <<a, b>> \in pairs PROVE <<a, b, m>> \in new
    <3> DEFINE pair == <<a, b>>
    <3>1. pair[1] = a /\ pair[2] = b /\ pair \in pairs
      BY <2>1
    <3> HIDE DEF pair
    <3> QED
      BY <3>1
  <2>2. ASSUME NEW a, NEW b, NEW n, <<a, b, n>> \in new PROVE n = m /\ <<a, b>> \in pairs
    <3>1. PICK pair \in pairs : <<a, b, n>> = <<pair[1], pair[2], m>>
      BY <2>2
    <3>2. a = pair[1] /\ b = pair[2] /\ n = m /\ pair = <<pair[1], pair[2]>>
      BY <3>1, <1>2
    <3> QED
      BY <3>2
  <2> HIDE DEF new
  <2> QED
    BY <2>1, <2>2
<1> HIDE DEF new
<1>7. DOMAIN all = D
  BY <1>1
<1>8. ASSUME NEW k \in D
      PROVE  /\ old(k) \in Seq({PingpongMemory(k[3])}) /\ more(k) \in Seq({PingpongMemory(k[3])})
             /\ all[k] = old(k) \o more(k)
  <2>1. old(k) \in Seq({PingpongMemory(k[3])})
    <3>1. CASE k \in DOMAIN results
      BY <3>1, <1>4
    <3>2. CASE k \notin DOMAIN results
      BY <3>2
    <3> QED
      BY <3>1, <3>2
  <2>2. more(k) \in Seq({PingpongMemory(k[3])})
    <3>1. CASE k[3] = m /\ <<k[1], k[2]>> \in pairs
      BY <3>1
    <3>2. CASE ~(k[3] = m /\ <<k[1], k[2]>> \in pairs)
      BY <3>2
    <3> QED
      BY <3>1, <3>2
  <2> HIDE DEF old, more
  <2> QED
    BY <1>1, <2>1, <2>2
<1>9. ResultsOK(all)
  <2>1. \A k \in D : k \in AllCpus \X AllCpus \X Nodes /\ k[1] # k[2]
    BY <1>4, <1>5
  <2>2. \A k \in D : all[k] \in Seq({PingpongMemory(k[3])})
    <3>1. ASSUME NEW k \in D PROVE all[k] \in Seq({PingpongMemory(k[3])})
      <4> DEFINE X == {PingpongMemory(k[3])}
                 s == old(k)
                 t == more(k)
      <4>1. s \in Seq(X) /\ t \in Seq(X) /\ all[k] = s \o t
        BY <1>8
      <4> HIDE DEF X, s, t
      <4>2. s \o t \in Seq(X)
        BY <4>1, ConcatProperties
      <4> QED
        BY <4>1, <4>2 DEF X
    <3> QED
      BY <3>1
  <2> HIDE DEF all, D
  <2> QED
    BY <1>7, <2>1, <2>2 DEF ResultsOK
<1>10. ASSUME NEW a \in AllCpus, NEW b \in AllCpus, NEW n \in Nodes, a # b
       PROVE  Times(all, <<a, b, n>>) = Times(results, <<a, b, n>>) + IF <<c, m>> = <<Lower(a, b), n>> THEN 1 ELSE 0
  <2> DEFINE k == <<a, b, n>>
             X == {PingpongMemory(n)}
             s == old(k)
             t == more(k)
  <2>1. k[1] = a /\ k[2] = b /\ k[3] = n
    OBVIOUS
  <2>2. <<a, b>> \in pairs <=> Lower(a, b) = c
    BY <1>3, <1>10
  <2>3. k \in new <=> n = m /\ <<a, b>> \in pairs
    BY <1>6
  <2>4. <<c, m>> = <<Lower(a, b), n>> <=> k \in new
    BY <2>2, <2>3
  <2>5. t = IF k \in new THEN <<home>> ELSE <<>>
    BY <2>1, <2>3
  <2>6. Len(t) = IF k \in new THEN 1 ELSE 0
    BY <2>5
  <2>7. CASE k \in D
    <3>1. s \in Seq(X) /\ t \in Seq(X) /\ all[k] = s \o t
      BY <1>8, <2>1, <2>7
    <3>2. Times(results, k) = Len(s)
      <4>1. CASE k \in DOMAIN results
        BY <4>1 DEF Times
      <4>2. CASE k \notin DOMAIN results
        BY <4>2 DEF Times
      <4> QED
        BY <4>1, <4>2
    <3>3. Times(all, k) = Len(all[k])
      BY <1>7, <2>7 DEF Times
    <3> HIDE DEF s, t, X, k, all
    <3>4. Len(s \o t) = Len(s) + Len(t)
      BY <3>1, ConcatProperties
    <3> QED
      BY <2>4, <2>6, <3>1, <3>2, <3>3, <3>4 DEF k
  <2>8. CASE k \notin D
    <3>1. Times(all, k) = 0 /\ Times(results, k) = 0
      BY <1>7, <2>8 DEF Times
    <3> HIDE DEF k, all
    <3> QED
      BY <2>4, <2>8, <3>1 DEF k
  <2> QED
    BY <2>7, <2>8
<1> QED
  BY <1>9, <1>10 DEF pairs, home

\* The map of a recipe stays the same.
LEMMA SamePairs ==
    ASSUME SameRecipe
    PROVE  /\ CpusToNodes(NodeToCpus(cfg))' = CpusToNodes(NodeToCpus(cfg))
           /\ \A n : PingpongMemory(n)' = PingpongMemory(n)
           /\ Running' = Running /\ AllCpus' = AllCpus /\ Nodes' = Nodes /\ cfg' = cfg
<1>1. CpuListPerNode' = CpuListPerNode /\ Nodes' = Nodes /\ AllCpus' = AllCpus /\ cfg' = cfg /\ machine' = machine
  BY SameMachine DEF SameRecipe
<1>2. NodeToCpus(cfg)' = NodeToCpus(cfg)
  BY <1>1 DEF NodeToCpus
<1>3. CpusToNodes(NodeToCpus(cfg))' = CpusToNodes(NodeToCpus(cfg))
  BY <1>2 DEF CpusToNodes
<1>4. \A n : PingpongMemory(n)' = PingpongMemory(n)
  BY <1>1 DEF PingpongMemory
<1> QED
  BY <1>1, <1>3, <1>4, SameSettings

\* The parts of CorePairsOK in the next state.
LEMMA PairsStill ==
    ASSUME SameRecipe, cfg \in C2CSettings, ResultsOK(rows'), steps' # <<>> => PairsDue(rows', steps'),
           (CorePairsReported /\ ViewAgrees /\ CoreDiffAgrees /\ DataHomed)'
    PROVE  CorePairsOK'
<1>1. /\ CpusToNodes(NodeToCpus(cfg))' = CpusToNodes(NodeToCpus(cfg))
      /\ \A n : PingpongMemory(n)' = PingpongMemory(n)
      /\ Running' = Running /\ AllCpus' = AllCpus /\ Nodes' = Nodes /\ cfg' = cfg
  BY SamePairs
<1>2. cfg' \in C2CSettings
  BY <1>1
<1>3. (DOMAIN rows \subseteq {k \in AllCpus \X AllCpus \X Nodes : k[1] # k[2]})'
  BY <1>1 DEF ResultsOK
<1>4. (\A k \in DOMAIN rows : rows[k] \in Seq({PingpongMemory(k[3])}))'
  BY <1>1 DEF ResultsOK
<1>5. (steps # <<>> => \A a, b \in AllCpus, n \in Nodes :
            a # b => Measured(a, b, n) + Left(<<Lower(a, b), n>>) =
                         IF Lower(a, b) \in DOMAIN CpusToNodes(NodeToCpus(cfg)) THEN cfg.number_of_runs ELSE 0)'
  <2>1. SUFFICES ASSUME steps' # <<>> PROVE (\A a, b \in AllCpus, n \in Nodes :
            a # b => Measured(a, b, n) + Left(<<Lower(a, b), n>>) =
                         IF Lower(a, b) \in DOMAIN CpusToNodes(NodeToCpus(cfg)) THEN cfg.number_of_runs ELSE 0)'
    OBVIOUS
  <2>2. ASSUME NEW a \in AllCpus', NEW b \in AllCpus', NEW n \in Nodes', a # b
        PROVE  (Measured(a, b, n) + Left(<<Lower(a, b), n>>) =
                    IF Lower(a, b) \in DOMAIN CpusToNodes(NodeToCpus(cfg)) THEN cfg.number_of_runs ELSE 0)'
    <3> DEFINE map == CpusToNodes(NodeToCpus(cfg))
    <3>1. Times(rows', <<a, b, n>>) + Tally(steps', <<Lower(a, b), n>>) = IF Lower(a, b) \in DOMAIN map THEN cfg.number_of_runs ELSE 0
      BY <1>1, <2>1, <2>2 DEF PairsDue, Wanted
    <3>2. map' = map /\ cfg' = cfg
      BY <1>1
    <3> HIDE DEF map
    <3>3. (Measured(a, b, n) + Left(<<Lower(a, b), n>>) = IF Lower(a, b) \in DOMAIN map THEN cfg.number_of_runs ELSE 0)'
      BY <3>1, <3>2, Zenon DEF Measured, Times, Left, Tally, Lower
    <3> QED
      BY <3>3 DEF map
  <2> QED
    BY <2>2
<1> QED
  BY <1>2, <1>3, <1>4, <1>5 DEF CorePairsOK, C2CSettings

\* A step of core-to-core-latency measures the pairs of its CPU.
LEMMA PairsMeasured ==
    ASSUME NodesSound, StepsOK, RoundsOK, CorePairsOK, C2CStep
    PROVE  CorePairsOK'
<1>1. Running = "core-to-core-latency" /\ steps # <<>>
  BY DEF C2CStep
<1>2. /\ cfg \in C2CSettings /\ ResultsOK(rows) /\ PairsDue(rows, steps)
      /\ CorePairsReported /\ ViewAgrees /\ CoreDiffAgrees /\ DataHomed
  BY <1>1 DEF CorePairsOK, ResultsOK, PairsDue, Measured, Times, Left, Tally, Wanted
<1> DEFINE S == (AllCpus \X Nodes) \cup {None}
<1>3. steps \in Seq(S) /\ Head(steps) \in S
  BY <1>1 DEF StepsOK
<1>4. \E newRows : /\ \E round : AfterStep(round, newRows, C2CReport(newRows))
                   /\ ResultsOK(newRows)
                   /\ PairsDue(newRows, Tail(steps))
  <2>1. CASE Head(steps) = None
    <3>1. AfterStep(<<>>, rows, C2CReport(rows))
      BY <2>1 DEF C2CStep
    <3>2. ASSUME NEW a \in AllCpus, NEW b \in AllCpus, NEW n \in Nodes
          PROVE  Tally(steps, <<Lower(a, b), n>>) = Tally(Tail(steps), <<Lower(a, b), n>>)
      <4>1. Head(steps) # <<Lower(a, b), n>>
        BY <2>1 DEF None
      <4>2. /\ Tally(steps, <<Lower(a, b), n>>) = 0 + Tally(Tail(steps), <<Lower(a, b), n>>)
            /\ Tally(Tail(steps), <<Lower(a, b), n>>) \in Nat
        BY <1>1, <1>3, <4>1, TallyTail
      <4> QED
        BY <4>2
    <3>3. PairsDue(rows, Tail(steps))
      BY <1>2, <3>2 DEF PairsDue
    <3> QED
      BY <1>2, <3>1, <3>3
  <2>2. CASE Head(steps) # None
    <3> DEFINE c == Head(steps)[1]
               m == Head(steps)[2]
               p == [kind |-> "c2c", cpus |-> AllCpus, mem |-> PingpongMemory(m)]
               all == Compiled(rows, PingpongPairs(c), m, PingpongMemory(m))
    <3>1. AfterStep(<<{p}>>, all, C2CReport(all))
      BY <2>2 DEF C2CStep
    <3>2. c \in AllCpus /\ m \in Nodes /\ Head(steps) = <<c, m>>
      BY <1>3, <2>2
    <3> HIDE DEF c, m
    <3>3. /\ ResultsOK(all)
          /\ \A a, b \in AllCpus, n \in Nodes : a # b =>
                 Times(all, <<a, b, n>>) = Times(rows, <<a, b, n>>) + IF <<c, m>> = <<Lower(a, b), n>> THEN 1 ELSE 0
      BY <1>2, <3>2, ResultsAdded
    <3> HIDE DEF all
    <3>4. ASSUME NEW a \in AllCpus, NEW b \in AllCpus, NEW n \in Nodes, a # b
          PROVE  Times(all, <<a, b, n>>) + Tally(Tail(steps), <<Lower(a, b), n>>) = Wanted(a, b)
      <4> DEFINE x == <<Lower(a, b), n>>
                 k == <<a, b, n>>
                 one == IF <<c, m>> = x THEN 1 ELSE 0
      <4>1. Times(all, k) = Times(rows, k) + one
        BY <3>3, <3>4
      <4>2. Times(rows, k) + Tally(steps, x) = Wanted(a, b)
        BY <1>2, <3>4 DEF PairsDue
      <4>3. Tally(steps, x) = one + Tally(Tail(steps), x) /\ Tally(Tail(steps), x) \in Nat
        BY <1>1, <1>3, <3>2, TallyTail
      <4>4. Times(rows, k) \in Nat
        <5>1. k \in DOMAIN rows => Len(rows[k]) \in Nat
          BY <1>2, LenProperties DEF ResultsOK
        <5> QED
          BY <5>1 DEF Times
      <4>5. one \in Nat
        OBVIOUS
      <4> HIDE DEF x, k, one
      <4>6. Times(all, k) + Tally(Tail(steps), x) = Wanted(a, b)
        BY <4>1, <4>2, <4>3, <4>4, <4>5
      <4> QED
        BY <4>6 DEF x, k
    <3>5. PairsDue(all, Tail(steps))
      BY <3>4 DEF PairsDue
    <3> QED
      BY <3>1, <3>3, <3>5
  <2> QED
    BY <2>1, <2>2
<1>5. PICK newRows, round : /\ AfterStep(round, newRows, C2CReport(newRows))
                            /\ ResultsOK(newRows) /\ PairsDue(newRows, Tail(steps))
  BY <1>4
<1>6. SameRecipe /\ steps' = Tail(steps) /\ rows' = newRows
  BY <1>1, <1>5, StepTaken
<1>7. /\ CpusToNodes(NodeToCpus(cfg))' = CpusToNodes(NodeToCpus(cfg))
      /\ \A n : PingpongMemory(n)' = PingpongMemory(n)
      /\ Running' = Running /\ AllCpus' = AllCpus /\ Nodes' = Nodes /\ cfg' = cfg
  BY <1>6, SamePairs
<1>8. (CorePairsReported /\ ViewAgrees /\ CoreDiffAgrees /\ DataHomed)'
  <2>1. CASE Len(steps) = 1
    <3>1. reported' = C2CReport(newRows)
      BY <1>5, <2>1 DEF AfterStep
    <3>2. ASSUME NEW a \in AllCpus, NEW b \in AllCpus, NEW n \in Nodes, a # b
          PROVE  Times(newRows, <<a, b, n>>) = Wanted(a, b)
      <4> DEFINE k == <<a, b, n>>
                 x == <<Lower(a, b), n>>
      <4>1. Times(newRows, k) + Tally(Tail(steps), x) = Wanted(a, b)
        BY <1>5, <3>2 DEF PairsDue
      <4>2. Tally(Tail(steps), x) = 0
        BY <1>1, <1>3, <2>1, TallyTail
      <4>3. Times(newRows, k) \in Nat
        <5>1. k \in DOMAIN newRows => Len(newRows[k]) \in Nat
          BY <1>5, LenProperties DEF ResultsOK
        <5> QED
          BY <5>1 DEF Times
      <4> HIDE DEF k, x
      <4>4. Times(newRows, k) = Wanted(a, b)
        BY <4>1, <4>2, <4>3
      <4> QED
        BY <4>4 DEF k
    <3>3. /\ reported'.view = reported'.run /\ PairsShown(reported'.run.summary)
          /\ DiffShown(reported') /\ RowsHomed(reported')
      BY <1>2, <1>5, <3>1, <3>2, ReportSound
    <3>4. CorePairsReported'
      BY <1>7, <3>3 DEF CorePairsReported, PairsShown
    <3>5. ViewAgrees' /\ DataHomed'
      BY <3>3 DEF ViewAgrees, DataHomed, RowsHomed
    <3>6. CoreDiffAgrees'
      BY <1>7, <3>3 DEF CoreDiffAgrees, DiffShown
    <3> QED
      BY <3>4, <3>5, <3>6
  <2>2. CASE Len(steps) # 1
    <3>1. reported' = reported
      BY <1>5, <2>2 DEF AfterStep
    <3>2. CorePairsReported'
      <4>1. reported' # None => PairsShown(reported'.run.summary)
        BY <1>1, <1>2, <3>1 DEF CorePairsReported, PairsShown
      <4> QED
        BY <1>7, <4>1 DEF CorePairsReported, PairsShown, None
    <3>3. ViewAgrees' /\ DataHomed'
      BY <1>2, <1>7, <3>1 DEF ViewAgrees, DataHomed, None
    <3>4. CoreDiffAgrees'
      <4>1. reported' # None => DiffShown(reported')
        BY <1>1, <1>2, <3>1 DEF CoreDiffAgrees, DiffShown
      <4> QED
        BY <1>7, <4>1 DEF CoreDiffAgrees, DiffShown, None
    <3> QED
      BY <3>2, <3>3, <3>4
  <2> QED
    BY <2>1, <2>2
<1> QED
  BY <1>2, <1>5, <1>6, <1>8, PairsStill

----------------------------------------------------------------------------
(* MemoryRecipes: every step keeps the tables *)

\* What is to be reported stays the same.
LEMMA PairsStillShown ==
    ASSUME SameRecipe,
           Running' = "core-to-core-latency" /\ reported' # None => PairsShown(reported'.run.summary)
    PROVE  CorePairsReported'
<1>1. CpusToNodes(NodeToCpus(cfg))' = CpusToNodes(NodeToCpus(cfg)) /\ cfg' = cfg
  BY SamePairs
<1> QED
  BY <1>1 DEF CorePairsReported, PairsShown, None

\* A report that is left alone says the same.
LEMMA SameReport ==
    ASSUME SameRecipe, reported' = reported
    PROVE  /\ CellsInPlace => CellsInPlace'
           /\ CorePairsReported /\ ViewAgrees /\ CoreDiffAgrees /\ DataHomed => (CorePairsReported /\ ViewAgrees /\ CoreDiffAgrees /\ DataHomed)'
<1>1. /\ CpusToNodes(NodeToCpus(cfg))' = CpusToNodes(NodeToCpus(cfg))
      /\ Running' = Running /\ Nodes' = Nodes /\ cfg' = cfg
  BY SamePairs
<1>2. \A n : CpusOf(n)' = CpusOf(n) /\ LastCpu(n)' = LastCpu(n)
  <2>1. CpuListPerNode' = CpuListPerNode
    BY SameMachine DEF SameRecipe
  <2> QED
    BY <2>1 DEF CpusOf, LastCpu
<1>3. ASSUME CellsInPlace PROVE CellsInPlace'
  BY <1>1, <1>2, <1>3 DEF CellsInPlace, None
<1>4. ASSUME CorePairsReported PROVE CorePairsReported'
  <2>1. Running' = "core-to-core-latency" /\ reported' # None => PairsShown(reported'.run.summary)
    BY <1>1, <1>4 DEF CorePairsReported, PairsShown
  <2> QED
    BY <2>1, PairsStillShown
<1>5. ASSUME ViewAgrees, DataHomed PROVE ViewAgrees' /\ DataHomed'
  BY <1>1, <1>5 DEF ViewAgrees, DataHomed, None
<1>6. ASSUME CoreDiffAgrees PROVE CoreDiffAgrees'
  <2>1. Running' = "core-to-core-latency" /\ reported' # None => DiffShown(reported')
    BY <1>1, <1>6 DEF CoreDiffAgrees, DiffShown
  <2> QED
    BY <1>1, <2>1 DEF CoreDiffAgrees, DiffShown, None
<1> QED
  BY <1>3, <1>4, <1>5, <1>6

\* Steps that leave the tables alone.
LEMMA TablesUntouched ==
    ASSUME SameRecipe, TablesIInv, UNCHANGED <<steps, procs, rows, reported>>
    PROVE  TablesIInv'
<1>1. /\ CpusToNodes(NodeToCpus(cfg))' = CpusToNodes(NodeToCpus(cfg))
      /\ \A n : PingpongMemory(n)' = PingpongMemory(n)
      /\ Running' = Running /\ AllCpus' = AllCpus /\ Nodes' = Nodes /\ cfg' = cfg
  BY SamePairs
<1>2. CellsOK'
  <2>1. \A cell, q : CellOf(cell, q)' <=> CellOf(cell, q)
    <3>1. CpuListPerNode' = CpuListPerNode
      BY SameMachine DEF SameRecipe
    <3> QED
      BY <3>1 DEF CellOf, CpusOf, LastCpu
  <2> QED
    BY <1>1, <2>1, SameReport DEF CellsOK, TablesIInv
<1>3. LoadsOK'
  BY <1>1, SameJobs DEF LoadsOK, TablesIInv, StorageSettings
<1>4. CorePairsOK'
  <2>1. \A a, b, n : Measured(a, b, n)' = Measured(a, b, n)
    BY DEF Measured
  <2>2. SUFFICES ASSUME Running = "core-to-core-latency" PROVE CorePairsOK'
    BY <1>1 DEF CorePairsOK
  <2>3. /\ cfg \in C2CSettings /\ ResultsOK(rows) /\ (steps # <<>> => PairsDue(rows, steps))
        /\ CorePairsReported /\ ViewAgrees /\ CoreDiffAgrees /\ DataHomed
    BY <2>2 DEF TablesIInv, CorePairsOK, ResultsOK, PairsDue, Measured, Times, Left, Tally, Wanted
  <2> QED
    BY <1>1, <2>3, SameReport, PairsStill
<1> QED
  BY <1>2, <1>3, <1>4 DEF TablesIInv

\* A recipe that ends without a table.
LEMMA TablesDropped ==
    ASSUME SameRecipe, TablesIInv, steps' = <<>>, procs' = <<>>, rows' = <<>>, reported' = reported
    PROVE  TablesIInv'
<1>1. Running' = Running /\ cfg' = cfg
  BY SamePairs
<1>2. CellsOK'
  BY <1>1, SameReport DEF CellsOK, TablesIInv
<1>3. LoadsOK'
  BY <1>1 DEF LoadsOK, TablesIInv, StorageSettings
<1>4. CorePairsOK'
  BY <1>1, SameReport DEF CorePairsOK, TablesIInv, C2CSettings
<1> QED
  BY <1>2, <1>3, <1>4 DEF TablesIInv

\* gen_steps: a step for each cell, for each value and for each chosen CPU.
LEMMA TablesBegun ==
    ASSUME NodesSound, RoundsOK, BeginRecipe
    PROVE  TablesIInv'
<1>1. /\ procs' = <<>> /\ rows' = <<>> /\ machine' = machine /\ reported' = None
  BY DEF BeginRecipe, topologyVars
<1>2. /\ CpuListPerNode' = CpuListPerNode /\ Nodes' = Nodes /\ AllCpus' = AllCpus
  BY <1>1, SameMachine
<1>3. CellsInPlace' /\ CorePairsReported' /\ ViewAgrees' /\ CoreDiffAgrees' /\ DataHomed'
  BY <1>1 DEF CellsInPlace, CorePairsReported, ViewAgrees, CoreDiffAgrees, DataHomed, None
<1>4. CellsOK'
  <2>1. SUFFICES ASSUME Running' \in {"idle-latency", "cross-numa-bandwidth"} PROVE CellsOK'
    BY DEF CellsOK
  <2>2. steps' = Product(NodeSeq, NodeSeq)
    BY <2>1 DEF BeginRecipe
  <2>3. Range(steps') = Nodes \X Nodes
    BY <2>2, NodesInOrder, ProductOnce
  <2> QED
    BY <1>1, <1>2, <1>3, <2>3 DEF CellsOK
<1>5. LoadsOK'
  <2>1. SUFFICES ASSUME Running' = "storage" PROVE LoadsOK'
    BY DEF LoadsOK
  <2>2. cfg' \in StorageSettings /\ steps' = SweepSteps
    BY <2>1 DEF BeginRecipe
  <2>3. steps' \in Seq(Range(SweepSteps))
    <3>1. SweepSteps \in Seq(Nat)
      BY RecipesAssumption
    <3>2. Len(SweepSteps) \in Nat /\ SweepSteps = [i \in 1 .. Len(SweepSteps) |-> SweepSteps[i]]
          /\ Range(SweepSteps) = {SweepSteps[i] : i \in 1 .. Len(SweepSteps)}
      BY <3>1, LenProperties, RangeEquality
    <3>3. SweepSteps \in [1 .. Len(SweepSteps) -> Range(SweepSteps)]
      BY <3>2
    <3> QED
      BY <2>2, <3>2, <3>3, SeqDef
  <2> QED
    BY <1>1, <2>2, <2>3 DEF LoadsOK, StorageSettings
<1>6. CorePairsOK'
  <2>1. SUFFICES ASSUME Running' = "core-to-core-latency" PROVE CorePairsOK'
    BY DEF CorePairsOK
  <2>2. cfg' \in C2CSettings /\ steps' = C2CSteps(cfg')
    BY <2>1 DEF BeginRecipe
  <2>3. CpusToNodes(NodeToCpus(cfg))' = CpusToNodes(NodeToCpus(cfg'))
    <3>1. NodeToCpus(cfg)' = NodeToCpus(cfg')
      BY <1>2 DEF NodeToCpus
    <3> QED
      BY <3>1 DEF CpusToNodes
  <2>4. ASSUME NEW a \in AllCpus', NEW b \in AllCpus', NEW n \in Nodes'
        PROVE  (Measured(a, b, n) + Left(<<Lower(a, b), n>>) =
                    IF Lower(a, b) \in DOMAIN CpusToNodes(NodeToCpus(cfg)) THEN cfg.number_of_runs ELSE 0)'
    <3> DEFINE map == CpusToNodes(NodeToCpus(cfg))
               c == Lower(a, b)
    <3>1. c \in AllCpus /\ n \in Nodes
      BY <1>2 DEF Lower
    <3>2. Tally(steps', <<c, n>>) = IF c \in DOMAIN CpusToNodes(NodeToCpus(cfg')) THEN cfg'.number_of_runs ELSE 0
      BY <2>2, <3>1, C2CStepsCounted
    <3>3. Measured(a, b, n)' = 0
      BY <1>1 DEF Measured
    <3>4. Left(<<c, n>>)' = Tally(steps', <<c, n>>)
      BY DEF Left, Tally, Lower
    <3>5. cfg'.number_of_runs \in Nat
      BY <2>2 DEF C2CSettings
    <3> DEFINE runs == IF c \in DOMAIN CpusToNodes(NodeToCpus(cfg')) THEN cfg'.number_of_runs ELSE 0
    <3>6. runs \in Nat
      BY <3>5
    <3>7. Measured(a, b, n)' + Left(<<c, n>>)' = runs
      <4> HIDE DEF runs
      <4>1. Left(<<c, n>>)' = runs
        BY <3>2, <3>4 DEF runs
      <4> QED
        BY <3>3, <3>6, <4>1
    <3> QED
      BY <2>3, <3>7 DEF Lower
  <2> QED
    BY <1>1, <1>3, <2>2, <2>4 DEF CorePairsOK, C2CSettings
<1> QED
  BY <1>4, <1>5, <1>6 DEF TablesIInv

\* Every step keeps the tables.
LEMMA TablesKept ==
    ASSUME DiscoveryInv, RecipesIInv, TablesIInv, [RecipesNext]_allVars
    PROVE  TablesIInv'
<1> USE DEF DiscoveryInv, RecipesIInv
<1>1. CASE BeginRecipe
  <2>1. NodesSound
    BY <1>1, NodesFound DEF BeginRecipe, NodesKnown
  <2> QED
    BY <1>1, <2>1, TablesBegun
<1>2. CASE CrossNumaStep \/ PeakStep \/ LoadedStep \/ C2CStep \/ StorageStep
  <2>1. Running # "none" /\ steps # <<>>
    BY <1>2 DEF CrossNumaStep, PeakStep, LoadedStep, C2CStep, StorageStep
  <2>2. phase = "end"
    BY <2>1 DEF Running, RoundsOK, Recipes
  <2>3. NodesSound
    BY <2>2, NodesFound DEF NodesKnown
  <2>4. SameRecipe
    BY <1>2, <2>1, StepTaken DEF CrossNumaStep, PeakStep, LoadedStep, C2CStep, StorageStep
  <2>5. Running' = Running
    BY <2>4, SameSettings
  <2>6. CASE CrossNumaStep
    <3>1. CellsOK'
      BY <2>3, <2>6, CellsFilled DEF TablesIInv
    <3>2. LoadsOK' /\ CorePairsOK'
      BY <2>5, <2>6 DEF CrossNumaStep, LoadsOK, CorePairsOK
    <3> QED
      BY <3>1, <3>2 DEF TablesIInv
  <2>7. CASE PeakStep \/ LoadedStep
    BY <2>5, <2>7 DEF PeakStep, LoadedStep, TablesIInv, CellsOK, LoadsOK, CorePairsOK
  <2>8. CASE C2CStep
    <3>1. CorePairsOK'
      BY <2>3, <2>8, PairsMeasured DEF TablesIInv
    <3>2. LoadsOK' /\ CellsOK'
      BY <2>5, <2>8 DEF C2CStep, LoadsOK, CellsOK
    <3> QED
      BY <3>1, <3>2 DEF TablesIInv
  <2>9. CASE StorageStep
    <3>1. LoadsOK'
      BY <2>3, <2>9, LoadsMeasured DEF TablesIInv
    <3>2. CellsOK' /\ CorePairsOK'
      BY <2>5, <2>9 DEF StorageStep, CellsOK, CorePairsOK
    <3> QED
      BY <3>1, <3>2 DEF TablesIInv
  <2> QED
    BY <1>2, <2>6, <2>7, <2>8, <2>9
<1>3. CASE LoadedStepFails \/ RecipeRaises
  BY <1>3, TablesDropped DEF LoadedStepFails, RecipeRaises, SameRecipe, sweepVars, progress, topologyVars
<1>4. CASE UNCHANGED own
  <2>1. recipe' = recipe /\ cfg' = cfg /\ UNCHANGED <<steps, procs, rows, reported>>
    BY <1>4 DEF own
  <2>2. CASE recipe = 0
    <3>1. Running' = "none"
      BY <2>1, <2>2 DEF Running
    <3> QED
      BY <3>1 DEF TablesIInv, CellsOK, LoadsOK, CorePairsOK
  <2>3. CASE recipe # 0
    <3>1. phase = "end" /\ recipe > 0
      BY <2>3 DEF RoundsOK, Recipes
    <3>2. machine' = machine /\ phase' = phase
      BY <3>1, MachineFixed, SweepKeepsOrder DEF NodesKnown
    <3>3. SameRecipe
      BY <2>1, <3>2 DEF SameRecipe
    <3> QED
      BY <2>1, <3>3, TablesUntouched
  <2> QED
    BY <2>2, <2>3
<1> QED
  BY <1>1, <1>2, <1>3, <1>4 DEF RecipesNext, AllDone, allVars, own

----------------------------------------------------------------------------
(* Topology: the saved machine *)

\* What was collected is the machine of one moment, field by field.
LEMMA MachineReadKept ==
    ASSUME FoundOK, MachineOK, StillSo, MachineRead, [TopologyNext]_topologyVars
    PROVE  MachineRead'
<1>1. CASE CollectSysHw /\ CpuCountAgrees
  <2>1. /\ found.stage = "collect" /\ hw' = hw /\ online' = online
        /\ machine' = [n_cpus |-> NCpus, numa_nodes |-> found.numa_nodes,
                       cache_size_dict |-> CacheSizeDict(DOMAIN found.parents), caches |-> LsCaches(DOMAIN found.parents),
                       arch |-> hw.arch, sve |-> HasFeature(hw.sve)]
    BY <1>1 DEF CollectSysHw
  <2>2. /\ found.todo = {}
        /\ DOMAIN found.parents = UNION {CachesForCpu(c) : c \in hw.cpus \ found.todo}
        /\ found.numa_nodes = [n \in ListedNodes |-> Ascending(hw.nodes[n] \cap online)]
    BY <1>1, <2>1 DEF StillSo
  <2>3. DOMAIN found.parents = CachesNow
    <3>1. hw.cpus \ found.todo = hw.cpus
      BY <2>2
    <3> QED
      BY <2>2, <3>1, AllCachesRead
  <2>4. /\ ListedNodes' = ListedNodes /\ CachesNow' = CachesNow
        /\ CacheSizeDict(CachesNow)' = CacheSizeDict(CachesNow) /\ LsCaches(CachesNow)' = LsCaches(CachesNow)
    <3>1. ListedNodes' = ListedNodes /\ CachesNow' = CachesNow
      BY <2>1 DEF ListedNodes, CachesNow, Seen
    <3> QED
      BY <3>1 DEF CacheSizeDict, LsCaches, Holds
  <2> DEFINE nodes == [n \in ListedNodes |-> Ascending(hw.nodes[n] \cap online)]
             dict == CacheSizeDict(CachesNow)
             ls == LsCaches(CachesNow)
  <2>5. nodes' = nodes /\ dict' = dict /\ ls' = ls
    BY <2>1, <2>4 DEF Ascending
  <2>6. machine' = [n_cpus |-> NCpus, numa_nodes |-> nodes, cache_size_dict |-> dict, caches |-> ls,
                    arch |-> hw.arch, sve |-> HasFeature(hw.sve)]
    BY <2>1, <2>2, <2>3
  <2> HIDE DEF nodes, dict, ls
  <2>7. machine' = [n_cpus |-> machine'.n_cpus, numa_nodes |-> nodes', cache_size_dict |-> dict', caches |-> ls',
                    arch |-> machine'.arch, sve |-> machine'.sve]
    BY <2>5, <2>6
  <2> QED
    BY <2>7 DEF MachineRead, nodes, dict, ls
<1>2. CASE Hotplug
  BY <1>2 DEF Hotplug, MachineRead, NoMachine
<1>3. CASE UNCHANGED <<hw, online, machine>>
  <2>1. ListedNodes' = ListedNodes /\ CachesNow' = CachesNow
    BY <1>3 DEF ListedNodes, CachesNow, Seen
  <2>2. CacheSizeDict(CachesNow)' = CacheSizeDict(CachesNow) /\ LsCaches(CachesNow)' = LsCaches(CachesNow)
    BY <2>1 DEF CacheSizeDict, LsCaches, Holds
  <2>3. [n \in ListedNodes |-> Ascending(hw.nodes[n] \cap online)]' = [n \in ListedNodes |-> Ascending(hw.nodes[n] \cap online)]
    BY <1>3, <2>1 DEF Ascending
  <2> QED
    BY <1>3, <2>2, <2>3 DEF MachineRead, NoMachine
<1>4. CASE CollectSysHw /\ ~CpuCountAgrees
  BY <1>3, <1>4 DEF CollectSysHw, DiscoveryRaises
<1> QED
  BY <1>1, <1>2, <1>3, <1>4 DEF TopologyNext, DiscoveryStep, ReadCpuinfo, ReadCpu, AddNumaNodes, DiscoveryRaises, topologyVars

\* The nodes that are listed are numbered from 0 without a gap.
LEMMA NodesNumbered ==
    ASSUME MachineOK
    PROVE  /\ IsFiniteSet(ListedNodes) /\ ListedNodes \subseteq Nat
           /\ Cardinality(ListedNodes) \in Nat
           /\ Cardinality(ListedNodes) <= Cardinality(DOMAIN hw.nodes)
           /\ \A n \in ListedNodes : n < Cardinality(ListedNodes)
<1>1. DOMAIN hw.nodes \subseteq Nat /\ IsFiniteSet(DOMAIN hw.nodes)
  BY DEF MachineOK, IsHardware
<1>2. ListedNodes \in SUBSET DOMAIN hw.nodes
  BY DEF ListedNodes
<1>3. IsFiniteSet(ListedNodes) /\ Cardinality(ListedNodes) <= Cardinality(DOMAIN hw.nodes)
  BY <1>1, <1>2, FS_Subset
<1>4. Cardinality(ListedNodes) \in Nat
  BY <1>3, FS_CardinalityType
<1>5. ASSUME NEW n \in ListedNodes PROVE n < Cardinality(ListedNodes)
  <2>1. n \in Nat /\ 0 .. n \subseteq DOMAIN hw.nodes
    BY <1>1 DEF ListedNodes
  <2>2. \A m \in 0 .. n : m \in DOMAIN hw.nodes /\ 0 .. m \subseteq 0 .. n
    BY <2>1
  <2>3. 0 .. n \in SUBSET ListedNodes
    BY <2>1, <2>2 DEF ListedNodes
  <2>4. Cardinality(0 .. n) = n + 1
    BY <2>1, FS_Interval
  <2>5. Cardinality(0 .. n) <= Cardinality(ListedNodes)
    BY <1>3, <2>3, FS_Subset
  <2> QED
    BY <1>4, <2>1, <2>4, <2>5
<1> QED
  BY <1>1, <1>2, <1>3, <1>4, <1>5

\* Numbers are read back from the keys they became.
LEMMA KeysReadBack ==
    ASSUME MachineOK, NEW nodes, nodes = [n \in ListedNodes |-> nodes[n]]
    PROVE  LET keys == {JsonKey(n) : n \in ListedNodes}
               saved == [key \in keys |-> nodes[CHOOSE n \in ListedNodes : JsonKey(n) = key]]
               int(key) == CHOOSE n \in 0 .. Cardinality(keys) : JsonKey(n) = key
               keyOf(n) == CHOOSE key \in keys : int(key) = n
           IN [n \in {int(key) : key \in keys} |-> saved[keyOf(n)]] = nodes
<1> DEFINE D == ListedNodes
           keys == {JsonKey(n) : n \in D}
           saved == [key \in keys |-> nodes[CHOOSE n \in D : JsonKey(n) = key]]
           int(key) == CHOOSE n \in 0 .. Cardinality(keys) : JsonKey(n) = key
           keyOf(n) == CHOOSE key \in keys : int(key) = n
           all == Cardinality(DOMAIN hw.nodes)
<1>1. /\ IsFiniteSet(D) /\ D \subseteq Nat /\ Cardinality(D) \in Nat /\ Cardinality(D) <= all
      /\ \A n \in D : n < Cardinality(D)
  BY NodesNumbered
<1>2. all \in Nat /\ \A m, n \in 0 .. all : JsonKey(m) = JsonKey(n) => m = n
  BY FS_CardinalityType DEF MachineOK, IsHardware
<1> HIDE DEF D, all
<1>3. \A n \in D : n \in 0 .. all
  BY <1>1, <1>2
<1>4. Cardinality(keys) = Cardinality(D)
  <2> DEFINE f == [n \in D |-> JsonKey(n)]
  <2>1. f \in Surjection(D, keys)
    BY DEF Surjection
  <2>2. f \in Injection(D, keys)
    BY <1>2, <1>3 DEF Injection, IsInjective
  <2> HIDE DEF f, keys
  <2> QED
    BY <1>1, <2>1, <2>2, FS_Surjection
<1>5. \A n \in D : n \in 0 .. Cardinality(keys)
  BY <1>1, <1>4
<1>6. \A n \in 0 .. Cardinality(keys) : n \in 0 .. all
  BY <1>1, <1>2, <1>4
<1>7. ASSUME NEW n \in D PROVE int(JsonKey(n)) = n
  <2> DEFINE C == 0 .. Cardinality(keys)
  <2>1. \A m \in C : JsonKey(m) = JsonKey(n) <=> m = n
    BY <1>2, <1>3, <1>6
  <2>2. n \in C
    BY <1>5
  <2>3. int(JsonKey(n)) = CHOOSE m \in C : JsonKey(m) = JsonKey(n)
    OBVIOUS
  <2> HIDE DEF C, int
  <2> QED
    BY <2>1, <2>2, <2>3
<1> HIDE DEF int
<1>8. {int(key) : key \in keys} = D
  <2>1. \A n \in D : JsonKey(n) \in keys
    OBVIOUS
  <2>2. \A key \in keys : \E n \in D : key = JsonKey(n)
    OBVIOUS
  <2> HIDE DEF keys
  <2> QED
    BY <2>1, <2>2, <1>7
<1>9. ASSUME NEW n \in D PROVE keyOf(n) = JsonKey(n)
  <2>1. JsonKey(n) \in keys /\ int(JsonKey(n)) = n
    BY <1>7
  <2>2. \A key \in keys : int(key) = n => key = JsonKey(n)
    BY <1>7
  <2> HIDE DEF keys
  <2> QED
    BY <2>1, <2>2
<1> HIDE DEF keyOf
<1>10. ASSUME NEW n \in D PROVE saved[JsonKey(n)] = nodes[n]
  <2>1. JsonKey(n) \in keys
    OBVIOUS
  <2>2. \A m \in D : JsonKey(m) = JsonKey(n) <=> m = n
    BY <1>2, <1>3
  <2>3. (CHOOSE m \in D : JsonKey(m) = JsonKey(n)) = n
    BY <2>2
  <2>4. saved[JsonKey(n)] = nodes[CHOOSE m \in D : JsonKey(m) = JsonKey(n)]
    <3> HIDE DEF keys
    <3> QED
      BY <2>1
  <2> QED
    BY <2>3, <2>4
<1> HIDE DEF saved
<1>11. [n \in {int(key) : key \in keys} |-> saved[keyOf(n)]] = [n \in D |-> nodes[n]]
  BY <1>8, <1>9, <1>10
<1>12. [n \in D |-> nodes[n]] = nodes
  BY DEF D
<1> QED
  BY <1>11, <1>12 DEF D, saved, int, keyOf

\* The cache sizes of an old result are taken from the sizes of all caches.
LEMMA SizesDerived ==
    ASSUME NEW caches
    PROVE  /\ DOMAIN DeriveCacheSizeDict(LsCaches(caches)) = {c.level : c \in caches} \cap 1..3
           /\ \A l \in {c.level : c \in caches} \cap 1..3 :
                  DeriveCacheSizeDict(LsCaches(caches))[l] = Max({c.size : c \in {d \in caches : d.level = l}})
<1> DEFINE text(c) == [level |-> c.level, type |-> c.type, size |-> c.size]
           T == {text(c) : c \in caches}
<1>1. DOMAIN LsCaches(caches) = T
  BY DEF LsCaches
<1>2. \A c : text(c).level = c.level /\ text(c).size = c.size
  OBVIOUS
<1> HIDE DEF text
<1>3. {t.level : t \in T} = {c.level : c \in caches}
  <2>1. \A c \in caches : text(c) \in T
    OBVIOUS
  <2>2. \A t \in T : \E c \in caches : t = text(c)
    OBVIOUS
  <2> HIDE DEF T
  <2> QED
    BY <1>2, <2>1, <2>2
<1>4. \A l : {t.size : t \in {u \in T : u.level = l}} = {c.size : c \in {d \in caches : d.level = l}}
  <2>1. \A c \in caches : text(c) \in T
    OBVIOUS
  <2>2. \A t \in T : \E c \in caches : t = text(c)
    OBVIOUS
  <2> HIDE DEF T
  <2> QED
    BY <1>2, <2>1, <2>2
<1> HIDE DEF T
<1>5. DeriveCacheSizeDict(LsCaches(caches)) =
          [l \in {c.level : c \in caches} \cap 1..3 |-> Max({t.size : t \in {u \in T : u.level = l}})]
  BY <1>1, <1>3 DEF DeriveCacheSizeDict
<1> QED
  BY <1>4, <1>5

\* The sizes that are kept are missing only where there is no cache at all.
LEMMA SizesKept ==
    ASSUME MachineOK, CacheSizeDict(CachesNow) = Empty
    PROVE  DeriveCacheSizeDict(LsCaches(CachesNow)) = Empty
<1> DEFINE data == {c \in CachesNow : Holds(c, "D")}
<1>1. DOMAIN CacheSizeDict(CachesNow) = {c.level : c \in data}
  BY DEF CacheSizeDict
<1>2. DOMAIN Empty = {}
  BY DEF Empty
<1>3. data = {}
  BY <1>1, <1>2
<1>4. ASSUME NEW cache \in hw.caches, cache.cpus \cap online # {} PROVE FALSE
  <2>1. PICK c \in cache.cpus \cap online : TRUE
    BY <1>4
  <2>2. PICK d \in hw.caches : c \in d.cpus /\ d.type \in {"U", "D"}
    BY <2>1 DEF MachineOK, IsHardware
  <2>3. d = [level |-> d.level, type |-> d.type, cpus |-> d.cpus, size |-> d.size]
    BY DEF MachineOK, IsHardware
  <2>4. Seen(d).type = d.type
    BY <2>3 DEF Seen
  <2>5. Seen(d) \in CachesNow
    BY <2>1, <2>2 DEF CachesNow
  <2> QED
    BY <1>3, <2>2, <2>4, <2>5 DEF Holds
<1>5. CachesNow = {}
  BY <1>4 DEF CachesNow
<1>6. DOMAIN DeriveCacheSizeDict(LsCaches(CachesNow)) = {}
  <2>1. DOMAIN DeriveCacheSizeDict(LsCaches(CachesNow)) = {c.level : c \in CachesNow} \cap 1..3
    BY SizesDerived
  <2> QED
    BY <1>5, <2>1
<1> QED
  BY <1>6 DEF DeriveCacheSizeDict, Empty

\* A machine as system-info keeps it, and what its saved form is read as.
LEMMA SavedAndRead ==
    ASSUME MachineOK, NEW m, NEW nodes, NEW sizes, nodes = [n \in ListedNodes |-> nodes[n]],
           m = [n_cpus |-> m.n_cpus, numa_nodes |-> nodes, cache_size_dict |-> sizes, caches |-> m.caches,
                arch |-> m.arch, sve |-> m.sve]
    PROVE  Deserialize(Serialize(m)) =
               [n_cpus |-> m.n_cpus, numa_nodes |-> nodes,
                cache_size_dict |-> IF sizes = Empty THEN DeriveCacheSizeDict(m.caches) ELSE sizes,
                caches |-> m.caches, arch |-> m.arch, sve |-> m.sve]
<1> DEFINE keys == {JsonKey(n) : n \in ListedNodes}
           saved == [key \in keys |-> nodes[CHOOSE n \in ListedNodes : JsonKey(n) = key]]
           int(key) == CHOOSE n \in 0 .. Cardinality(keys) : JsonKey(n) = key
           keyOf(n) == CHOOSE key \in keys : int(key) = n
           s == Serialize(m)
<1>1. DOMAIN nodes = ListedNodes /\ m.numa_nodes = nodes
  OBVIOUS
<1>2. s = [m EXCEPT !.numa_nodes = saved]
  BY <1>1 DEF Serialize
<1>3. DOMAIN saved = keys
  OBVIOUS
<1> HIDE DEF saved
<1>4. s = [n_cpus |-> m.n_cpus, numa_nodes |-> saved, cache_size_dict |-> sizes, caches |-> m.caches,
           arch |-> m.arch, sve |-> m.sve]
  BY <1>2
<1> HIDE DEF s
<1>5. /\ s.numa_nodes = saved /\ s.cache_size_dict = sizes /\ s.caches = m.caches
      /\ DOMAIN s.numa_nodes = keys
  BY <1>3, <1>4
<1> DEFINE back == [n \in {int(key) : key \in keys} |-> saved[keyOf(n)]]
           dict == IF sizes = Empty THEN DeriveCacheSizeDict(m.caches) ELSE sizes
<1>6. Deserialize(s) = [s EXCEPT !.cache_size_dict = dict, !.numa_nodes = back]
  BY <1>5 DEF Deserialize
<1>7. back = nodes
  BY KeysReadBack DEF saved
<1> HIDE DEF back, dict
<1>8. Deserialize(s) = [n_cpus |-> m.n_cpus, numa_nodes |-> back, cache_size_dict |-> dict, caches |-> m.caches,
                        arch |-> m.arch, sve |-> m.sve]
  BY <1>4, <1>6
<1> QED
  BY <1>7, <1>8 DEF s, dict

\* A saved machine reads as it was.
LEMMA MachineReads ==
    ASSUME MachineOK, MachineRead
    PROVE  SavedMachineReads
<1> SUFFICES ASSUME machine # NoMachine PROVE SavedMachineReads
  BY DEF SavedMachineReads
<1> DEFINE nodes == [n \in ListedNodes |-> Ascending(hw.nodes[n] \cap online)]
           dict == CacheSizeDict(CachesNow)
           ls == LsCaches(CachesNow)
<1>1. machine = [n_cpus |-> machine.n_cpus, numa_nodes |-> nodes, cache_size_dict |-> dict, caches |-> ls,
                 arch |-> machine.arch, sve |-> machine.sve]
  BY DEF MachineRead
<1>2. nodes = [n \in ListedNodes |-> nodes[n]]
  OBVIOUS
<1>3. dict = Empty => DeriveCacheSizeDict(ls) = Empty
  BY SizesKept
<1> HIDE DEF nodes, dict, ls
<1>4. machine.caches = ls /\ machine.cache_size_dict = dict
  BY <1>1
<1>5. Deserialize(Serialize(machine)) = machine
  <2>1. Deserialize(Serialize(machine)) =
            [n_cpus |-> machine.n_cpus, numa_nodes |-> nodes,
             cache_size_dict |-> IF dict = Empty THEN DeriveCacheSizeDict(machine.caches) ELSE dict,
             caches |-> machine.caches, arch |-> machine.arch, sve |-> machine.sve]
    BY <1>1, <1>2, <1>4, SavedAndRead
  <2>2. (IF dict = Empty THEN DeriveCacheSizeDict(machine.caches) ELSE dict) = dict
    BY <1>3, <1>4
  <2> QED
    BY <1>1, <1>4, <2>1, <2>2
<1> DEFINE old == Legacy(machine)
<1>6. old = [n_cpus |-> old.n_cpus, numa_nodes |-> nodes, cache_size_dict |-> Empty, caches |-> old.caches,
             arch |-> old.arch, sve |-> old.sve] /\ old.caches = ls
  <2>1. old = [n_cpus |-> machine.n_cpus, numa_nodes |-> nodes, cache_size_dict |-> Empty, caches |-> ls,
               arch |-> machine.arch, sve |-> machine.sve]
    BY <1>1 DEF Legacy
  <2> HIDE DEF old
  <2> QED
    BY <2>1
<1>7. Deserialize(Serialize(old)).cache_size_dict = DeriveCacheSizeDict(ls)
  <2> HIDE DEF old
  <2>1. Deserialize(Serialize(old)) =
            [n_cpus |-> old.n_cpus, numa_nodes |-> nodes,
             cache_size_dict |-> IF Empty = Empty THEN DeriveCacheSizeDict(old.caches) ELSE Empty,
             caches |-> old.caches, arch |-> old.arch, sve |-> old.sve]
    BY <1>2, <1>6, SavedAndRead
  <2> QED
    BY <1>6, <2>1
<1>8. ASSUME NEW l \in DOMAIN dict \cap 1..3
      PROVE  DeriveCacheSizeDict(ls)[l] = Max({c.size : c \in {d \in CachesNow : d.level = l}})
  <2>1. DOMAIN dict = {c.level : c \in {c \in CachesNow : Holds(c, "D")}}
    BY DEF dict, CacheSizeDict
  <2>2. l \in {c.level : c \in CachesNow} \cap 1..3
    BY <2>1
  <2> QED
    BY <2>2, SizesDerived DEF ls
<1> QED
  BY <1>4, <1>5, <1>7, <1>8 DEF SavedMachineReads

\* What the tables are built from makes them say what was measured.
LEMMA TablesSaySo ==
    ASSUME TablesIInv
    PROVE  CellsInPlace /\ CorePairsReported /\ ViewAgrees /\ LoadOfTheJobs /\ CoreDiffAgrees /\ DataHomed
<1>1. CellsInPlace
  BY DEF TablesIInv, CellsOK, CellsInPlace
<1>2. CorePairsReported /\ ViewAgrees /\ CoreDiffAgrees /\ DataHomed
  BY DEF TablesIInv, CorePairsOK, CorePairsReported, ViewAgrees, CoreDiffAgrees, DataHomed
<1>3. LoadOfTheJobs
  <2> SUFFICES ASSUME Running = "storage", NEW k \in DOMAIN rows, NEW sample \in rows[k].load
               PROVE  /\ \A j \in DOMAIN rows[k].jobs :
                             LET job == rows[k].jobs[j]
                             IN sample[1] \in job.start .. (job.start + Max({job.read, job.write}))
                      /\ \A p \in UNION Range(procs) : p.kind = "fio" => sample[2] \in p.cpus
    BY DEF LoadOfTheJobs
  <2>1. rows \in Seq(SoundLoad) /\ \A i \in DOMAIN procs : \A p \in procs[i] : p.kind = "fio" => p.cpus = JobCpus
    BY DEF TablesIInv, LoadsOK
  <2>2. rows[k] \in SoundLoad
    BY <2>1
  <2>3. /\ \A j \in DOMAIN rows[k].jobs :
               sample[1] \in rows[k].jobs[j].start .. (rows[k].jobs[j].start + Max({rows[k].jobs[j].read, rows[k].jobs[j].write}))
        /\ rows[k].load \subseteq Nat \X JobCpus
    BY <2>2 DEF SoundLoad
  <2>4. sample[2] \in JobCpus
    BY <2>3
  <2>5. \A p \in UNION Range(procs) : p.kind = "fio" => p.cpus = JobCpus
    BY <2>1 DEF Range
  <2> QED
    BY <2>3, <2>4, <2>5
<1> QED
  BY <1>1, <1>2, <1>3

----------------------------------------------------------------------------
(* CacheSweep: sorted sizes, groups and medians *)

\* sorted() lists each number once, the smaller ones first.
LEMMA SortedLists ==
    ASSUME NEW S \in SUBSET Nat, IsFiniteSet(S)
    PROVE  /\ Range(Sorted(S)) = S
           /\ Sorted(S) \in Seq(S)
           /\ Len(Sorted(S)) = Cardinality(S)
           /\ \A k \in 1 .. Cardinality(S) : Sorted(S)[k] \in S /\ Cardinality({m \in S : m < Sorted(S)[k]}) = k - 1
<1> DEFINE Less(c) == {m \in S : m < c}
           n == Cardinality(S)
<1>1. Sorted(S) = Ascending(S)
  BY DEF Sorted, Ascending
<1>2. Range(Sorted(S)) = S /\ Sorted(S) \in Seq(S) /\ Len(Sorted(S)) = n
  BY <1>1, AscendingLists
<1>3. ASSUME NEW k \in 1 .. n
      PROVE  Sorted(S)[k] \in S /\ Cardinality(Less(Sorted(S)[k])) = k - 1
  <2>1. PICK place \in [S -> 1 .. n] :
            /\ \A i \in 1 .. n : \E c \in S : place[c] = i
            /\ \A c \in S : \A i \in 1 .. n : Cardinality(Less(c)) = i - 1 <=> place[c] = i
    BY Places
  <2> DEFINE At(c) == Cardinality(Less(c)) = k - 1
  <2>2. \E c \in S : At(c)
    BY <2>1
  <2>3. Sorted(S)[k] = CHOOSE c \in S : At(c)
    BY DEF Sorted
  <2> HIDE DEF At, Less
  <2>4. Sorted(S)[k] \in S /\ At(Sorted(S)[k])
    BY <2>2, <2>3
  <2> QED
    BY <2>4 DEF At
<1> QED
  BY <1>2, <1>3

\* Of two places the later one holds the larger number.
LEMMA SortedAscends ==
    ASSUME NEW S \in SUBSET Nat, IsFiniteSet(S), NEW i \in 1 .. Cardinality(S), NEW j \in 1 .. Cardinality(S), i < j
    PROVE  Sorted(S)[i] < Sorted(S)[j]
<1> DEFINE Less(c) == {m \in S : m < c}
           a == Sorted(S)[i]
           b == Sorted(S)[j]
<1>1. /\ a \in S /\ Cardinality(Less(a)) = i - 1
      /\ b \in S /\ Cardinality(Less(b)) = j - 1
  BY SortedLists
<1>2. ASSUME ~(a < b) PROVE FALSE
  <2>1. Less(b) \subseteq Less(a)
    <3>1. \A m \in S : m < b => m < a
      <4>1. a \in Nat /\ b \in Nat /\ ~(a < b)
        BY <1>1, <1>2
      <4> HIDE DEF a, b
      <4> QED
        BY <4>1
    <3> HIDE DEF a, b
    <3> QED
      BY <3>1
  <2>2. IsFiniteSet(Less(a))
    BY FS_Subset
  <2>3. Cardinality(Less(b)) <= Cardinality(Less(a))
    <3> HIDE DEF Less
    <3> QED
      BY <2>1, <2>2, FS_Subset
  <2>4. i \in Int /\ j \in Int
    BY FS_CardinalityType
  <2> QED
    BY <1>1, <2>3, <2>4
<1> QED
  BY <1>2

\* A list in this order that holds every number of a set is the sorted list.
LEMMA SortedOnly ==
    ASSUME NEW S \in SUBSET Nat, IsFiniteSet(S), NEW f \in [1 .. Cardinality(S) -> S],
           \A i, j \in 1 .. Cardinality(S) : i < j => f[i] < f[j], \A c \in S : \E k \in 1 .. Cardinality(S) : f[k] = c
    PROVE  f = Sorted(S)
<1> DEFINE n == Cardinality(S)
           Less(c) == {m \in S : m < c}
<1>0. n \in Nat
  BY FS_CardinalityType
<1>1. ASSUME NEW k \in 1 .. n PROVE Cardinality(Less(f[k])) = k - 1
  <2> DEFINE g == [i \in 1 .. k - 1 |-> f[i]]
  <2>1. \A i \in 1 .. k - 1 : i \in 1 .. n /\ i < k
    BY <1>0
  <2>2. \A c \in Less(f[k]) : \E i \in 1 .. k - 1 : f[i] = c
    <3> SUFFICES ASSUME NEW c \in Less(f[k]) PROVE \E i \in 1 .. k - 1 : f[i] = c
      OBVIOUS
    <3>1. PICK i \in 1 .. n : f[i] = c
      OBVIOUS
    <3>2. f[i] < f[k] /\ f[i] \in Nat /\ f[k] \in Nat
      BY <3>1
    <3>3. ~(k < i) /\ k # i
      BY <3>2
    <3>4. i \in 1 .. k - 1
      BY <1>0, <3>3
    <3> QED
      BY <3>1, <3>4
  <2>3. g \in Surjection(1 .. k - 1, Less(f[k]))
    <3>1. \A i \in 1 .. k - 1 : g[i] \in Less(f[k])
      BY <2>1
    <3> QED
      BY <3>1, <2>2 DEF Surjection
  <2>4. g \in Injection(1 .. k - 1, Less(f[k]))
    <3>1. \A i, j \in 1 .. k - 1 : g[i] = g[j] => i = j
      <4> SUFFICES ASSUME NEW i \in 1 .. k - 1, NEW j \in 1 .. k - 1, i # j PROVE f[i] # f[j]
        OBVIOUS
      <4>1. i \in 1 .. n /\ j \in 1 .. n /\ (i < j \/ j < i)
        BY <2>1
      <4>2. f[i] < f[j] \/ f[j] < f[i]
        BY <4>1
      <4>3. f[i] \in Nat /\ f[j] \in Nat
        BY <4>1
      <4> QED
        BY <4>2, <4>3
    <3>2. g \in [1 .. k - 1 -> Less(f[k])]
      BY <2>1
    <3> QED
      BY <3>1, <3>2 DEF Injection, IsInjective
  <2>5. IsFiniteSet(1 .. k - 1) /\ Cardinality(1 .. k - 1) = k - 1
    <3>1. k \in Nat /\ k >= 1 /\ k - 1 \in Int /\ 1 \in Int
      BY <1>0
    <3>2. /\ IsFiniteSet(1 .. (k - 1))
          /\ Cardinality(1 .. (k - 1)) = IF 1 > k - 1 THEN 0 ELSE (k - 1) - 1 + 1
      BY <3>1, FS_Interval
    <3> QED
      BY <3>1, <3>2
  <2> HIDE DEF g, Less
  <2>6. Cardinality(Less(f[k])) = Cardinality(1 .. k - 1)
    BY <2>3, <2>4, <2>5, FS_Surjection
  <2> QED
    BY <2>5, <2>6
<1>2. ASSUME NEW k \in 1 .. n PROVE Sorted(S)[k] = f[k]
  <2> DEFINE c == Sorted(S)[k]
  <2>1. c \in S /\ Cardinality(Less(c)) = k - 1
    BY SortedLists
  <2>2. PICK i \in 1 .. n : f[i] = c
    BY <2>1
  <2>3. Cardinality(Less(f[i])) = i - 1
    BY <1>1
  <2>4. i = k
    BY <1>0, <2>1, <2>2, <2>3
  <2> QED
    BY <2>2, <2>4
<1>3. Sorted(S) = [k \in 1 .. n |-> Sorted(S)[k]]
  <2>1. Sorted(S) \in Seq(S) /\ Len(Sorted(S)) = n
    BY SortedLists
  <2> QED
    BY <2>1
<1>4. f = [k \in 1 .. n |-> f[k]]
  OBVIOUS
<1> QED
  BY <1>2, <1>3, <1>4

\* Sizes that are in range are finitely many.
LEMMA SizesFinite ==
    ASSUME NEW S \in SUBSET (1 .. MaxSize)
    PROVE  S \in SUBSET Nat /\ IsFiniteSet(S)
<1>1. MaxSize \in Nat
  BY SweepAssumption DEF SweepAssumption
<1>2. IsFiniteSet(1 .. MaxSize)
  BY <1>1, FS_Interval
<1>3. S \in SUBSET Nat
  BY <1>1
<1> QED
  BY <1>2, <1>3, FS_Subset

\* range_up goes up within its range, and begins at its start.
LEMMA RangeGoesUp ==
    ASSUME NEW lo \in Nat \ {0}, NEW hi \in Nat
    PROVE  /\ \E S \in SUBSET (lo .. hi) : IsFiniteSet(S) /\ RangeUp(lo, hi) = Sorted(S)
           /\ Range(RangeUp(lo, hi)) \subseteq lo .. hi
           /\ RangeUp(lo, hi) \in Seq(lo .. hi)
           /\ lo <= hi => lo \in Range(RangeUp(lo, hi))
<1> DEFINE S == {n \in lo .. hi : \E e \in 0 .. (hi \div 2) : n = lo * 2^e}
<1>1. S \in SUBSET Nat /\ S \subseteq lo .. hi
  OBVIOUS
<1>2. IsFiniteSet(S)
  <2>1. IsFiniteSet(lo .. hi)
    BY FS_Interval
  <2> QED
    BY <1>1, <2>1, FS_Subset
<1>3. RangeUp(lo, hi) = Sorted(S)
  BY DEF RangeUp
<1>4. lo <= hi => lo \in S
  <2>1. 2^0 = 1
    OBVIOUS
  <2>2. 0 \in 0 .. (hi \div 2)
    OBVIOUS
  <2>3. lo = lo * 2^0
    BY <2>1
  <2>4. \E e \in 0 .. (hi \div 2) : lo = lo * 2^e
    BY <2>2, <2>3
  <2>5. lo <= hi => lo \in lo .. hi
    OBVIOUS
  <2> QED
    BY <2>4, <2>5
<1> HIDE DEF S
<1>5. Range(Sorted(S)) = S /\ Sorted(S) \in Seq(S)
  BY <1>1, <1>2, SortedLists
<1>6. Sorted(S) \in Seq(lo .. hi)
  <2>1. \A x \in S : x \in lo .. hi
    BY <1>1
  <2> QED
    BY <1>5, <2>1
<1>7. S \in SUBSET (lo .. hi)
  BY <1>1
<1> QED
  BY <1>2, <1>3, <1>4, <1>5, <1>6, <1>7, Zenon

\* The presweep measures the smallest size, and none out of range.
LEMMA PresweepSizes ==
    /\ Presweep \in Seq(1 .. MaxSize) /\ Range(Presweep) \subseteq 1 .. MaxSize /\ 1 \in Range(Presweep)
    /\ \E S \in SUBSET (1 .. MaxSize) : Presweep = Sorted(S)
<1>1. MaxSize \in Nat /\ 1 <= MaxSize /\ 1 \in Nat \ {0}
  BY SweepAssumption DEF SweepAssumption
<1> QED
  BY <1>1, RangeGoesUp DEF Presweep

\* A size that is cut off to one of the presweep.
LEMMA TruncatedInRange ==
    ASSUME NEW size \in 1 .. MaxSize
    PROVE  Truncated(size) \in 1 .. MaxSize
<1> DEFINE S == {p \in Range(Presweep) : p <= size}
<1>1. S \in SUBSET (1 .. MaxSize) /\ 1 \in S
  BY PresweepSizes
<1>2. S \in SUBSET Nat /\ IsFiniteSet(S)
  BY <1>1, SizesFinite
<1>3. Max(S) \in S
  BY <1>1, <1>2, Extremes
<1> QED
  BY <1>1, <1>3 DEF Truncated

\* The middle of two sizes lies between them, and is the lower one only if the
\* next size is past it.
LEMMA MiddleBetween ==
    ASSUME NEW a \in 1 .. MaxSize, NEW b \in 1 .. MaxSize, a < b
    PROVE  /\ Middle(a, b) \in a .. b - 1
           /\ Middle(a, b) = a => (a + 1) * (a + 1) > a * b
<1> DEFINE S == {x \in 1 .. MaxSize : x * x <= a * b}
<1>0. MaxSize \in Nat /\ a \in Nat /\ b \in Nat /\ a >= 1
  BY SweepAssumption DEF SweepAssumption
<1>1. a * a <= a * b
  BY <1>0
<1>2. S \in SUBSET (1 .. MaxSize) /\ a \in S
  BY <1>1
<1>3. S \in SUBSET Nat /\ IsFiniteSet(S)
  BY <1>2, SizesFinite
<1>4. Max(S) \in S /\ \A x \in S : x <= Max(S)
  BY <1>2, <1>3, Extremes
<1>5. Middle(a, b) = Max(S)
  BY DEF Middle
<1>6. Max(S) < b
  <2> DEFINE m == Max(S)
  <2>1. m * m <= a * b /\ m \in Nat
    BY <1>0, <1>4
  <2>2. a * b < b * b
    BY <1>0
  <2> HIDE DEF m
  <2>3. ASSUME m >= b PROVE FALSE
    <3>1. m * m >= b * m /\ b * m >= b * b
      BY <1>0, <2>1, <2>3
    <3>2. m * m \in Nat /\ b * m \in Nat /\ b * b \in Nat /\ a * b \in Nat
      BY <1>0, <2>1
    <3> QED
      BY <2>1, <2>2, <3>1, <3>2
  <2> QED
    BY <1>0, <2>1, <2>3 DEF m
<1>7. ASSUME Max(S) = a PROVE (a + 1) * (a + 1) > a * b
  <2>1. a + 1 \notin S
    <3>1. ~(a + 1 <= a)
      BY <1>0
    <3> QED
      BY <1>4, <1>7, <3>1
  <2>2. a + 1 \in 1 .. MaxSize
    BY <1>0
  <2>3. ~((a + 1) * (a + 1) <= a * b)
    BY <2>1, <2>2
  <2>4. (a + 1) * (a + 1) \in Int /\ a * b \in Int
    BY <1>0
  <2> QED
    BY <2>3, <2>4
<1> QED
  BY <1>0, <1>2, <1>4, <1>5, <1>6, <1>7

\* What the sweep measured: a latency for some of the sizes.
Measurements == {data \in UNION {[S -> Nat \ {0}] : S \in SUBSET (1 .. MaxSize)} : DOMAIN data # {}}

\* The latencies measured are finitely many numbers.
LEMMA LatenciesFinite ==
    ASSUME NEW data \in Measurements
    PROVE  /\ DOMAIN data \in SUBSET (1 .. MaxSize) /\ DOMAIN data # {} /\ IsFiniteSet(DOMAIN data)
           /\ \A s \in DOMAIN data : data[s] \in Nat \ {0}
           /\ Range(data) \in SUBSET Nat /\ IsFiniteSet(Range(data)) /\ Range(data) # {}
           /\ Range(data) = {data[s] : s \in DOMAIN data}
<1>1. PICK S \in SUBSET (1 .. MaxSize) : data \in [S -> Nat \ {0}] /\ DOMAIN data # {}
  BY DEF Measurements
<1>2. DOMAIN data = S
  BY <1>1
<1>3. IsFiniteSet(S)
  BY SizesFinite
<1>4. Range(data) = {data[s] : s \in S}
  BY <1>2 DEF Range
<1>5. IsFiniteSet(Range(data))
  <2>1. data \in Surjection(S, Range(data))
    BY <1>1, <1>4 DEF Surjection
  <2> QED
    BY <1>3, <2>1, FS_Surjection
<1>6. Range(data) \in SUBSET Nat /\ Range(data) # {}
  <2>1. \A s \in S : data[s] \in Nat
    BY <1>1
  <2>2. S # {}
    BY <1>1, <1>2
  <2> QED
    BY <1>4, <2>1, <2>2
<1> QED
  BY <1>1, <1>2, <1>3, <1>4, <1>5, <1>6

\* No group is empty: the first holds the least latency, the others begin with
\* a latency that was measured.
LEMMA GroupsHold ==
    ASSUME NEW data \in Measurements, NEW cuts \in Clusterings(data), NEW l \in 1 .. Cardinality(cuts) + 1
    PROVE  /\ cuts \in SUBSET Nat /\ IsFiniteSet(cuts)
           /\ \E s \in DOMAIN data : ClusterOf(data[s], cuts) = l
<1> DEFINE V == Range(data)
           Upto(v) == {c \in cuts : c <= v}
<1>1. V \in SUBSET Nat /\ IsFiniteSet(V) /\ V # {} /\ V = {data[s] : s \in DOMAIN data}
  BY LatenciesFinite
<1>2. cuts \in SUBSET (V \ {Min(V)})
  BY DEF Clusterings
<1>3. cuts \in SUBSET Nat /\ IsFiniteSet(cuts)
  BY <1>1, <1>2, FS_Subset
<1>4. Cardinality(cuts) \in Nat
  BY <1>3, FS_CardinalityType
<1>5. \A v \in V : \E s \in DOMAIN data : data[s] = v
  BY <1>1
<1>6. \A v : ClusterOf(v, cuts) = 1 + Cardinality(Upto(v))
  BY DEF ClusterOf
<1> HIDE DEF V
<1>7. CASE l = 1
  <2>1. Min(V) \in V /\ \A v \in V : Min(V) <= v
    BY <1>1, Extremes
  <2>2. Upto(Min(V)) = {}
    <3>1. \A c \in cuts : c \in V /\ c # Min(V) /\ c \in Nat /\ Min(V) \in Nat /\ Min(V) <= c
      BY <1>1, <1>2, <2>1
    <3>2. \A c \in cuts : ~(c <= Min(V))
      BY <3>1
    <3> QED
      BY <3>2
  <2>3. Cardinality(Upto(Min(V))) = 0
    BY <2>2, FS_EmptySet
  <2>4. ClusterOf(Min(V), cuts) = 1
    BY <1>6, <2>3
  <2>5. PICK s \in DOMAIN data : data[s] = Min(V)
    BY <1>5, <2>1
  <2> QED
    BY <1>3, <1>7, <2>4, <2>5
<1>8. CASE l # 1
  <2> DEFINE c == Sorted(cuts)[l - 1]
             Less == {d \in cuts : d < c}
  <2>1. l - 1 \in 1 .. Cardinality(cuts)
    BY <1>4, <1>8
  <2>2. c \in cuts /\ Cardinality(Less) = (l - 1) - 1
    BY <1>3, <2>1, SortedLists
  <2>3. Upto(c) = Less \cup {c} /\ c \notin Less
    <3>1. c \in Nat /\ \A d \in cuts : d \in Nat
      BY <1>3, <2>2
    <3>2. \A d \in cuts : d <= c <=> (d < c \/ d = c)
      <4> HIDE DEF c
      <4> QED
        BY <3>1
    <3>3. c \in cuts /\ ~(c < c)
      BY <2>2, <3>1
    <3> HIDE DEF c
    <3>4. c \notin Less
      BY <3>3
    <3>5. \A d : d \in Upto(c) <=> d \in Less \cup {c}
      BY <3>2, <3>3
    <3> HIDE DEF Upto, Less
    <3> QED
      BY <3>4, <3>5
  <2>4. IsFiniteSet(Less)
    BY <1>3, FS_Subset
  <2> HIDE DEF Less, c
  <2>5. Cardinality(Upto(c)) = l - 1
    <3>1. Cardinality(Less \cup {c}) = Cardinality(Less) + 1
      BY <2>3, <2>4, FS_AddElement
    <3> HIDE DEF Upto
    <3> QED
      BY <1>4, <2>2, <2>3, <3>1
  <2>6. ClusterOf(c, cuts) = l
    <3> HIDE DEF Upto
    <3> QED
      BY <1>4, <1>6, <2>5
  <2>7. PICK s \in DOMAIN data : data[s] = c
    BY <1>2, <1>5, <2>2
  <2> QED
    BY <1>3, <2>6, <2>7
<1> QED
  BY <1>7, <1>8

\* There is a k-th smallest latency, whatever latencies are equal.
LEMMA NthLatency ==
    ASSUME NEW data \in Measurements, NEW members \in SUBSET DOMAIN data, NEW k \in 1 .. Cardinality(members)
    PROVE  \E v \in {data[s] : s \in members} :
               /\ Cardinality({s \in members : data[s] < v}) < k
               /\ Cardinality({s \in members : data[s] <= v}) >= k
<1> DEFINE V == {data[s] : s \in members}
           Before(v) == {s \in members : data[s] < v}
           Upto(v) == {s \in members : data[s] <= v}
           T == {v \in V : Cardinality(Upto(v)) >= k}
<1>1. IsFiniteSet(members) /\ \A s \in members : data[s] \in Nat
  BY LatenciesFinite, FS_Subset
<1>2. Cardinality(members) \in Nat /\ k \in Nat /\ k >= 1
  BY <1>1, FS_CardinalityType
<1>3. V \in SUBSET Nat
  BY <1>1
<1>4. \A W \in SUBSET members : IsFiniteSet(W) /\ IsFiniteSet({data[s] : s \in W})
  <2> SUFFICES ASSUME NEW W \in SUBSET members PROVE IsFiniteSet(W) /\ IsFiniteSet({data[s] : s \in W})
    OBVIOUS
  <2>1. IsFiniteSet(W)
    BY <1>1, FS_Subset
  <2>2. [s \in W |-> data[s]] \in Surjection(W, {data[s] : s \in W})
    BY DEF Surjection
  <2> QED
    BY <2>1, <2>2, FS_Surjection
<1>5. members # {}
  BY <1>2, FS_EmptySet
<1>6. Max(V) \in T
  <2>1. IsFiniteSet(V) /\ V # {}
    BY <1>4, <1>5
  <2>2. Max(V) \in V /\ \A v \in V : v <= Max(V)
    BY <1>3, <2>1, Extremes
  <2>3. Upto(Max(V)) = members
    BY <2>2
  <2> HIDE DEF Upto, V
  <2> QED
    BY <1>2, <2>2, <2>3
<1> DEFINE v == Min(T)
<1>7. v \in T /\ \A w \in T : v <= w
  <2>1. T \in SUBSET Nat /\ T # {}
    BY <1>3, <1>6
  <2> HIDE DEF T
  <2> QED
    BY <2>1, Extremes
<1>8. v \in V /\ v \in Nat /\ Cardinality(Upto(v)) >= k
  BY <1>3, <1>7
<1> HIDE DEF v
<1>9. Cardinality(Before(v)) < k
  <2>1. Before(v) \in SUBSET members
    OBVIOUS
  <2>2. CASE Before(v) = {}
    BY <1>2, <2>2, FS_EmptySet
  <2>3. CASE Before(v) # {}
    <3> DEFINE W == {data[s] : s \in Before(v)}
               w == Max(W)
    <3>1. W \in SUBSET Nat /\ IsFiniteSet(W) /\ W # {} /\ W \in SUBSET V
      BY <1>1, <1>4, <2>1, <2>3
    <3>2. w \in W /\ \A x \in W : x <= w
      <4> HIDE DEF W
      <4> QED
        BY <3>1, Extremes
    <3>3. w \in V /\ w \in Nat /\ w < v
      BY <3>1, <3>2
    <3>4. \A s \in Before(v) : data[s] <= w
      BY <3>2
    <3> HIDE DEF w
    <3>5. \A s \in members : data[s] <= w <=> data[s] < v
      <4> SUFFICES ASSUME NEW s \in members PROVE data[s] <= w <=> data[s] < v
        OBVIOUS
      <4>1. data[s] \in Nat
        BY <1>1
      <4>2. data[s] <= w => data[s] < v
        BY <1>8, <3>3, <4>1
      <4>3. data[s] < v => data[s] <= w
        BY <3>4
      <4> QED
        BY <4>2, <4>3
    <3>6. Upto(w) = Before(v)
      BY <3>5
    <3>7. ~(v <= w)
      BY <1>8, <3>3
    <3>8. ~(Cardinality(Upto(w)) >= k)
      BY <1>7, <3>3, <3>7
    <3>9. Cardinality(Before(v)) \in Nat
      BY <1>4, <2>1, FS_CardinalityType
    <3> HIDE DEF Upto, Before
    <3> QED
      BY <1>2, <3>6, <3>8, <3>9
  <2> QED
    BY <2>2, <2>3
<1> QED
  BY <1>8, <1>9

\* The median of a group is made of two of its latencies.
LEMMA MedianMeasured ==
    ASSUME NEW data \in Measurements, NEW cuts \in Clusterings(data), NEW l \in 1 .. Cardinality(cuts) + 1
    PROVE  \E s, t \in DOMAIN data :
               /\ SquaredMedian(data, cuts, l) = data[s] * data[t]
               /\ ClusterOf(data[s], cuts) = l /\ ClusterOf(data[t], cuts) = l
<1> DEFINE members == {s \in DOMAIN data : ClusterOf(data[s], cuts) = l}
           n == Cardinality(members)
           V == {data[s] : s \in members}
           Is(v, k) == /\ Cardinality({s \in members : data[s] < v}) < k
                       /\ Cardinality({s \in members : data[s] <= v}) >= k
           nth(k) == CHOOSE v \in V : Is(v, k)
<1>1. members \in SUBSET DOMAIN data /\ members # {}
  BY GroupsHold
<1>2. IsFiniteSet(members)
  BY <1>1, LatenciesFinite, FS_Subset
<1>3. n \in Nat /\ n # 0
  <2> HIDE DEF members
  <2> QED
    BY <1>1, <1>2, FS_CardinalityType, FS_EmptySet
<1>4. ASSUME NEW k \in 1 .. n PROVE nth(k) \in V
  <2>1. \E v \in V : Is(v, k)
    <3> HIDE DEF members
    <3> QED
      BY <1>1, NthLatency
  <2> HIDE DEF Is, V
  <2> QED
    BY <2>1
<1>5. SquaredMedian(data, cuts, l) = nth((n + 1) \div 2) * nth((n \div 2) + 1)
  BY DEF SquaredMedian
<1> HIDE DEF nth, n
<1>6. (n + 1) \div 2 \in 1 .. n /\ (n \div 2) + 1 \in 1 .. n
  BY <1>3
<1>7. nth((n + 1) \div 2) \in V /\ nth((n \div 2) + 1) \in V
  BY <1>4, <1>6
<1>8. PICK s \in members, t \in members : nth((n + 1) \div 2) = data[s] /\ nth((n \div 2) + 1) = data[t]
  BY <1>7
<1> QED
  BY <1>5, <1>8

\* What the sizes around a group are: sizes that were measured, or past the range.
EdgeSizes(data) ==
    [LB_size_max_less : {0} \cup DOMAIN data, LB_size_min_large : DOMAIN data,
     UB_size_max_less : DOMAIN data, UB_size_min_large : DOMAIN data \cup {MaxSize + 1}]

\* Some size is not below the median of a group, and some not above it.
LEMMA EdgesOfGroup ==
    ASSUME NEW data \in Measurements, NEW cuts \in Clusterings(data), NEW l \in 1 .. Cardinality(cuts) + 1
    PROVE  Edges(data, SquaredMedian(data, cuts, l)) \in EdgeSizes(data)
<1> DEFINE m == SquaredMedian(data, cuts, l)
           below == {s \in DOMAIN data : Below(data, s, m)}
           above == {s \in DOMAIN data : Above(data, s, m)}
           e == Edges(data, m)
<1>1. /\ DOMAIN data \in SUBSET (1 .. MaxSize)
      /\ \A s \in DOMAIN data : data[s] \in Nat \ {0}
  BY LatenciesFinite
<1>2. PICK s \in DOMAIN data, t \in DOMAIN data : m = data[s] * data[t]
  BY MedianMeasured
<1> HIDE DEF m
<1>3. \E u, w \in DOMAIN data : u \notin below /\ w \notin above
  <2> DEFINE a == data[s]
             b == data[t]
  <2>1. a \in Nat \ {0} /\ b \in Nat \ {0} /\ m = a * b
    BY <1>1, <1>2
  <2>2. Below(data, s, m) <=> 10000 * a * a < 9025 * m
    BY DEF Below
  <2>3. Below(data, t, m) <=> 10000 * b * b < 9025 * m
    BY DEF Below
  <2>4. Above(data, s, m) <=> 10000 * a * a > 11025 * m
    BY DEF Above
  <2>5. Above(data, t, m) <=> 10000 * b * b > 11025 * m
    BY DEF Above
  <2> HIDE DEF a, b
  <2>6. CASE a <= b
    <3>1. a * b <= b * b /\ a * a <= a * b /\ a * a \in Nat /\ a * b \in Nat /\ b * b \in Nat
      BY <2>1, <2>6
    <3>2. 10000 * a * a = 10000 * (a * a) /\ 10000 * b * b = 10000 * (b * b)
      BY <2>1
    <3>3. ~Below(data, t, m) /\ ~Above(data, s, m)
      BY <2>1, <2>3, <2>4, <3>1, <3>2
    <3> QED
      BY <3>3
  <2>7. CASE ~(a <= b)
    <3>1. a * b <= a * a /\ b * b <= a * b /\ a * a \in Nat /\ a * b \in Nat /\ b * b \in Nat
      BY <2>1, <2>7
    <3>2. 10000 * a * a = 10000 * (a * a) /\ 10000 * b * b = 10000 * (b * b)
      BY <2>1
    <3>3. ~Below(data, s, m) /\ ~Above(data, t, m)
      BY <2>1, <2>2, <2>5, <3>1, <3>2
    <3> QED
      BY <3>3
  <2> QED
    BY <2>6, <2>7
<1>4. e = [LB_size_max_less |-> IF below = {} THEN 0 ELSE Max(below),
           LB_size_min_large |-> Min(DOMAIN data \ below),
           UB_size_max_less |-> Max(DOMAIN data \ above),
           UB_size_min_large |-> IF above = {} THEN MaxSize + 1 ELSE Min(above)]
  BY DEF Edges
<1>5. /\ below \in SUBSET DOMAIN data /\ above \in SUBSET DOMAIN data
      /\ DOMAIN data \ below # {} /\ DOMAIN data \ above # {}
  BY <1>3
<1> HIDE DEF e, below, above
<1>6. ASSUME NEW S \in SUBSET DOMAIN data, S # {}
      PROVE  Max(S) \in DOMAIN data /\ Min(S) \in DOMAIN data
  <2>1. S \in SUBSET (1 .. MaxSize)
    BY <1>1
  <2> QED
    BY <1>6, <2>1, SizesFinite, Extremes
<1>7. Min(DOMAIN data \ below) \in DOMAIN data /\ Max(DOMAIN data \ above) \in DOMAIN data
  BY <1>5, <1>6
<1>8. /\ below # {} => Max(below) \in DOMAIN data
      /\ above # {} => Min(above) \in DOMAIN data
  BY <1>5, <1>6
<1> QED
  BY <1>4, <1>7, <1>8 DEF e, m, EdgeSizes

\* The greater of two numbers, and the lesser.
LEMMA OfTwo ==
    ASSUME NEW a \in Nat, NEW b \in Nat
    PROVE  /\ Max({a, b}) = IF a <= b THEN b ELSE a
           /\ Min({a, b}) = IF a <= b THEN a ELSE b
<1> DEFINE S == {a, b}
<1>1. S \in SUBSET Nat /\ IsFiniteSet(S) /\ S # {}
  <2>1. IsFiniteSet({a})
    BY FS_Singleton
  <2>2. IsFiniteSet({a} \cup {b})
    BY <2>1, FS_AddElement
  <2>3. {a} \cup {b} = {a, b}
    OBVIOUS
  <2> QED
    BY <2>2, <2>3
<1>2. /\ Max(S) \in S /\ \A x \in S : x <= Max(S)
      /\ Min(S) \in S /\ \A x \in S : Min(S) <= x
  BY <1>1, Extremes
<1>3. Max(S) \in {a, b} /\ a <= Max(S) /\ b <= Max(S) /\ Min(S) \in {a, b} /\ Min(S) <= a /\ Min(S) <= b
  BY <1>2
<1> HIDE DEF S
<1>4. Max(S) = (IF a <= b THEN b ELSE a) /\ Min(S) = (IF a <= b THEN a ELSE b)
  BY <1>3
<1> QED
  BY <1>4 DEF S

\* Bounds only widen, and both are known afterwards.
LEMMA BoundsWidened ==
    ASSUME NEW data \in Measurements, NEW e \in EdgeSizes(data), NEW old \in LevelBounds
    PROVE  LET b == Widened(old, e)
           IN /\ b \in [LB : 1 .. MaxSize, UB : 1 .. MaxSize]
              /\ b.LB <= old.LB /\ b.UB >= old.UB
              /\ b \in LevelBounds /\ b # [LB |-> MaxSize + 1, UB |-> 0]
<1> DEFINE lb == Max({e.LB_size_max_less, e.LB_size_min_large})
           ub == Min({e.UB_size_max_less, e.UB_size_min_large})
           b == Widened(old, e)
<1>0. MaxSize \in Nat
  BY SweepAssumption DEF SweepAssumption
<1>1. DOMAIN data \in SUBSET (1 .. MaxSize)
  BY LatenciesFinite
<1>2. /\ e.LB_size_max_less \in {0} \cup DOMAIN data /\ e.LB_size_min_large \in DOMAIN data
      /\ e.UB_size_max_less \in DOMAIN data /\ e.UB_size_min_large \in DOMAIN data \cup {MaxSize + 1}
  BY DEF EdgeSizes
<1>3. /\ e.LB_size_max_less \in 0 .. MaxSize /\ e.LB_size_min_large \in 1 .. MaxSize
      /\ e.UB_size_max_less \in 1 .. MaxSize /\ e.UB_size_min_large \in 1 .. MaxSize + 1
  BY <1>0, <1>1, <1>2
<1>4. lb \in 1 .. MaxSize
  <2>1. lb = IF e.LB_size_max_less <= e.LB_size_min_large THEN e.LB_size_min_large ELSE e.LB_size_max_less
    BY <1>0, <1>3, OfTwo
  <2> HIDE DEF lb
  <2> QED
    BY <1>0, <1>3, <2>1
<1>5. ub \in 1 .. MaxSize
  <2>1. ub = IF e.UB_size_max_less <= e.UB_size_min_large THEN e.UB_size_max_less ELSE e.UB_size_min_large
    BY <1>0, <1>3, OfTwo
  <2> HIDE DEF ub
  <2> QED
    BY <1>0, <1>3, <2>1
<1>6. b = [LB |-> IF lb < old.LB THEN lb ELSE old.LB, UB |-> IF ub > old.UB THEN ub ELSE old.UB]
  BY DEF Widened
<1>7. old.LB \in 1 .. MaxSize + 1 /\ old.UB \in 0 .. MaxSize /\ (old.LB = MaxSize + 1 <=> old.UB = 0)
  BY <1>0 DEF LevelBounds
<1> HIDE DEF lb, ub, b
<1>8. b.LB \in 1 .. MaxSize /\ b.LB <= old.LB /\ b.UB \in 1 .. MaxSize /\ b.UB >= old.UB
  BY <1>0, <1>4, <1>5, <1>6, <1>7
<1>9. b \in [LB : 1 .. MaxSize, UB : 1 .. MaxSize]
  BY <1>6, <1>8
<1>10. b # [LB |-> MaxSize + 1, UB |-> 0]
  BY <1>0, <1>8
<1> QED
  BY <1>8, <1>9, <1>10 DEF b, LevelBounds

\* The middle of two sizes is a size.
LEMMA MiddleInRange ==
    ASSUME NEW a \in 1 .. MaxSize, NEW b \in 1 .. MaxSize
    PROVE  Middle(a, b) \in 1 .. MaxSize
<1> DEFINE S == {x \in 1 .. MaxSize : x * x <= a * b}
<1>0. MaxSize \in Nat /\ a \in Nat /\ b \in Nat /\ a >= 1 /\ b >= 1
  BY SweepAssumption DEF SweepAssumption
<1>1. 1 * 1 <= a * b
  <2>1. a * b >= a
    BY <1>0
  <2> QED
    BY <1>0, <2>1
<1>2. S \in SUBSET (1 .. MaxSize) /\ 1 \in S
  BY <1>0, <1>1
<1>3. S \in SUBSET Nat /\ IsFiniteSet(S)
  BY <1>2, SizesFinite
<1>4. Max(S) \in S
  BY <1>2, <1>3, Extremes
<1> QED
  BY <1>4 DEF Middle

\* There are as many groups as levels, or fewer where there are fewer latencies.
LEMMA GroupCount ==
    ASSUME NEW data \in Measurements, NEW cuts \in Clusterings(data)
    PROVE  /\ Cardinality(cuts) + 1 = IF Cardinality(Range(data)) < Len(Level) THEN Cardinality(Range(data)) ELSE Len(Level)
           /\ 1 .. Cardinality(cuts) + 1 \subseteq LevelIndex
           /\ LevelIndex = 1 .. Len(Level) /\ Len(Level) \in Nat \ {0}
<1>1. Level \in Seq(STRING) /\ Level # <<>>
  BY SweepAssumption DEF SweepAssumption
<1>2. LevelIndex = 1 .. Len(Level) /\ Len(Level) \in Nat \ {0}
  BY <1>1, LenProperties, EmptySeq DEF LevelIndex
<1>3. Cardinality(Range(data)) \in Nat \ {0}
  BY LatenciesFinite, FS_CardinalityType, FS_EmptySet
<1> DEFINE k == IF Cardinality(Range(data)) < Len(Level) THEN Cardinality(Range(data)) ELSE Len(Level)
<1>4. Cardinality(cuts) = k - 1
  BY DEF Clusterings
<1> QED
  BY <1>2, <1>3, <1>4

\* Sizes in order.
LEMMA SortedSizes ==
    ASSUME NEW S \in SUBSET (1 .. MaxSize)
    PROVE  Sorted(S) \in Seq(1 .. MaxSize) /\ Range(Sorted(S)) = S
<1>1. Sorted(S) \in Seq(S) /\ Range(Sorted(S)) = S
  BY SizesFinite, SortedLists
<1> DEFINE T == 1 .. MaxSize
           q == Sorted(S)
<1>2. S \subseteq T /\ q \in Seq(S)
  BY <1>1
<1> HIDE DEF T, q
<1>3. q = [k \in 1 .. Len(q) |-> q[k]] /\ Len(q) \in Nat /\ \A k \in 1 .. Len(q) : q[k] \in S
  BY <1>2
<1>4. q \in [1 .. Len(q) -> T]
  BY <1>2, <1>3
<1>5. q \in Seq(T)
  BY <1>3, <1>4, SeqDef
<1> QED
  BY <1>1, <1>5 DEF T, q

\* What a round makes of the bounds, and the sizes it asks for.
LEMMA RoundTyped ==
    ASSUME NEW data \in Measurements, NEW cuts \in Clusterings(data), NEW old \in [LevelIndex -> LevelBounds]
    PROVE  LET next == ComputeNewDataSizesCpm(data, old, cuts)
           IN /\ next.bounds \in [LevelIndex -> LevelBounds]
              /\ next.sizes \in SUBSET (1 .. MaxSize)
              /\ \A l \in LevelIndex : next.bounds[l].LB <= old[l].LB /\ next.bounds[l].UB >= old[l].UB
<1> DEFINE groups == 1 .. (Cardinality(cuts) + 1)
           edges == [l \in groups |-> Edges(data, SquaredMedian(data, cuts, l))]
           new == [l \in LevelIndex |-> IF l \in groups THEN Widened(old[l], edges[l]) ELSE old[l]]
           asked(l) == LeftNewSize(edges[l], new[l]) \cup RightNewSize(edges[l], new[l])
           sizes == UNION {asked(l) : l \in groups}
           next == ComputeNewDataSizesCpm(data, old, cuts)
<1>1. groups \subseteq LevelIndex
  BY GroupCount
<1>2. ASSUME NEW l \in groups PROVE edges[l] \in EdgeSizes(data)
  BY EdgesOfGroup
<1>3. ASSUME NEW l \in LevelIndex
      PROVE  /\ new[l] \in LevelBounds
             /\ new[l].LB <= old[l].LB /\ new[l].UB >= old[l].UB
  <2>1. old[l] \in LevelBounds
    OBVIOUS
  <2>2. CASE l \in groups
    <3>1. new[l] = Widened(old[l], edges[l]) /\ edges[l] \in EdgeSizes(data)
      BY <1>2, <2>2
    <3> HIDE DEF new, edges
    <3> QED
      BY <2>1, <3>1, BoundsWidened
  <2>3. CASE l \notin groups
    <3>1. new[l] = old[l]
      BY <2>3
    <3>2. old[l].LB \in Int /\ old[l].UB \in Int
      BY <2>1, SweepAssumption DEF LevelBounds, SweepAssumption
    <3> HIDE DEF new
    <3> QED
      BY <2>1, <3>1, <3>2
  <2> QED
    BY <2>2, <2>3
<1>4. ASSUME NEW l \in groups PROVE asked(l) \subseteq 1 .. MaxSize
  <2> DEFINE e == edges[l]
             b == new[l]
  <2>1. e \in EdgeSizes(data)
    BY <1>2
  <2>2. DOMAIN data \in SUBSET (1 .. MaxSize)
    BY LatenciesFinite
  <2> HIDE DEF e, b
  <2>3. /\ e.LB_size_max_less # 0 => e.LB_size_max_less \in 1 .. MaxSize
        /\ e.LB_size_min_large \in 1 .. MaxSize /\ e.UB_size_max_less \in 1 .. MaxSize
        /\ e.UB_size_min_large # MaxSize + 1 => e.UB_size_min_large \in 1 .. MaxSize
    BY <2>1, <2>2 DEF EdgeSizes
  <2>4. LeftNewSize(e, b) \subseteq 1 .. MaxSize
    BY <2>3, MiddleInRange DEF LeftNewSize
  <2>5. RightNewSize(e, b) \subseteq 1 .. MaxSize
    BY <2>3, MiddleInRange DEF RightNewSize
  <2> QED
    BY <2>4, <2>5 DEF e, b
<1>5. next = [bounds |-> new, sizes |-> Unmeasured(sizes, data)]
  BY DEF ComputeNewDataSizesCpm
<1> HIDE DEF next, new, asked
<1>6. Unmeasured(sizes, data) \in SUBSET (1 .. MaxSize)
  BY <1>4 DEF Unmeasured
<1>7. new \in [LevelIndex -> LevelBounds]
  <2>1. new = [l \in LevelIndex |-> new[l]]
    BY DEF new
  <2> QED
    BY <1>3, <2>1
<1> HIDE DEF sizes
<1>8. next.bounds = new /\ next.sizes = Unmeasured(sizes, data)
  BY <1>5
<1>9. /\ next.bounds \in [LevelIndex -> LevelBounds]
      /\ next.sizes \in SUBSET (1 .. MaxSize)
      /\ \A l \in LevelIndex : next.bounds[l].LB <= old[l].LB /\ next.bounds[l].UB >= old[l].UB
  BY <1>3, <1>6, <1>7, <1>8
<1> QED
  BY <1>9 DEF next

\* The machine that is measured shows some latency for each size.
LEMMA LatencyTyped ==
    ASSUME MeasuredOK
    PROVE  \A s \in 1 .. MaxSize : latency[s] # {} /\ latency[s] \subseteq Nat \ {0}
BY SweepAssumption DEF MeasuredOK, SweepAssumption

\* After the presweep there is something to go by.
LEMMA SweepMeasurements ==
    ASSUME MeasuredOK, phase \in {"refine", "precheck", "spots", "summary"}
    PROVE  df \in Measurements
<1>1. DOMAIN df \in SUBSET (1 .. MaxSize) /\ df = [s \in DOMAIN df |-> df[s]]
  BY DEF MeasuredOK
<1>2. \A s \in DOMAIN df : df[s] \in Nat \ {0}
  BY <1>1, LatencyTyped DEF MeasuredOK
<1>3. df \in [DOMAIN df -> Nat \ {0}]
  BY <1>1, <1>2
<1>4. DOMAIN df # {}
  BY PresweepSizes DEF MeasuredOK
<1> DEFINE D == DOMAIN df
<1>5. D \in SUBSET (1 .. MaxSize) /\ df \in [D -> Nat \ {0}]
  BY <1>1, <1>3
<1> HIDE DEF D
<1>6. df \in UNION {[S -> Nat \ {0}] : S \in SUBSET (1 .. MaxSize)}
  BY <1>5
<1> QED
  BY <1>4, <1>6 DEF Measurements

\* A round of refinement.
LEMMA RefineStep ==
    ASSUME MeasuredOK, SpotsOK, Refine
    PROVE  /\ bounds' \in [LevelIndex -> LevelBounds]
           /\ todo' \in Seq(1 .. MaxSize)
           /\ \A l \in LevelIndex : bounds'[l].LB <= bounds[l].LB /\ bounds'[l].UB >= bounds[l].UB
           /\ phase' \in {"precheck", "bandwidth", "spots"}
           /\ phase' = "spots" => \A l \in LevelIndex : bounds'[l] # NoBounds[l]
<1>1. phase = "refine" /\ df \in Measurements /\ bounds \in [LevelIndex -> LevelBounds]
  BY SweepMeasurements DEF Refine, SpotsOK
<1>2. PICK cuts \in Clusterings(df) :
          LET next == ComputeNewDataSizesCpm(df, bounds, cuts)
          IN /\ bounds' = next.bounds
             /\ todo' = Sorted(next.sizes)
             /\ phase' = IF next.sizes # {} THEN "precheck"
                         ELSE IF \E l \in LevelIndex : next.bounds[l] = NoBounds[l] THEN "bandwidth"
                         ELSE "spots"
  BY DEF Refine
<1> DEFINE next == ComputeNewDataSizesCpm(df, bounds, cuts)
<1>3. /\ bounds' = next.bounds /\ todo' = Sorted(next.sizes)
      /\ phase' = IF next.sizes # {} THEN "precheck"
                  ELSE IF \E l \in LevelIndex : next.bounds[l] = NoBounds[l] THEN "bandwidth"
                  ELSE "spots"
  BY <1>2
<1>4. /\ next.bounds \in [LevelIndex -> LevelBounds]
      /\ next.sizes \in SUBSET (1 .. MaxSize)
      /\ \A l \in LevelIndex : next.bounds[l].LB <= bounds[l].LB /\ next.bounds[l].UB >= bounds[l].UB
  BY <1>1, RoundTyped
<1> HIDE DEF next
<1>5. Sorted(next.sizes) \in Seq(1 .. MaxSize)
  BY <1>4, SortedSizes
<1> QED
  BY <1>3, <1>4, <1>5

----------------------------------------------------------------------------
(* CacheSweep: every step keeps the measurements and the bounds *)

\* The next size is measured.
LEMMA OneStepKeeps ==
    ASSUME MeasuredOK, SpotsOK, OneStep
    PROVE  MeasuredOK' /\ SpotsOK'
<1>1. /\ phase \in {"presweep", "precheck"} /\ todo # <<>> /\ todo \in Seq(1 .. MaxSize)
      /\ todo' = Tail(todo) /\ phase' \in {phase, "refine"} /\ (phase = "presweep" => phase' = phase)
      /\ UNCHANGED <<latency, bounds, spots, files, table, faults>>
  BY DEF OneStep, MeasuredOK
<1>2. PICK lat \in latency[Head(todo)] :
          df' = [s \in DOMAIN df \cup {Head(todo)} |-> IF s = Head(todo) THEN lat ELSE df[s]]
  BY DEF OneStep
<1>3. /\ Head(todo) \in 1 .. MaxSize /\ Tail(todo) \in Seq(1 .. MaxSize)
      /\ Range(todo) = {Head(todo)} \cup Range(Tail(todo))
  <2> DEFINE T == 1 .. MaxSize
  <2>1. todo \in Seq(T) /\ todo # <<>>
    BY <1>1
  <2> HIDE DEF T
  <2>2. Head(todo) \in T /\ Tail(todo) \in Seq(T)
    BY <2>1
  <2>3. Range(todo) = {Head(todo)} \cup Range(Tail(todo))
    BY <2>1, FirstAndRest
  <2> QED
    BY <2>2, <2>3 DEF T
<1>4. DOMAIN df' = DOMAIN df \cup {Head(todo)}
  BY <1>2
<1>5. df' = [s \in DOMAIN df' |-> df'[s]] /\ \A s \in DOMAIN df' : df'[s] \in latency[s]
  BY <1>2, <1>4 DEF MeasuredOK
<1>6. MeasuredOK'
  BY <1>1, <1>3, <1>4, <1>5 DEF MeasuredOK
<1>7. SpotsOK'
  <2>1. (phase' = "presweep" => phase = "presweep") /\ phase' \in {"presweep", "precheck", "refine"}
    BY <1>1
  <2> QED
    BY <1>1, <2>1 DEF SpotsOK
<1> QED
  BY <1>6, <1>7

\* The sweep begins, with the presweep on disk if there is one.
LEMMA StartKeeps ==
    ASSUME MeasuredOK, SpotsOK, FilesOK, StartLatencySweep
    PROVE  MeasuredOK' /\ SpotsOK'
<1>1. phase = "start" /\ df = NoData /\ bounds = NoBounds /\ spots = <<>> /\ UNCHANGED <<latency, bounds, spots, files, table, faults>>
  BY DEF StartLatencySweep, MeasuredOK, SpotsOK
<1>2. Presweep \in Seq(1 .. MaxSize) /\ Range(Presweep) \subseteq 1 .. MaxSize
  BY PresweepSizes
<1>3. CASE files.presweep = None
  <2>1. todo' = Presweep /\ phase' = "presweep" /\ df' = df
    BY <1>3 DEF StartLatencySweep
  <2>2. DOMAIN df = {}
    BY <1>1 DEF NoData
  <2> QED
    BY <1>1, <1>2, <2>1, <2>2 DEF MeasuredOK, SpotsOK
<1>4. CASE files.presweep # None
  <2>1. df' = files.presweep /\ phase' = "refine" /\ todo' = todo
    BY <1>4 DEF StartLatencySweep
  <2>2. /\ files.presweep = [s \in Range(Presweep) |-> files.presweep[s]]
        /\ \A s \in Range(Presweep) : files.presweep[s] \in latency[s]
    BY <1>4 DEF FilesOK
  <2>3. DOMAIN df' = Range(Presweep) /\ df' = [s \in Range(Presweep) |-> df'[s]]
    BY <2>1, <2>2
  <2> QED
    BY <1>1, <1>2, <2>1, <2>2, <2>3 DEF MeasuredOK, SpotsOK
<1> QED
  BY <1>3, <1>4

\* The size in the middle of a plateau is measured once more.
LEMMA SweetSpotKeeps ==
    ASSUME MeasuredOK, SpotsOK, SweetSpot
    PROVE  MeasuredOK' /\ SpotsOK'
<1> DEFINE l == Len(spots) + 1
           lb == Truncated(bounds[l].LB)
           ub == Truncated(bounds[l].UB)
           size == (ub + lb) \div 2
<1>1. /\ phase = "spots" /\ Len(spots) < Len(Level) /\ spots \in Seq(Spot)
      /\ UNCHANGED <<latency, phase, df, todo, bounds, files, table, faults>>
  BY DEF SweetSpot, SpotsOK
<1>2. PICK lat \in latency[size] : spots' = Append(spots, [LB |-> lb, UB |-> ub, size |-> size, lat |-> lat])
  BY DEF SweetSpot
<1>3. l \in LevelIndex
  <2>1. Level \in Seq(STRING) /\ Len(Level) \in Nat /\ Len(spots) \in Nat
    BY <1>1, SweepAssumption, LenProperties DEF SweepAssumption
  <2> QED
    BY <1>1, <2>1 DEF LevelIndex
<1>4. bounds[l] \in [LB : 1 .. MaxSize, UB : 1 .. MaxSize]
  <2>1. bounds[l] \in LevelBounds /\ bounds[l] # NoBounds[l]
    BY <1>1, <1>3 DEF SpotsOK
  <2>2. NoBounds[l] = [LB |-> MaxSize + 1, UB |-> 0]
    BY <1>3 DEF NoBounds
  <2> HIDE DEF l
  <2> QED
    BY <2>1, <2>2 DEF LevelBounds
<1>5. lb \in 1 .. MaxSize /\ ub \in 1 .. MaxSize
  <2>1. bounds[l].LB \in 1 .. MaxSize /\ bounds[l].UB \in 1 .. MaxSize
    BY <1>4
  <2> QED
    BY <2>1, TruncatedInRange
<1> HIDE DEF lb, ub
<1>6. size \in 1 .. MaxSize
  BY <1>5, SweepAssumption DEF SweepAssumption
<1>7. lat \in Nat
  BY <1>2, <1>6, LatencyTyped
<1> HIDE DEF size
<1>8. [LB |-> lb, UB |-> ub, size |-> size, lat |-> lat] \in Spot
  BY <1>5, <1>6, <1>7 DEF Spot
<1>9. spots' \in Seq(Spot) /\ Len(spots') = Len(spots) + 1
  BY <1>1, <1>2, <1>8, AppendProperties
<1>10. Len(spots') <= Len(Level)
  <2>1. Len(Level) \in Nat /\ Len(spots) \in Nat
    BY <1>1, SweepAssumption, LenProperties DEF SweepAssumption
  <2> QED
    BY <1>1, <1>9, <2>1
<1>11. MeasuredOK'
  BY <1>1 DEF MeasuredOK
<1> QED
  BY <1>1, <1>9, <1>10, <1>11 DEF SpotsOK

\* Every step of the sweeps keeps the measurements and the bounds.
LEMMA MeasuredKept ==
    ASSUME MeasuredOK, SpotsOK, FilesOK, [SweepNext]_sweepVars
    PROVE  MeasuredOK' /\ SpotsOK'
<1> USE DEF sweepVars, progress
<1>0. /\ NoData = [s \in DOMAIN NoData |-> NoData[s]] /\ DOMAIN NoData = {}
      /\ <<>> \in Seq(1 .. MaxSize) /\ <<>> \in Seq(Spot) /\ Len(<<>>) = 0 /\ Len(Level) \in Nat
      /\ NoBounds \in [LevelIndex -> LevelBounds]
  <2>1. NoBounds \in [LevelIndex -> LevelBounds]
    BY DEF NoBounds, LevelBounds
  <2>2. Len(Level) \in Nat
    BY SweepAssumption, LenProperties DEF SweepAssumption
  <2> QED
    BY <2>1, <2>2 DEF NoData
<1>1. CASE StartLatencySweep
  BY <1>1, StartKeeps
<1>2. CASE OneStep
  BY <1>2, OneStepKeeps
<1>3. CASE WritePresweep
  <2>1. /\ phase = "presweep" /\ todo = <<>> /\ phase' = "refine"
        /\ UNCHANGED <<latency, df, todo, bounds, spots, table, faults>>
    BY <1>3 DEF WritePresweep
  <2>2. Range(todo) = {}
    BY <2>1 DEF Range
  <2>3. Range(Presweep) \subseteq DOMAIN df
    BY <2>1, <2>2 DEF MeasuredOK
  <2> QED
    BY <2>1, <2>3 DEF MeasuredOK, SpotsOK
<1>4. CASE Refine
  <2>1. UNCHANGED <<latency, df, spots, files, table, faults>> /\ phase = "refine"
    BY <1>4 DEF Refine
  <2> QED
    BY <1>4, <2>1, RefineStep DEF MeasuredOK, SpotsOK
<1>5. CASE SweetSpot
  BY <1>5, SweetSpotKeeps
<1>6. CASE WriteResults
  <2>1. /\ phase = "spots" /\ Len(spots) = Len(Level) /\ phase' = "summary"
        /\ UNCHANGED <<latency, df, todo, bounds, spots, table, faults>>
    BY <1>6 DEF WriteResults
  <2> QED
    BY <2>1 DEF MeasuredOK, SpotsOK
<1>7. CASE WriteSummary
  <2>1. phase = "summary" /\ phase' = "bandwidth" /\ UNCHANGED <<latency, df, todo, bounds, spots, faults>>
    BY <1>7 DEF WriteSummary
  <2> QED
    BY <2>1 DEF MeasuredOK, SpotsOK
<1>8. CASE BandwidthSweep
  <2>1. /\ phase' = "end" /\ df' = NoData /\ todo' = <<>> /\ bounds' = NoBounds /\ spots' = <<>>
        /\ UNCHANGED <<latency, files, faults>>
    BY <1>8 DEF BandwidthSweep
  <2> QED
    BY <1>0, <2>1 DEF MeasuredOK, SpotsOK
<1>9. CASE StepRaises
  <2>1. /\ phase' = "bandwidth" /\ faults < MaxFaults /\ faults' = faults + 1
        /\ UNCHANGED <<latency, df, todo, bounds, spots, files, table>>
    BY <1>9 DEF StepRaises
  <2>2. faults' \in 0 .. MaxFaults
    BY <2>1, SweepAssumption DEF SweepAssumption, MeasuredOK
  <2> QED
    BY <2>1, <2>2 DEF MeasuredOK, SpotsOK
<1>10. CASE KillAndResume
  <2>1. /\ phase' = "start" /\ df' = NoData /\ todo' = <<>> /\ bounds' = NoBounds /\ spots' = <<>>
        /\ faults < MaxFaults /\ faults' = faults + 1 /\ UNCHANGED <<latency, files, table>>
    BY <1>10 DEF KillAndResume
  <2>2. faults' \in 0 .. MaxFaults
    BY <2>1, SweepAssumption DEF SweepAssumption, MeasuredOK
  <2> QED
    BY <1>0, <2>1, <2>2 DEF MeasuredOK, SpotsOK
<1>11. CASE UNCHANGED sweepVars
  BY <1>11 DEF MeasuredOK, SpotsOK
<1> QED
  BY <1>1, <1>2, <1>3, <1>4, <1>5, <1>6, <1>7, <1>8, <1>9, <1>10, <1>11 DEF SweepNext, Step

----------------------------------------------------------------------------
(* CacheSweep: the rows of bandwidth-sweep and the files *)

\* A sorted list is a function, and its places are those of the set.
LEMMA SortedPlaces ==
    ASSUME NEW S \in SUBSET Nat, IsFiniteSet(S)
    PROVE  /\ DOMAIN Sorted(S) = 1 .. Cardinality(S) /\ Cardinality(S) \in Nat
           /\ \A k \in 1 .. Cardinality(S) : Sorted(S)[k] \in S
           /\ \A i, j \in 1 .. Cardinality(S) : i < j => Sorted(S)[i] < Sorted(S)[j]
<1>1. Cardinality(S) \in Nat
  BY FS_CardinalityType
<1>2. DOMAIN Sorted(S) = 1 .. Cardinality(S)
  BY DEF Sorted
<1> QED
  BY <1>1, <1>2, SortedLists, SortedAscends

\* Where as many rows have a sweet spot's size as there are such sizes, the rows
\* are these sizes in order.
LEMMA RowsInOrder ==
    ASSUME NEW M \in SUBSET Nat, IsFiniteSet(M), NEW S \in SUBSET Nat, IsFiniteSet(S),
           Len(RowsOf(Sorted(M), S)) = Cardinality(S)
    PROVE  RowsOf(Sorted(M), S) = Sorted(S)
<1> DEFINE q == Sorted(M)
           P == {k \in DOMAIN q : q[k] \in S}
           places == Sorted(P)
           listed == [k \in DOMAIN places |-> q[places[k]]]
           n == Cardinality(S)
<1>1. /\ DOMAIN q = 1 .. Cardinality(M) /\ Cardinality(M) \in Nat
      /\ \A k \in 1 .. Cardinality(M) : q[k] \in M
      /\ \A i, j \in 1 .. Cardinality(M) : i < j => q[i] < q[j]
  BY SortedPlaces
<1>2. P \in SUBSET Nat /\ IsFiniteSet(P) /\ \A k \in P : k \in 1 .. Cardinality(M) /\ q[k] \in S
  <2>1. IsFiniteSet(1 .. Cardinality(M))
    BY <1>1, FS_Interval
  <2>2. P \in SUBSET (1 .. Cardinality(M)) /\ \A k \in P : q[k] \in S
    BY <1>1
  <2>3. 1 .. Cardinality(M) \subseteq Nat
    BY <1>1
  <2> HIDE DEF P
  <2> QED
    BY <2>1, <2>2, <2>3, FS_Subset
<1>3. RowsOf(q, S) = listed
  BY DEF RowsOf
<1> HIDE DEF P
<1>4. /\ DOMAIN places = 1 .. Cardinality(P) /\ Cardinality(P) \in Nat
      /\ \A k \in 1 .. Cardinality(P) : places[k] \in P
      /\ \A i, j \in 1 .. Cardinality(P) : i < j => places[i] < places[j]
  BY <1>2, SortedPlaces
<1> HIDE DEF places, q
<1>5. Len(listed) = Cardinality(P)
  BY <1>4
<1>6. n = Cardinality(P) /\ n \in Nat
  BY <1>3, <1>4, <1>5 DEF q
<1>7. listed \in [1 .. n -> S]
  BY <1>2, <1>4, <1>6
<1>8. \A i, j \in 1 .. n : i < j => listed[i] < listed[j]
  BY <1>1, <1>2, <1>4, <1>6
<1> HIDE DEF listed
<1>9. listed \in Injection(1 .. n, S)
  <2>1. ASSUME NEW i \in 1 .. n, NEW j \in 1 .. n, listed[i] = listed[j] PROVE i = j
    <3>1. listed[i] \in Nat /\ listed[j] \in Nat
      BY <1>7
    <3>2. ~(i < j) /\ ~(j < i)
      BY <1>8, <2>1, <3>1
    <3> QED
      BY <1>6, <3>2
  <2> QED
    BY <1>7, <2>1 DEF Injection, IsInjective
<1>10. Cardinality(1 .. n) = n
  <2>1. Cardinality(1 .. n) = IF 1 > n THEN 0 ELSE n - 1 + 1
    BY <1>6, FS_Interval
  <2> QED
    BY <1>6, <2>1
<1>11. listed \in Surjection(1 .. n, S)
  BY <1>9, <1>10, FS_Injection
<1>12. \A c \in S : \E k \in 1 .. n : listed[k] = c
  BY <1>11 DEF Surjection
<1>13. listed = Sorted(S)
  BY <1>7, <1>8, <1>12, SortedOnly
<1> QED
  BY <1>3, <1>13 DEF q

\* The sizes that bandwidth-sweep measures are in order.
LEMMA SizesInOrder ==
    ASSUME FilesOK, NEW range \in UserRanges \cup {None}
    PROVE  \E M \in SUBSET Nat : IsFiniteSet(M) /\ BandwidthSizes(range) = Sorted(M)
<1>1. CASE range # None
  <2>1. range \in (Nat \ {0}) \X (Nat \ {0})
    BY <1>1, SweepAssumption DEF SweepAssumption
  <2>2. range[1] \in Nat \ {0} /\ range[2] \in Nat
    BY <2>1
  <2>3. \E M \in SUBSET (range[1] .. range[2]) : IsFiniteSet(M) /\ RangeUp(range[1], range[2]) = Sorted(M)
    BY <2>2, RangeGoesUp
  <2>4. range[1] .. range[2] \subseteq Nat
    BY <2>2
  <2>5. BandwidthSizes(range) = RangeUp(range[1], range[2])
    BY <1>1 DEF BandwidthSizes
  <2> QED
    BY <2>3, <2>4, <2>5
<1>2. CASE range = None /\ files.results # None
  <2>1. files.results = Sorted(Range(files.results)) /\ Range(files.results) \in SUBSET (1 .. MaxSize)
    BY <1>2 DEF FilesOK
  <2>2. BandwidthSizes(range) = files.results
    BY <1>2 DEF BandwidthSizes
  <2> QED
    BY <2>1, <2>2, SizesFinite
<1>3. CASE range = None /\ files.results = None
  <2>1. PICK M \in SUBSET (1 .. MaxSize) : Presweep = Sorted(M)
    BY PresweepSizes
  <2>2. BandwidthSizes(range) = Presweep
    BY <1>3 DEF BandwidthSizes
  <2> QED
    BY <2>1, <2>2, SizesFinite
<1> QED
  BY <1>1, <1>2, <1>3

\* A row has the size of the level that it names.
LEMMA RowsNameLevels ==
    ASSUME FilesOK, files.summary # None, NEW M \in SUBSET Nat, IsFiniteSet(M),
           NEW k \in DOMAIN BandwidthRows(Sorted(M))
    PROVE  LET row == BandwidthRows(Sorted(M))[k] IN files.summary[row.level].size = row.size
<1> DEFINE S == Range(SweetSizes)
           listed == RowsOf(Sorted(M), S)
           names == Sorted(S)
<1>1. files.summary \in Seq(Spot) /\ SweetSizes = [l \in DOMAIN files.summary |-> files.summary[l].size]
  BY DEF FilesOK, SweetSizes
<1>2. /\ \A l \in DOMAIN SweetSizes : SweetSizes[l] \in 1 .. MaxSize /\ SweetSizes[l] = files.summary[l].size
      /\ DOMAIN SweetSizes = 1 .. Len(files.summary) /\ Len(files.summary) \in Nat
  <2>1. DOMAIN files.summary = 1 .. Len(files.summary) /\ Len(files.summary) \in Nat
    BY <1>1
  <2>2. \A l \in 1 .. Len(files.summary) : files.summary[l] \in Spot
    BY <1>1
  <2>3. \A l \in 1 .. Len(files.summary) : files.summary[l].size \in 1 .. MaxSize
    BY <2>2 DEF Spot
  <2> QED
    BY <1>1, <2>1, <2>3
<1>3. S = {SweetSizes[l] : l \in DOMAIN SweetSizes}
  BY DEF Range
<1>4. S \in SUBSET (1 .. MaxSize)
  BY <1>2, <1>3
<1>5. S \in SUBSET Nat /\ IsFiniteSet(S)
  <2> HIDE DEF S
  <2> QED
    BY <1>4, SizesFinite
<1> DEFINE paired == [i \in DOMAIN listed |-> [size |-> listed[i], level |-> LevelOfSize(names[i])]]
<1>6. BandwidthRows(Sorted(M)) = IF Len(listed) # Len(names) THEN None ELSE paired
  BY DEF BandwidthRows
<1> HIDE DEF S, listed, names, paired
<1>7. Len(listed) = Len(names) /\ k \in DOMAIN paired /\ BandwidthRows(Sorted(M)) = paired
  BY <1>6 DEF None
<1>8. Len(names) = Cardinality(S)
  BY <1>5, SortedLists DEF names
<1>9. listed = names
  BY <1>5, <1>7, <1>8, RowsInOrder DEF listed, names
<1>10. k \in DOMAIN names /\ paired[k] = [size |-> names[k], level |-> LevelOfSize(names[k])]
  BY <1>7, <1>9 DEF paired
<1>11. names[k] \in S
  BY <1>5, <1>10, SortedPlaces DEF names
<1> DEFINE c == names[k]
           T == {l \in DOMAIN SweetSizes : SweetSizes[l] = c}
<1> HIDE DEF c
<1>12. T \in SUBSET Nat /\ T # {}
  <2>1. \E l \in DOMAIN SweetSizes : SweetSizes[l] = c
    BY <1>3, <1>11 DEF c
  <2> QED
    BY <1>2, <2>1
<1>13. Min(T) \in T
  <2> HIDE DEF T
  <2> QED
    BY <1>12, Extremes
<1>14. LevelOfSize(c) = Min(T)
  BY DEF LevelOfSize
<1>15. files.summary[LevelOfSize(c)].size = c
  BY <1>2, <1>13, <1>14
<1>16. paired[k].size = c /\ paired[k].level = LevelOfSize(c)
  BY <1>10 DEF c
<1> QED
  BY <1>7, <1>15, <1>16

\* bandwidth-sweep shows bandwidths for the levels they were measured for.
LEMMA BandwidthKeeps ==
    ASSUME MeasuredOK, FilesOK, BandwidthSweep
    PROVE  FilesOK'
<1>1. /\ phase' = "end" /\ files' = files /\ latency' = latency
      /\ table = [latency |-> table.latency, bandwidth |-> table.bandwidth]
  BY DEF BandwidthSweep, FilesOK
<1>2. PICK range \in UserRanges \cup {None} :
          table' = [table EXCEPT !.bandwidth =
                       IF files.summary # None THEN BandwidthRows(BandwidthSizes(range))
                       ELSE [k \in DOMAIN BandwidthSizes(range) |-> [size |-> BandwidthSizes(range)[k], level |-> 0]]]
  BY DEF BandwidthSweep
<1> DEFINE listed == IF files.summary # None THEN BandwidthRows(BandwidthSizes(range))
                   ELSE [k \in DOMAIN BandwidthSizes(range) |-> [size |-> BandwidthSizes(range)[k], level |-> 0]]
<1>3. table' = [latency |-> table.latency, bandwidth |-> listed]
  <2>1. table' = [table EXCEPT !.bandwidth = listed]
    BY <1>2
  <2> HIDE DEF listed
  <2> QED
    BY <1>1, <2>1
<1> HIDE DEF listed
<1>4. table' = [latency |-> table'.latency, bandwidth |-> table'.bandwidth] /\ table'.bandwidth = listed
  BY <1>3
<1>5. RowsNameTheirLevel'
  <2> SUFFICES ASSUME files.summary # None, NEW k \in DOMAIN listed
               PROVE  files.summary[listed[k].level].size = listed[k].size
    BY <1>1, <1>4 DEF RowsNameTheirLevel
  <2>1. PICK M \in SUBSET Nat : IsFiniteSet(M) /\ BandwidthSizes(range) = Sorted(M)
    BY SizesInOrder
  <2>2. listed = BandwidthRows(Sorted(M))
    BY <2>1 DEF listed
  <2> QED
    BY <2>1, <2>2, RowsNameLevels
<1> QED
  BY <1>1, <1>4, <1>5 DEF FilesOK

\* The files and tables of the sweeps stay sound.
LEMMA FilesKept ==
    ASSUME MeasuredOK, SpotsOK, FilesOK, [SweepNext]_sweepVars
    PROVE  FilesOK'
<1> USE DEF sweepVars, progress
<1>1. ASSUME UNCHANGED <<latency, files, table>>, phase # "end" \/ phase' = phase
      PROVE  FilesOK'
  <2>1. RowsNameTheirLevel'
    BY <1>1 DEF RowsNameTheirLevel, FilesOK
  <2> QED
    BY <1>1, <2>1 DEF FilesOK
<1>2. /\ files = [presweep |-> files.presweep, results |-> files.results, summary |-> files.summary]
      /\ table = [latency |-> table.latency, bandwidth |-> table.bandwidth]
  BY DEF FilesOK
<1>3. CASE StartLatencySweep \/ OneStep \/ Refine \/ SweetSpot \/ StepRaises \/ KillAndResume \/ UNCHANGED sweepVars
  <2>1. UNCHANGED <<latency, files, table>> /\ (phase # "end" \/ phase' = phase)
    BY <1>3 DEF StartLatencySweep, OneStep, Refine, SweetSpot, StepRaises, KillAndResume
  <2> QED
    BY <1>1, <2>1
<1>4. ASSUME phase # "end", UNCHANGED latency, table'.bandwidth = table.bandwidth,
             table' = [latency |-> table'.latency, bandwidth |-> table'.bandwidth]
      PROVE  /\ table'.bandwidth # None => phase' = "end"
             /\ RowsNameTheirLevel'
  <2>1. table'.bandwidth = None
    BY <1>4 DEF FilesOK
  <2> QED
    BY <2>1 DEF RowsNameTheirLevel
<1>5. CASE WritePresweep
  <2>1. /\ phase = "presweep" /\ todo = <<>> /\ UNCHANGED <<latency, df, table>>
        /\ files' = [files EXCEPT !.presweep = df]
    BY <1>5 DEF WritePresweep
  <2>2. Range(todo) = {}
    BY <2>1 DEF Range
  <2>3. DOMAIN df = Range(Presweep) /\ df = [s \in DOMAIN df |-> df[s]] /\ \A s \in DOMAIN df : df[s] \in latency[s]
    BY <2>1, <2>2 DEF MeasuredOK
  <2>4. files' = [presweep |-> df, results |-> files.results, summary |-> files.summary]
    BY <1>2, <2>1
  <2>5. /\ files'.presweep = df /\ files'.results = files.results /\ files'.summary = files.summary
        /\ files' = [presweep |-> files'.presweep, results |-> files'.results, summary |-> files'.summary]
    BY <2>4
  <2>6. (table'.bandwidth # None => phase' = "end") /\ RowsNameTheirLevel'
    BY <1>2, <1>4, <2>1
  <2> QED
    BY <2>1, <2>3, <2>5, <2>6 DEF FilesOK
<1>6. CASE WriteResults
  <2> DEFINE S == DOMAIN df \cup {spots[l].size : l \in LevelIndex}
  <2>1. /\ phase = "spots" /\ Len(spots) = Len(Level) /\ UNCHANGED <<latency, df, spots, table>>
        /\ files' = [files EXCEPT !.results = Sorted(S)]
    BY <1>6 DEF WriteResults
  <2>2. S \in SUBSET (1 .. MaxSize)
    <3>1. LevelIndex = 1 .. Len(Level)
      BY SweepAssumption DEF SweepAssumption, LevelIndex
    <3>2. \A l \in LevelIndex : spots[l] \in Spot
      BY <2>1, <3>1 DEF SpotsOK
    <3>3. \A l \in LevelIndex : spots[l].size \in 1 .. MaxSize
      BY <3>2 DEF Spot
    <3> QED
      BY <3>3 DEF MeasuredOK
  <2> HIDE DEF S
  <2>3. Range(Sorted(S)) = S
    BY <2>2, SortedSizes
  <2>4. files' = [presweep |-> files.presweep, results |-> Sorted(S), summary |-> files.summary]
    BY <1>2, <2>1
  <2>5. /\ files'.presweep = files.presweep /\ files'.results = Sorted(S) /\ files'.summary = files.summary
        /\ files' = [presweep |-> files'.presweep, results |-> files'.results, summary |-> files'.summary]
    BY <2>4
  <2>6. (table'.bandwidth # None => phase' = "end") /\ RowsNameTheirLevel'
    BY <1>2, <1>4, <2>1
  <2> QED
    BY <2>1, <2>2, <2>3, <2>5, <2>6 DEF FilesOK
<1>7. CASE WriteSummary
  <2>1. /\ phase = "summary" /\ UNCHANGED <<latency, spots>>
        /\ files' = [files EXCEPT !.summary = spots] /\ table' = [table EXCEPT !.latency = spots]
    BY <1>7 DEF WriteSummary
  <2>2. files' = [presweep |-> files.presweep, results |-> files.results, summary |-> spots]
    BY <1>2, <2>1
  <2>3. table' = [latency |-> spots, bandwidth |-> table.bandwidth]
    BY <1>2, <2>1
  <2>4. /\ files'.presweep = files.presweep /\ files'.results = files.results /\ files'.summary = spots
        /\ files' = [presweep |-> files'.presweep, results |-> files'.results, summary |-> files'.summary]
    BY <2>2
  <2>5. table'.bandwidth = table.bandwidth /\ table' = [latency |-> table'.latency, bandwidth |-> table'.bandwidth]
    BY <2>3
  <2>6. (table'.bandwidth # None => phase' = "end") /\ RowsNameTheirLevel'
    BY <1>4, <2>1, <2>5
  <2>7. spots \in Seq(Spot) /\ Len(spots) = Len(Level)
    BY <2>1 DEF SpotsOK
  <2> QED
    BY <2>1, <2>4, <2>5, <2>6, <2>7 DEF FilesOK
<1>8. CASE BandwidthSweep
  BY <1>8, BandwidthKeeps
<1> QED
  BY <1>3, <1>5, <1>6, <1>7, <1>8 DEF SweepNext, Step

----------------------------------------------------------------------------
(* CacheSweep: clear steps *)

\* The latencies that the machine shows, and that of a size where it shows one.
Shown == UNION Range(latency)

LatencyOf(s) == Min(latency[s])

\* Clear steps: one latency for each size, rising, one latency for each level.
LEMMA ClearSteps ==
    ASSUME MeasuredOK, Clean
    PROVE  /\ Shown \in SUBSET Nat /\ IsFiniteSet(Shown) /\ Cardinality(Shown) = Len(Level)
           /\ \A s \in 1 .. MaxSize : latency[s] = {LatencyOf(s)} /\ LatencyOf(s) \in Shown /\ LatencyOf(s) \in Nat \ {0}
           /\ \A s, t \in 1 .. MaxSize : s < t => LatencyOf(s) <= LatencyOf(t)
           /\ \A v, w \in Shown : v < w => 100 * v < 95 * w
           /\ \A l \in LevelIndex : /\ Sorted(Shown)[l] \in Shown
                                    /\ Plateau(l) = {s \in 1 .. MaxSize : LatencyOf(s) = Sorted(Shown)[l]}
                                    /\ \E s \in Range(Presweep) : s \in 1 .. MaxSize /\ LatencyOf(s) = Sorted(Shown)[l]
<1>1. /\ DOMAIN latency = 1 .. MaxSize /\ MaxSize \in Nat
      /\ \A s \in 1 .. MaxSize : latency[s] # {} /\ latency[s] \subseteq Nat \ {0}
  BY SweepAssumption, LatencyTyped DEF SweepAssumption, MeasuredOK
<1>2. /\ \A s \in 1 .. MaxSize : latency[s] = {LatencyOf(s)}
      /\ \A s, t \in 1 .. MaxSize : s < t => LatencyOf(s) <= LatencyOf(t)
      /\ Cardinality(Shown) = Len(Level)
      /\ \A v, w \in Shown : v < w => 100 * v < 95 * w
      /\ \A l \in LevelIndex : Plateau(l) \cap Range(Presweep) # {}
  BY DEF Clean, Shown, LatencyOf
<1>3. Range(latency) = {latency[s] : s \in 1 .. MaxSize}
  BY <1>1 DEF Range
<1>4. Shown = {LatencyOf(s) : s \in 1 .. MaxSize}
  <2>1. \A x : x \in Shown <=> \E s \in 1 .. MaxSize : x \in latency[s]
    BY <1>3 DEF Shown
  <2>2. \A x : x \in Shown <=> \E s \in 1 .. MaxSize : x = LatencyOf(s)
    BY <1>2, <2>1
  <2> QED
    BY <2>2
<1>5. \A s \in 1 .. MaxSize : LatencyOf(s) \in Nat \ {0}
  BY <1>1, <1>2
<1>6. Shown \in SUBSET Nat
  BY <1>4, <1>5
<1>7. IsFiniteSet(Shown)
  <2>1. [s \in 1 .. MaxSize |-> LatencyOf(s)] \in Surjection(1 .. MaxSize, Shown)
    BY <1>4 DEF Surjection
  <2>2. IsFiniteSet(1 .. MaxSize)
    BY <1>1, FS_Interval
  <2> QED
    BY <2>1, <2>2, FS_Surjection
<1>8. LevelIndex = 1 .. Cardinality(Shown)
  BY <1>2, SweepAssumption DEF LevelIndex, SweepAssumption
<1>9. ASSUME NEW l \in LevelIndex
      PROVE  /\ Sorted(Shown)[l] \in Shown
             /\ Plateau(l) = {s \in 1 .. MaxSize : LatencyOf(s) = Sorted(Shown)[l]}
             /\ \E s \in Range(Presweep) : s \in 1 .. MaxSize /\ LatencyOf(s) = Sorted(Shown)[l]
  <2> DEFINE w == Sorted(Shown)[l]
  <2>1. w \in Shown
    BY <1>6, <1>7, <1>8, SortedLists
  <2>2. Plateau(l) = {s \in 1 .. MaxSize : latency[s] = {w}}
    BY DEF Plateau, Shown
  <2> HIDE DEF w
  <2>3. \A s \in 1 .. MaxSize : latency[s] = {w} <=> LatencyOf(s) = w
    BY <1>2
  <2>4. Plateau(l) = {s \in 1 .. MaxSize : LatencyOf(s) = w}
    BY <2>2, <2>3
  <2>5. \E s \in Range(Presweep) : s \in Plateau(l)
    BY <1>2
  <2>6. \E s \in Range(Presweep) : s \in 1 .. MaxSize /\ LatencyOf(s) = w
    BY <2>4, <2>5
  <2> QED
    BY <2>1, <2>4, <2>6 DEF w
<1>10. \A s \in 1 .. MaxSize : LatencyOf(s) \in Shown
  BY <1>4
<1> QED
  BY <1>2, <1>5, <1>6, <1>7, <1>9, <1>10

\* What was measured of clear steps.
LEMMA ClearMeasurements ==
    ASSUME MeasuredOK, Clean, phase = "refine"
    PROVE  /\ df \in Measurements /\ Range(df) = Shown
           /\ \A s \in DOMAIN df : s \in 1 .. MaxSize /\ df[s] = LatencyOf(s)
           /\ \A l \in LevelIndex : \E s \in DOMAIN df : LatencyOf(s) = Sorted(Shown)[l]
<1>1. df \in Measurements
  BY SweepMeasurements
<1>2. \A s \in DOMAIN df : s \in 1 .. MaxSize /\ df[s] \in latency[s]
  BY DEF MeasuredOK
<1>3. \A s \in DOMAIN df : s \in 1 .. MaxSize /\ df[s] = LatencyOf(s)
  BY <1>2, ClearSteps
<1>4. Range(Presweep) \subseteq DOMAIN df
  BY DEF MeasuredOK
<1>5. \A l \in LevelIndex : \E s \in DOMAIN df : LatencyOf(s) = Sorted(Shown)[l]
  BY <1>4, ClearSteps
<1>6. Range(df) = {df[s] : s \in DOMAIN df}
  BY DEF Range
<1>7. Shown \in SUBSET Nat /\ IsFiniteSet(Shown) /\ LevelIndex = 1 .. Cardinality(Shown)
  BY ClearSteps, SweepAssumption DEF LevelIndex, SweepAssumption
<1>8. \A w \in Shown : \E l \in LevelIndex : Sorted(Shown)[l] = w
  <2>1. Range(Sorted(Shown)) = Shown /\ DOMAIN Sorted(Shown) = LevelIndex
    BY <1>7, SortedLists, SortedPlaces
  <2> QED
    BY <2>1 DEF Range
<1>9. \A w : w \in Range(df) <=> w \in Shown
  <2>1. ASSUME NEW w \in Range(df) PROVE w \in Shown
    BY <1>3, <1>6, ClearSteps
  <2>2. ASSUME NEW w \in Shown PROVE w \in Range(df)
    <3>1. PICK s \in DOMAIN df : LatencyOf(s) = w
      BY <1>5, <1>8
    <3> QED
      BY <1>3, <1>6, <3>1
  <2> QED
    BY <2>1, <2>2
<1> QED
  BY <1>1, <1>3, <1>5, <1>9

\* Each of them is a group of its own: it has all cuts but at the least.
LEMMA ClearGroups ==
    ASSUME MeasuredOK, Clean, phase = "refine", NEW cuts \in Clusterings(df)
    PROVE  /\ Cardinality(cuts) + 1 = Len(Level)
           /\ \A w \in Shown : \A l \in LevelIndex : ClusterOf(w, cuts) = l <=> w = Sorted(Shown)[l]
<1> DEFINE V == Shown
           least == Min(V)
           Less(w) == {m \in V : m < w}
           Upto(w) == {c \in cuts : c <= w}
<1>1. V \in SUBSET Nat /\ IsFiniteSet(V) /\ Cardinality(V) = Len(Level) /\ df \in Measurements /\ Range(df) = V
  BY ClearSteps, ClearMeasurements
<1>2. Cardinality(cuts) + 1 = Len(Level)
  <2>1. Cardinality(cuts) + 1 = IF Cardinality(V) < Len(Level) THEN Cardinality(V) ELSE Len(Level)
    BY <1>1, GroupCount
  <2> QED
    BY <1>1, <2>1
<1>3. LevelIndex = 1 .. Len(Level) /\ Len(Level) \in Nat \ {0}
  BY <1>1, GroupCount
<1>4. cuts \in SUBSET (V \ {least})
  BY <1>1 DEF Clusterings
<1> HIDE DEF V
<1>5. V # {} /\ least \in V /\ \A m \in V : least <= m
  <2>1. V # {}
    BY <1>1, <1>3, FS_EmptySet
  <2> QED
    BY <1>1, <2>1, Extremes
<1> HIDE DEF least
<1>6. cuts = V \ {least}
  <2>1. IsFiniteSet(V \ {least}) /\ Cardinality(V \ {least}) = Cardinality(V) - 1
    BY <1>1, <1>5, FS_RemoveElement
  <2>2. Cardinality(cuts) \in Nat
    BY <1>4, <2>1, FS_Subset, FS_CardinalityType
  <2>3. Cardinality(V \ {least}) = Cardinality(cuts)
    BY <1>1, <1>2, <1>3, <2>1, <2>2
  <2> QED
    BY <1>4, <2>1, <2>3, FS_Subset
<1>7. ASSUME NEW w \in V PROVE ClusterOf(w, cuts) = 1 + Cardinality(Less(w)) /\ Cardinality(Less(w)) \in Nat
  <2> DEFINE both == {m \in V : m <= w}
  <2>1. IsFiniteSet(Less(w)) /\ IsFiniteSet(both)
    BY <1>1, FS_Subset
  <2>2. Less(w) \cup {w} = both /\ w \notin Less(w)
    <3>1. w \in Nat /\ \A m \in V : m \in Nat
      BY <1>1
    <3>2. \A m \in V : m <= w <=> (m < w \/ m = w)
      BY <3>1
    <3>3. w \notin Less(w)
      BY <3>1
    <3>4. \A m : m \in Less(w) \cup {w} <=> m \in both
      BY <3>2
    <3> HIDE DEF Less, both
    <3> QED
      BY <3>3, <3>4
  <2>3. both \ {least} = Upto(w) /\ least \in both
    BY <1>1, <1>5, <1>6
  <2>4. ClusterOf(w, cuts) = 1 + Cardinality(Upto(w))
    BY DEF ClusterOf
  <2> HIDE DEF both, Less, Upto
  <2>5. Cardinality(both) = Cardinality(Less(w)) + 1
    BY <2>1, <2>2, FS_AddElement
  <2>6. Cardinality(Upto(w)) = Cardinality(both) - 1
    BY <2>1, <2>3, FS_RemoveElement
  <2>7. Cardinality(Less(w)) \in Nat
    BY <2>1, FS_CardinalityType
  <2> QED
    BY <2>4, <2>5, <2>6, <2>7
<1>8. ASSUME NEW w \in V, NEW l \in LevelIndex PROVE ClusterOf(w, cuts) = l <=> w = Sorted(V)[l]
  <2>1. Sorted(V)[l] \in V /\ Cardinality(Less(Sorted(V)[l])) = l - 1
    BY <1>1, <1>3, SortedLists
  <2>2. l \in Nat /\ l >= 1
    BY <1>3
  <2>3. ASSUME w = Sorted(V)[l] PROVE ClusterOf(w, cuts) = l
    <3>1. Cardinality(Less(w)) = l - 1
      BY <2>1, <2>3
    <3> HIDE DEF Less
    <3> QED
      BY <1>7, <2>2, <3>1
  <2>4. ASSUME ClusterOf(w, cuts) = l PROVE w = Sorted(V)[l]
    <3>1. PICK k \in 1 .. Cardinality(V) : Sorted(V)[k] = w
      <4>1. Range(Sorted(V)) = V /\ DOMAIN Sorted(V) = 1 .. Cardinality(V)
        BY <1>1, SortedLists, SortedPlaces
      <4> QED
        BY <4>1 DEF Range
    <3>2. Cardinality(Less(w)) = k - 1
      BY <1>1, <3>1, SortedLists
    <3> HIDE DEF Less
    <3>3. k \in Nat /\ k = l
      BY <1>1, <1>3, <1>7, <2>2, <2>4, <3>1, <3>2
    <3> QED
      BY <3>1, <3>3
  <2> QED
    BY <2>3, <2>4
<1> QED
  BY <1>2, <1>8 DEF V

\* The median of a group is its latency.
LEMMA ClearMedian ==
    ASSUME MeasuredOK, Clean, phase = "refine", NEW cuts \in Clusterings(df), NEW l \in LevelIndex
    PROVE  SquaredMedian(df, cuts, l) = Sorted(Shown)[l] * Sorted(Shown)[l]
<1>1. df \in Measurements /\ Range(df) = Shown /\ l \in 1 .. Cardinality(cuts) + 1
  BY ClearMeasurements, ClearGroups, GroupCount
<1>2. PICK s \in DOMAIN df, t \in DOMAIN df :
          /\ SquaredMedian(df, cuts, l) = df[s] * df[t]
          /\ ClusterOf(df[s], cuts) = l /\ ClusterOf(df[t], cuts) = l
  BY <1>1, MedianMeasured
<1>3. df[s] \in Shown /\ df[t] \in Shown
  BY <1>1 DEF Range
<1>4. df[s] = Sorted(Shown)[l] /\ df[t] = Sorted(Shown)[l]
  BY <1>2, <1>3, ClearGroups
<1> QED
  BY <1>2, <1>4

\* More than 5% from the median are just the other latencies.
LEMMA ClearlyApart ==
    ASSUME MeasuredOK, Clean, phase = "refine", NEW w \in Shown, NEW s \in DOMAIN df
    PROVE  /\ Below(df, s, w * w) <=> LatencyOf(s) < w
           /\ Above(df, s, w * w) <=> w < LatencyOf(s)
<1> DEFINE x == LatencyOf(s)
<1>1. x \in Nat /\ w \in Nat /\ x \in Shown /\ df[s] = x
  BY ClearSteps, ClearMeasurements
<1>2. (x < w => 100 * x < 95 * w) /\ (w < x => 100 * w < 95 * x)
  BY <1>1, ClearSteps
<1>3. /\ Below(df, s, w * w) <=> 10000 * x * x < 9025 * (w * w)
      /\ Above(df, s, w * w) <=> 10000 * x * x > 11025 * (w * w)
  BY <1>1 DEF Below, Above
<1> HIDE DEF x
<1>4. x * x \in Nat /\ w * w \in Nat /\ x * w \in Nat /\ 10000 * x * x = 10000 * (x * x)
  BY <1>1
<1>5. ASSUME x < w PROVE 10000 * (x * x) < 9025 * (w * w)
  <2>1. (100 * x) * (100 * x) < (95 * w) * (95 * w)
    <3> DEFINE a == 100 * x
               b == 95 * w
    <3>1. a \in Nat /\ b \in Nat /\ a < b
      BY <1>1, <1>2, <1>5
    <3> HIDE DEF a, b
    <3>2. a * a <= a * b /\ a * b < b * b
      BY <3>1
    <3>3. a * a < b * b
      BY <3>1, <3>2
    <3> QED
      BY <3>3 DEF a, b
  <2> QED
    BY <1>1, <2>1
<1>6. ASSUME ~(x < w) PROVE ~(10000 * (x * x) < 9025 * (w * w))
  <2>1. w * w <= x * w /\ x * w <= x * x
    BY <1>1, <1>6
  <2> QED
    BY <1>4, <2>1
<1>7. ASSUME w < x PROVE 10000 * (x * x) > 11025 * (w * w)
  <2>1. (100 * w) * (100 * w) < (95 * x) * (95 * x)
    <3> DEFINE a == 100 * w
               b == 95 * x
    <3>1. a \in Nat /\ b \in Nat /\ a < b
      BY <1>1, <1>2, <1>7
    <3> HIDE DEF a, b
    <3>2. a * a <= a * b /\ a * b < b * b
      BY <3>1
    <3>3. a * a < b * b
      BY <3>1, <3>2
    <3> QED
      BY <3>3 DEF a, b
  <2>2. 10000 * (w * w) < 9025 * (x * x)
    BY <1>1, <2>1
  <2> QED
    BY <1>4, <2>2
<1>8. ASSUME ~(w < x) PROVE ~(10000 * (x * x) > 11025 * (w * w))
  <2>1. x * x <= x * w /\ x * w <= w * w
    BY <1>1, <1>8
  <2> QED
    BY <1>4, <2>1
<1> QED
  BY <1>3, <1>4, <1>5, <1>6, <1>7, <1>8 DEF x

\* The sizes around a clear step: its first and last size that were measured, and
\* the measured sizes next to them, if there are any.
FittingEdges(l, e) ==
    /\ e \in EdgeSizes(df)
    /\ {e.LB_size_min_large, e.UB_size_max_less} \subseteq DOMAIN df \cap Plateau(l)
    /\ \A s \in DOMAIN df : s \in Plateau(l) => s \in e.LB_size_min_large .. e.UB_size_max_less
    /\ \A s \in DOMAIN df : s < e.LB_size_min_large => s <= e.LB_size_max_less
    /\ \A s \in DOMAIN df : s > e.UB_size_max_less => s >= e.UB_size_min_large
    /\ IF e.LB_size_max_less = 0 THEN e.LB_size_min_large = 1
       ELSE e.LB_size_max_less < e.LB_size_min_large /\ e.LB_size_max_less \notin Plateau(l)
    /\ IF e.UB_size_min_large = MaxSize + 1 THEN l = Len(Level)
       ELSE e.UB_size_max_less < e.UB_size_min_large /\ e.UB_size_min_large \notin Plateau(l)

\* These are the sizes that a round goes by.
LEMMA ClearEdges ==
    ASSUME MeasuredOK, Clean, phase = "refine", NEW cuts \in Clusterings(df), NEW l \in LevelIndex
    PROVE  FittingEdges(l, Edges(df, SquaredMedian(df, cuts, l)))
<1> DEFINE D == DOMAIN df
           w == Sorted(Shown)[l]
           m == SquaredMedian(df, cuts, l)
           e == Edges(df, m)
           below == {s \in D : Below(df, s, m)}
           above == {s \in D : Above(df, s, m)}
           a == Min(D \ below)
           b == Max(D \ above)
<1>1. /\ df \in Measurements /\ D \in SUBSET (1 .. MaxSize) /\ MaxSize \in Nat
      /\ \A s \in D : LatencyOf(s) \in Nat
      /\ w \in Shown /\ w \in Nat
      /\ Plateau(l) = {s \in 1 .. MaxSize : LatencyOf(s) = w}
  BY ClearSteps, ClearMeasurements, LatenciesFinite, SweepAssumption DEF SweepAssumption
<1>2. m = w * w
  BY ClearMedian
<1>3. \A s \in D : (Below(df, s, m) <=> LatencyOf(s) < w) /\ (Above(df, s, m) <=> w < LatencyOf(s))
  BY <1>1, <1>2, ClearlyApart
<1>4. e = [LB_size_max_less |-> IF below = {} THEN 0 ELSE Max(below), LB_size_min_large |-> a,
           UB_size_max_less |-> b, UB_size_min_large |-> IF above = {} THEN MaxSize + 1 ELSE Min(above)]
  BY DEF Edges
<1>5. e \in EdgeSizes(df)
  <2>1. l \in 1 .. Cardinality(cuts) + 1
    BY <1>1, ClearGroups, GroupCount
  <2> QED
    BY <1>1, <2>1, EdgesOfGroup
<1>6. \A s, t \in D : s < t => LatencyOf(s) <= LatencyOf(t)
  BY <1>1, ClearSteps
<1>7. PICK p \in D : LatencyOf(p) = w
  BY ClearMeasurements
<1>8. 1 \in D
  BY PresweepSizes DEF MeasuredOK
<1>9. /\ \A s \in D : s \in below <=> LatencyOf(s) < w
      /\ \A s \in D : s \in above <=> w < LatencyOf(s)
      /\ below \in SUBSET D /\ above \in SUBSET D
  BY <1>3
<1>10. \A S \in SUBSET D : S # {} => /\ Min(S) \in S /\ \A s \in S : Min(S) <= s
                                     /\ Max(S) \in S /\ \A s \in S : s <= Max(S)
  <2> SUFFICES ASSUME NEW S \in SUBSET D, S # {}
               PROVE  /\ Min(S) \in S /\ \A s \in S : Min(S) <= s
                      /\ Max(S) \in S /\ \A s \in S : s <= Max(S)
    OBVIOUS
  <2>1. S \in SUBSET (1 .. MaxSize)
    BY <1>1
  <2> QED
    BY <2>1, SizesFinite, Extremes
<1> HIDE DEF e, m, below, above, w
<1>11. p \in D \ below /\ p \in D \ above
  BY <1>1, <1>7, <1>9
<1>12. a \in D \ below /\ (\A s \in D \ below : a <= s) /\ b \in D \ above /\ (\A s \in D \ above : s <= b)
  <2>1. D \ below \in SUBSET D /\ D \ below # {} /\ D \ above \in SUBSET D /\ D \ above # {}
    BY <1>11
  <2> HIDE DEF D
  <2> QED
    BY <1>10, <2>1
<1>13. /\ below # {} => Max(below) \in below /\ \A s \in below : s <= Max(below)
       /\ above # {} => Min(above) \in above /\ \A s \in above : Min(above) <= s
  BY <1>9, <1>10
<1> HIDE DEF a, b
<1>14. \A s \in D : s \in Nat /\ s >= 1 /\ s \in 1 .. MaxSize
  BY <1>1
<1> HIDE DEF D
<1>15. LatencyOf(a) = w
  <2>1. a <= p /\ ~(LatencyOf(a) < w) /\ a \in D
    BY <1>9, <1>11, <1>12
  <2>2. LatencyOf(a) <= w
    BY <1>1, <1>6, <1>7, <1>14, <2>1
  <2> QED
    BY <1>1, <2>1, <2>2
<1>16. LatencyOf(b) = w
  <2>1. p <= b /\ ~(w < LatencyOf(b)) /\ b \in D
    BY <1>9, <1>11, <1>12
  <2>2. w <= LatencyOf(b)
    BY <1>1, <1>6, <1>7, <1>14, <2>1
  <2> QED
    BY <1>1, <2>1, <2>2
<1>17. a \in D \cap Plateau(l) /\ b \in D \cap Plateau(l)
  BY <1>1, <1>12, <1>14, <1>15, <1>16
<1>18. \A s \in D : s \in Plateau(l) <=> LatencyOf(s) = w
  BY <1>1, <1>14
<1>19. ASSUME NEW s \in D, s \in Plateau(l) PROVE s \in a .. b
  <2>1. s \in D \ below /\ s \in D \ above
    BY <1>1, <1>9, <1>18, <1>19
  <2>2. a \in Nat /\ b \in Nat /\ s \in Nat
    BY <1>12, <1>14
  <2> QED
    BY <1>12, <2>1, <2>2
<1> DEFINE less == IF below = {} THEN 0 ELSE Max(below)
           more == IF above = {} THEN MaxSize + 1 ELSE Min(above)
<1>20. ASSUME NEW s \in D, s < a PROVE s <= less
  <2>1. s \in below
    BY <1>12, <1>14, <1>20
  <2> QED
    BY <1>13, <2>1
<1>21. ASSUME NEW s \in D, s > b PROVE s >= more
  <2>1. s \in above
    BY <1>12, <1>14, <1>21
  <2>2. s >= Min(above)
    BY <1>9, <1>13, <1>14, <2>1
  <2> QED
    BY <2>1, <2>2
<1>22. IF less = 0 THEN a = 1 ELSE less < a /\ less \notin Plateau(l)
  <2>1. CASE below = {}
    <3>1. a <= 1 /\ a >= 1 /\ a \in Nat
      BY <1>8, <1>12, <1>14, <2>1
    <3> QED
      BY <2>1, <3>1
  <2>2. CASE below # {}
    <3> DEFINE s == Max(below)
    <3>1. s \in below /\ s \in D /\ LatencyOf(s) < w
      BY <1>9, <1>13, <2>2
    <3> HIDE DEF s
    <3>2. s \notin Plateau(l)
      BY <1>1, <1>18, <3>1
    <3>3. ~(a < s) /\ a # s
      BY <1>1, <1>6, <1>12, <1>15, <3>1
    <3>4. s < a /\ s # 0
      BY <1>12, <1>14, <3>1, <3>3
    <3>5. less = s
      BY <2>2 DEF s
    <3> QED
      BY <3>2, <3>4, <3>5
  <2> QED
    BY <2>1, <2>2
<1>23. IF more = MaxSize + 1 THEN l = Len(Level) ELSE b < more /\ more \notin Plateau(l)
  <2>1. CASE above = {}
    <3>1. LevelIndex = 1 .. Cardinality(Shown) /\ Cardinality(Shown) = Len(Level) /\ Len(Level) \in Nat \ {0}
      BY <1>1, ClearSteps, ClearGroups, GroupCount
    <3>2. Len(Level) \in LevelIndex /\ l \in Nat /\ l <= Len(Level)
      BY <3>1
    <3>3. PICK s \in D : LatencyOf(s) = Sorted(Shown)[Len(Level)]
      BY <3>2, ClearMeasurements DEF D
    <3>4. ~(w < LatencyOf(s))
      BY <1>9, <2>1, <3>3
    <3>5. ASSUME l # Len(Level) PROVE FALSE
      <4>1. l < Len(Level)
        BY <3>1, <3>2, <3>5
      <4>2. Sorted(Shown)[l] < Sorted(Shown)[Len(Level)]
        BY <3>1, <3>2, <4>1, ClearSteps, SortedAscends
      <4> QED
        BY <3>3, <3>4, <4>2 DEF w
    <3> QED
      BY <2>1, <3>5
  <2>2. CASE above # {}
    <3> DEFINE s == Min(above)
    <3>1. s \in above /\ s \in D /\ w < LatencyOf(s)
      BY <1>9, <1>13, <2>2
    <3> HIDE DEF s
    <3>2. s \notin Plateau(l)
      BY <1>1, <1>18, <3>1
    <3>3. ~(s < b) /\ b # s
      BY <1>1, <1>6, <1>12, <1>16, <3>1
    <3>4. b < s /\ s # MaxSize + 1
      BY <1>1, <1>12, <1>14, <3>1, <3>3
    <3>5. more = s
      BY <2>2 DEF s
    <3> QED
      BY <3>2, <3>4, <3>5
  <2> QED
    BY <2>1, <2>2
<1> HIDE DEF less, more
<1>24. e.LB_size_max_less = less /\ e.LB_size_min_large = a /\ e.UB_size_max_less = b /\ e.UB_size_min_large = more
  BY <1>4 DEF less, more
<1>25. FittingEdges(l, e)
  BY <1>5, <1>17, <1>19, <1>20, <1>21, <1>22, <1>23, <1>24 DEF FittingEdges, D
<1> QED
  BY <1>25 DEF e, m

\* Bounds are set to the sizes where a step begins and ends, now or in an earlier round.
LEMMA ClearBounds ==
    ASSUME MeasuredOK, phase = "refine", NEW l \in LevelIndex, NEW e, FittingEdges(l, e), NEW old \in LevelBounds,
           old # NoBounds[l] => {old.LB, old.UB} \subseteq DOMAIN df \cap Plateau(l)
    PROVE  Widened(old, e) = [LB |-> e.LB_size_min_large, UB |-> e.UB_size_max_less]
<1>1. DOMAIN df \in SUBSET (1 .. MaxSize) /\ MaxSize \in Nat
  BY SweepAssumption DEF MeasuredOK, SweepAssumption
<1> DEFINE less == e.LB_size_max_less
           a == e.LB_size_min_large
           b == e.UB_size_max_less
           more == e.UB_size_min_large
<1>2. /\ less \in {0} \cup DOMAIN df /\ a \in DOMAIN df /\ b \in DOMAIN df /\ more \in DOMAIN df \cup {MaxSize + 1}
      /\ \A s \in DOMAIN df : s \in Plateau(l) => s \in a .. b
      /\ less = 0 \/ less < a
      /\ more = MaxSize + 1 \/ b < more
  BY DEF FittingEdges, EdgeSizes
<1>3. Widened(old, e) = [LB |-> IF Max({less, a}) < old.LB THEN Max({less, a}) ELSE old.LB,
                         UB |-> IF Min({b, more}) > old.UB THEN Min({b, more}) ELSE old.UB]
  BY DEF Widened
<1> HIDE DEF less, a, b, more
<1>4. less \in Nat /\ a \in 1 .. MaxSize /\ b \in 1 .. MaxSize /\ more \in Nat /\ less <= a /\ b <= more
  BY <1>1, <1>2
<1>5. Max({less, a}) = a /\ Min({b, more}) = b
  BY <1>4, OfTwo
<1>6. (IF a < old.LB THEN a ELSE old.LB) = a /\ (IF b > old.UB THEN b ELSE old.UB) = b
  <2>1. CASE old = NoBounds[l]
    <3>1. old.LB = MaxSize + 1 /\ old.UB = 0
      BY <2>1 DEF NoBounds
    <3> QED
      BY <1>1, <1>4, <3>1
  <2>2. CASE old # NoBounds[l]
    <3>1. old.LB \in DOMAIN df /\ old.LB \in Plateau(l) /\ old.UB \in DOMAIN df /\ old.UB \in Plateau(l)
      BY <2>2
    <3>2. old.LB \in a .. b /\ old.UB \in a .. b
      BY <1>2, <3>1
    <3> QED
      BY <1>4, <3>2
  <2> QED
    BY <2>1, <2>2
<1> QED
  BY <1>3, <1>5, <1>6 DEF a, b

\* A round that asks for no new size has settled both ends of a step.
LEMMA ClearSettled ==
    ASSUME MeasuredOK, phase = "refine", NEW l \in LevelIndex, NEW e, FittingEdges(l, e), NEW b,
           b = [LB |-> e.LB_size_min_large, UB |-> e.UB_size_max_less],
           LeftNewSize(e, b) \subseteq DOMAIN df, RightNewSize(e, b) \subseteq DOMAIN df
    PROVE  /\ b.LB \in Plateau(l)
           /\ b.UB \in Plateau(l)
           /\ \A s \in DOMAIN df : s \in Plateau(l) => s \in b.LB .. b.UB
           /\ \E s \in DOMAIN df \cup {b.LB} : s <= b.LB /\ Settled(s, b.LB)
                  /\ (s \in Plateau(l) => s = b.LB /\ s = 1)
           /\ \E s \in DOMAIN df \cup {b.UB} : s >= b.UB /\ Settled(b.UB, s)
                  /\ (s \in Plateau(l) => s = b.UB /\ l = Len(Level))
<1>1. DOMAIN df \in SUBSET (1 .. MaxSize) /\ MaxSize \in Nat
  BY SweepAssumption DEF MeasuredOK, SweepAssumption
<1> DEFINE less == e.LB_size_max_less
           lb == e.LB_size_min_large
           ub == e.UB_size_max_less
           more == e.UB_size_min_large
<1>2. /\ less \in {0} \cup DOMAIN df /\ lb \in DOMAIN df /\ ub \in DOMAIN df /\ more \in DOMAIN df \cup {MaxSize + 1}
      /\ lb \in Plateau(l) /\ ub \in Plateau(l)
      /\ \A s \in DOMAIN df : s \in Plateau(l) => s \in lb .. ub
      /\ \A s \in DOMAIN df : s < lb => s <= less
      /\ \A s \in DOMAIN df : s > ub => s >= more
      /\ IF less = 0 THEN lb = 1 ELSE less < lb /\ less \notin Plateau(l)
      /\ IF more = MaxSize + 1 THEN l = Len(Level) ELSE ub < more /\ more \notin Plateau(l)
  BY DEF FittingEdges, EdgeSizes
<1>3. b.LB = lb /\ b.UB = ub
  OBVIOUS
<1>4. /\ LeftNewSize(e, b) = IF less # 0 /\ less * lb < lb * lb /\ 100 * (lb - less) > lb THEN {Middle(less, lb)} ELSE {}
      /\ RightNewSize(e, b) = IF more # MaxSize + 1 /\ ub * more > ub * ub /\ 100 * (more - ub) > ub
                              THEN {Middle(ub, more)} ELSE {}
  BY <1>3 DEF LeftNewSize, RightNewSize
<1> HIDE DEF less, lb, ub, more
<1>5. \A s \in DOMAIN df : s \in 1 .. MaxSize /\ s \in Nat
  BY <1>1
<1>6. \E s \in DOMAIN df \cup {lb} : s <= lb /\ Settled(s, lb) /\ (s \in Plateau(l) => s = lb /\ s = 1)
  <2>1. CASE less = 0
    <3>1. lb = 1
      BY <1>2, <2>1
    <3>2. Settled(lb, lb)
      BY <3>1 DEF Settled
    <3> QED
      BY <3>1, <3>2
  <2>2. CASE less # 0
    <3>1. less \in DOMAIN df /\ less < lb /\ less \notin Plateau(l) /\ less \in 1 .. MaxSize /\ lb \in 1 .. MaxSize
      BY <1>2, <1>5, <2>2
    <3>2. Settled(less, lb)
      <4>1. CASE 100 * (lb - less) <= lb
        BY <4>1 DEF Settled
      <4>2. CASE ~(100 * (lb - less) <= lb)
        <5>1. less * lb < lb * lb
          BY <3>1
        <5>2. 100 * (lb - less) > lb
          BY <1>1, <3>1, <4>2
        <5>3. Middle(less, lb) \in DOMAIN df
          BY <1>4, <2>2, <5>1, <5>2
        <5>4. /\ Middle(less, lb) \in less .. lb - 1
              /\ Middle(less, lb) = less => (less + 1) * (less + 1) > less * lb
          BY <3>1, MiddleBetween
        <5>5. Middle(less, lb) < lb /\ Middle(less, lb) >= less /\ Middle(less, lb) \in Nat
          BY <1>5, <3>1, <5>3, <5>4
        <5>6. Middle(less, lb) <= less
          BY <1>2, <5>3, <5>5
        <5>7. Middle(less, lb) = less
          BY <3>1, <5>5, <5>6
        <5> QED
          BY <5>4, <5>7 DEF Settled
      <4> QED
        BY <4>1, <4>2
    <3>3. less <= lb
      BY <3>1
    <3> QED
      BY <3>1, <3>2, <3>3
  <2> QED
    BY <2>1, <2>2
<1>7. \E s \in DOMAIN df \cup {ub} : s >= ub /\ Settled(ub, s) /\ (s \in Plateau(l) => s = ub /\ l = Len(Level))
  <2>1. CASE more = MaxSize + 1
    <3>1. l = Len(Level) /\ ub \in 1 .. MaxSize
      BY <1>2, <1>5, <2>1
    <3>2. Settled(ub, ub) /\ ub >= ub
      BY <1>1, <3>1 DEF Settled
    <3> QED
      BY <3>1, <3>2
  <2>2. CASE more # MaxSize + 1
    <3>1. more \in DOMAIN df /\ ub < more /\ more \notin Plateau(l) /\ more \in 1 .. MaxSize /\ ub \in 1 .. MaxSize
      BY <1>2, <1>5, <2>2
    <3>2. Settled(ub, more)
      <4>1. CASE 100 * (more - ub) <= ub
        <5>1. 100 * (more - ub) <= more
          BY <1>1, <3>1, <4>1
        <5> QED
          BY <5>1 DEF Settled
      <4>2. CASE ~(100 * (more - ub) <= ub)
        <5>1. ub * more > ub * ub
          BY <3>1
        <5>2. 100 * (more - ub) > ub
          BY <1>1, <3>1, <4>2
        <5>3. Middle(ub, more) \in DOMAIN df
          BY <1>4, <2>2, <5>1, <5>2
        <5>4. /\ Middle(ub, more) \in ub .. more - 1
              /\ Middle(ub, more) = ub => (ub + 1) * (ub + 1) > ub * more
          BY <3>1, MiddleBetween
        <5>5. Middle(ub, more) < more /\ Middle(ub, more) >= ub /\ Middle(ub, more) \in Nat
          BY <1>5, <3>1, <5>3, <5>4
        <5>6. ~(Middle(ub, more) > ub)
          BY <1>2, <3>1, <5>3, <5>5
        <5>7. Middle(ub, more) = ub
          BY <3>1, <5>5, <5>6
        <5> QED
          BY <5>4, <5>7 DEF Settled
      <4> QED
        BY <4>1, <4>2
    <3>3. more >= ub
      BY <3>1
    <3> QED
      BY <3>1, <3>2, <3>3
  <2> QED
    BY <2>1, <2>2
<1> QED
  BY <1>2, <1>3, <1>6, <1>7 DEF lb, ub

\* A machine stays as clear as it is.
LEMMA StepsStayClear ==
    ASSUME UNCHANGED latency
    PROVE  (Clean' <=> Clean) /\ \A l \in LevelIndex : Plateau(l)' = Plateau(l)
<1>1. ASSUME NEW l \in LevelIndex PROVE Plateau(l)' = Plateau(l)
  BY DEF Plateau
<1>2. Clean' <=> Clean
  <2> DEFINE C(values) ==
                 /\ \A s \in 1 .. MaxSize : latency[s] = {Min(latency[s])}
                 /\ \A s, t \in 1 .. MaxSize : s < t => Min(latency[s]) <= Min(latency[t])
                 /\ Cardinality(values) = Len(Level)
                 /\ \A v, w \in values : v < w => 100 * v < 95 * w
                 /\ \A l \in LevelIndex : Plateau(l) \cap Range(Presweep) # {}
  <2>1. Clean <=> C(UNION Range(latency))
    BY DEF Clean
  <2>2. Clean' <=> C(UNION Range(latency))
    BY <1>1 DEF Clean
  <2> QED
    BY <2>1, <2>2
<1> QED
  BY <1>1, <1>2

\* A round on clear steps.
LEMMA ClearRound ==
    ASSUME MeasuredOK, SpotsOK, BoundsMeasured, Refine, Clean
    PROVE  /\ \A l \in LevelIndex : {bounds'[l].LB, bounds'[l].UB} \subseteq DOMAIN df \cap Plateau(l)
           /\ phase' = "spots" => \A l \in LevelIndex :
                  /\ bounds'[l].LB \in Plateau(l)
                  /\ bounds'[l].UB \in Plateau(l)
                  /\ \A s \in DOMAIN df : s \in Plateau(l) => s \in bounds'[l].LB .. bounds'[l].UB
                  /\ \E s \in DOMAIN df \cup {bounds'[l].LB} : s <= bounds'[l].LB /\ Settled(s, bounds'[l].LB)
                         /\ (s \in Plateau(l) => s = bounds'[l].LB /\ s = 1)
                  /\ \E s \in DOMAIN df \cup {bounds'[l].UB} : s >= bounds'[l].UB /\ Settled(bounds'[l].UB, s)
                         /\ (s \in Plateau(l) => s = bounds'[l].UB /\ l = Len(Level))
<1>1. phase = "refine" /\ df \in Measurements /\ bounds \in [LevelIndex -> LevelBounds]
  BY SweepMeasurements DEF Refine, SpotsOK
<1>2. PICK cuts \in Clusterings(df) :
          LET next == ComputeNewDataSizesCpm(df, bounds, cuts)
          IN /\ bounds' = next.bounds
             /\ phase' = "spots" => next.sizes = {}
  BY DEF Refine
<1> DEFINE groups == 1 .. (Cardinality(cuts) + 1)
           edges == [l \in groups |-> Edges(df, SquaredMedian(df, cuts, l))]
           new == [l \in LevelIndex |-> IF l \in groups THEN Widened(bounds[l], edges[l]) ELSE bounds[l]]
           asked(l) == LeftNewSize(edges[l], new[l]) \cup RightNewSize(edges[l], new[l])
           sizes == UNION {asked(l) : l \in groups}
           next == ComputeNewDataSizesCpm(df, bounds, cuts)
<1>3. groups = LevelIndex
  BY <1>1, ClearGroups, GroupCount
<1>4. next = [bounds |-> new, sizes |-> Unmeasured(sizes, df)]
  BY DEF ComputeNewDataSizesCpm
<1>5. bounds' = new /\ (phase' = "spots" => Unmeasured(sizes, df) = {})
  <2>1. bounds' = next.bounds /\ (phase' = "spots" => next.sizes = {})
    BY <1>2
  <2> HIDE DEF next, new, sizes
  <2> QED
    BY <1>4, <2>1
<1> HIDE DEF groups, next
<1>6. ASSUME NEW l \in LevelIndex
      PROVE  /\ FittingEdges(l, edges[l])
             /\ new[l] = [LB |-> edges[l].LB_size_min_large, UB |-> edges[l].UB_size_max_less]
  <2>1. edges[l] = Edges(df, SquaredMedian(df, cuts, l)) /\ new[l] = Widened(bounds[l], edges[l])
    BY <1>3
  <2> HIDE DEF edges, new
  <2>2. FittingEdges(l, edges[l])
    BY <1>1, <2>1, ClearEdges
  <2>3. bounds[l] \in LevelBounds /\ (bounds[l] # NoBounds[l] => {bounds[l].LB, bounds[l].UB} \subseteq DOMAIN df \cap Plateau(l))
    BY <1>1 DEF BoundsMeasured
  <2>4. Widened(bounds[l], edges[l]) = [LB |-> edges[l].LB_size_min_large, UB |-> edges[l].UB_size_max_less]
    BY <1>1, <2>2, <2>3, ClearBounds
  <2> QED
    BY <2>1, <2>2, <2>4
<1> HIDE DEF edges, new
<1>7. ASSUME NEW l \in LevelIndex PROVE {bounds'[l].LB, bounds'[l].UB} \subseteq DOMAIN df \cap Plateau(l)
  <2>1. {edges[l].LB_size_min_large, edges[l].UB_size_max_less} \subseteq DOMAIN df \cap Plateau(l)
    BY <1>6 DEF FittingEdges
  <2>2. bounds'[l] = new[l]
    BY <1>5
  <2>3. bounds'[l] = [LB |-> edges[l].LB_size_min_large, UB |-> edges[l].UB_size_max_less]
    BY <1>6, <2>2
  <2>4. bounds'[l].LB = edges[l].LB_size_min_large /\ bounds'[l].UB = edges[l].UB_size_max_less
    BY <2>3
  <2> QED
    BY <2>1, <2>4
<1>8. ASSUME phase' = "spots", NEW l \in LevelIndex
      PROVE  LeftNewSize(edges[l], new[l]) \subseteq DOMAIN df /\ RightNewSize(edges[l], new[l]) \subseteq DOMAIN df
  <2>1. asked(l) \subseteq sizes
    BY <1>3
  <2> HIDE DEF sizes
  <2>2. sizes \ DOMAIN df = {}
    BY <1>5, <1>8 DEF Unmeasured
  <2> QED
    BY <2>1, <2>2
<1>9. ASSUME phase' = "spots", NEW l \in LevelIndex
      PROVE  /\ new[l].LB \in Plateau(l)
             /\ new[l].UB \in Plateau(l)
             /\ \A s \in DOMAIN df : s \in Plateau(l) => s \in new[l].LB .. new[l].UB
             /\ \E s \in DOMAIN df \cup {new[l].LB} : s <= new[l].LB /\ Settled(s, new[l].LB)
                    /\ (s \in Plateau(l) => s = new[l].LB /\ s = 1)
             /\ \E s \in DOMAIN df \cup {new[l].UB} : s >= new[l].UB /\ Settled(new[l].UB, s)
                    /\ (s \in Plateau(l) => s = new[l].UB /\ l = Len(Level))
  <2> DEFINE e == edges[l]
             b == new[l]
  <2>1. FittingEdges(l, e) /\ b = [LB |-> e.LB_size_min_large, UB |-> e.UB_size_max_less]
    BY <1>6
  <2>2. LeftNewSize(e, b) \subseteq DOMAIN df /\ RightNewSize(e, b) \subseteq DOMAIN df
    BY <1>8, <1>9
  <2> HIDE DEF e, b
  <2>3. /\ b.LB \in Plateau(l)
        /\ b.UB \in Plateau(l)
        /\ \A s \in DOMAIN df : s \in Plateau(l) => s \in b.LB .. b.UB
        /\ \E s \in DOMAIN df \cup {b.LB} : s <= b.LB /\ Settled(s, b.LB)
               /\ (s \in Plateau(l) => s = b.LB /\ s = 1)
        /\ \E s \in DOMAIN df \cup {b.UB} : s >= b.UB /\ Settled(b.UB, s)
               /\ (s \in Plateau(l) => s = b.UB /\ l = Len(Level))
    BY <1>1, <2>1, <2>2, ClearSettled
  <2> QED
    BY <2>3 DEF b
<1> QED
  BY <1>5, <1>7, <1>9

\* Every step of the sweeps keeps to the edges.
LEMMA EdgesKept ==
    ASSUME MeasuredOK, SpotsOK, FilesOK, BoundsMeasured, EdgesFound, [SweepNext]_sweepVars
    PROVE  BoundsMeasured' /\ EdgesFound'
<1> USE DEF sweepVars, progress
<1>0. ASSUME UNCHANGED latency
      PROVE  (Clean' <=> Clean) /\ \A l \in LevelIndex : Plateau(l)' = Plateau(l)
  BY <1>0, StepsStayClear
<1> DEFINE InSweep(p) == p \in {"refine", "precheck", "spots", "summary"}
<1>1. ASSUME UNCHANGED <<latency, bounds>>, DOMAIN df \subseteq DOMAIN df', InSweep(phase') => InSweep(phase),
             phase' = "spots" => phase = "spots" /\ df' = df
      PROVE  BoundsMeasured' /\ EdgesFound'
  <2>1. (Clean' <=> Clean) /\ \A l \in LevelIndex : Plateau(l)' = Plateau(l)
    BY <1>0, <1>1
  <2>2. BoundsMeasured'
    <3> SUFFICES ASSUME InSweep(phase'), Clean', NEW l \in LevelIndex, bounds'[l] # NoBounds[l]
                 PROVE  {bounds'[l].LB, bounds'[l].UB} \subseteq DOMAIN df' \cap Plateau(l)'
      BY DEF BoundsMeasured
    <3>1. {bounds[l].LB, bounds[l].UB} \subseteq DOMAIN df \cap Plateau(l)
      BY <1>1, <2>1 DEF BoundsMeasured
    <3> QED
      BY <1>1, <2>1, <3>1
  <2>3. EdgesFound'
    <3> SUFFICES ASSUME phase' = "spots", Clean'
                 PROVE  EdgesFound'
      BY DEF EdgesFound
    <3>1. phase = "spots" /\ Clean /\ UNCHANGED <<df, bounds>>
      BY <1>1, <2>1
    <3> QED
      BY <2>1, <3>1 DEF EdgesFound
  <2> QED
    BY <2>2, <2>3
<1>2. ASSUME UNCHANGED latency, ~InSweep(phase') \/ bounds' = NoBounds, phase' # "spots"
      PROVE  BoundsMeasured' /\ EdgesFound'
  BY <1>2 DEF BoundsMeasured, EdgesFound
<1>3. CASE StartLatencySweep
  <2>1. UNCHANGED <<latency, bounds>> /\ bounds = NoBounds /\ phase' \in {"presweep", "refine"}
    BY <1>3 DEF StartLatencySweep, SpotsOK
  <2> QED
    BY <1>2, <2>1
<1>4. CASE OneStep
  <2>1. /\ UNCHANGED <<latency, bounds>> /\ phase \in {"presweep", "precheck"}
        /\ phase' \in {phase, "refine"} /\ (phase = "presweep" => phase' = phase)
    BY <1>4 DEF OneStep
  <2>2. DOMAIN df \subseteq DOMAIN df'
    BY <1>4 DEF OneStep
  <2> QED
    BY <1>1, <2>1, <2>2
<1>5. CASE WritePresweep
  <2>1. UNCHANGED <<latency, bounds>> /\ bounds = NoBounds /\ phase' = "refine"
    BY <1>5 DEF WritePresweep, SpotsOK
  <2> QED
    BY <1>2, <2>1
<1>6. CASE Refine
  <2>1. UNCHANGED <<latency, df>>
    BY <1>6 DEF Refine
  <2>2. (Clean' <=> Clean) /\ \A l \in LevelIndex : Plateau(l)' = Plateau(l)
    BY <1>0, <2>1
  <2>3. BoundsMeasured'
    <3> SUFFICES ASSUME Clean', NEW l \in LevelIndex
                 PROVE  {bounds'[l].LB, bounds'[l].UB} \subseteq DOMAIN df' \cap Plateau(l)'
      BY DEF BoundsMeasured
    <3>1. {bounds'[l].LB, bounds'[l].UB} \subseteq DOMAIN df \cap Plateau(l)
      BY <1>6, <2>2, ClearRound
    <3> QED
      BY <2>1, <2>2, <3>1
  <2>4. EdgesFound'
    <3> SUFFICES ASSUME phase' = "spots", Clean'
                 PROVE  EdgesFound'
      BY DEF EdgesFound
    <3>1. \A l \in LevelIndex :
              /\ bounds'[l].LB \in Plateau(l)
              /\ bounds'[l].UB \in Plateau(l)
              /\ \A s \in DOMAIN df : s \in Plateau(l) => s \in bounds'[l].LB .. bounds'[l].UB
              /\ \E s \in DOMAIN df \cup {bounds'[l].LB} : s <= bounds'[l].LB /\ Settled(s, bounds'[l].LB)
                     /\ (s \in Plateau(l) => s = bounds'[l].LB /\ s = 1)
              /\ \E s \in DOMAIN df \cup {bounds'[l].UB} : s >= bounds'[l].UB /\ Settled(bounds'[l].UB, s)
                     /\ (s \in Plateau(l) => s = bounds'[l].UB /\ l = Len(Level))
      BY <1>6, <2>2, ClearRound
    <3> QED
      BY <2>1, <2>2, <3>1 DEF EdgesFound
  <2> QED
    BY <2>3, <2>4
<1>7. CASE SweetSpot
  <2>1. UNCHANGED <<latency, phase, df, bounds>>
    BY <1>7 DEF SweetSpot
  <2> QED
    BY <1>1, <2>1
<1>8. CASE WriteResults
  <2>1. phase = "spots" /\ phase' = "summary" /\ UNCHANGED <<latency, df, bounds>>
    BY <1>8 DEF WriteResults
  <2> QED
    BY <1>1, <2>1
<1>9. CASE WriteSummary \/ BandwidthSweep \/ StepRaises \/ KillAndResume
  <2>1. UNCHANGED latency /\ phase' \in {"bandwidth", "end", "start"}
    BY <1>9 DEF WriteSummary, BandwidthSweep, StepRaises, KillAndResume
  <2> QED
    BY <1>2, <2>1
<1>10. CASE UNCHANGED sweepVars
  BY <1>1, <1>10
<1> QED
  BY <1>3, <1>4, <1>5, <1>6, <1>7, <1>8, <1>9, <1>10 DEF SweepNext, Step

\* What the sweeps keep, the recipes that follow keep too.
LEMMA SweepKept ==
    ASSUME SweepIInv, [RecipesNext]_allVars
    PROVE  /\ SweepIInv'
           /\ [SweepNext]_sweepVars \/ UNCHANGED <<latency, progress, files, table>>
<1>1. CASE [SweepNext]_sweepVars
  BY <1>1, MeasuredKept, FilesKept, EdgesKept DEF SweepIInv
<1>2. CASE RecipeRaises
  <2>1. UNCHANGED <<latency, phase, df, todo, bounds, spots, files, table>> /\ faults < MaxFaults /\ faults' = faults + 1
    BY <1>2 DEF RecipeRaises, progress
  <2>2. faults' \in 0 .. MaxFaults
    BY <2>1, SweepAssumption DEF SweepAssumption, SweepIInv, MeasuredOK
  <2>3. MeasuredOK' /\ SpotsOK'
    BY <2>1, <2>2 DEF SweepIInv, MeasuredOK, SpotsOK
  <2>4. FilesOK'
    BY <2>1 DEF SweepIInv, FilesOK, RowsNameTheirLevel
  <2>5. (Clean' <=> Clean) /\ \A l \in LevelIndex : Plateau(l)' = Plateau(l)
    BY <2>1, StepsStayClear
  <2>6. BoundsMeasured' /\ EdgesFound'
    BY <2>1, <2>5 DEF SweepIInv, BoundsMeasured, EdgesFound
  <2> QED
    BY <2>1, <2>3, <2>4, <2>6 DEF SweepIInv, progress
<1>3. CASE RecipesNext /\ ~RecipeRaises
  <2>1. SweepNext \/ UNCHANGED sweepVars
    BY <1>3 DEF RecipesNext, BeginRecipe, CrossNumaStep, PeakStep, LoadedStep, LoadedStepFails, C2CStep, StorageStep,
                AfterStep, AllDone, allVars
  <2> QED
    BY <1>1, <2>1
<1>4. CASE UNCHANGED allVars
  BY <1>1, <1>4 DEF allVars
<1> QED
  BY <1>2, <1>3, <1>4

\* The invariant says that the levels are found.
LEMMA SweepSaysSo ==
    ASSUME SweepIInv
    PROVE  LevelsFound
<1>1. Range(todo) \subseteq 1 .. MaxSize
  <2> DEFINE T == 1 .. MaxSize
  <2>1. todo \in Seq(T)
    BY DEF SweepIInv, MeasuredOK
  <2> HIDE DEF T
  <2>2. Range(todo) \subseteq T
    BY <2>1, RangeEquality
  <2> QED
    BY <2>2 DEF T
<1>2. Range(spots) \subseteq Spot
  <2>1. spots \in Seq(Spot)
    BY DEF SweepIInv, SpotsOK
  <2> QED
    BY <2>1, RangeEquality
<1>3. ASSUME NEW l \in LevelIndex PROVE bounds[l].LB \in 1 .. (MaxSize + 1) /\ bounds[l].UB \in 0 .. MaxSize
  <2>1. bounds[l] \in LevelBounds /\ MaxSize \in Nat
    BY SweepAssumption DEF SweepIInv, SpotsOK, SweepAssumption
  <2> QED
    BY <2>1 DEF LevelBounds
<1>4. SweepTypeOK
  BY <1>1, <1>2, <1>3 DEF SweepTypeOK, SweepIInv, MeasuredOK
<1> QED
  BY <1>4 DEF LevelsFound, SweepIInv, FilesOK

\* Only a round of refinement moves the bounds while the sweep goes on.
LEMMA SweepWidens ==
    ASSUME SweepIInv, [RecipesNext]_allVars, phase' \notin {"start", "end"}
    PROVE  \A l \in LevelIndex : bounds'[l].LB <= bounds[l].LB /\ bounds'[l].UB >= bounds[l].UB
<1>1. ASSUME UNCHANGED bounds, NEW l \in LevelIndex
      PROVE  bounds'[l].LB <= bounds[l].LB /\ bounds'[l].UB >= bounds[l].UB
  <2>1. bounds[l] \in LevelBounds /\ MaxSize \in Nat
    BY SweepAssumption DEF SweepIInv, SpotsOK, SweepAssumption
  <2>2. bounds[l].LB \in Int /\ bounds[l].UB \in Int
    BY <2>1 DEF LevelBounds
  <2> QED
    BY <1>1, <2>2
<1>2. CASE Refine
  BY <1>2, RefineStep DEF SweepIInv
<1>3. UNCHANGED bounds \/ Refine
  <2>1. SweepNext \/ UNCHANGED bounds
    BY SweepKept DEF sweepVars, progress
  <2>2. CASE SweepNext
    BY <2>2 DEF SweepNext, Step, StartLatencySweep, OneStep, WritePresweep, SweetSpot, WriteResults, WriteSummary,
                BandwidthSweep, StepRaises, KillAndResume
  <2> QED
    BY <2>1, <2>2
<1> QED
  BY <1>1, <1>2, <1>3

\* Nothing is measured, bounded or on disk at first.
LEMMA SweepStart ==
    ASSUME SweepInit
    PROVE  SweepIInv
<1>1. /\ latency \in Machines /\ phase = "start" /\ df = NoData /\ todo = <<>> /\ bounds = NoBounds /\ spots = <<>> /\ faults = 0
      /\ files = [presweep |-> None, results |-> None, summary |-> None]
      /\ table = [latency |-> None, bandwidth |-> None]
  BY DEF SweepInit
<1>2. NoData = [s \in DOMAIN NoData |-> NoData[s]] /\ DOMAIN NoData = {}
  BY DEF NoData
<1>3. MaxFaults \in Nat /\ Len(Level) \in Nat
  BY SweepAssumption, LenProperties DEF SweepAssumption
<1>4. MeasuredOK
  BY <1>1, <1>2, <1>3 DEF MeasuredOK
<1>5. SpotsOK
  <2>1. NoBounds \in [LevelIndex -> LevelBounds]
    BY DEF NoBounds, LevelBounds
  <2>2. <<>> \in Seq(Spot) /\ Len(<<>>) = 0
    OBVIOUS
  <2> QED
    BY <1>1, <1>3, <2>1, <2>2 DEF SpotsOK
<1>6. FilesOK
  BY <1>1 DEF FilesOK, RowsNameTheirLevel
<1>7. BoundsMeasured /\ EdgesFound
  BY <1>1 DEF BoundsMeasured, EdgesFound
<1> QED
  BY <1>4, <1>5, <1>6, <1>7 DEF SweepIInv

----------------------------------------------------------------------------
(* Theorems about Topology, CacheSweep and MemoryRecipes *)

\* The System object is built in order, whatever CPUs come and go.
THEOREM Discovery == RecipesSpec => []DiscoveryInv
<1>1. RecipesInit => DiscoveryInv
  BY RecipesStart
<1>2. DiscoveryInv /\ [RecipesNext]_allVars => DiscoveryInv'
  BY DiscoveryInside, FoundKept, MachineKept, TreeKept DEF DiscoveryInv
<1> QED
  BY <1>1, <1>2, PTL DEF RecipesSpec

\* The parent that add_groups finds for a group of CPUs is the smallest group
\* around it, for any order of directories and any number of hotplugs.
THEOREM GroupTree == RecipesSpec => []GroupsNest
<1>1. DiscoveryInv => GroupsNest
  BY DEF DiscoveryInv
<1> QED
  BY <1>1, Discovery, PTL

\* With a single hotplug system-info reports the machine of one moment: the
\* comparison of the two CPU counts rejects every result that mixes two.
THEOREM MachineSound ==
    ASSUME MaxHotplugs <= 1
    PROVE  RecipesSpec => []MachineReported
<1>1. RecipesInit => StillSo /\ TopologyOfOneMoment
  BY RecipesStart
<1>2. DiscoveryInv /\ StillSo /\ TopologyOfOneMoment /\ [RecipesNext]_allVars => StillSo' /\ TopologyOfOneMoment'
  BY DiscoveryInside, StillSoKept, MomentKept DEF DiscoveryInv
<1>3. DiscoveryInv /\ TopologyOfOneMoment => MachineReported
  BY DEF DiscoveryInv, MachineReported
<1> QED
  BY <1>1, <1>2, <1>3, Discovery, PTL DEF RecipesSpec

\* What the recipes rely on.
THEOREM RecipesInvariance == RecipesSpec => []RecipesIInv
<1>1. RecipesInit => RecipesIInv
  BY RecipesStart
<1>2. DiscoveryInv /\ RecipesIInv /\ [RecipesNext]_allVars => RecipesIInv'
  BY RecipesKept
<1> QED
  BY <1>1, <1>2, Discovery, PTL DEF RecipesSpec

\* On every machine, and whatever the settings, the processes of a recipe run on
\* CPUs of the machine and no two of them on one, and a bandwidth that is shown
\* for the machine is that of the CPUs that ran.
THEOREM CpusSound == RecipesSpec => []CpusAccountedFor
<1>1. RecipesIInv => CpusAccountedFor
  <2>1. ASSUME RecipesIInv PROVE CpusAccountedFor
    <3>1. RoundsOK /\ RowsOK
      BY <2>1 DEF RecipesIInv
    <3>2. RecipesTypeOK
      BY <3>1 DEF RecipesTypeOK, RoundsOK, RoundOK
    <3>3. CpusApart
      BY <3>1 DEF CpusApart, RoundsOK, RoundOK
    <3>4. BandwidthAddsUp
      <4>1. \A s \in Seq(SoundRow) : \A k \in DOMAIN s : s[k] \in SoundRow
        OBVIOUS
      <4> QED
        BY <3>1, <4>1 DEF BandwidthAddsUp, RowsOK, SoundRow
    <3> QED
      BY <3>2, <3>3, <3>4 DEF CpusAccountedFor
  <2> QED
    BY <2>1
<1> QED
  BY <1>1, RecipesInvariance, PTL

\* The tables of the recipes.
THEOREM TablesInvariance == RecipesSpec => []TablesIInv
<1>1. RecipesInit => TablesIInv
  BY DEF RecipesInit, TablesIInv, CellsOK, LoadsOK, CorePairsOK, Running
<1>2. DiscoveryInv /\ RecipesIInv /\ TablesIInv /\ [RecipesNext]_allVars => TablesIInv'
  BY TablesKept
<1> QED
  BY <1>1, <1>2, Discovery, RecipesInvariance, PTL DEF RecipesSpec

\* Every figure that the memory and storage recipes report was measured on the
\* CPUs, with the memory and at the time its place says, for every machine, all
\* settings and any results of the jobs, except that core-to-core latencies for
\* memory of node 0, which pingpong does not bind, may be of memory anywhere; a
\* later view shows the same, and diff compares the same cells and the remote
\* core-to-core latencies of the view among others.  The machine, read at one
\* moment because of get_cpu_count, survives to_dict and from_dict.
THEOREM TablesSound ==
    ASSUME MaxHotplugs <= 1
    PROVE  RecipesSpec => []TablesSayWhatWasMeasured
<1>1. RecipesInit => StillSo /\ MachineRead
  BY RecipesStart DEF RecipesInit, TopologyInit, MachineRead
<1>2. DiscoveryInv /\ StillSo /\ MachineRead /\ [RecipesNext]_allVars => StillSo' /\ MachineRead'
  BY DiscoveryInside, StillSoKept, MachineReadKept DEF DiscoveryInv
<1>3. DiscoveryInv /\ MachineRead /\ TablesIInv => TablesSayWhatWasMeasured
  BY MachineReads, TablesSaySo DEF DiscoveryInv, TablesSayWhatWasMeasured
<1> QED
  BY <1>1, <1>2, <1>3, Discovery, TablesInvariance, PTL DEF RecipesSpec

\* Where the latencies of a machine are clear steps, all bounds are sizes that
\* were measured on their own steps, and every row on disk or in a table is one
\* of a level, whatever the noise, the groups and the faults are.
THEOREM SweepInvariance == RecipesSpec => []SweepIInv
<1>1. RecipesInit => SweepIInv
  BY SweepStart DEF RecipesInit
<1>2. SweepIInv /\ [RecipesNext]_allVars => SweepIInv'
  BY SweepKept
<1> QED
  BY <1>1, <1>2, PTL DEF RecipesSpec

\* latency-sweep finds the levels where they are, to 1% or to the sizes that the
\* bisection can propose, and bandwidth-sweep names the level that a bandwidth
\* was measured for, for every range of sizes and all levels and machines.
THEOREM LevelsSound == RecipesSpec => []LevelsFound
<1>1. SweepIInv => LevelsFound
  BY SweepSaysSo
<1> QED
  BY <1>1, SweepInvariance, PTL

\* The refinement only ever widens the bounds of a level, whatever k-means makes
\* of the measurements of a round.
THEOREM BoundsOnlyWiden == RecipesSpec => BoundsWiden
<1>1. SweepIInv /\ [RecipesNext]_allVars =>
          [phase' \notin {"start", "end"} => \A l \in LevelIndex : bounds'[l].LB <= bounds[l].LB /\ bounds'[l].UB >= bounds[l].UB]_sweepVars
  BY SweepWidens
<1> QED
  BY <1>1, SweepInvariance, PTL DEF RecipesSpec, BoundsWiden
=============================================================================
