---------------------- MODULE ConnectionGovernorProofs ----------------------
(***************************************************************************)
(* Machine-checked proofs about ConnectionGovernor, for every set of       *)
(* callers, every choice of priority classes and every set of ceilings.    *)
(***************************************************************************)
EXTENDS ConnectionGovernor, FiniteSetTheorems, WellFoundedInduction, TLAPS


-----------------------------------------------------------------------------
\* Every non-empty set of naturals has a least element.
LEMMA LeastNatural ==
    ASSUME NEW S \in SUBSET Nat, S # {}
    PROVE  \E n \in S : \A m \in S : n <= m
<1>1. \E x \in S : \A y \in S : ~(<<y, x>> \in OpToRel(<, Nat))
  BY NatLessThanWellFounded, WFMin
<1>2. PICK x \in S : \A y \in S : ~(<<y, x>> \in OpToRel(<, Nat))
  BY <1>1
<1>3. ASSUME NEW y \in S PROVE x <= y
  <2>1. ~(<<y, x>> \in OpToRel(<, Nat))
    BY <1>2
  <2>2. ~(y < x)
    BY <2>1 DEF OpToRel
  <2> QED BY <2>2
<1> QED BY <1>3

\* bestWaiterIndex orders any two waiters of the queue, one way or the other.
LEMMA BeforeTotal ==
    ASSUME TypeOK, WaitersOrdered,
           NEW v \in waiters, NEW w \in waiters, v # w
    PROVE  Before(v, w) \/ Before(w, v)
<1>1. waiter[v] \in Waiter /\ waiter[w] \in Waiter
  BY DEF TypeOK
<1>2. waiter[v].priority \in 0 .. 2 /\ waiter[w].priority \in 0 .. 2
  BY <1>1, PrioritiesAssumption DEF Waiter
<1>3. waiter[v].sequence \in Nat /\ waiter[w].sequence \in Nat
  BY <1>1 DEF Waiter
<1>4. waiter[v].sequence # waiter[w].sequence
  BY DEF WaitersOrdered
<1> QED BY <1>2, <1>3, <1>4 DEF Before

\* Being served before is transitive and irreflexive.
LEMMA BeforeOrder ==
    ASSUME TypeOK, NEW u \in waiters, NEW v \in waiters, NEW w \in waiters
    PROVE  /\ Before(u, v) /\ Before(v, w) => Before(u, w)
           /\ ~Before(v, v)
<1>1. \A x \in {u, v, w} : waiter[x].priority \in 0 .. 2
  BY PrioritiesAssumption DEF TypeOK, Waiter
<1>2. \A x \in {u, v, w} : waiter[x].sequence \in Nat
  BY DEF TypeOK, Waiter
<1> QED BY <1>1, <1>2 DEF Before

\* A non-empty queue has a head: a waiter that nobody is served before.
LEMMA HeadExists ==
    ASSUME TypeOK, waiters # {}
    PROVE  \E w \in waiters : Ahead(w) = {}
<1> DEFINE P == {2 - waiter[w].priority : w \in waiters}
<1>0. /\ \A w \in waiters : waiter[w].priority \in 0 .. 2
      /\ \A w \in waiters : waiter[w].sequence \in Nat
  BY PrioritiesAssumption DEF TypeOK, Waiter
<1>1. P \in SUBSET Nat /\ P # {}
  BY <1>0
<1>2. PICK p \in P : \A q \in P : p <= q
  BY <1>1, LeastNatural
<1> DEFINE Top == {w \in waiters : 2 - waiter[w].priority = p}
           Q == {waiter[w].sequence : w \in Top}
<1>3. Q \in SUBSET Nat /\ Q # {}
  BY <1>0, <1>2
<1>4. PICK n \in Q : \A q \in Q : n <= q
  BY <1>3, LeastNatural
<1>5. PICK w \in Top : waiter[w].sequence = n
  BY <1>4
<1>6. ASSUME NEW v \in waiters, Before(v, w) PROVE FALSE
  <2>1. 2 - waiter[w].priority = p /\ p <= 2 - waiter[v].priority
    BY <1>2, <1>5
  <2>2. waiter[v].priority = waiter[w].priority
    BY <2>1, <1>6, <1>5, <1>0 DEF Before
  <2>3. v \in Top
    BY <2>1, <2>2
  <2>4. waiter[w].sequence <= waiter[v].sequence
    BY <2>3, <1>4, <1>5
  <2> QED BY <2>2, <2>4, <1>6, <1>5, <1>0 DEF Before
<1> QED BY <1>5, <1>6 DEF Ahead

-----------------------------------------------------------------------------
\* Slots, the queue and what dispatchLocked wakes are finite sets of callers.
LEMMA FiniteParts ==
    ASSUME TypeOK, NEW h
    PROVE  /\ IsFiniteSet(Slots)
           /\ \A w : IsFiniteSet(Ahead(w)) /\ Cardinality(Ahead(w)) \in Nat
           /\ IsFiniteSet(Woken(h)) /\ Cardinality(Woken(h)) \in Nat
           /\ Woken(h) \subseteq waiters
<1>1. Slots \in SUBSET Callers
  BY DEF Slots
<1>2. \A w : Ahead(w) \in SUBSET Callers
  BY DEF Ahead, TypeOK
<1>3. Woken(h) \in SUBSET waiters /\ Woken(h) \in SUBSET Callers
  BY DEF Woken, TypeOK
<1> QED BY <1>1, <1>2, <1>3, CallersAssumption, FS_Subset, FS_CardinalityType

\* With an idle budget the head of a non-empty queue is always woken.
LEMMA HeadIsWoken ==
    ASSUME TypeOK, waiters # {}
    PROVE  Woken(0) # {}
<1>1. PICK w \in waiters : Ahead(w) = {}
  BY HeadExists
<1>2. Cardinality(Ahead(w)) = 0
  BY <1>1, FS_EmptySet
<1>3. waiter[w].limit \in Int
  BY CeilingsAssumption DEF TypeOK, Waiter
<1>4. AdmissibleLocked(waiter[w].limit, 0 + Cardinality(Ahead(w)))
  BY <1>2, <1>3 DEF AdmissibleLocked
<1>5. w \in Woken(0)
  BY <1>1, <1>4 DEF Woken
<1> QED BY <1>5

\* release together with its dispatch, called by a caller that owns a slot and
\* moves to a program point where it owns none, keeps the invariant.
LEMMA ReleaseKeepsInv ==
    ASSUME IndInv, NEW c \in Callers, NEW after \in {"idle", "released"},
           pc[c] \in {"leased", "returning"},
           ReleaseAndDispatch,
           pc' = [pc EXCEPT ![c] = after]
    PROVE  IndInv'
<1> USE DEF IndInv
<1>1. c \in Slots /\ c \notin waiters /\ c \notin granted
  BY DEF Slots, QueueConsistent, WaitersOrdered, TypeOK
<1>2. IsFiniteSet(Slots)
  BY FiniteParts
<1>3. holders >= 1 /\ holders \in Nat
  BY <1>1, <1>2, FS_EmptySet, FS_CardinalityType DEF SlotsAccounted, TypeOK
<1> DEFINE left == holders - 1
<1>4. /\ left \in Nat
      /\ holders' = left + Cardinality(Woken(left))
      /\ waiters' = waiters \ Woken(left)
      /\ granted' = granted \cup Woken(left)
      /\ sequence' = sequence
      /\ waiter' = waiter
  <2>1. left \in Nat /\ (IF holders <= 1 THEN 0 ELSE holders - 1) = left
    BY <1>3
  <2> QED BY <2>1 DEF ReleaseAndDispatch
<1>5. /\ Woken(left) \subseteq waiters
      /\ IsFiniteSet(Woken(left))
      /\ Cardinality(Woken(left)) \in Nat
  BY FiniteParts
<1> HIDE DEF left
<1>6. TypeOK'
  BY <1>4, <1>5 DEF TypeOK, Steps
<1>7. QueueConsistent'
  BY <1>1, <1>4, <1>5 DEF QueueConsistent, TypeOK
<1>8. WaitersOrdered'
  BY <1>1, <1>4, <1>5 DEF WaitersOrdered, QueueConsistent, TypeOK
<1>9. SlotsAccounted'
  <2>1. Slots' = (Slots \ {c}) \cup Woken(left)
    BY <1>1, <1>4, <1>5 DEF Slots, QueueConsistent, WaitersOrdered, TypeOK
  <2>2. (Slots \ {c}) \cap Woken(left) = {}
    BY <1>5 DEF Slots, QueueConsistent
  <2>3. IsFiniteSet(Slots \ {c}) /\ Cardinality(Slots \ {c}) = left
    BY <1>1, <1>2, FS_RemoveElement DEF SlotsAccounted, left
  <2>4. Cardinality((Slots \ {c}) \cup Woken(left))
          = left + Cardinality(Woken(left)) - Cardinality({})
    BY <2>2, <2>3, <1>5, FS_Union
  <2>5. Cardinality((Slots \ {c}) \cup Woken(left))
          = left + Cardinality(Woken(left))
    BY <2>4, <1>4, <1>5, FS_EmptySet
  <2> QED BY <2>1, <2>5, <1>4 DEF SlotsAccounted
<1>10. NoLostWakeup'
  <2>1. CASE left >= 1
    BY <2>1, <1>4, <1>5 DEF NoLostWakeup
  <2>2. CASE left = 0 /\ waiters # {}
    <3>1. Woken(left) # {}
      BY <2>2, HeadIsWoken
    <3>2. Cardinality(Woken(left)) >= 1
      BY <3>1, <1>5, FS_EmptySet
    <3> QED BY <3>2, <2>2, <1>4, <1>5 DEF NoLostWakeup
  <2>3. CASE waiters = {}
    BY <2>3, <1>4 DEF NoLostWakeup
  <2> QED BY <2>1, <2>2, <2>3, <1>4
<1> QED BY <1>6, <1>7, <1>8, <1>9, <1>10

\* The fast path of acquire and tryAcquire keeps the invariant.
LEMMA AdmitKeepsInv ==
    ASSUME IndInv, NEW c \in Callers, NEW l \in Ceilings,
           CanCall(c), Admit(c, l)
    PROVE  IndInv'
<1> USE DEF IndInv, Admit, CanCall
<1>1. c \notin Slots /\ c \notin granted
  BY DEF Slots, WaitersOrdered, TypeOK
<1>2. TypeOK'
  BY DEF TypeOK, Steps
<1>3. QueueConsistent'
  BY DEF QueueConsistent, TypeOK
<1>4. WaitersOrdered'
  BY <1>1 DEF WaitersOrdered, TypeOK
<1>5. SlotsAccounted'
  <2>1. Slots' = Slots \cup {c}
    BY <1>1 DEF Slots, TypeOK
  <2>2. Cardinality(Slots \cup {c}) = Cardinality(Slots) + 1
    BY <1>1, FiniteParts, FS_AddElement
  <2> QED BY <2>1, <2>2 DEF SlotsAccounted
<1>6. NoLostWakeup'
  BY DEF NoLostWakeup
<1> QED BY <1>2, <1>3, <1>4, <1>5, <1>6

\* The slow path of acquire keeps the invariant; it queues only behind a
\* holder or behind somebody who queues behind one.
LEMMA QueueKeepsInv ==
    ASSUME IndInv, NEW c \in Callers, NEW p \in Priorities, NEW l \in Ceilings,
           AcquireQueued(c, p, l)
    PROVE  IndInv'
<1> USE DEF IndInv, AcquireQueued, CanCall
<1>1. c \notin waiters /\ c \notin granted
  BY DEF QueueConsistent, WaitersOrdered
<1>2. TypeOK'
  BY DEF TypeOK, Steps, Waiter
<1>3. QueueConsistent'
  BY <1>1 DEF QueueConsistent, TypeOK
<1>4. WaitersOrdered'
  <2>1. \A w \in waiters : waiter'[w] = waiter[w] /\ waiter[w].sequence \in Nat
    BY <1>1 DEF TypeOK, Waiter
  <2>2. waiter'[c].sequence = sequence /\ sequence \in Nat
    BY DEF TypeOK
  <2>3. \A w \in waiters' : waiter'[w].sequence < sequence'
    BY <2>1, <2>2 DEF WaitersOrdered
  <2>4. \A v, w \in waiters' : v # w => waiter'[v].sequence # waiter'[w].sequence
    BY <2>1, <2>2 DEF WaitersOrdered
  <2>5. \A d \in granted' : pc'[d] = "selecting"
    BY DEF WaitersOrdered, TypeOK
  <2> QED BY <2>3, <2>4, <2>5 DEF WaitersOrdered
<1>5. SlotsAccounted'
  <2>1. Slots' = Slots
    BY <1>1 DEF Slots, TypeOK
  <2> QED BY <2>1 DEF SlotsAccounted
<1>6. NoLostWakeup'
  <2>1. CASE waiters # {}
    BY <2>1 DEF NoLostWakeup
  <2>2. CASE ~AdmissibleLocked(l, holders)
    BY <2>2, CeilingsAssumption DEF AdmissibleLocked, NoLostWakeup, TypeOK
  <2> QED BY <2>1, <2>2
<1> QED BY <1>2, <1>3, <1>4, <1>5, <1>6

\* Both ways out of the select keep the invariant: the slot of a granted
\* waiter stays accounted for whether its caller sees ready or ctx.Done.
LEMMA SelectKeepsInv ==
    ASSUME IndInv, NEW c \in Callers, Ready(c) \/ ContextDone(c)
    PROVE  IndInv'
<1> USE DEF IndInv, Ready, ContextDone, DropWaiter
<1>0. NoWaiter \in Waiter
  BY PrioritiesAssumption, CeilingsAssumption DEF NoWaiter, Waiter
<1>1. TypeOK'
  BY <1>0 DEF TypeOK, Steps
<1>2. c \in granted => c \notin waiters
  BY DEF QueueConsistent
<1>3. QueueConsistent'
  BY <1>2 DEF QueueConsistent, TypeOK
<1>4. WaitersOrdered'
  <2>1. c \notin waiters' /\ waiters' \subseteq waiters
    BY <1>2
  <2>2. \A w \in waiters' : waiter'[w] = waiter[w]
    BY <2>1 DEF TypeOK
  <2>3. \A d \in granted' : pc'[d] = "selecting"
    BY DEF WaitersOrdered, TypeOK
  <2> QED BY <2>1, <2>2, <2>3 DEF WaitersOrdered
<1>5. SlotsAccounted'
  <2>1. Slots' = Slots
    BY DEF Slots, TypeOK
  <2> QED BY <2>1 DEF SlotsAccounted
<1>6. NoLostWakeup'
  BY DEF NoLostWakeup
<1> QED BY <1>1, <1>3, <1>4, <1>5, <1>6

\* The invariant holds initially and every step of the governor keeps it.
THEOREM Invariance == Spec => []IndInv
<1>1. Init => IndInv
  <2> SUFFICES ASSUME Init PROVE IndInv
    OBVIOUS
  <2> USE DEF Init
  <2>1. NoWaiter \in Waiter
    BY PrioritiesAssumption, CeilingsAssumption DEF NoWaiter, Waiter
  <2>2. TypeOK
    BY <2>1 DEF TypeOK, Steps
  <2>3. Slots = {}
    BY DEF Slots
  <2>4. SlotsAccounted
    BY <2>3, FS_EmptySet DEF SlotsAccounted
  <2>5. QueueConsistent /\ WaitersOrdered /\ NoLostWakeup
    BY DEF QueueConsistent, WaitersOrdered, NoLostWakeup
  <2> QED BY <2>2, <2>4, <2>5 DEF IndInv
<1>2. IndInv /\ [Next]_vars => IndInv'
  <2> SUFFICES ASSUME IndInv, [Next]_vars PROVE IndInv'
    OBVIOUS
  <2>1. ASSUME NEW c \in Callers, NEW l \in Ceilings,
               AcquireNow(c, l) \/ TryAcquire(c, l)
        PROVE  IndInv'
    BY <2>1, AdmitKeepsInv DEF AcquireNow, TryAcquire
  <2>2. ASSUME NEW c \in Callers, NEW p \in Priorities, NEW l \in Ceilings,
               AcquireQueued(c, p, l)
        PROVE  IndInv'
    BY <2>2, QueueKeepsInv
  <2>3. ASSUME NEW c \in Callers, Ready(c) \/ ContextDone(c) PROVE IndInv'
    BY <2>3, SelectKeepsInv
  <2>4. ASSUME NEW c \in Callers, ReturnSlot(c) PROVE IndInv'
    BY <2>4, ReleaseKeepsInv DEF ReturnSlot
  <2>5. ASSUME NEW c \in Callers, pc[c] = "leased", ReleaseAndDispatch,
               pc' = [pc EXCEPT ![c] = "released"]
        PROVE  IndInv'
    BY <2>5, ReleaseKeepsInv
  <2>6. CASE UNCHANGED vars
    BY <2>6 DEF vars, IndInv, TypeOK, SlotsAccounted, QueueConsistent,
       WaitersOrdered, NoLostWakeup, Slots
  <2> QED BY <2>1, <2>2, <2>3, <2>4, <2>5, <2>6 DEF Next, Release
<1> QED BY <1>1, <1>2, PTL DEF Spec

\* Every variable of the governor keeps its type.
THEOREM TypeCorrect == Spec => []TypeOK
<1>1. IndInv => TypeOK
  BY DEF IndInv
<1> QED BY <1>1, Invariance, PTL

\* The holder count is the number of callers that own a slot: no race of a
\* grant with an ending context and no repeated release leaks or forges one.
THEOREM SlotsNeverLeak == Spec => []SlotsAccounted
<1>1. IndInv => SlotsAccounted
  BY DEF IndInv
<1> QED BY <1>1, Invariance, PTL

\* A queued caller always has a holder whose release will dispatch the queue.
THEOREM WakeupsNeverLost == Spec => []NoLostWakeup
<1>1. IndInv => NoLostWakeup
  BY DEF IndInv
<1> QED BY <1>1, Invariance, PTL

-----------------------------------------------------------------------------
\* When every request carries the same ceiling and the queue is not empty, a
\* release wakes exactly the head of the queue, so the budget stays full.
LEMMA HandOverOne ==
    ASSUME IndInv, NEW l \in Ceilings, Ceilings = {l}, l > 0,
           waiters # {}, holders = l
    PROVE  Cardinality(Woken(l - 1)) = 1
<1> USE DEF IndInv
<1>0. l \in Int
  BY CeilingsAssumption
<1>1. PICK w \in waiters : Ahead(w) = {}
  BY HeadExists
<1>2. \A v \in waiters : waiter[v].limit = l
  BY DEF TypeOK, Waiter
<1>3. Cardinality(Ahead(w)) = 0
  BY <1>1, FS_EmptySet
<1>4. AdmissibleLocked(waiter[w].limit, (l - 1) + Cardinality(Ahead(w)))
  BY <1>0, <1>1, <1>2, <1>3 DEF AdmissibleLocked
<1>5. w \in Woken(l - 1)
  BY <1>1, <1>4 DEF Woken
<1>6. ASSUME NEW v \in Woken(l - 1) PROVE v = w
  <2>1. v \in waiters
    BY DEF Woken
  <2>2. AdmissibleLocked(waiter[v].limit, (l - 1) + Cardinality(Ahead(v)))
    BY DEF Woken
  <2>3. Cardinality(Ahead(v)) \in Nat /\ IsFiniteSet(Ahead(v))
    BY FiniteParts
  <2>4. waiter[v].limit = l
    BY <1>2, <2>1
  <2>5. Cardinality(Ahead(v)) = 0
    BY <1>0, <2>2, <2>3, <2>4 DEF AdmissibleLocked
  <2>6. Ahead(v) = {}
    BY <2>3, <2>5, FS_EmptySet
  <2>7. ~Before(w, v) /\ ~Before(v, w)
    BY <1>1, <2>1, <2>6 DEF Ahead
  <2> QED BY <2>1, <2>7, BeforeTotal
<1>7. Woken(l - 1) = {w}
  BY <1>5, <1>6
<1> QED BY <1>7, FS_Singleton

\* A release keeps the budget exact under one ceiling.
LEMMA ReleaseKeepsCeiling ==
    ASSUME IndInv, WorkConserving, CeilingRespected, NEW c \in Callers,
           pc[c] \in {"leased", "returning"}, ReleaseAndDispatch,
           NEW l \in Ceilings, Ceilings = {l}, l > 0
    PROVE  holders' <= l /\ (waiters' # {} => holders' >= l)
<1> USE DEF IndInv
<1>0. l \in Int /\ holders \in Nat /\ holders <= l
  BY CeilingsAssumption DEF CeilingRespected, SlotsAccounted, TypeOK
<1>1. c \in Slots /\ IsFiniteSet(Slots)
  BY FiniteParts DEF Slots
<1>2. holders >= 1
  BY <1>0, <1>1, FS_EmptySet DEF SlotsAccounted
<1>3. (IF holders <= 1 THEN 0 ELSE holders - 1) = holders - 1
  BY <1>0, <1>2
<1>4. /\ holders' = (holders - 1) + Cardinality(Woken(holders - 1))
      /\ waiters' = waiters \ Woken(holders - 1)
  BY <1>3 DEF ReleaseAndDispatch
<1>5. CASE waiters = {}
  <2>1. Woken(holders - 1) = {}
    BY <1>5 DEF Woken
  <2>2. Cardinality(Woken(holders - 1)) = 0
    BY <2>1, FS_EmptySet
  <2> QED BY <2>2, <1>0, <1>4, <1>5
<1>6. CASE waiters # {}
  <2>1. holders = l
    BY <1>0, <1>6 DEF WorkConserving
  <2>2. Cardinality(Woken(holders - 1)) = 1
    BY <1>6, <2>1, HandOverOne
  <2> QED BY <2>1, <2>2, <1>0, <1>4
<1> QED BY <1>5, <1>6

\* With one ceiling for every caller of an instance, its open sessions never
\* exceed the ceiling and nobody queues while a slot is free.
THEOREM OneCeiling == Spec => [](CeilingRespected /\ WorkConserving)
<1> DEFINE Budget == CeilingRespected /\ WorkConserving
<1>1. Init => Budget
  <2> SUFFICES ASSUME Init PROVE Budget
    OBVIOUS
  <2>1. Slots = {}
    BY DEF Init, Slots
  <2>2. Cardinality(Slots) = 0
    BY <2>1, FS_EmptySet
  <2> QED BY <2>2, CeilingsAssumption DEF Init, CeilingRespected, WorkConserving
<1>2. IndInv /\ IndInv' /\ Budget /\ [Next]_vars => Budget'
  <2> SUFFICES ASSUME IndInv, IndInv', Budget, [Next]_vars,
                      NEW l \in Ceilings, Ceilings = {l}
               PROVE  /\ l > 0 => holders' <= l
                      /\ waiters' # {} => l > 0 /\ holders' >= l
    BY DEF IndInv, SlotsAccounted, CeilingRespected, WorkConserving
  <2>0. /\ l \in Int /\ holders \in Nat
        /\ l > 0 => holders <= l
        /\ waiters # {} => l > 0 /\ holders >= l
    BY CeilingsAssumption DEF IndInv, TypeOK, SlotsAccounted, CeilingRespected,
       WorkConserving
  <2>1. ASSUME NEW c \in Callers, NEW k \in Ceilings,
               AcquireNow(c, k) \/ TryAcquire(c, k)
        PROVE  /\ l > 0 => holders' <= l
               /\ waiters' # {} => l > 0 /\ holders' >= l
    BY <2>0, <2>1 DEF AcquireNow, TryAcquire, Admit, AdmissibleLocked
  <2>2. ASSUME NEW c \in Callers, NEW p \in Priorities, NEW k \in Ceilings,
               AcquireQueued(c, p, k)
        PROVE  /\ l > 0 => holders' <= l
               /\ waiters' # {} => l > 0 /\ holders' >= l
    BY <2>0, <2>2 DEF AcquireQueued, AdmissibleLocked
  <2>3. ASSUME NEW c \in Callers, Ready(c) \/ ContextDone(c)
        PROVE  /\ l > 0 => holders' <= l
               /\ waiters' # {} => l > 0 /\ holders' >= l
    BY <2>0, <2>3 DEF Ready, ContextDone
  <2>4. ASSUME NEW c \in Callers, pc[c] \in {"leased", "returning"},
               ReleaseAndDispatch
        PROVE  /\ l > 0 => holders' <= l
               /\ waiters' # {} => l > 0 /\ holders' >= l
    <3>1. CASE l > 0
      BY <3>1, <2>4, ReleaseKeepsCeiling
    <3>2. CASE ~(l > 0)
      <4>1. waiters' = {}
        BY <3>2, <2>0, <2>4 DEF ReleaseAndDispatch, Woken
      <4> QED BY <3>2, <4>1
    <3> QED BY <3>1, <3>2
  <2>5. CASE UNCHANGED vars
    BY <2>0, <2>5 DEF vars
  <2> QED BY <2>1, <2>2, <2>3, <2>4, <2>5 DEF Next, ReturnSlot, Release
<1> QED BY <1>1, <1>2, Invariance, PTL DEF Spec

-----------------------------------------------------------------------------
\* dispatchLocked wakes a prefix of the queue in the order of service.
LEMMA WokenIsPrefix ==
    ASSUME TypeOK, WaitersOrdered, NEW h,
           NEW c \in Woken(h), NEW w \in waiters \ Woken(h)
    PROVE  Before(c, w)
<1>1. c \in waiters /\ c # w
  BY DEF Woken
<1>2. SUFFICES ASSUME Before(w, c) PROVE FALSE
  BY <1>1, BeforeTotal
<1>3. PICK v \in Ahead(w) \cup {w} :
        ~AdmissibleLocked(waiter[v].limit, h + Cardinality(Ahead(v)))
  BY DEF Woken
<1>4. v \in Ahead(c)
  BY <1>1, <1>2, <1>3, BeforeOrder DEF Ahead
<1> QED BY <1>3, <1>4 DEF Woken

\* A dispatch leaves no slot idle: when every caller passes the same ceiling, no
\* caller waits while a slot is free (dispatchLocked, admissibleLocked).
THEOREM NoIdleSlot == Spec => []WorkConserving
<1>1. CeilingRespected /\ WorkConserving => WorkConserving
  OBVIOUS
<1> QED BY <1>1, OneCeiling, PTL

\* No step gives a slot to a caller while a waiter that ranks before it stays
\* queued, and none gives a slot to a newcomer while anybody stays queued.
THEOREM QueueNeverOvertaken == Spec => NoOvertaking
<1> DEFINE Fair == \A c \in Slots' \ Slots : \A w \in waiters' :
                      c \in waiters /\ Before(c, w)
<1>1. IndInv /\ [Next]_vars => [Fair]_vars
  <2> SUFFICES ASSUME IndInv, Next PROVE Fair
    BY DEF vars
  <2> USE DEF IndInv
  <2>1. ASSUME NEW c \in Callers, NEW l \in Ceilings,
               AcquireNow(c, l) \/ TryAcquire(c, l)
        PROVE  Fair
    BY <2>1 DEF AcquireNow, TryAcquire, Admit
  <2>2. ASSUME NEW c \in Callers, NEW p \in Priorities, NEW l \in Ceilings,
               AcquireQueued(c, p, l)
        PROVE  Fair
    <3>1. Slots' \subseteq Slots
      BY <2>2 DEF AcquireQueued, CanCall, Slots, WaitersOrdered, TypeOK
    <3> QED BY <3>1
  <2>3. ASSUME NEW c \in Callers, Ready(c) \/ ContextDone(c) PROVE Fair
    <3>1. Slots' \subseteq Slots
      BY <2>3 DEF Ready, ContextDone, DropWaiter, Slots, TypeOK
    <3> QED BY <3>1
  <2>4. ASSUME NEW c \in Callers, NEW after \in {"idle", "released"},
               pc[c] \in {"leased", "returning"}, ReleaseAndDispatch,
               pc' = [pc EXCEPT ![c] = after]
        PROVE  Fair
    <3> DEFINE left == IF holders <= 1 THEN 0 ELSE holders - 1
    <3>1. /\ waiters' = waiters \ Woken(left)
          /\ granted' = granted \cup Woken(left)
      BY <2>4 DEF ReleaseAndDispatch
    <3> HIDE DEF left
    <3>2. Slots' \ Slots \subseteq Woken(left)
      BY <2>4, <3>1 DEF Slots, TypeOK
    <3>3. Woken(left) \subseteq waiters
      BY DEF Woken
    <3> QED BY <3>1, <3>2, <3>3, WokenIsPrefix
  <2>5. ASSUME UNCHANGED vars PROVE Fair
    <3>1. Slots' = Slots
      BY <2>5 DEF vars, Slots
    <3> QED BY <3>1
  <2> QED BY <2>1, <2>2, <2>3, <2>4, <2>5 DEF Next, ReturnSlot, Release
<1> QED BY <1>1, Invariance, PTL DEF Spec, NoOvertaking
=============================================================================
