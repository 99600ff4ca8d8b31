----------------------- MODULE IndexCoordinatorProofs -----------------------
(***************************************************************************)
(* Proofs about IndexCoordinator, for every number of tasks and processes, *)
(* every kind of lease and every depth of re-entry.                        *)
(***************************************************************************)
EXTENDS IndexCoordinator, FiniteSetTheorems, SequenceTheorems, TLAPS

-----------------------------------------------------------------------------
(* The invariant of the local lanes.                                        *)

(* A task has a lease from its grant to its release.                        *)
Leased(t) == pc[t] \in {"locking", "inside", "unlocking", "leaving"}

Placed == \A t \in Tasks : lease[t] # "none" <=> Leased(t)

OwnerIsLocal ==
    \A p \in Processes : owner[p] # NoTask => ProcessOf[owner[p]] = p

(* A condition's queue holds the waiting tasks of its process, each once.   *)
QueueExact ==
    \A p \in Processes :
        /\ \A i \in 1..Len(queue[p]) :
              /\ queue[p][i] \in Members(p)
              /\ pc[queue[p][i]] = "waiting"
              /\ \A j \in 1..Len(queue[p]) : queue[p][i] = queue[p][j] => i = j
        /\ \A t \in Members(p) :
              pc[t] = "waiting" => \E i \in 1..Len(queue[p]) : queue[p][i] = t

WaitsExclusively(t) == Queued(t) /\ Mode(kind[t]) = "exclusive"

(* While a lane is free its maintenance waiters have all been notified, and *)
(* if anybody waits someone has been.                                       *)
Notified(t) == pc[t] \in {"woken", "cancelling"}

FreeLaneIsNotified ==
    \A p \in Processes :
        (\A t \in Members(p) : lease[t] = "none") =>
            /\ \A t \in Members(p) : WaitsExclusively(t) => Notified(t)
            /\ \A t \in Members(p) :
                  pc[t] = "waiting" => \E u \in Members(p) : Notified(u)

LaneInv ==
    /\ TypeOK
    /\ Placed
    /\ OwnerIsLocal
    /\ QueueExact
    /\ CountersExact
    /\ LaneExclusion
    /\ FreeLaneIsNotified

(* The invariant of the database lock.                                      *)
Compatible ==
    \A t, u \in Tasks : t # u /\ pg[t] = "exclusive" => pg[u] = "none"

HeldInside == ~SessionsMayDrop => \A t \in Tasks : Inside(t) => pg[t] = lease[t]

LockInv == LockCoveredByLease /\ Compatible /\ HeldInside

Inv == LaneInv /\ LockInv

-----------------------------------------------------------------------------
(* Sequences and finite sets.                                               *)

LEMMA RemoveAtFacts ==
    ASSUME NEW S, NEW q \in Seq(S), NEW i \in 1..Len(q)
    PROVE  /\ RemoveAt(q, i) \in Seq(S)
           /\ Len(RemoveAt(q, i)) = Len(q) - 1
           /\ \A j \in 1..(Len(q) - 1) :
                  RemoveAt(q, i)[j] = IF j < i THEN q[j] ELSE q[j + 1]
  <1> DEFINE l == SubSeq(q, 1, i - 1)
             r == SubSeq(q, i + 1, Len(q))
  <1>1. \A j \in 1..Len(q) : q[j] \in S
    OBVIOUS
  <1>2. /\ l \in Seq(S) /\ Len(l) = i - 1
        /\ \A j \in 1..(i - 1) : l[j] = q[j]
    BY <1>1, SubSeqProperties
  <1>3. /\ r \in Seq(S) /\ Len(r) = Len(q) - i
        /\ \A j \in 1..(Len(q) - i) : r[j] = q[j + i]
    BY <1>1, SubSeqProperties
  <1> HIDE DEF l, r
  <1>4. /\ l \o r \in Seq(S) /\ Len(l \o r) = Len(l) + Len(r)
        /\ \A j \in 1..(Len(l) + Len(r)) :
               (l \o r)[j] = IF j <= Len(l) THEN l[j] ELSE r[j - Len(l)]
    BY <1>2, <1>3, ConcatProperties
  <1> DEFINE m == l \o r
  <1> HIDE DEF m
  <1>5. ASSUME NEW j \in 1..(Len(q) - 1)
        PROVE  m[j] = IF j < i THEN q[j] ELSE q[j + 1]
    <2>1. CASE j < i
      BY <1>2, <1>3, <1>4, <2>1 DEF m
    <2>2. CASE ~(j < i)
      <3>1. m[j] = r[j - (i - 1)]
        BY <1>2, <1>3, <1>4, <2>2 DEF m
      <3>2. j - (i - 1) \in 1..(Len(q) - i) /\ (j - (i - 1)) + i = j + 1
        BY <2>2
      <3> QED
        BY <1>3, <2>2, <3>1, <3>2
    <2> QED
      BY <2>1, <2>2
  <1>6. RemoveAt(q, i) = m
    BY DEF RemoveAt, l, r, m
  <1>7. m \in Seq(S) /\ Len(m) = Len(q) - 1
    BY <1>2, <1>3, <1>4 DEF m
  <1> QED
    BY <1>5, <1>6, <1>7

LEMMA TailFacts ==
    ASSUME NEW S, NEW q \in Seq(S), q # <<>>
    PROVE  /\ Len(q) >= 1
           /\ Head(q) = q[1]
           /\ Tail(q) \in Seq(S)
           /\ Len(Tail(q)) = Len(q) - 1
           /\ \A j \in 1..(Len(q) - 1) : Tail(q)[j] = q[j + 1]
  OBVIOUS

LEMMA AppendFacts ==
    ASSUME NEW S, NEW q \in Seq(S), NEW e \in S
    PROVE  /\ Append(q, e) \in Seq(S)
           /\ Len(Append(q, e)) = Len(q) + 1
           /\ \A j \in 1..Len(q) : Append(q, e)[j] = q[j]
           /\ Append(q, e)[Len(q) + 1] = e
  OBVIOUS

LEMMA MembersFinite ==
    ASSUME NEW p, NEW S \in SUBSET Members(p)
    PROVE  IsFiniteSet(S)
  <1>1. S \in SUBSET Tasks
    BY DEF Members
  <1> QED
    BY <1>1, TaskAssumption, FS_Subset

-----------------------------------------------------------------------------
(* The counters.                                                            *)

SharedOf(p) == {t \in Members(p) : lease[t] = "shared"}
WaitersOf(p) == {t \in Members(p) : WaitsExclusively(t)}

SharedExact == \A p \in Processes : shared[p] = Cardinality(SharedOf(p))
WaitingExact == \A p \in Processes : waiting[p] = Cardinality(WaitersOf(p))
OwnerExact ==
    \A p \in Processes : \A t \in Members(p) :
        owner[p] = t <=> lease[t] = "exclusive"

LEMMA CountersSplit ==
    CountersExact <=> SharedExact /\ WaitingExact /\ OwnerExact
  BY DEF CountersExact, SharedExact, WaitingExact, OwnerExact, SharedOf,
         WaitersOf, WaitsExclusively

LEMMA CountersSplitPrime ==
    CountersExact' <=> SharedExact' /\ WaitingExact' /\ OwnerExact'
  BY DEF CountersExact, SharedExact, WaitingExact, OwnerExact, SharedOf,
         WaitersOf, WaitsExclusively, Members

(* A set grows or shrinks by one member of one process.                     *)
LEMMA Grows ==
    ASSUME NEW p, NEW S \in SUBSET Members(p), NEW t, NEW T,
           t \notin S, T = S \cup {t}
    PROVE  Cardinality(T) = Cardinality(S) + 1
  BY MembersFinite, FS_AddElement

LEMMA Shrinks ==
    ASSUME NEW p, NEW S \in SUBSET Members(p), NEW t, NEW T,
           t \in S, T = S \ {t}
    PROVE  Cardinality(T) = Cardinality(S) - 1
  BY MembersFinite, FS_RemoveElement

LEMMA CardinalityNat ==
    ASSUME NEW p, NEW S \in SUBSET Members(p)
    PROVE  /\ Cardinality(S) \in Nat
           /\ Cardinality(S) = 0 <=> S = {}
  BY MembersFinite, FS_CardinalityType, FS_EmptySet

LEMMA WaitersKept ==
    ASSUME WaitingExact, waiting' = waiting,
           \A u \in Tasks : WaitsExclusively(u)' <=> WaitsExclusively(u)
    PROVE  WaitingExact'
  <1> SUFFICES ASSUME NEW p \in Processes
               PROVE  waiting'[p] = Cardinality(WaitersOf(p)')
    BY DEF WaitingExact
  <1>1. WaitersOf(p)' = WaitersOf(p)
    BY DEF WaitersOf, Members
  <1> QED
    BY <1>1 DEF WaitingExact

LEMMA WaiterJoins ==
    ASSUME TypeOK, WaitingExact, NEW t \in Tasks, NEW k, CountWaiting(t, k, 1),
           ~WaitsExclusively(t),
           WaitsExclusively(t)' <=> Mode(k) = "exclusive",
           \A u \in Tasks \ {t} : WaitsExclusively(u)' <=> WaitsExclusively(u)
    PROVE  WaitingExact'
  <1> SUFFICES ASSUME NEW p \in Processes
               PROVE  waiting'[p] = Cardinality(WaitersOf(p)')
    BY DEF WaitingExact
  <1>1. waiting[p] = Cardinality(WaitersOf(p))
    BY DEF WaitingExact
  <1>2. CASE p = ProcessOf[t] /\ Mode(k) = "exclusive"
    <2>1. waiting'[p] = waiting[p] + 1
      BY <1>2 DEF CountWaiting, TypeOK
    <2>2. WaitersOf(p)' = WaitersOf(p) \cup {t} /\ t \notin WaitersOf(p)
      BY <1>2 DEF WaitersOf, Members
    <2>3. WaitersOf(p) \in SUBSET Members(p)
      BY DEF WaitersOf
    <2> QED
      BY <1>1, <2>1, <2>2, <2>3, Grows
  <1>3. CASE ~(p = ProcessOf[t] /\ Mode(k) = "exclusive")
    <2>1. waiting'[p] = waiting[p]
      BY <1>3 DEF CountWaiting, TypeOK
    <2>2. WaitersOf(p)' = WaitersOf(p)
      BY <1>3 DEF WaitersOf, Members
    <2> QED
      BY <1>1, <2>1, <2>2
  <1> QED
    BY <1>2, <1>3

LEMMA WaiterLeaves ==
    ASSUME TypeOK, WaitingExact, NEW t \in Tasks, NEW k, CountWaiting(t, k, -1),
           ~WaitsExclusively(t)',
           WaitsExclusively(t) <=> Mode(k) = "exclusive",
           \A u \in Tasks \ {t} : WaitsExclusively(u)' <=> WaitsExclusively(u)
    PROVE  WaitingExact'
  <1> SUFFICES ASSUME NEW p \in Processes
               PROVE  waiting'[p] = Cardinality(WaitersOf(p)')
    BY DEF WaitingExact
  <1>1. waiting[p] = Cardinality(WaitersOf(p))
    BY DEF WaitingExact
  <1>2. CASE p = ProcessOf[t] /\ Mode(k) = "exclusive"
    <2>1. waiting'[p] = waiting[p] - 1
      BY <1>2 DEF CountWaiting, TypeOK
    <2>2. WaitersOf(p)' = WaitersOf(p) \ {t} /\ t \in WaitersOf(p)
      BY <1>2 DEF WaitersOf, Members
    <2>3. WaitersOf(p) \in SUBSET Members(p)
      BY DEF WaitersOf
    <2> QED
      BY <1>1, <2>1, <2>2, <2>3, Shrinks
  <1>3. CASE ~(p = ProcessOf[t] /\ Mode(k) = "exclusive")
    <2>1. waiting'[p] = waiting[p]
      BY <1>3 DEF CountWaiting, TypeOK
    <2>2. WaitersOf(p)' = WaitersOf(p)
      BY <1>3 DEF WaitersOf, Members
    <2> QED
      BY <1>1, <2>1, <2>2
  <1> QED
    BY <1>2, <1>3

-----------------------------------------------------------------------------
(* Steps of a task that holds its lease change nothing in its lane.         *)

LEMMA HeldStep ==
    ASSUME LaneInv, NEW t \in Tasks, Leased(t), NEW q \in Points,
           q \in {"locking", "inside", "unlocking", "leaving"},
           pc' = [pc EXCEPT ![t] = q],
           UNCHANGED <<kind, lease, laneVars>>,
           depth' \in [Tasks -> Nat],
           pg' \in [Tasks -> Locks],
           zombie' \in [Tasks -> Locks]
    PROVE  LaneInv'
  <1>1. UNCHANGED <<kind, lease, owner, shared, waiting, queue>>
    BY DEF laneVars
  <1>2. /\ pc' \in [Tasks -> Points]
        /\ pc'[t] = q
        /\ \A u \in Tasks \ {t} : pc'[u] = pc[u]
    BY DEF LaneInv, TypeOK
  <1>3. \A u \in Tasks : /\ Leased(u)' <=> Leased(u)
                         /\ Queued(u)' <=> Queued(u)
                         /\ Notified(u)' <=> Notified(u)
                         /\ pc'[u] = "waiting" <=> pc[u] = "waiting"
    BY <1>2 DEF Leased, Queued, Notified
  <1>4. \A u \in Tasks : WaitsExclusively(u)' <=> WaitsExclusively(u)
    BY <1>1, <1>3 DEF WaitsExclusively
  <1>5. TypeOK'
    BY <1>1, <1>2 DEF LaneInv, TypeOK
  <1>6. Placed'
    BY <1>1, <1>3 DEF LaneInv, Placed
  <1>7. OwnerIsLocal'
    BY <1>1 DEF LaneInv, OwnerIsLocal
  <1>8. QueueExact'
    BY <1>1, <1>3 DEF LaneInv, QueueExact, Members
  <1>9. CountersExact'
    <2>1. WaitingExact'
      BY <1>1, <1>4, CountersSplit, WaitersKept DEF LaneInv
    <2>2. SharedExact' /\ OwnerExact'
      BY <1>1, CountersSplit
         DEF LaneInv, SharedExact, OwnerExact, SharedOf, Members
    <2> QED
      BY <2>1, <2>2, CountersSplitPrime
  <1>10. LaneExclusion'
    BY <1>1 DEF LaneInv, LaneExclusion
  <1>11. FreeLaneIsNotified'
    BY <1>1, <1>3, <1>4 DEF LaneInv, FreeLaneIsNotified, Members
  <1> QED
    BY <1>5, <1>6, <1>7, <1>8, <1>9, <1>10, <1>11 DEF LaneInv

-----------------------------------------------------------------------------
(* A granted lease: the lane it enters is compatible, and is not free any   *)
(* more.                                                                    *)

LEMMA GrantLane ==
    ASSUME LaneInv, NEW t \in Tasks, NEW k \in {"write", "queue", "try"},
           pc[t] \in {"outside", "woken"},
           Available(ProcessOf[t], Mode(k)),
           Grant(t, Mode(k)),
           kind' = [kind EXCEPT ![t] = k],
           WaitingExact',
           waiting' \in [Processes -> Int],
           UNCHANGED <<queue, lockVars>>
    PROVE  LaneInv'
  <1> DEFINE P == ProcessOf[t]
             m == Mode(k)
  <1>0. P \in Processes /\ m \in {"shared", "exclusive"} /\ t \in Members(P)
    BY TaskAssumption DEF Mode, Members
  <1>1. /\ owner[P] = NoTask
        /\ m = "exclusive" => shared[P] = 0
    BY DEF Available, Mode
  <1>2. /\ lease' = [lease EXCEPT ![t] = m]
        /\ depth' = [depth EXCEPT ![t] = 1]
        /\ pc' = [pc EXCEPT ![t] = "locking"]
        /\ owner' = IF m = "exclusive" THEN [owner EXCEPT ![P] = t] ELSE owner
        /\ shared' = IF m = "shared" THEN [shared EXCEPT ![P] = @ + 1]
                     ELSE shared
        /\ UNCHANGED <<queue, pg, zombie>>
    BY DEF Grant, lockVars
  <1> HIDE DEF m, P
  <1>3. lease[t] = "none"
    BY DEF LaneInv, Placed, Leased
  <1>4. SharedExact /\ WaitingExact /\ OwnerExact
    BY CountersSplit DEF LaneInv
  <1>5. /\ pc' \in [Tasks -> Points]
        /\ lease' \in [Tasks -> Locks]
        /\ pc'[t] = "locking" /\ lease'[t] = m
        /\ \A u \in Tasks \ {t} : pc'[u] = pc[u] /\ lease'[u] = lease[u]
    BY <1>0, <1>2 DEF LaneInv, TypeOK, Points, Locks
  <1>6. SharedExact'
    <2> SUFFICES ASSUME NEW p \in Processes
                 PROVE  shared'[p] = Cardinality(SharedOf(p)')
      BY DEF SharedExact
    <2>1. shared[p] = Cardinality(SharedOf(p)) /\ SharedOf(p) \in SUBSET Members(p)
      BY <1>4 DEF SharedExact, SharedOf
    <2>2. CASE p = P /\ m = "shared"
      <3>1. shared'[p] = shared[p] + 1
        BY <1>2, <2>2 DEF LaneInv, TypeOK
      <3>2. SharedOf(p)' = SharedOf(p) \cup {t} /\ t \notin SharedOf(p)
        BY <1>0, <1>3, <1>5, <2>2 DEF SharedOf, Members
      <3> QED
        BY <2>1, <3>1, <3>2, Grows
    <2>3. CASE ~(p = P /\ m = "shared")
      <3>1. shared'[p] = shared[p]
        BY <1>2, <2>3 DEF LaneInv, TypeOK
      <3>2. SharedOf(p)' = SharedOf(p)
        BY <1>0, <1>3, <1>5, <2>3 DEF SharedOf, Members, P
      <3> QED
        BY <2>1, <3>1, <3>2
    <2> QED
      BY <2>2, <2>3
  <1>7. OwnerExact'
    <2> SUFFICES ASSUME NEW p \in Processes, NEW u \in Members(p)
                 PROVE  owner'[p] = u <=> lease'[u] = "exclusive"
      BY DEF OwnerExact, Members
    <2>1. u \in Tasks /\ ProcessOf[u] = p
      BY DEF Members
    <2>2. owner[p] = u <=> lease[u] = "exclusive"
      BY <1>4 DEF OwnerExact
    <2>3. NoTask \notin Tasks
      BY TaskAssumption
    <2>4. CASE p = P
      BY <1>0, <1>1, <1>2, <1>3, <1>5, <2>1, <2>2, <2>3, <2>4
         DEF LaneInv, TypeOK
    <2>5. CASE p # P
      BY <1>0, <1>2, <1>5, <2>1, <2>2, <2>5 DEF LaneInv, TypeOK, P
    <2> QED
      BY <2>4, <2>5
  <1>8. CountersExact'
    BY <1>6, <1>7, CountersSplitPrime
  <1>9. TypeOK'
    <2>1. shared' \in [Processes -> Nat] /\ owner' \in [Processes -> Tasks \cup {NoTask}]
      BY <1>0, <1>2 DEF LaneInv, TypeOK
    <2>2. waiting' \in [Processes -> Nat]
      <3>1. \A p \in Processes : WaitersOf(p)' \in SUBSET Members(p)
        BY DEF WaitersOf, Members
      <3> QED
        BY <3>1, CardinalityNat DEF WaitingExact
    <2>3. depth' \in [Tasks -> Nat] /\ kind' \in [Tasks -> {"write", "queue", "try"}]
      BY <1>2 DEF LaneInv, TypeOK
    <2> QED
      BY <1>2, <1>5, <2>1, <2>2, <2>3 DEF LaneInv, TypeOK
  <1>10. Placed'
    BY <1>0, <1>5 DEF LaneInv, Placed, Leased
  <1>11. OwnerIsLocal'
    BY <1>0, <1>2 DEF LaneInv, TypeOK, OwnerIsLocal, P
  <1>12. QueueExact'
    BY <1>2, <1>5 DEF LaneInv, QueueExact, Members
  <1>13. LaneExclusion'
    <2>1. \A u \in Members(P) : lease[u] # "exclusive"
      BY <1>0, <1>1, <1>4, TaskAssumption DEF OwnerExact, Members
    <2>2. m = "exclusive" => \A u \in Members(P) : lease[u] = "none"
      <3>1. SharedOf(P) \in SUBSET Members(P)
        BY DEF SharedOf
      <3>2. m = "exclusive" => SharedOf(P) = {}
        BY <1>0, <1>1, <1>4, <3>1, CardinalityNat DEF SharedExact
      <3>3. \A u \in Members(P) : lease[u] \in Locks
        BY DEF LaneInv, TypeOK, Members
      <3> QED
        BY <2>1, <3>2, <3>3 DEF SharedOf, Locks
    <2> SUFFICES ASSUME NEW u \in Tasks, NEW v \in Tasks, u # v,
                        ProcessOf[u] = ProcessOf[v], lease'[u] = "exclusive"
                 PROVE  lease'[v] = "none"
      BY DEF LaneExclusion
    <2>3. CASE u = t
      BY <1>5, <2>2, <2>3 DEF Members, P
    <2>4. CASE v = t
      BY <1>5, <2>1, <2>4 DEF Members, P
    <2>5. CASE u # t /\ v # t
      BY <1>5, <2>5 DEF LaneInv, LaneExclusion
    <2> QED
      BY <2>3, <2>4, <2>5
  <1>14. FreeLaneIsNotified'
    <2> SUFFICES ASSUME NEW p \in Processes,
                        \A u \in Members(p) : lease'[u] = "none",
                        NEW u \in Members(p)
                 PROVE  /\ WaitsExclusively(u)' => Notified(u)'
                        /\ pc'[u] = "waiting" =>
                               \E v \in Members(p) : Notified(v)'
      BY DEF FreeLaneIsNotified, Members
    <2>1. p # P
      BY <1>0, <1>5
    <2>2. \A v \in Members(p) : /\ v # t
                                /\ pc'[v] = pc[v]
                                /\ lease'[v] = lease[v]
                                /\ kind'[v] = kind[v]
      BY <1>5, <2>1 DEF Members, P, LaneInv, TypeOK
    <2>3. /\ WaitsExclusively(u) => Notified(u)
          /\ pc[u] = "waiting" => \E v \in Members(p) : Notified(v)
      BY <2>2 DEF LaneInv, FreeLaneIsNotified
    <2> QED
      BY <2>2, <2>3 DEF WaitsExclusively, Queued, Notified
  <1> QED
    BY <1>8, <1>9, <1>10, <1>11, <1>12, <1>13, <1>14 DEF LaneInv

-----------------------------------------------------------------------------
(* A task that blocks: somebody who is about to run stands before it.       *)

LEMMA BlockLane ==
    ASSUME LaneInv, NEW t \in Tasks, NEW k \in {"write", "queue", "try"},
           pc[t] \in {"outside", "woken"},
           pc[t] = "woken" => k = kind[t],
           ~Available(ProcessOf[t], Mode(k)),
           Block(t),
           kind' = [kind EXCEPT ![t] = k],
           WaitingExact',
           waiting' \in [Processes -> Int],
           UNCHANGED lockVars
    PROVE  LaneInv'
  <1> DEFINE P == ProcessOf[t]
  <1>0. P \in Processes /\ t \in Members(P)
    BY TaskAssumption DEF Members
  <1>1. /\ pc' = [pc EXCEPT ![t] = "waiting"]
        /\ queue' = [queue EXCEPT ![P] = Append(@, t)]
        /\ UNCHANGED <<lease, depth, owner, shared, pg, zombie>>
    BY DEF Block, lockVars
  <1>2. owner[P] # NoTask \/ IF Mode(k) = "shared" THEN waiting[P] # 0 ELSE shared[P] # 0
    BY DEF Available, Mode
  <1> HIDE DEF P
  <1>3. SharedExact /\ WaitingExact /\ OwnerExact
    BY CountersSplit DEF LaneInv
  <1>4. /\ pc' \in [Tasks -> Points]
        /\ pc'[t] = "waiting"
        /\ \A u \in Tasks \ {t} : pc'[u] = pc[u] /\ kind'[u] = kind[u]
        /\ kind'[t] = k
    BY <1>1 DEF LaneInv, TypeOK, Points
  <1>5. /\ queue[P] \in Seq(Tasks)
        /\ queue' \in [Processes -> Seq(Tasks)]
        /\ queue'[P] = Append(queue[P], t)
        /\ \A p \in Processes \ {P} : queue'[p] = queue[p]
    BY <1>0, <1>1, AppendFacts DEF LaneInv, TypeOK
  <1>6. CountersExact'
    <2>1. SharedExact' /\ OwnerExact'
      BY <1>1, <1>3 DEF SharedExact, OwnerExact, SharedOf, Members
    <2> QED
      BY <2>1, CountersSplitPrime
  <1>7. TypeOK'
    <2>1. waiting' \in [Processes -> Nat]
      <3>1. \A p \in Processes : WaitersOf(p)' \in SUBSET Members(p)
        BY DEF WaitersOf, Members
      <3> QED
        BY <3>1, CardinalityNat DEF WaitingExact
    <2>2. kind' \in [Tasks -> {"write", "queue", "try"}]
      BY DEF LaneInv, TypeOK
    <2> QED
      BY <1>1, <1>4, <1>5, <2>1, <2>2 DEF LaneInv, TypeOK
  <1>8. Placed'
    BY <1>1, <1>4 DEF LaneInv, Placed, Leased
  <1>9. OwnerIsLocal' /\ LaneExclusion'
    BY <1>1 DEF LaneInv, OwnerIsLocal, LaneExclusion
  <1>10. QueueExact'
    <2> SUFFICES ASSUME NEW p \in Processes
                 PROVE  /\ \A i \in 1..Len(queue'[p]) :
                              /\ queue'[p][i] \in Members(p)
                              /\ pc'[queue'[p][i]] = "waiting"
                              /\ \A j \in 1..Len(queue'[p]) :
                                    queue'[p][i] = queue'[p][j] => i = j
                        /\ \A u \in Members(p) :
                              pc'[u] = "waiting" =>
                                  \E i \in 1..Len(queue'[p]) : queue'[p][i] = u
      BY DEF QueueExact, Members
    <2>1. /\ \A i \in 1..Len(queue[p]) :
                /\ queue[p][i] \in Members(p)
                /\ pc[queue[p][i]] = "waiting"
                /\ queue[p][i] # t
                /\ \A j \in 1..Len(queue[p]) : queue[p][i] = queue[p][j] => i = j
          /\ \A u \in Members(p) :
                pc[u] = "waiting" => \E i \in 1..Len(queue[p]) : queue[p][i] = u
      BY DEF LaneInv, QueueExact
    <2>2. CASE p # P
      <3>1. \A u \in Members(p) : pc'[u] = pc[u]
        BY <1>4, <2>2 DEF Members, P
      <3>2. queue'[p] = queue[p]
        BY <1>5, <2>2
      <3> QED
        BY <2>1, <3>1, <3>2
    <2>3. CASE p = P
      <3>1. /\ Len(queue'[p]) = Len(queue[p]) + 1
            /\ Len(queue[p]) \in Nat
            /\ \A i \in 1..Len(queue[p]) : queue'[p][i] = queue[p][i]
            /\ queue'[p][Len(queue[p]) + 1] = t
        <4> DEFINE q == queue[P]
                   r == Append(q, t)
        <4>1. queue'[p] = r /\ queue[p] = q /\ q \in Seq(Tasks)
          BY <1>5, <2>3
        <4> HIDE DEF q
        <4>2. /\ Len(r) = Len(q) + 1
              /\ Len(q) \in Nat
              /\ \A i \in 1..Len(q) : r[i] = q[i]
              /\ r[Len(q) + 1] = t
          BY <4>1, AppendFacts
        <4> HIDE DEF r
        <4> QED
          BY <4>1, <4>2
      <3>2. \A i \in 1..Len(queue'[p]) :
                i \in 1..Len(queue[p]) \/ i = Len(queue[p]) + 1
        BY <3>1
      <3>3. \A u \in Members(p) : u \in Tasks
        BY DEF Members
      <3>4. \A i \in 1..Len(queue'[p]) :
               queue'[p][i] \in Members(p) /\ pc'[queue'[p][i]] = "waiting"
        BY <1>0, <1>4, <2>1, <2>3, <3>1, <3>2, <3>3
      <3>5. ASSUME NEW i \in 1..Len(queue'[p]), NEW j \in 1..Len(queue'[p]),
                   queue'[p][i] = queue'[p][j]
            PROVE  i = j
        <4>1. CASE i \in 1..Len(queue[p]) /\ j \in 1..Len(queue[p])
          <5>1. queue[p][i] = queue[p][j]
            BY <3>1, <3>5, <4>1
          <5> QED
            BY <2>1, <4>1, <5>1
        <4>2. CASE i \in 1..Len(queue[p]) /\ j = Len(queue[p]) + 1
          BY <2>1, <3>1, <3>5, <4>2
        <4>3. CASE i = Len(queue[p]) + 1 /\ j \in 1..Len(queue[p])
          BY <2>1, <3>1, <3>5, <4>3
        <4> QED
          BY <3>2, <4>1, <4>2, <4>3
      <3>6. ASSUME NEW u \in Members(p), pc'[u] = "waiting"
            PROVE  \E i \in 1..Len(queue'[p]) : queue'[p][i] = u
        <4>1. CASE u = t
          BY <3>1, <4>1
        <4>2. CASE u # t
          <5>1. PICK i \in 1..Len(queue[p]) : queue[p][i] = u
            BY <1>4, <2>1, <3>3, <3>6, <4>2
          <5> QED
            BY <3>1, <5>1
        <4> QED
          BY <4>1, <4>2
      <3> QED
        BY <3>4, <3>5, <3>6
    <2> QED
      BY <2>2, <2>3
  <1>11. FreeLaneIsNotified'
    <2> SUFFICES ASSUME NEW p \in Processes,
                        \A u \in Members(p) : lease[u] = "none"
                 PROVE  /\ \A u \in Members(p) :
                              WaitsExclusively(u)' => Notified(u)'
                        /\ \A u \in Members(p) : pc'[u] = "waiting" =>
                               \E v \in Members(p) : Notified(v)'
      BY <1>1 DEF FreeLaneIsNotified, Members
    <2>1. /\ \A u \in Members(p) : WaitsExclusively(u) => Notified(u)
          /\ \A u \in Members(p) :
                pc[u] = "waiting" => \E v \in Members(p) : Notified(v)
      BY DEF LaneInv, FreeLaneIsNotified
    <2>2. CASE p # P
      <3>1. \A v \in Members(p) : v \in Tasks \ {t}
        BY <2>2 DEF Members, P
      <3> QED
        BY <1>4, <2>1, <3>1 DEF WaitsExclusively, Queued, Notified
    <2>3. CASE p = P
      <3>1. owner[P] = NoTask
        <4>1. owner[P] \in Tasks \cup {NoTask}
          BY <1>0 DEF LaneInv, TypeOK
        <4>2. owner[P] # NoTask => owner[P] \in Members(P)
          BY <1>0, <4>1 DEF LaneInv, OwnerIsLocal, Members
        <4> QED
          BY <1>0, <1>3, <2>3, <4>2 DEF OwnerExact
      <3>2. shared[P] = 0
        <4>1. SharedOf(P) = {}
          BY <2>3 DEF SharedOf
        <4> QED
          BY <1>0, <1>3, <4>1, FS_EmptySet DEF SharedExact
      <3>3. Mode(k) = "shared" /\ waiting[P] # 0
        BY <1>2, <3>1, <3>2 DEF Mode
      <3>4. PICK v \in Members(P) : WaitsExclusively(v)
        <4>1. WaitersOf(P) # {}
          BY <1>0, <1>3, <3>3, FS_EmptySet DEF WaitingExact
        <4> QED
          BY <4>1 DEF WaitersOf
      <3>5. v # t
        BY <3>3, <3>4 DEF WaitsExclusively, Queued, Mode
      <3>6. Notified(v)' /\ v \in Members(p)
        BY <1>4, <2>1, <2>3, <3>4, <3>5 DEF Notified, Members
      <3>7. ~WaitsExclusively(t)'
        BY <1>4, <3>3 DEF WaitsExclusively, Mode
      <3>8. \A u \in Members(p) : WaitsExclusively(u)' => Notified(u)'
        BY <1>4, <2>1, <3>7 DEF WaitsExclusively, Queued, Notified, Members
      <3> QED
        BY <3>6, <3>8
    <2> QED
      BY <2>2, <2>3
  <1> QED
    BY <1>6, <1>7, <1>8, <1>9, <1>10, <1>11 DEF LaneInv

-----------------------------------------------------------------------------
(* Cancelled waiters.                                                       *)

(* Taking one waiter, h, out of a queue and out of its wait.                *)
LEMMA QueueShrinks ==
    ASSUME LaneInv, NEW P \in Processes, NEW h \in Tasks,
           NEW i \in 1..Len(queue[P]), queue[P][i] = h,
           NEW r \in Seq(Tasks),
           Len(r) = Len(queue[P]) - 1,
           \A j \in 1..(Len(queue[P]) - 1) :
               r[j] = IF j < i THEN queue[P][j] ELSE queue[P][j + 1],
           queue' = [queue EXCEPT ![P] = r],
           pc'[h] # "waiting",
           \A u \in Tasks \ {h} : pc'[u] = "waiting" <=> pc[u] = "waiting"
    PROVE  QueueExact'
  <1> SUFFICES ASSUME NEW p \in Processes, NEW s, s = queue'[p]
               PROVE  /\ \A j \in 1..Len(s) :
                            /\ s[j] \in Members(p)
                            /\ pc'[s[j]] = "waiting"
                            /\ \A l \in 1..Len(s) : s[j] = s[l] => j = l
                      /\ \A u \in Members(p) :
                            pc'[u] = "waiting" => \E j \in 1..Len(s) : s[j] = u
    BY DEF QueueExact, Members
  <1>1. /\ \A j \in 1..Len(queue[p]) :
              /\ queue[p][j] \in Members(p)
              /\ pc[queue[p][j]] = "waiting"
              /\ \A l \in 1..Len(queue[p]) : queue[p][j] = queue[p][l] => j = l
        /\ \A u \in Members(p) :
              pc[u] = "waiting" => \E j \in 1..Len(queue[p]) : queue[p][j] = u
    BY DEF LaneInv, QueueExact
  <1>2. h \in Members(P)
    BY DEF LaneInv, QueueExact
  <1>3. CASE p # P
    <2>1. s = queue[p]
      BY <1>3 DEF LaneInv, TypeOK
    <2>2. \A u \in Members(p) : pc'[u] = "waiting" <=> pc[u] = "waiting"
      BY <1>2, <1>3 DEF Members
    <2>3. /\ \A j \in 1..Len(s) :
                /\ s[j] \in Members(p)
                /\ pc[s[j]] = "waiting"
                /\ \A l \in 1..Len(s) : s[j] = s[l] => j = l
          /\ \A u \in Members(p) :
                pc[u] = "waiting" => \E j \in 1..Len(s) : s[j] = u
      <3> DEFINE z == queue[p]
      <3>1. s = z
        BY <2>1
      <3>2. /\ \A j \in 1..Len(z) :
                  /\ z[j] \in Members(p)
                  /\ pc[z[j]] = "waiting"
                  /\ \A l \in 1..Len(z) : z[j] = z[l] => j = l
            /\ \A u \in Members(p) :
                  pc[u] = "waiting" => \E j \in 1..Len(z) : z[j] = u
        BY <1>1
      <3> HIDE DEF z
      <3> QED
        BY <3>1, <3>2
    <2> QED
      BY <2>2, <2>3
  <1>4. CASE p = P
    <2> DEFINE q == queue[P]
               o(j) == IF j < i THEN j ELSE j + 1
    <2>1. queue'[p] = r /\ Len(q) \in Nat
      BY <1>4 DEF LaneInv, TypeOK
    <2>2. \A j \in 1..Len(r) : o(j) \in 1..Len(q) /\ o(j) # i /\ r[j] = q[o(j)]
      BY <2>1
    <2>3. \A j, l \in 1..Len(r) : o(j) = o(l) => j = l
      BY <2>1
    <2>4. \A l \in 1..Len(q) : l # i => \E j \in 1..Len(r) : o(j) = l
      <3> SUFFICES ASSUME NEW l \in 1..Len(q), l # i
                   PROVE  \E j \in 1..Len(r) : o(j) = l
        OBVIOUS
      <3>1. CASE l < i
        <4>1. l \in 1..Len(r) /\ o(l) = l
          BY <2>1, <3>1
        <4> QED
          BY <4>1
      <3>2. CASE l > i
        <4>1. l - 1 \in 1..Len(r) /\ o(l - 1) = l
          BY <2>1, <3>2
        <4> QED
          BY <4>1
      <3> QED
        BY <2>1, <3>1, <3>2
    <2>5. /\ \A j \in 1..Len(q) :
                /\ q[j] \in Members(p)
                /\ pc[q[j]] = "waiting"
                /\ \A l \in 1..Len(q) : q[j] = q[l] => j = l
          /\ \A u \in Members(p) :
                pc[u] = "waiting" => \E j \in 1..Len(q) : q[j] = u
          /\ q[i] = h
      BY <1>1, <1>4
    <2> HIDE DEF o, q
    <2>6. \A j \in 1..Len(r) :
             r[j] \in Members(p) /\ r[j] # h /\ pc'[r[j]] = "waiting"
      <3> SUFFICES ASSUME NEW j \in 1..Len(r)
                   PROVE  r[j] \in Members(p) /\ r[j] # h /\ pc'[r[j]] = "waiting"
        OBVIOUS
      <3>1. r[j] = q[o(j)] /\ o(j) \in 1..Len(q) /\ o(j) # i
        BY <2>2
      <3>2. r[j] \in Members(p) /\ pc[r[j]] = "waiting"
        BY <2>5, <3>1
      <3>3. i \in 1..Len(q)
        BY DEF q
      <3>4. r[j] # h
        BY <2>5, <3>1, <3>3
      <3> QED
        BY <3>2, <3>4 DEF Members
    <2>7. ASSUME NEW j \in 1..Len(r), NEW l \in 1..Len(r), r[j] = r[l]
          PROVE  j = l
      <3>1. o(j) = o(l)
        BY <2>2, <2>5, <2>7
      <3> QED
        BY <2>3, <3>1
    <2>8. ASSUME NEW u \in Members(p), pc'[u] = "waiting"
          PROVE  \E j \in 1..Len(r) : r[j] = u
      <3>1. u # h /\ pc[u] = "waiting"
        BY <2>8 DEF Members
      <3>2. PICK l \in 1..Len(q) : q[l] = u
        BY <2>5, <3>1
      <3>3. PICK j \in 1..Len(r) : o(j) = l
        BY <2>4, <2>5, <3>1, <3>2
      <3> QED
        BY <2>2, <3>2, <3>3
    <2>9. \A j \in 1..Len(r) :
             /\ r[j] \in Members(p)
             /\ pc'[r[j]] = "waiting"
             /\ \A l \in 1..Len(r) : r[j] = r[l] => j = l
      BY <2>6, <2>7
    <2>10. \A u \in Members(p) :
              pc'[u] = "waiting" => \E j \in 1..Len(r) : r[j] = u
      BY <2>8
    <2>11. s = r
      BY <2>1
    <2> QED
      BY <2>9, <2>10, <2>11
  <1> QED
    BY <1>3, <1>4

LEMMA CancelWaitLane ==
    ASSUME LaneInv, NEW t \in Tasks, CancelWait(t)
    PROVE  LaneInv'
  <1> DEFINE P == ProcessOf[t]
             q == queue[P]
  <1>0. P \in Processes /\ t \in Members(P)
    BY TaskAssumption DEF Members
  <1>1. /\ pc[t] \in {"waiting", "woken"}
        /\ pc' = [pc EXCEPT ![t] = "cancelling"]
        /\ UNCHANGED <<kind, lease, depth, owner, shared, waiting, pg, zombie>>
    BY DEF CancelWait, lockVars
  <1>2. /\ pc' \in [Tasks -> Points]
        /\ pc'[t] = "cancelling"
        /\ \A u \in Tasks \ {t} : pc'[u] = pc[u]
    BY <1>1 DEF LaneInv, TypeOK, Points
  <1>3. q \in Seq(Tasks)
    BY <1>0 DEF LaneInv, TypeOK
  <1>4. QueueExact' /\ queue' \in [Processes -> Seq(Tasks)]
    <2>1. CASE pc[t] = "woken" /\ UNCHANGED queue
      <3>1. \A u \in Tasks : pc'[u] = "waiting" <=> pc[u] = "waiting"
        BY <1>2, <2>1
      <3> QED
        BY <2>1, <3>1 DEF LaneInv, TypeOK, QueueExact, Members
    <2>2. CASE \E i \in DOMAIN q : /\ q[i] = t
                                   /\ queue' = [queue EXCEPT ![P] = RemoveAt(q, i)]
      <3>1. PICK i \in DOMAIN q : /\ q[i] = t
                                  /\ queue' = [queue EXCEPT ![P] = RemoveAt(q, i)]
        BY <2>2
      <3>2. i \in 1..Len(q)
        BY <1>3, LenProperties
      <3> DEFINE r == RemoveAt(q, i)
      <3>3. /\ r \in Seq(Tasks)
            /\ Len(r) = Len(q) - 1
            /\ \A j \in 1..(Len(q) - 1) : r[j] = IF j < i THEN q[j] ELSE q[j + 1]
        BY <1>3, <3>2, RemoveAtFacts
      <3>4. queue' = [queue EXCEPT ![P] = r]
        BY <3>1
      <3> HIDE DEF r
      <3>5. queue' \in [Processes -> Seq(Tasks)]
        BY <3>3, <3>4 DEF LaneInv, TypeOK
      <3>6. /\ pc'[t] # "waiting"
            /\ \A u \in Tasks \ {t} : pc'[u] = "waiting" <=> pc[u] = "waiting"
        BY <1>2
      <3>7. queue[P][i] = t
        BY <3>1
      <3> HIDE DEF P
      <3>8. QueueExact'
        BY <1>0, <3>2, <3>3, <3>4, <3>6, <3>7, QueueShrinks
      <3> QED
        BY <3>5, <3>8
    <2> QED
      BY <2>1, <2>2 DEF CancelWait
  <1> HIDE DEF P, q
  <1>5. \A u \in Tasks : /\ Leased(u)' <=> Leased(u)
                         /\ Queued(u)' <=> Queued(u)
                         /\ Notified(u) => Notified(u)'
                         /\ pc'[u] = "waiting" => pc[u] = "waiting"
    BY <1>1, <1>2 DEF Leased, Queued, Notified
  <1>6. \A u \in Tasks : WaitsExclusively(u)' <=> WaitsExclusively(u)
    BY <1>1, <1>5 DEF WaitsExclusively
  <1>7. TypeOK'
    BY <1>1, <1>2, <1>4 DEF LaneInv, TypeOK
  <1>8. Placed' /\ OwnerIsLocal' /\ LaneExclusion'
    BY <1>1, <1>5 DEF LaneInv, Placed, OwnerIsLocal, LaneExclusion
  <1>9. CountersExact'
    <2>1. WaitingExact'
      BY <1>1, <1>6, CountersSplit, WaitersKept DEF LaneInv
    <2>2. SharedExact' /\ OwnerExact'
      BY <1>1, CountersSplit
         DEF LaneInv, SharedExact, OwnerExact, SharedOf, Members
    <2> QED
      BY <2>1, <2>2, CountersSplitPrime
  <1>10. FreeLaneIsNotified'
    BY <1>1, <1>5, <1>6 DEF LaneInv, FreeLaneIsNotified, Members
  <1> QED
    BY <1>4, <1>7, <1>8, <1>9, <1>10 DEF LaneInv

LEMMA CancelledLane ==
    ASSUME LaneInv, NEW t \in Tasks, Cancelled(t)
    PROVE  LaneInv'
  <1> DEFINE P == ProcessOf[t]
             q == queue[P]
  <1>0. P \in Processes /\ t \in Members(P)
    BY TaskAssumption DEF Members
  <1>1. /\ pc[t] = "cancelling"
        /\ CountWaiting(t, kind[t], -1)
        /\ UNCHANGED <<kind, lease, depth, owner, shared, pg, zombie>>
        /\ Passed(t)
    BY DEF Cancelled, lockVars
  <1>2. q \in Seq(Tasks)
    BY <1>0 DEF LaneInv, TypeOK
  <1>3. \/ q = <<>> /\ pc' = [pc EXCEPT ![t] = "outside"] /\ UNCHANGED queue
        \/ /\ q # <<>>
           /\ pc' = [pc EXCEPT ![t] = "outside", ![Head(q)] = "woken"]
           /\ queue' = [queue EXCEPT ![P] = Tail(q)]
    BY <1>1 DEF Passed
  <1>4. q # <<>> => /\ Head(q) \in Members(P)
                    /\ pc[Head(q)] = "waiting"
                    /\ Head(q) = q[1]
                    /\ 1 \in 1..Len(q)
    <2> SUFFICES ASSUME q # <<>>
                 PROVE  /\ Head(q) \in Members(P)
                        /\ pc[Head(q)] = "waiting"
                        /\ Head(q) = q[1]
                        /\ 1 \in 1..Len(q)
      OBVIOUS
    <2>1. Head(q) = q[1] /\ 1 \in 1..Len(q)
      BY <1>2, TailFacts
    <2> QED
      BY <1>0, <2>1 DEF LaneInv, QueueExact
  <1>5. /\ pc' \in [Tasks -> Points]
        /\ pc'[t] = "outside"
        /\ \A u \in Tasks \ {t} :
               pc'[u] = IF q # <<>> /\ u = Head(q) THEN "woken" ELSE pc[u]
        /\ q # <<>> => Head(q) \in Tasks \ {t}
    BY <1>1, <1>3, <1>4 DEF LaneInv, TypeOK, Points, Members
  <1>6. QueueExact' /\ queue' \in [Processes -> Seq(Tasks)]
    <2>1. CASE q = <<>>
      <3>1. \A u \in Tasks : pc'[u] = "waiting" <=> pc[u] = "waiting"
        BY <1>1, <1>5, <2>1
      <3> QED
        BY <1>3, <2>1, <3>1 DEF LaneInv, TypeOK, QueueExact, Members
    <2>2. CASE q # <<>>
      <3> DEFINE h == Head(q)
                 r == Tail(q)
      <3>1. /\ r \in Seq(Tasks)
            /\ Len(r) = Len(q) - 1
            /\ \A j \in 1..(Len(q) - 1) : r[j] = q[j + 1]
        BY <1>2, <2>2, TailFacts
      <3>2. \A j \in 1..(Len(q) - 1) : r[j] = IF j < 1 THEN q[j] ELSE q[j + 1]
        BY <3>1
      <3>3. queue' = [queue EXCEPT ![P] = r]
        BY <1>3, <2>2
      <3>4. /\ h \in Tasks /\ q[1] = h /\ pc'[h] # "waiting"
            /\ \A u \in Tasks \ {h} : pc'[u] = "waiting" <=> pc[u] = "waiting"
        BY <1>1, <1>4, <1>5, <2>2 DEF Members
      <3> HIDE DEF r, h
      <3>5. queue' \in [Processes -> Seq(Tasks)]
        BY <3>1, <3>3 DEF LaneInv, TypeOK
      <3> HIDE DEF P
      <3>6. QueueExact'
        BY <1>0, <1>4, <2>2, <3>1, <3>2, <3>3, <3>4, QueueShrinks
      <3> QED
        BY <3>5, <3>6
    <2> QED
      BY <2>1, <2>2
  <1> HIDE DEF P, q
  <1>7. /\ \A u \in Tasks : Leased(u)' <=> Leased(u)
        /\ \A u \in Tasks \ {t} :
              /\ Queued(u)' <=> Queued(u)
              /\ Notified(u) => Notified(u)'
              /\ pc'[u] = "waiting" => pc[u] = "waiting"
        /\ Queued(t) /\ ~Queued(t)'
    BY <1>1, <1>4, <1>5 DEF Leased, Queued, Notified
  <1>8. /\ \A u \in Tasks \ {t} : WaitsExclusively(u)' <=> WaitsExclusively(u)
        /\ WaitsExclusively(t) <=> Mode(kind[t]) = "exclusive"
        /\ ~WaitsExclusively(t)'
    BY <1>1, <1>7 DEF WaitsExclusively
  <1>9. WaitingExact'
    BY <1>1, <1>8, CountersSplit, WaiterLeaves DEF LaneInv
  <1>10. CountersExact'
    <2>1. SharedExact' /\ OwnerExact'
      BY <1>1, CountersSplit
         DEF LaneInv, SharedExact, OwnerExact, SharedOf, Members
    <2> QED
      BY <1>9, <2>1, CountersSplitPrime
  <1>11. TypeOK'
    <2>1. waiting' \in [Processes -> Int]
      <3>1. /\ waiting \in [Processes -> Int]
            /\ \/ waiting' = waiting
               \/ waiting' = [waiting EXCEPT ![ProcessOf[t]] = @ + (-1)]
        BY <1>1 DEF CountWaiting, LaneInv, TypeOK
      <3> QED
        BY <1>0, <3>1
    <2>2. \A p \in Processes : WaitersOf(p)' \in SUBSET Members(p)
      BY DEF WaitersOf, Members
    <2>3. waiting' \in [Processes -> Nat]
      BY <1>9, <2>1, <2>2, CardinalityNat DEF WaitingExact
    <2> QED
      BY <1>1, <1>5, <1>6, <2>3 DEF LaneInv, TypeOK
  <1>12. Placed' /\ OwnerIsLocal' /\ LaneExclusion'
    BY <1>1, <1>7 DEF LaneInv, Placed, OwnerIsLocal, LaneExclusion
  <1>13. FreeLaneIsNotified'
    <2> SUFFICES ASSUME NEW p \in Processes,
                        \A u \in Members(p) : lease[u] = "none"
                 PROVE  /\ \A u \in Members(p) :
                              WaitsExclusively(u)' => Notified(u)'
                        /\ \A u \in Members(p) : pc'[u] = "waiting" =>
                               \E v \in Members(p) : Notified(v)'
      BY <1>1 DEF FreeLaneIsNotified, Members
    <2>1. /\ \A u \in Members(p) : WaitsExclusively(u) => Notified(u)
          /\ \A u \in Members(p) :
                pc[u] = "waiting" => \E v \in Members(p) : Notified(v)
      BY DEF LaneInv, FreeLaneIsNotified
    <2>2. \A u \in Members(p) : WaitsExclusively(u)' => Notified(u)'
      BY <1>7, <1>8, <2>1 DEF Members
    <2>3. ASSUME NEW u \in Members(p), pc'[u] = "waiting"
          PROVE  \E v \in Members(p) : Notified(v)'
      <3>1. u \in Tasks \ {t} /\ pc[u] = "waiting"
        BY <1>5, <1>7, <2>3 DEF Members
      <3>2. CASE p = P
        <4>1. q # <<>>
          <5>1. PICK i \in 1..Len(q) : q[i] = u
            BY <3>1, <3>2 DEF LaneInv, QueueExact, q
          <5> QED
            BY <5>1
        <4> QED
          BY <1>4, <1>5, <3>2, <4>1 DEF Notified, Members
      <3>3. CASE p # P
        <4>1. PICK v \in Members(p) : Notified(v)
          BY <2>1, <3>1
        <4>2. v \in Tasks \ {t}
          BY <3>3 DEF Members, P
        <4> QED
          BY <1>7, <4>1, <4>2
      <3> QED
        BY <3>2, <3>3
    <2> QED
      BY <2>2, <2>3
  <1> QED
    BY <1>6, <1>10, <1>11, <1>12, <1>13 DEF LaneInv

-----------------------------------------------------------------------------
(* The lane is given up, by its holder or by the death of its process.      *)

LEMMA ReleaseLocalLane ==
    ASSUME LaneInv, NEW t \in Tasks, ReleaseLocal(t)
    PROVE  LaneInv'
  <1> DEFINE P == ProcessOf[t]
  <1>0. P \in Processes /\ t \in Members(P)
    BY TaskAssumption DEF Members
  <1>1. /\ pc[t] = "leaving"
        /\ lease' = [lease EXCEPT ![t] = "none"]
        /\ depth' = [depth EXCEPT ![t] = 0]
        /\ IF lease[t] = "exclusive"
           THEN owner' = [owner EXCEPT ![P] = NoTask] /\ UNCHANGED shared
           ELSE shared' = [shared EXCEPT ![P] = @ - 1] /\ UNCHANGED owner
        /\ queue' = [queue EXCEPT ![P] = <<>>]
        /\ UNCHANGED <<kind, waiting, pg, zombie>>
    BY DEF ReleaseLocal, lockVars
  <1>2. pc' = [u \in Tasks |->
                  IF u = t THEN "outside"
                  ELSE IF pc[u] = "waiting" /\ ProcessOf[u] = P
                       THEN "woken"
                       ELSE pc[u]]
    BY DEF ReleaseLocal
  <1> HIDE DEF P
  <1>3. /\ pc' \in [Tasks -> Points]
        /\ pc'[t] = "outside"
        /\ \A u \in Tasks \ {t} :
               pc'[u] = IF pc[u] = "waiting" /\ ProcessOf[u] = P THEN "woken"
                        ELSE pc[u]
    BY <1>2 DEF LaneInv, TypeOK, Points
  <1>4. /\ lease' \in [Tasks -> Locks]
        /\ lease'[t] = "none"
        /\ \A u \in Tasks \ {t} : lease'[u] = lease[u]
        /\ lease[t] \in {"shared", "exclusive"}
    BY <1>1 DEF LaneInv, TypeOK, Locks, Placed, Leased
  <1>5. SharedExact /\ WaitingExact /\ OwnerExact
    BY CountersSplit DEF LaneInv
  <1>6. \A u \in Tasks : /\ Leased(u)' <=> Leased(u) /\ u # t
                         /\ Queued(u)' <=> Queued(u)
    BY <1>1, <1>3 DEF Leased, Queued
  <1>7. \A u \in Tasks : WaitsExclusively(u)' <=> WaitsExclusively(u)
    BY <1>1, <1>6 DEF WaitsExclusively
  <1>8. WaitingExact'
    BY <1>1, <1>5, <1>7, WaitersKept
  <1>9. SharedExact' /\ shared' \in [Processes -> Int]
    <2>1. shared' \in [Processes -> Int]
      BY <1>0, <1>1 DEF LaneInv, TypeOK
    <2> SUFFICES ASSUME NEW p \in Processes
                 PROVE  shared'[p] = Cardinality(SharedOf(p)')
      BY <2>1 DEF SharedExact
    <2>2. shared[p] = Cardinality(SharedOf(p)) /\ SharedOf(p) \in SUBSET Members(p)
      BY <1>5 DEF SharedExact, SharedOf
    <2>3. CASE p = P /\ lease[t] = "shared"
      <3>1. shared'[p] = shared[p] - 1
        BY <1>1, <2>3 DEF LaneInv, TypeOK
      <3>2. SharedOf(p)' = SharedOf(p) \ {t} /\ t \in SharedOf(p)
        BY <1>0, <1>4, <2>3 DEF SharedOf, Members
      <3> QED
        BY <2>2, <3>1, <3>2, Shrinks
    <2>4. CASE ~(p = P /\ lease[t] = "shared")
      <3>1. shared'[p] = shared[p]
        BY <1>1, <1>4, <2>4 DEF LaneInv, TypeOK
      <3>2. SharedOf(p)' = SharedOf(p)
        BY <1>0, <1>4, <2>4 DEF SharedOf, Members, P
      <3> QED
        BY <2>2, <3>1, <3>2
    <2> QED
      BY <2>3, <2>4
  <1>10. OwnerExact'
    <2> SUFFICES ASSUME NEW p \in Processes, NEW u \in Members(p)
                 PROVE  owner'[p] = u <=> lease'[u] = "exclusive"
      BY DEF OwnerExact, Members
    <2>1. u \in Tasks /\ ProcessOf[u] = p /\ u # NoTask
      BY TaskAssumption DEF Members
    <2>2. /\ owner[p] = u <=> lease[u] = "exclusive"
          /\ owner[P] = t <=> lease[t] = "exclusive"
      BY <1>0, <1>5 DEF OwnerExact
    <2>3. CASE p = P /\ lease[t] = "exclusive"
      <3>1. owner'[p] = NoTask
        BY <1>1, <2>3 DEF LaneInv, TypeOK
      <3>2. lease'[u] # "exclusive"
        BY <1>4, <2>1, <2>2, <2>3
      <3> QED
        BY <2>1, <3>1, <3>2
    <2>4. CASE ~(p = P /\ lease[t] = "exclusive")
      <3>1. owner'[p] = owner[p]
        BY <1>1, <2>4 DEF LaneInv, TypeOK
      <3>2. lease'[u] = "exclusive" <=> lease[u] = "exclusive"
        BY <1>4, <2>1, <2>4 DEF P
      <3> QED
        BY <2>2, <3>1, <3>2
    <2> QED
      BY <2>3, <2>4
  <1>11. CountersExact'
    BY <1>8, <1>9, <1>10, CountersSplitPrime
  <1>12. TypeOK'
    <2>1. shared' \in [Processes -> Nat]
      <3>1. \A p \in Processes : SharedOf(p)' \in SUBSET Members(p)
        BY DEF SharedOf, Members
      <3> QED
        BY <1>9, <3>1, CardinalityNat DEF SharedExact
    <2>2. owner' \in [Processes -> Tasks \cup {NoTask}]
      BY <1>1 DEF LaneInv, TypeOK
    <2>3. queue' \in [Processes -> Seq(Tasks)]
      BY <1>1, EmptySeq DEF LaneInv, TypeOK
    <2>4. depth' \in [Tasks -> Nat]
      BY <1>1 DEF LaneInv, TypeOK
    <2> QED
      BY <1>1, <1>3, <1>4, <2>1, <2>2, <2>3, <2>4 DEF LaneInv, TypeOK
  <1>13. Placed'
    BY <1>4, <1>6 DEF LaneInv, Placed
  <1>14. OwnerIsLocal'
    BY <1>1 DEF LaneInv, TypeOK, OwnerIsLocal
  <1>15. LaneExclusion'
    BY <1>4 DEF LaneInv, LaneExclusion
  <1>16. QueueExact'
    <2> SUFFICES ASSUME NEW p \in Processes, NEW s, s = queue'[p]
                 PROVE  /\ \A j \in 1..Len(s) :
                              /\ s[j] \in Members(p)
                              /\ pc'[s[j]] = "waiting"
                              /\ \A l \in 1..Len(s) : s[j] = s[l] => j = l
                        /\ \A u \in Members(p) :
                              pc'[u] = "waiting" => \E j \in 1..Len(s) : s[j] = u
      BY DEF QueueExact, Members
    <2>1. CASE p = P
      <3>1. s = <<>>
        BY <1>1, <2>1 DEF LaneInv, TypeOK
      <3>2. \A u \in Members(p) : pc'[u] # "waiting"
        BY <1>3, <2>1 DEF Members
      <3> QED
        BY <3>1, <3>2
    <2>2. CASE p # P
      <3>1. s = queue[p]
        BY <1>1, <2>2 DEF LaneInv, TypeOK
      <3>2. \A u \in Members(p) : pc'[u] = pc[u]
        BY <1>3, <2>2 DEF Members, P
      <3> QED
        BY <3>1, <3>2 DEF LaneInv, QueueExact
    <2> QED
      BY <2>1, <2>2
  <1>17. FreeLaneIsNotified'
    <2> SUFFICES ASSUME NEW p \in Processes,
                        \A u \in Members(p) : lease'[u] = "none"
                 PROVE  /\ \A u \in Members(p) :
                              WaitsExclusively(u)' => Notified(u)'
                        /\ \A u \in Members(p) : pc'[u] = "waiting" =>
                               \E v \in Members(p) : Notified(v)'
      BY DEF FreeLaneIsNotified, Members
    <2>1. CASE p = P
      <3>1. \A u \in Members(p) : pc'[u] # "waiting"
        BY <1>3, <2>1 DEF Members
      <3> QED
        BY <3>1 DEF WaitsExclusively, Queued, Notified
    <2>2. CASE p # P
      <3>1. \A u \in Members(p) : /\ u \in Tasks \ {t}
                                  /\ pc'[u] = pc[u] /\ lease'[u] = lease[u]
        BY <1>3, <1>4, <2>2 DEF Members, P
      <3>2. \A u \in Members(p) : Notified(u)' <=> Notified(u)
        BY <3>1 DEF Notified
      <3> QED
        BY <1>7, <3>1, <3>2 DEF LaneInv, FreeLaneIsNotified
    <2> QED
      BY <2>1, <2>2
  <1> QED
    BY <1>11, <1>12, <1>13, <1>14, <1>15, <1>16, <1>17 DEF LaneInv

LEMMA CrashLane ==
    ASSUME LaneInv, NEW P \in Processes, Crash(P)
    PROVE  LaneInv'
  <1>1. /\ owner' = [owner EXCEPT ![P] = NoTask]
        /\ shared' = [shared EXCEPT ![P] = 0]
        /\ waiting' = [waiting EXCEPT ![P] = 0]
        /\ queue' = [queue EXCEPT ![P] = <<>>]
        /\ kind' = kind
    BY DEF Crash
  <1>2. \A t \in Tasks :
            /\ t \in Members(P) => pc'[t] = "outside" /\ lease'[t] = "none"
            /\ t \notin Members(P) => pc'[t] = pc[t] /\ lease'[t] = lease[t]
    BY DEF Crash
  <1>3. /\ pc' \in [Tasks -> Points]
        /\ lease' \in [Tasks -> Locks]
        /\ depth' \in [Tasks -> Nat]
    BY DEF Crash, LaneInv, TypeOK, Points, Locks
  <1>4. pg' \in [Tasks -> Locks] /\ zombie' \in [Tasks -> Locks]
    BY DEF Crash, LaneInv, TypeOK, Locks
  <1>5. owner' \in [Processes -> Tasks \cup {NoTask}]
    BY <1>1 DEF LaneInv, TypeOK
  <1>6. shared' \in [Processes -> Nat] /\ waiting' \in [Processes -> Nat]
    BY <1>1 DEF LaneInv, TypeOK
  <1>7. queue' \in [Processes -> Seq(Tasks)]
    BY <1>1, EmptySeq DEF LaneInv, TypeOK
  <1>8. TypeOK'
    BY <1>1, <1>3, <1>4, <1>5, <1>6, <1>7 DEF LaneInv, TypeOK
  <1>9. /\ owner'[P] = NoTask /\ shared'[P] = 0 /\ waiting'[P] = 0
        /\ queue'[P] = <<>>
        /\ \A p \in Processes \ {P} :
              /\ owner'[p] = owner[p] /\ shared'[p] = shared[p]
              /\ waiting'[p] = waiting[p] /\ queue'[p] = queue[p]
    BY <1>1 DEF LaneInv, TypeOK
  <1>10. /\ \A t \in Members(P) :
               /\ pc'[t] = "outside" /\ lease'[t] = "none"
               /\ ~Leased(t)' /\ ~Queued(t)'
         /\ \A p \in Processes \ {P} : \A t \in Members(p) :
               /\ pc'[t] = pc[t] /\ lease'[t] = lease[t]
               /\ Leased(t)' <=> Leased(t)
               /\ Queued(t)' <=> Queued(t)
               /\ Notified(t)' <=> Notified(t)
               /\ WaitsExclusively(t)' <=> WaitsExclusively(t)
    BY <1>1, <1>2 DEF Members, Leased, Queued, Notified, WaitsExclusively
  <1>11. \A t \in Tasks : t \in Members(ProcessOf[t]) /\ ProcessOf[t] \in Processes
    BY TaskAssumption DEF Members
  <1>12. Placed'
    <2> SUFFICES ASSUME NEW t \in Tasks
                 PROVE  lease'[t] # "none" <=> Leased(t)'
      BY DEF Placed
    <2>1. lease[t] # "none" <=> Leased(t)
      BY DEF LaneInv, Placed
    <2> QED
      BY <1>10, <1>11, <2>1
  <1>13. OwnerIsLocal'
    BY <1>9 DEF LaneInv, OwnerIsLocal
  <1>14. LaneExclusion'
    BY <1>2 DEF LaneInv, LaneExclusion
  <1>15. QueueExact'
    <2> SUFFICES ASSUME NEW p \in Processes, NEW s, s = queue'[p]
                 PROVE  /\ \A j \in 1..Len(s) :
                              /\ s[j] \in Members(p)
                              /\ pc'[s[j]] = "waiting"
                              /\ \A l \in 1..Len(s) : s[j] = s[l] => j = l
                        /\ \A u \in Members(p) :
                              pc'[u] = "waiting" => \E j \in 1..Len(s) : s[j] = u
      BY DEF QueueExact, Members
    <2>1. CASE p = P
      BY <1>9, <1>10, <2>1
    <2>2. CASE p # P
      <3>1. s = queue[p]
        BY <1>9, <2>2
      <3>2. \A u \in Members(p) : pc'[u] = pc[u]
        BY <1>10, <2>2
      <3> QED
        BY <3>1, <3>2 DEF LaneInv, QueueExact
    <2> QED
      BY <2>1, <2>2
  <1>16. CountersExact'
    <2>1. SharedExact /\ WaitingExact /\ OwnerExact
      BY CountersSplit DEF LaneInv
    <2>2. SharedExact'
      <3> SUFFICES ASSUME NEW p \in Processes
                   PROVE  shared'[p] = Cardinality(SharedOf(p)')
        BY DEF SharedExact
      <3>1. CASE p = P
        <4>1. SharedOf(p)' = {}
          BY <1>10, <3>1 DEF SharedOf, Members
        <4> QED
          BY <1>9, <3>1, <4>1, FS_EmptySet
      <3>2. CASE p # P
        <4>1. SharedOf(p)' = SharedOf(p)
          BY <1>10, <3>2 DEF SharedOf, Members
        <4> QED
          BY <1>9, <2>1, <3>2, <4>1 DEF SharedExact
      <3> QED
        BY <3>1, <3>2
    <2>3. WaitingExact'
      <3> SUFFICES ASSUME NEW p \in Processes
                   PROVE  waiting'[p] = Cardinality(WaitersOf(p)')
        BY DEF WaitingExact
      <3>1. CASE p = P
        <4>1. WaitersOf(p)' = {}
          BY <1>10, <3>1 DEF WaitersOf, WaitsExclusively, Members
        <4> QED
          BY <1>9, <3>1, <4>1, FS_EmptySet
      <3>2. CASE p # P
        <4>1. WaitersOf(p)' = WaitersOf(p)
          BY <1>10, <3>2 DEF WaitersOf, Members
        <4> QED
          BY <1>9, <2>1, <3>2, <4>1 DEF WaitingExact
      <3> QED
        BY <3>1, <3>2
    <2>4. OwnerExact'
      <3> SUFFICES ASSUME NEW p \in Processes, NEW u \in Members(p)
                   PROVE  owner'[p] = u <=> lease'[u] = "exclusive"
        BY DEF OwnerExact, Members
      <3>1. u # NoTask
        BY TaskAssumption DEF Members
      <3>2. CASE p = P
        BY <1>9, <1>10, <3>1, <3>2
      <3>3. CASE p # P
        BY <1>9, <1>10, <2>1, <3>3 DEF OwnerExact
      <3> QED
        BY <3>2, <3>3
    <2> QED
      BY <2>2, <2>3, <2>4, CountersSplitPrime
  <1>17. FreeLaneIsNotified'
    <2> SUFFICES ASSUME NEW p \in Processes,
                        \A u \in Members(p) : lease'[u] = "none"
                 PROVE  /\ \A u \in Members(p) :
                              WaitsExclusively(u)' => Notified(u)'
                        /\ \A u \in Members(p) : pc'[u] = "waiting" =>
                               \E v \in Members(p) : Notified(v)'
      BY DEF FreeLaneIsNotified, Members
    <2>1. CASE p = P
      BY <1>10, <2>1 DEF WaitsExclusively
    <2>2. CASE p # P
      BY <1>10, <2>2 DEF LaneInv, FreeLaneIsNotified
    <2> QED
      BY <2>1, <2>2
  <1> QED
    BY <1>8, <1>12, <1>13, <1>14, <1>15, <1>16, <1>17 DEF LaneInv

-----------------------------------------------------------------------------
(* The lanes stay exact through every step.                                 *)

LEMMA EnterLane ==
    ASSUME LaneInv, NEW t \in Tasks, NEW k \in Kinds[t], Enter(t, k)
    PROVE  LaneInv'
  <1>1. /\ k \in {"write", "queue", "try"}
        /\ pc[t] = "outside"
        /\ kind' = [kind EXCEPT ![t] = k]
        /\ UNCHANGED lockVars
    BY TaskAssumption DEF Enter
  <1>2. WaitingExact /\ waiting \in [Processes -> Int] /\ ProcessOf[t] \in Processes
    BY TaskAssumption, CountersSplit DEF LaneInv, TypeOK
  <1>3. /\ kind'[t] = k
        /\ \A u \in Tasks \ {t} : kind'[u] = kind[u]
    BY <1>1 DEF LaneInv, TypeOK
  <1>4. CASE /\ Available(ProcessOf[t], Mode(k))
             /\ Grant(t, Mode(k))
             /\ UNCHANGED <<waiting, queue>>
    <2>1. /\ pc'[t] = "locking"
          /\ \A u \in Tasks \ {t} : pc'[u] = pc[u]
      BY <1>4 DEF Grant, LaneInv, TypeOK
    <2>2. \A u \in Tasks : WaitsExclusively(u)' <=> WaitsExclusively(u)
      BY <1>1, <1>3, <2>1 DEF WaitsExclusively, Queued
    <2>3. WaitingExact'
      BY <1>2, <1>4, <2>2, WaitersKept
    <2>4. waiting' \in [Processes -> Int] /\ UNCHANGED queue
      BY <1>2, <1>4
    <2> QED
      BY <1>1, <1>4, <2>3, <2>4, GrantLane
  <1>5. CASE /\ ~Available(ProcessOf[t], Mode(k))
             /\ Block(t)
             /\ CountWaiting(t, k, 1)
    <2>1. /\ pc'[t] = "waiting"
          /\ \A u \in Tasks \ {t} : pc'[u] = pc[u]
      BY <1>5 DEF Block, LaneInv, TypeOK
    <2>2. /\ ~WaitsExclusively(t)
          /\ WaitsExclusively(t)' <=> Mode(k) = "exclusive"
          /\ \A u \in Tasks \ {t} : WaitsExclusively(u)' <=> WaitsExclusively(u)
      BY <1>1, <1>3, <2>1 DEF WaitsExclusively, Queued, Mode
    <2>3. WaitingExact'
      BY <1>2, <1>5, <2>2, WaiterJoins DEF LaneInv
    <2>4. waiting' \in [Processes -> Int]
      BY <1>2, <1>5 DEF CountWaiting
    <2> QED
      BY <1>1, <1>5, <2>3, <2>4, BlockLane
  <1> QED
    BY <1>4, <1>5 DEF Enter

LEMMA ResumeLane ==
    ASSUME LaneInv, NEW t \in Tasks, Resume(t)
    PROVE  LaneInv'
  <1> DEFINE k == kind[t]
  <1>1. /\ k \in {"write", "queue", "try"}
        /\ pc[t] = "woken"
        /\ kind' = kind
        /\ UNCHANGED lockVars
    BY DEF Resume, LaneInv, TypeOK
  <1>2. kind' = [kind EXCEPT ![t] = k]
    BY <1>1 DEF LaneInv, TypeOK
  <1>3. WaitingExact /\ waiting \in [Processes -> Int] /\ ProcessOf[t] \in Processes
    BY TaskAssumption, CountersSplit DEF LaneInv, TypeOK
  <1>4. \/ /\ Available(ProcessOf[t], Mode(k))
           /\ Grant(t, Mode(k))
           /\ CountWaiting(t, k, -1)
           /\ UNCHANGED queue
        \/ /\ ~Available(ProcessOf[t], Mode(k))
           /\ Block(t)
           /\ UNCHANGED waiting
    BY DEF Resume
  <1>5. WaitsExclusively(t) <=> Mode(k) = "exclusive"
    BY <1>1 DEF WaitsExclusively, Queued
  <1> HIDE DEF k
  <1>6. CASE /\ Available(ProcessOf[t], Mode(k))
             /\ Grant(t, Mode(k))
             /\ CountWaiting(t, k, -1)
             /\ UNCHANGED queue
    <2>1. /\ pc'[t] = "locking"
          /\ \A u \in Tasks \ {t} : pc'[u] = pc[u]
      BY <1>6 DEF Grant, LaneInv, TypeOK
    <2>2. /\ ~WaitsExclusively(t)'
          /\ \A u \in Tasks \ {t} : WaitsExclusively(u)' <=> WaitsExclusively(u)
      BY <1>1, <2>1 DEF WaitsExclusively, Queued
    <2>3. WaitingExact'
      BY <1>3, <1>5, <1>6, <2>2, WaiterLeaves DEF LaneInv
    <2>4. waiting' \in [Processes -> Int]
      <3>1. \/ waiting' = waiting
            \/ waiting' = [waiting EXCEPT ![ProcessOf[t]] = @ + (-1)]
        BY <1>6 DEF CountWaiting
      <3> QED
        BY <1>3, <3>1
    <2> QED
      BY <1>1, <1>2, <1>6, <2>3, <2>4, GrantLane
  <1>7. CASE /\ ~Available(ProcessOf[t], Mode(k))
             /\ Block(t)
             /\ UNCHANGED waiting
    <2>1. /\ pc'[t] = "waiting"
          /\ \A u \in Tasks \ {t} : pc'[u] = pc[u]
      BY <1>7 DEF Block, LaneInv, TypeOK
    <2>2. \A u \in Tasks : WaitsExclusively(u)' <=> WaitsExclusively(u)
      BY <1>1, <2>1 DEF WaitsExclusively, Queued
    <2>3. WaitingExact'
      BY <1>3, <1>7, <2>2, WaitersKept
    <2>4. waiting' \in [Processes -> Int] /\ (pc[t] = "woken" => k = kind[t])
      BY <1>3, <1>7 DEF k
    <2> QED
      BY <1>1, <1>2, <1>7, <2>3, <2>4, BlockLane
  <1> QED
    BY <1>4, <1>6, <1>7

(* Nothing a task does between its grant and its release touches its lane.  *)
HeldAction(t) ==
    \/ TryLock(t) \/ AbandonLock(t) \/ Nest(t) \/ Unnest(t) \/ Finish(t)
    \/ Unlock(t) \/ UnlockFails(t) \/ DropSession(t)

LEMMA HeldLane ==
    ASSUME LaneInv, NEW t \in Tasks, HeldAction(t)
    PROVE  LaneInv'
  <1>1. /\ Leased(t)
        /\ UNCHANGED <<kind, lease, laneVars>>
    BY DEF HeldAction, TryLock, AbandonLock, Nest, Unnest, Finish, Unlock,
           UnlockFails, DropSession, Leased, taskVars
  <1>2. \E q \in {"locking", "inside", "unlocking", "leaving"} :
            pc' = [pc EXCEPT ![t] = q]
    <2>1. pc = [pc EXCEPT ![t] = pc[t]]
      BY DEF LaneInv, TypeOK
    <2>2. CASE TryLock(t)
      BY <2>2 DEF TryLock
    <2>3. CASE Nest(t) \/ Unnest(t) \/ DropSession(t)
      BY <2>1, <2>3 DEF Nest, Unnest, DropSession, taskVars
    <2>4. CASE \/ AbandonLock(t) \/ Finish(t) \/ Unlock(t) \/ UnlockFails(t)
      BY <2>4 DEF AbandonLock, Finish, Unlock, UnlockFails
    <2> QED
      BY <2>2, <2>3, <2>4 DEF HeldAction
  <1>3. depth' \in [Tasks -> Nat]
    <2>1. CASE Nest(t)
      BY <2>1 DEF Nest, LaneInv, TypeOK
    <2>2. CASE Unnest(t)
      BY <2>2 DEF Unnest, LaneInv, TypeOK
    <2>3. CASE ~Nest(t) /\ ~Unnest(t)
      <3>1. UNCHANGED depth
        BY <2>3 DEF HeldAction, TryLock, AbandonLock, Finish, Unlock,
                    UnlockFails, DropSession, taskVars
      <3> QED
        BY <3>1 DEF LaneInv, TypeOK
    <2> QED
      BY <2>1, <2>2, <2>3
  <1>4. pg' \in [Tasks -> Locks] /\ zombie' \in [Tasks -> Locks]
    <2>0. /\ pg \in [Tasks -> Locks] /\ zombie \in [Tasks -> Locks]
          /\ lease[t] \in Locks /\ pg[t] \in Locks /\ "none" \in Locks
      BY DEF LaneInv, TypeOK, Locks
    <2>1. CASE TryLock(t)
      BY <2>0, <2>1 DEF TryLock
    <2>2. CASE AbandonLock(t)
      BY <2>0, <2>2 DEF AbandonLock
    <2>3. CASE Nest(t) \/ Unnest(t) \/ Finish(t)
      BY <2>0, <2>3 DEF Nest, Unnest, Finish, lockVars
    <2>4. CASE Unlock(t) \/ UnlockFails(t) \/ DropSession(t)
      BY <2>0, <2>4 DEF Unlock, UnlockFails, DropSession
    <2> QED
      BY <2>1, <2>2, <2>3, <2>4 DEF HeldAction
  <1>5. PICK q \in {"locking", "inside", "unlocking", "leaving"} :
            pc' = [pc EXCEPT ![t] = q]
    BY <1>2
  <1>6. q \in Points
    BY DEF Points
  <1> QED
    BY <1>1, <1>3, <1>4, <1>5, <1>6, HeldStep

LEMMA StutterLane ==
    ASSUME LaneInv, UNCHANGED <<taskVars, laneVars>>, zombie' \in [Tasks -> Locks],
           pg' \in [Tasks -> Locks]
    PROVE  LaneInv'
  <1>1. UNCHANGED <<pc, kind, lease, depth, owner, shared, waiting, queue>>
    BY DEF taskVars, laneVars
  <1>2. TypeOK'
    BY <1>1 DEF LaneInv, TypeOK
  <1>3. Placed' /\ OwnerIsLocal' /\ QueueExact' /\ LaneExclusion'
    BY <1>1 DEF LaneInv, Placed, Leased, OwnerIsLocal, QueueExact, Members,
                LaneExclusion
  <1>4. CountersExact'
    BY <1>1 DEF LaneInv, CountersExact, Members, Queued
  <1>5. FreeLaneIsNotified'
    BY <1>1 DEF LaneInv, FreeLaneIsNotified, Members, WaitsExclusively, Queued,
                Notified
  <1> QED
    BY <1>2, <1>3, <1>4, <1>5 DEF LaneInv

LEMMA LaneInit == Init => LaneInv
  <1> SUFFICES ASSUME Init
               PROVE  LaneInv
    OBVIOUS
  <1>1. TypeOK
    BY EmptySeq DEF Init, TypeOK, Points, Locks
  <1>2. Placed /\ OwnerIsLocal /\ QueueExact /\ LaneExclusion
    BY TaskAssumption
       DEF Init, Placed, Leased, OwnerIsLocal, QueueExact, Members, LaneExclusion
  <1>3. CountersExact
    <2>1. \A p \in Processes : SharedOf(p) = {} /\ WaitersOf(p) = {}
      BY DEF Init, SharedOf, WaitersOf, WaitsExclusively, Queued, Members
    <2>2. SharedExact /\ WaitingExact
      BY <2>1, FS_EmptySet DEF Init, SharedExact, WaitingExact
    <2>3. OwnerExact
      BY TaskAssumption DEF Init, OwnerExact, Members
    <2> QED
      BY <2>2, <2>3, CountersSplit
  <1>4. FreeLaneIsNotified
    BY DEF Init, FreeLaneIsNotified, Members, WaitsExclusively, Queued
  <1> QED
    BY <1>1, <1>2, <1>3, <1>4 DEF LaneInv

LEMMA LaneStep == LaneInv /\ [Next]_vars => LaneInv'
  <1> SUFFICES ASSUME LaneInv, [Next]_vars
               PROVE  LaneInv'
    OBVIOUS
  <1>0. pg \in [Tasks -> Locks] /\ zombie \in [Tasks -> Locks]
    BY DEF LaneInv, TypeOK
  <1>1. ASSUME NEW t \in Tasks, NEW k \in Kinds[t], Enter(t, k)
        PROVE  LaneInv'
    BY <1>1, EnterLane
  <1>2. ASSUME NEW t \in Tasks, Resume(t)
        PROVE  LaneInv'
    BY <1>2, ResumeLane
  <1>3. ASSUME NEW t \in Tasks, Cancelled(t)
        PROVE  LaneInv'
    BY <1>3, CancelledLane
  <1>4. ASSUME NEW t \in Tasks, CancelWait(t)
        PROVE  LaneInv'
    BY <1>4, CancelWaitLane
  <1>5. ASSUME NEW t \in Tasks, ReleaseLocal(t)
        PROVE  LaneInv'
    BY <1>5, ReleaseLocalLane
  <1>6. ASSUME NEW t \in Tasks, HeldAction(t)
        PROVE  LaneInv'
    BY <1>6, HeldLane
  <1>7. ASSUME NEW t \in Tasks, Reap(t)
        PROVE  LaneInv'
    <2>1. zombie' \in [Tasks -> Locks]
      BY <1>0, <1>7 DEF Reap, Locks
    <2>2. pg' \in [Tasks -> Locks] /\ UNCHANGED <<taskVars, laneVars>>
      BY <1>0, <1>7 DEF Reap
    <2> QED
      BY <2>1, <2>2, StutterLane
  <1>8. ASSUME NEW p \in Processes, Crash(p)
        PROVE  LaneInv'
    BY <1>8, CrashLane
  <1>9. CASE UNCHANGED vars
    <2>1. UNCHANGED <<taskVars, laneVars, pg, zombie>>
      BY <1>9 DEF vars, lockVars
    <2> QED
      BY <1>0, <2>1, StutterLane
  <1>10. CASE Next
    <2>1. CASE \E t \in Tasks :
                  \/ \E k \in Kinds[t] : Enter(t, k)
                  \/ Resume(t) \/ Cancelled(t) \/ CancelWait(t)
                  \/ ReleaseLocal(t) \/ HeldAction(t) \/ Reap(t)
      BY <1>1, <1>2, <1>3, <1>4, <1>5, <1>6, <1>7, <2>1
    <2>2. CASE \E p \in Processes : Crash(p)
      BY <1>8, <2>2
    <2> QED
      BY <1>10, <2>1, <2>2 DEF Next, Proceed, HeldAction
  <1> QED
    BY <1>9, <1>10

-----------------------------------------------------------------------------
(* The database lock.                                                       *)

(* A step of the database's side of one task, t.  It takes a lock only over *)
(* its own lease and only when LockFree, or gives it up.                    *)
LEMMA LockStep ==
    ASSUME LockInv, TypeOK, NEW t \in Tasks,
           lease' = lease,
           \A u \in Tasks \ {t} : pg'[u] = pg[u] /\ pc'[u] = pc[u],
           \/ pg'[t] = "none"
           \/ pg'[t] = pg[t] /\ Inside(t)'
           \/ pg'[t] = lease[t] /\ Inside(t)' /\ LockFree(t),
           ~SessionsMayDrop /\ Inside(t)' => pg'[t] = lease[t]
    PROVE  LockInv'
  <1>1. LockCoveredByLease'
    BY DEF LockInv, LockCoveredByLease, Inside
  <1>2. Compatible'
    <2> SUFFICES ASSUME NEW u \in Tasks, NEW v \in Tasks, u # v,
                        pg'[u] = "exclusive"
                 PROVE  pg'[v] = "none"
      BY DEF Compatible
    <2>1. CASE pg'[t] = "none" \/ pg'[t] = pg[t]
      BY <2>1 DEF LockInv, Compatible
    <2>2. CASE pg'[t] = lease[t] /\ LockFree(t)
      BY <2>2 DEF LockInv, Compatible, LockFree, Conflict
    <2> QED
      BY <2>1, <2>2
  <1>3. HeldInside'
    BY DEF LockInv, HeldInside, Inside
  <1> QED
    BY <1>1, <1>2, <1>3 DEF LockInv

(* A step of the lane of tasks that hold nothing in the database.           *)
LEMMA LaneLeavesLocks ==
    ASSUME LockInv, pg' = pg,
           \A u \in Tasks : pg[u] # "none" => lease'[u] = lease[u],
           \A u \in Tasks : Inside(u)' <=> Inside(u),
           \A u \in Tasks : Inside(u) => lease'[u] = lease[u]
    PROVE  LockInv'
  <1>1. LockCoveredByLease'
    BY DEF LockInv, LockCoveredByLease
  <1>2. Compatible'
    BY DEF LockInv, Compatible
  <1>3. HeldInside'
    BY DEF LockInv, HeldInside
  <1> QED
    BY <1>1, <1>2, <1>3 DEF LockInv

LEMMA LockInit == Init => LockInv
  BY DEF Init, LockInv, LockCoveredByLease, Compatible, HeldInside, Inside

LEMMA LaneActionLocks ==
    ASSUME Inv, NEW t \in Tasks,
           \/ \E k \in Kinds[t] : Enter(t, k)
           \/ Resume(t) \/ Cancelled(t) \/ CancelWait(t) \/ ReleaseLocal(t)
    PROVE  LockInv'
  <1>1. /\ TypeOK /\ LockInv /\ QueueExact
        /\ pg[t] # "none" => Inside(t)
    BY DEF Inv, LaneInv, LockInv, LockCoveredByLease
  <1>2. pg' = pg /\ ~Inside(t) /\ ~Inside(t)'
    BY <1>1 DEF Enter, Resume, Cancelled, CancelWait, ReleaseLocal, lockVars,
                Grant, Block, Passed, Inside, TypeOK
  <1>3. \A u \in Tasks \ {t} : lease'[u] = lease[u]
    BY <1>1 DEF Enter, Resume, Cancelled, CancelWait, ReleaseLocal,
                Grant, Block, TypeOK
  <1>4. \A u \in Tasks \ {t} : Inside(u)' <=> Inside(u)
    <2>1. CASE \/ \E k \in Kinds[t] : Enter(t, k)
               \/ Resume(t) \/ CancelWait(t) \/ ReleaseLocal(t)
      BY <1>1, <2>1 DEF Enter, Resume, CancelWait, ReleaseLocal, Grant, Block,
                        Inside, TypeOK
    <2>2. CASE Cancelled(t)
      <3> DEFINE P == ProcessOf[t]
                 q == queue[P]
      <3>1. Passed(t) /\ P \in Processes
        BY <2>2, TaskAssumption DEF Cancelled
      <3>2. CASE q = <<>>
        BY <1>1, <3>1, <3>2 DEF Passed, Inside, TypeOK
      <3>3. CASE q # <<>>
        <4>1. /\ pc' = [pc EXCEPT ![t] = "outside", ![Head(q)] = "woken"]
          BY <3>1, <3>3 DEF Passed
        <4>2. Head(q) = q[1] /\ 1 \in 1..Len(q)
          BY <1>1, <3>1, <3>3, TailFacts DEF TypeOK
        <4>3. Head(q) \in Tasks /\ pc[Head(q)] = "waiting"
          BY <1>1, <3>1, <4>2 DEF QueueExact, Members
        <4> HIDE DEF q
        <4> QED
          BY <1>1, <4>1, <4>3 DEF Inside, TypeOK
      <3> QED
        BY <3>2, <3>3
    <2> QED
      BY <2>1, <2>2
  <1> QED
    BY <1>1, <1>2, <1>3, <1>4, LaneLeavesLocks

LEMMA HeldActionLocks ==
    ASSUME Inv, NEW t \in Tasks, HeldAction(t)
    PROVE  LockInv'
  <1>1. /\ TypeOK /\ LockInv
        /\ lease' = lease
        /\ pg[t] # "none" => pg[t] = lease[t] /\ Inside(t)
        /\ ~SessionsMayDrop /\ Inside(t) => pg[t] = lease[t]
    BY DEF Inv, LaneInv, LockInv, LockCoveredByLease, HeldInside, HeldAction,
           TryLock, AbandonLock, Nest, Unnest, Finish, Unlock, UnlockFails,
           DropSession, taskVars
  <1>2. CASE TryLock(t)
    BY <1>1, <1>2, LockStep DEF TryLock, TypeOK, Inside
  <1>3. CASE AbandonLock(t)
    BY <1>1, <1>3, LockStep DEF AbandonLock, TypeOK, Inside
  <1>4. CASE Nest(t) \/ Unnest(t) \/ Finish(t)
    BY <1>1, <1>4, LockStep DEF Nest, Unnest, Finish, TypeOK, Inside, lockVars
  <1>5. CASE Unlock(t) \/ UnlockFails(t)
    BY <1>1, <1>5, LockStep DEF Unlock, UnlockFails, TypeOK, Inside
  <1>6. CASE DropSession(t)
    BY <1>1, <1>6, LockStep DEF DropSession, taskVars, TypeOK, Inside
  <1> QED
    BY <1>2, <1>3, <1>4, <1>5, <1>6 DEF HeldAction

LEMMA CrashLocks ==
    ASSUME Inv, NEW P \in Processes, Crash(P)
    PROVE  LockInv'
  <1>1. LockInv
    BY DEF Inv
  <1>2. \A t \in Tasks :
            \/ pc'[t] = "outside" /\ pg'[t] = "none"
            \/ pc'[t] = pc[t] /\ pg'[t] = pg[t] /\ lease'[t] = lease[t]
    BY DEF Crash
  <1>3. LockCoveredByLease'
    BY <1>1, <1>2 DEF LockInv, LockCoveredByLease, Inside
  <1>4. Compatible'
    BY <1>1, <1>2 DEF LockInv, Compatible
  <1>5. HeldInside'
    BY <1>1, <1>2 DEF LockInv, HeldInside, Inside
  <1> QED
    BY <1>3, <1>4, <1>5 DEF LockInv

LEMMA LockInvStep == Inv /\ [Next]_vars => LockInv'
  <1> SUFFICES ASSUME Inv, [Next]_vars
               PROVE  LockInv'
    OBVIOUS
  <1>1. CASE \/ UNCHANGED vars
             \/ \E t \in Tasks : Reap(t)
    <2>1. UNCHANGED <<pc, lease, pg>>
      BY <1>1 DEF Reap, vars, taskVars, lockVars
    <2> QED
      BY <2>1 DEF Inv, LockInv, LockCoveredByLease, Compatible, HeldInside, Inside
  <1>2. CASE \E t \in Tasks :
                \/ \E k \in Kinds[t] : Enter(t, k)
                \/ Resume(t) \/ Cancelled(t) \/ CancelWait(t) \/ ReleaseLocal(t)
    BY <1>2, LaneActionLocks
  <1>3. CASE \E t \in Tasks : HeldAction(t)
    BY <1>3, HeldActionLocks
  <1>4. CASE \E p \in Processes : Crash(p)
    BY <1>4, CrashLocks
  <1> QED
    BY <1>1, <1>2, <1>3, <1>4 DEF Next, Proceed, HeldAction

-----------------------------------------------------------------------------
(* The theorems.                                                            *)

(* The lanes and the database locks keep the invariant in every behaviour.  *)
THEOREM InvHolds == Spec => []Inv
  <1>1. Init => Inv
    BY LaneInit, LockInit DEF Inv
  <1>2. Inv /\ [Next]_vars => Inv'
    BY LaneStep, LockInvStep DEF Inv
  <1> QED
    BY <1>1, <1>2, PTL DEF Spec

(* Every variable keeps its type; in particular the counters of shared      *)
(* leases and of waiting maintenance never go below zero.                   *)
THEOREM TypeCorrect == Spec => []TypeOK
  <1>1. Inv => TypeOK
    BY DEF Inv, LaneInv
  <1> QED
    BY <1>1, InvHolds, PTL

(* Whatever sequence of grants, waits, cancellations, conflicts, failures   *)
(* and restarts a lane sees, its counters count the leases and the waiters. *)
THEOREM CountersStayExact == Spec => []CountersExact
  <1>1. Inv => CountersExact
    BY DEF Inv, LaneInv
  <1> QED
    BY <1>1, InvHolds, PTL

(* Inside one process an exclusive lease stands alone, and a database lock  *)
(* is only ever held under a live lease of its mode, dropped sessions or    *)
(* not.                                                                     *)
THEOREM LeasesAlwaysHold == Spec => []LeasesHold
  <1>1. Inv => LaneExclusion
    BY DEF Inv, LaneInv
  <1>2. Inv => LockCoveredByLease
    BY DEF Inv, LockInv
  <1>3. Inv => LeasesHold
    BY <1>1, <1>2 DEF LeasesHold
  <1> QED
    BY <1>3, InvHolds, PTL

(* A waiter is never left behind on a free lane: cancelling the task that   *)
(* was notified cannot swallow the notification.                            *)
THEOREM NoWakeupIsLost == Spec => []NoLostWakeup
  <1>1. Inv => NoLostWakeup
    BY DEF Inv, LaneInv, FreeLaneIsNotified, NoLostWakeup, Notified
  <1> QED
    BY <1>1, InvHolds, PTL

(* If no session dies under its task, maintenance runs alone across all     *)
(* processes.                                                               *)
THEOREM MaintenanceRunsAlone ==
    ASSUME ~SessionsMayDrop
    PROVE  Spec => []Exclusion
  <1>1. Inv => Exclusion
    <2> SUFFICES ASSUME Inv, NEW t \in Tasks, NEW u \in Tasks, t # u,
                        Inside(t), Inside(u)
                 PROVE  lease[t] = "shared" /\ lease[u] = "shared"
      BY DEF Exclusion
    <2>1. /\ pg[t] = lease[t] /\ pg[u] = lease[u]
          /\ pg[t] = "exclusive" => pg[u] = "none"
          /\ pg[u] = "exclusive" => pg[t] = "none"
      BY DEF Inv, LockInv, HeldInside, Compatible
    <2>2. /\ lease[t] \in {"shared", "exclusive"}
          /\ lease[u] \in {"shared", "exclusive"}
      BY DEF Inv, LaneInv, TypeOK, Locks, Placed, Leased, Inside
    <2> QED
      BY <2>1, <2>2
  <1> QED
    BY <1>1, InvHolds, PTL

=============================================================================
