-------------------------- MODULE IndexCoordinator --------------------------
(***************************************************************************)
(* The lanes that keep index writers and index maintenance apart:          *)
(* IndexMaintenanceCoordinator (one asyncio.Condition per process) around  *)
(* PostgresAdvisoryLock (one session-level lock per lease, shared by all   *)
(* processes through the database).                                        *)
(*                                                                         *)
(* One action is what a task does between two suspension points.  The      *)
(* condition's own lock is never held across one, so a task that takes it  *)
(* never waits for it and _acquire_local and _release_local run whole.     *)
(***************************************************************************)
EXTENDS Integers, SequencesExt

CONSTANTS
    Tasks,            \* asyncio tasks of all processes
    Processes,
    ProcessOf,        \* the process a task runs in
    Kinds,            \* the kinds of lease each task asks for
    MaxDepth,         \* bound: nesting of one task's leases
    SessionsMayDrop,  \* may a lock-holding database session die under its task?
    NoTask

ASSUME TaskAssumption ==
    /\ IsFiniteSet(Tasks)
    /\ NoTask \notin Tasks
    /\ ProcessOf \in [Tasks -> Processes]
    /\ Kinds \in [Tasks -> SUBSET {"write", "queue", "try"}]
    /\ MaxDepth \in Nat \ {0}
    /\ SessionsMayDrop \in BOOLEAN

VARIABLES
    pc,       \* where each task is
    kind,     \* write_operation, operation(wait=True) or operation(wait=False)
    lease,    \* _task_leases: the mode of each task's lease
    depth,    \* _task_leases: its depth
    owner,    \* _exclusive_owner_task_id of each process
    shared,   \* _active_shared_count of each process
    waiting,  \* _waiting_exclusive_count of each process
    queue,    \* each condition's waiters, oldest first
    pg,       \* the advisory lock each task's live session holds
    zombie    \* locks of dead or discarded sessions PostgreSQL has not reaped

taskVars == <<pc, kind, lease, depth>>
laneVars == <<owner, shared, waiting, queue>>
lockVars == <<pg, zombie>>
vars == <<taskVars, laneVars, lockVars>>

Mode(k) == IF k = "write" THEN "shared" ELSE "exclusive"
Locks == {"none", "shared", "exclusive"}
Points == {"outside", "waiting", "woken", "cancelling", "locking", "inside",
           "unlocking", "leaving"}

(* Blocked in condition.wait() as far as the counters are concerned.        *)
Queued(t) == pc[t] \in {"waiting", "woken", "cancelling"}

Init ==
    /\ pc = [t \in Tasks |-> "outside"]
    /\ kind = [t \in Tasks |-> "write"]
    /\ lease = [t \in Tasks |-> "none"]
    /\ depth = [t \in Tasks |-> 0]
    /\ owner = [p \in Processes |-> NoTask]
    /\ shared = [p \in Processes |-> 0]
    /\ waiting = [p \in Processes |-> 0]
    /\ queue = [p \in Processes |-> <<>>]
    /\ pg = [t \in Tasks |-> "none"]
    /\ zombie = [t \in Tasks |-> "none"]

-----------------------------------------------------------------------------
(* The local lane.                                                          *)

(* Mutants of Available: maintenance does not wait for writers; writers do  *)
(* not queue behind waiting maintenance.                                    *)
AvailableBesideWriters(p, m) ==
    owner[p] = NoTask /\ (m = "shared" => waiting[p] = 0)

AvailableUnordered(p, m) ==
    owner[p] = NoTask /\ (m = "exclusive" => shared[p] = 0)

Available(p, m) ==
    /\ owner[p] = NoTask
    /\ IF m = "shared" THEN waiting[p] = 0 ELSE shared[p] = 0

Grant(t, m) ==
    /\ lease' = [lease EXCEPT ![t] = m]
    /\ depth' = [depth EXCEPT ![t] = 1]
    /\ pc' = [pc EXCEPT ![t] = "locking"]
    /\ owner' = IF m = "exclusive" THEN [owner EXCEPT ![ProcessOf[t]] = t]
                ELSE owner
    /\ shared' = IF m = "shared" THEN [shared EXCEPT ![ProcessOf[t]] = @ + 1]
                 ELSE shared

Block(t) ==
    /\ pc' = [pc EXCEPT ![t] = "waiting"]
    /\ queue' = [queue EXCEPT ![ProcessOf[t]] = Append(@, t)]
    /\ UNCHANGED <<lease, depth, owner, shared>>

CountWaiting(t, k, delta) ==
    waiting' = IF Mode(k) = "exclusive"
               THEN [waiting EXCEPT ![ProcessOf[t]] = @ + delta]
               ELSE waiting

(* _lease up to its first suspension.  A fail-fast request that finds the   *)
(* lane taken raises and changes nothing.                                   *)
Enter(t, k) ==
    /\ pc[t] = "outside"
    /\ k \in Kinds[t]
    /\ kind' = [kind EXCEPT ![t] = k]
    /\ \/ /\ Available(ProcessOf[t], Mode(k))
          /\ Grant(t, Mode(k))
          /\ UNCHANGED <<waiting, queue>>
       \/ /\ ~Available(ProcessOf[t], Mode(k))
          /\ k # "try"
          /\ Block(t)
          /\ CountWaiting(t, k, 1)
    /\ UNCHANGED lockVars

(* A notified waiter checks its condition again.                            *)
Resume(t) ==
    /\ pc[t] = "woken"
    /\ \/ /\ Available(ProcessOf[t], Mode(kind[t]))
          /\ Grant(t, Mode(kind[t]))
          /\ CountWaiting(t, kind[t], -1)
          /\ UNCHANGED queue
       \/ /\ ~Available(ProcessOf[t], Mode(kind[t]))
          /\ Block(t)
          /\ UNCHANGED waiting
    /\ UNCHANGED <<kind, lockVars>>

(* task.cancel() on a waiter takes its future out of the condition's reach. *)
CancelWait(t) ==
    LET q == queue[ProcessOf[t]] IN
    /\ \/ pc[t] = "woken" /\ UNCHANGED queue
       \/ /\ pc[t] = "waiting"
          /\ \E i \in DOMAIN q :
                /\ q[i] = t
                /\ queue' = [queue EXCEPT ![ProcessOf[t]] = RemoveAt(q, i)]
    /\ pc' = [pc EXCEPT ![t] = "cancelling"]
    /\ UNCHANGED <<kind, lease, depth, owner, shared, waiting, lockVars>>

(* Python 3.13: a cancelled condition.wait() notifies the next waiter.      *)
Passed(t) ==
    LET q == queue[ProcessOf[t]] IN
    IF q = <<>>
    THEN pc' = [pc EXCEPT ![t] = "outside"] /\ UNCHANGED queue
    ELSE /\ pc' = [pc EXCEPT ![t] = "outside", ![Head(q)] = "woken"]
         /\ queue' = [queue EXCEPT ![ProcessOf[t]] = Tail(@)]

(* Mutants of Cancelled: the waiter keeps its place in the count; every     *)
(* waiter, a writer too, gives one back; the notification is swallowed.     *)
CancelledCounted(t) ==
    /\ pc[t] = "cancelling"
    /\ Passed(t)
    /\ UNCHANGED <<kind, lease, depth, owner, shared, waiting, lockVars>>

CancelledAnyMode(t) ==
    /\ pc[t] = "cancelling"
    /\ Passed(t)
    /\ CountWaiting(t, "queue", -1)
    /\ UNCHANGED <<kind, lease, depth, owner, shared, lockVars>>

CancelledSilently(t) ==
    /\ pc[t] = "cancelling"
    /\ pc' = [pc EXCEPT ![t] = "outside"]
    /\ CountWaiting(t, kind[t], -1)
    /\ UNCHANGED <<kind, lease, depth, owner, shared, queue, lockVars>>

(* The cancelled waiter runs: condition.wait() passes its notification on,  *)
(* then _acquire_exclusive gives back its place.                            *)
Cancelled(t) ==
    /\ pc[t] = "cancelling"
    /\ Passed(t)
    /\ CountWaiting(t, kind[t], -1)
    /\ UNCHANGED <<kind, lease, depth, owner, shared, lockVars>>

(* The outermost _release_local: give up the lane and notify_all.           *)
ReleaseLocal(t) ==
    /\ pc[t] = "leaving"
    /\ lease' = [lease EXCEPT ![t] = "none"]
    /\ depth' = [depth EXCEPT ![t] = 0]
    /\ IF lease[t] = "exclusive"
       THEN owner' = [owner EXCEPT ![ProcessOf[t]] = NoTask] /\ UNCHANGED shared
       ELSE shared' = [shared EXCEPT ![ProcessOf[t]] = @ - 1] /\ UNCHANGED owner
    /\ queue' = [queue EXCEPT ![ProcessOf[t]] = <<>>]
    /\ pc' = [u \in Tasks |->
                 IF u = t THEN "outside"
                 ELSE IF pc[u] = "waiting" /\ ProcessOf[u] = ProcessOf[t]
                      THEN "woken"
                      ELSE pc[u]]
    /\ UNCHANGED <<kind, waiting, lockVars>>

-----------------------------------------------------------------------------
(* The advisory lock.                                                       *)

(* Mutant of Conflict: an exclusive request ignores shared locks.           *)
ConflictOneWay(l, m) == l = "exclusive"

Conflict(l, m) == l # "none" /\ (l = "exclusive" \/ m = "exclusive")

LockFree(t) ==
    \A u \in Tasks : /\ u # t => ~Conflict(pg[u], lease[t])
                     /\ ~Conflict(zombie[u], lease[t])

(* One pg_try_advisory_lock.  A queued request polls until it succeeds.     *)
TryLock(t) ==
    /\ pc[t] = "locking"
    /\ \/ /\ LockFree(t)
          /\ pg' = [pg EXCEPT ![t] = lease[t]]
          /\ pc' = [pc EXCEPT ![t] = "inside"]
       \/ /\ ~LockFree(t)
          /\ kind[t] = "try"
          /\ pc' = [pc EXCEPT ![t] = "leaving"]
          /\ UNCHANGED pg
    /\ UNCHANGED <<kind, lease, depth, laneVars, zombie>>

(* Cancelled or failed while polling: a connection with a statement in      *)
(* flight is discarded.  If the server had granted that statement the lock, *)
(* it drops it when it notices.                                             *)
AbandonLock(t) ==
    /\ pc[t] = "locking"
    /\ pc' = [pc EXCEPT ![t] = "leaving"]
    /\ \/ UNCHANGED zombie
       \/ /\ LockFree(t)
          /\ zombie[t] = "none"
          /\ zombie' = [zombie EXCEPT ![t] = lease[t]]
    /\ UNCHANGED <<kind, lease, depth, laneVars, pg>>

(* Re-entry by the task that holds the lease.  A shared lease refuses to    *)
(* become exclusive and stays as it is.                                     *)
Nest(t) ==
    /\ pc[t] = "inside"
    /\ depth[t] < MaxDepth
    /\ \E k \in Kinds[t] : ~(lease[t] = "shared" /\ Mode(k) = "exclusive")
    /\ depth' = [depth EXCEPT ![t] = @ + 1]
    /\ UNCHANGED <<pc, kind, lease, laneVars, lockVars>>

Unnest(t) ==
    /\ pc[t] = "inside"
    /\ depth[t] > 1
    /\ depth' = [depth EXCEPT ![t] = @ - 1]
    /\ UNCHANGED <<pc, kind, lease, laneVars, lockVars>>

(* The body ends: normally, by an exception, or cancelled.                  *)
Finish(t) ==
    /\ pc[t] = "inside"
    /\ depth[t] = 1
    /\ pc' = [pc EXCEPT ![t] = "unlocking"]
    /\ UNCHANGED <<kind, lease, depth, laneVars, lockVars>>

(* The shielded release.  If the unlock fails the connection is discarded   *)
(* and PostgreSQL drops the lock when it notices.                           *)
Unlock(t) ==
    /\ pc[t] = "unlocking"
    /\ pc' = [pc EXCEPT ![t] = "leaving"]
    /\ pg' = [pg EXCEPT ![t] = "none"]
    /\ UNCHANGED <<kind, lease, depth, laneVars, zombie>>

UnlockFails(t) ==
    /\ pc[t] = "unlocking"
    /\ zombie[t] = "none"
    /\ pc' = [pc EXCEPT ![t] = "leaving"]
    /\ pg' = [pg EXCEPT ![t] = "none"]
    /\ zombie' = [zombie EXCEPT ![t] = pg[t]]
    /\ UNCHANGED <<kind, lease, depth, laneVars>>

-----------------------------------------------------------------------------
(* The environment.                                                         *)

Reap(t) ==
    /\ zombie[t] # "none"
    /\ zombie' = [zombie EXCEPT ![t] = "none"]
    /\ UNCHANGED <<taskVars, laneVars, pg>>

(* The database drops the session of a task that is inside its lease; the   *)
(* task does not notice before it unlocks.                                  *)
DropSession(t) ==
    /\ SessionsMayDrop
    /\ pc[t] = "inside"
    /\ pg[t] # "none"
    /\ pg' = [pg EXCEPT ![t] = "none"]
    /\ UNCHANGED <<taskVars, laneVars, zombie>>

Members(p) == {t \in Tasks : ProcessOf[t] = p}

(* A process dies and restarts with empty lanes.                            *)
Crash(p) ==
    /\ \E t \in Members(p) : pc[t] # "outside"
    /\ \A t \in Members(p) : pg[t] # "none" => zombie[t] = "none"
    /\ pc' = [t \in Tasks |-> IF t \in Members(p) THEN "outside" ELSE pc[t]]
    /\ lease' = [t \in Tasks |-> IF t \in Members(p) THEN "none" ELSE lease[t]]
    /\ depth' = [t \in Tasks |-> IF t \in Members(p) THEN 0 ELSE depth[t]]
    /\ owner' = [owner EXCEPT ![p] = NoTask]
    /\ shared' = [shared EXCEPT ![p] = 0]
    /\ waiting' = [waiting EXCEPT ![p] = 0]
    /\ queue' = [queue EXCEPT ![p] = <<>>]
    /\ pg' = [t \in Tasks |-> IF t \in Members(p) THEN "none" ELSE pg[t]]
    /\ zombie' = [t \in Tasks |->
                     IF t \in Members(p) /\ pg[t] # "none" THEN pg[t]
                     ELSE zombie[t]]
    /\ UNCHANGED kind

-----------------------------------------------------------------------------
(* What the event loop and the pool run to the end on their own.            *)
Proceed(t) ==
    \/ Resume(t) \/ Cancelled(t) \/ TryLock(t)
    \/ Unnest(t) \/ Finish(t) \/ Unlock(t) \/ ReleaseLocal(t)

Next ==
    \/ \E t \in Tasks :
          \/ \E k \in Kinds[t] : Enter(t, k)
          \/ Proceed(t)
          \/ CancelWait(t) \/ AbandonLock(t) \/ Nest(t)
          \/ UnlockFails(t) \/ DropSession(t) \/ Reap(t)
    \/ \E p \in Processes : Crash(p)

Spec == Init /\ [][Next]_vars

(* Bodies under a lease terminate, the event loop runs what is ready, and   *)
(* PostgreSQL notices dead sessions.  Nothing says when a poll happens      *)
(* relative to the other process, nor that anybody asks for a lease.        *)
Fairness == \A t \in Tasks : WF_vars(Proceed(t)) /\ WF_vars(Reap(t))

FairSpec == Spec /\ Fairness

-----------------------------------------------------------------------------
(* Properties.                                                              *)

TypeOK ==
    /\ pc \in [Tasks -> Points]
    /\ kind \in [Tasks -> {"write", "queue", "try"}]
    /\ lease \in [Tasks -> Locks]
    /\ depth \in [Tasks -> Nat]
    /\ owner \in [Processes -> Tasks \cup {NoTask}]
    /\ shared \in [Processes -> Nat]
    /\ waiting \in [Processes -> Nat]
    /\ queue \in [Processes -> Seq(Tasks)]
    /\ pg \in [Tasks -> Locks]
    /\ zombie \in [Tasks -> Locks]

(* The body of a lease runs.                                                *)
Inside(t) == pc[t] \in {"inside", "unlocking"}

(* Maintenance runs alone: no other body runs, in any process, beside one   *)
(* that holds an exclusive lease.                                           *)
Exclusion ==
    \A t, u \in Tasks :
        t # u /\ Inside(t) /\ Inside(u) =>
            lease[t] = "shared" /\ lease[u] = "shared"

(* Within one process exclusion needs no database: it holds from the grant  *)
(* of the local lane until its release, even when sessions are lost.        *)
LaneExclusion ==
    \A t, u \in Tasks :
        /\ t # u /\ ProcessOf[t] = ProcessOf[u]
        /\ lease[t] = "exclusive"
        => lease[u] = "none"

(* The counters of every lane agree with the leases and the waiters, so no  *)
(* path through cancellation, conflict or failure leaks or loses a place.   *)
CountersExact ==
    \A p \in Processes :
        /\ shared[p] = Cardinality({t \in Members(p) : lease[t] = "shared"})
        /\ waiting[p] = Cardinality({t \in Members(p) :
                                        Queued(t) /\ Mode(kind[t]) = "exclusive"})
        /\ \A t \in Members(p) : owner[p] = t <=> lease[t] = "exclusive"

(* A session lock is only ever held on behalf of a live lease of its mode:  *)
(* the local lane is given up after the database lock, never before.        *)
LockCoveredByLease ==
    \A t \in Tasks : pg[t] # "none" => pg[t] = lease[t] /\ Inside(t)

(* What a lease protects is safe: the lane of its process from the grant to *)
(* the release, and the lock between its processes inside of that.          *)
LeasesHold == LaneExclusion /\ LockCoveredByLease

(* No lost wakeup: while tasks wait for a lane that nobody holds, one of    *)
(* them, or a cancelled one that will pass its notification on, is about    *)
(* to run.                                                                  *)
NoLostWakeup ==
    \A p \in Processes :
        /\ \E t \in Members(p) : pc[t] = "waiting"
        /\ \A t \in Members(p) : lease[t] = "none"
        => \E u \in Members(p) : pc[u] \in {"woken", "cancelling"}

(* Exclusive waiters are preferred: a stream of short writers in its own    *)
(* process cannot starve maintenance.                                       *)
MaintenanceGetsLane ==
    \A t \in Tasks :
        Queued(t) /\ kind[t] = "queue" ~> ~Queued(t)
=============================================================================
