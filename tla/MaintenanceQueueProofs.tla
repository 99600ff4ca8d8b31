----------------------- MODULE MaintenanceQueueProofs -----------------------
(***************************************************************************)
(* Proofs about MaintenanceQueue, for every number of loops, submissions,  *)
(* jobs, faults and attempts.                                              *)
(***************************************************************************)
EXTENDS MaintenanceQueue, FiniteSetTheorems, TLAPS

(* The group handles submitted entries only.                                *)
GroupSubmitted ==
    /\ first <= next
    /\ delivered < next
    /\ pending \subseteq Submitted
    /\ idle \subseteq pending
    /\ acked \subseteq Submitted
    /\ expired \subseteq Submitted

(* A loop past receive has a job, and the others have none.                 *)
Holding ==
    \A w \in Workers :
        IF worker[w].at \in {"idle", "reading"} THEN JobOf(w) = NoJob
        ELSE JobOf(w) \in Submitted

Typing == TypeOK /\ GroupSubmitted /\ Holding

-----------------------------------------------------------------------------
(* What the building blocks of the actions do to the types.                 *)

LEMMA GotoType ==
    ASSUME worker \in [Workers -> Loop], NEW w \in Workers,
           NEW p \in Points, Goto(w, p)
    PROVE  /\ worker' \in [Workers -> Loop]
           /\ worker'[w].at = p
           /\ worker'[w].job = worker[w].job
           /\ worker'[w].attempt = worker[w].attempt
           /\ \A v \in Workers \ {w} : worker'[v] = worker[v]
  BY DEF Goto, Loop

LEMMA HoldType ==
    ASSUME worker \in [Workers -> Loop], NEW w \in Workers,
           NEW j \in Job, Hold(w, j)
    PROVE  /\ worker' \in [Workers -> Loop]
           /\ worker'[w].at = "received"
           /\ worker'[w].job = j
           /\ \A v \in Workers \ {w} : worker'[v] = worker[v]
  BY DEF Hold, Loop, Points

LEMMA ReleaseType ==
    ASSUME worker \in [Workers -> Loop], NEW w \in Workers, Release(w)
    PROVE  /\ worker' \in [Workers -> Loop]
           /\ worker'[w] = Idle
           /\ \A v \in Workers \ {w} : worker'[v] = worker[v]
  BY DEF Release, Loop, Points, Idle, NoJob

LEMMA IdleFacts == /\ Idle \in Loop
                   /\ Idle.at = "idle"
                   /\ Idle.job = NoJob
  BY DEF Idle, Loop, Points, NoJob

LEMMA HashFacts == /\ EmptyHash \in Hash
                   /\ QueuedHash \in Hash
                   /\ QueuedHash.whole
                   /\ ~EmptyHash.whole
  BY DEF EmptyHash, QueuedHash, Hash, Status

LEMMA TouchType ==
    ASSUME hash \in [Job -> Hash], NEW j \in Job, Touch(j)
    PROVE  /\ hash' \in [Job -> Hash]
           /\ \A k \in Job : /\ hash'[k].whole = hash[k].whole
                             /\ hash'[k].status = hash[k].status
                             /\ hash'[k].attempts = hash[k].attempts
                             /\ hash'[k].result = hash[k].result
  BY DEF Touch, Hash

LEMMA SetStatusType ==
    ASSUME hash \in [Job -> Hash], NEW j \in Job, NEW s \in Status,
           SetStatus(j, s)
    PROVE  /\ hash' \in [Job -> Hash]
           /\ hash'[j].status = s
           /\ \A k \in Job : /\ hash'[k].whole = hash[k].whole
                             /\ k # j => hash'[k] = hash[k]
                             /\ hash'[k].attempts = hash[k].attempts
  BY DEF SetStatus, Hash

LEMMA CountType ==
    ASSUME hash \in [Job -> Hash], NEW j \in Job,
           hash' = [hash EXCEPT ![j].attempts = @ + 1]
    PROVE  /\ hash' \in [Job -> Hash]
           /\ hash'[j].attempts = hash[j].attempts + 1
           /\ \A k \in Job : /\ hash'[k].whole = hash[k].whole
                             /\ k # j => hash'[k] = hash[k]
                             /\ hash'[k].status = hash[k].status
  <1>1. hash[j] \in Hash
    OBVIOUS
  <1>2. [hash[j] EXCEPT !.attempts = @ + 1] \in Hash
    BY <1>1 DEF Hash
  <1> QED
    BY <1>1, <1>2 DEF Hash

LEMMA SuccessType ==
    ASSUME hash \in [Job -> Hash], NEW j \in Job,
           hash' = [hash EXCEPT ![j].status = "SUCCEEDED", ![j].result = TRUE]
    PROVE  /\ hash' \in [Job -> Hash]
           /\ hash'[j].status = "SUCCEEDED" /\ hash'[j].result = TRUE
           /\ \A k \in Job : /\ hash'[k].whole = hash[k].whole
                             /\ k # j => hash'[k] = hash[k]
                             /\ hash'[k].attempts = hash[k].attempts
  <1>1. hash[j] \in Hash
    OBVIOUS
  <1>2. [hash[j] EXCEPT !.status = "SUCCEEDED", !.result = TRUE] \in Hash
    BY <1>1 DEF Hash, Status
  <1>3. hash' = [hash EXCEPT ![j] = [hash[j] EXCEPT !.status = "SUCCEEDED",
                                                    !.result = TRUE]]
    OBVIOUS
  <1> QED
    BY <1>1, <1>2, <1>3 DEF Hash

LEMMA AttemptType ==
    ASSUME worker \in [Workers -> Loop], NEW w \in Workers, NEW a \in Nat,
           worker' = [worker EXCEPT ![w].at = "marking", ![w].attempt = a]
    PROVE  /\ worker' \in [Workers -> Loop]
           /\ worker'[w].at = "marking"
           /\ worker'[w].job = worker[w].job
           /\ worker'[w].attempt = a
           /\ \A v \in Workers \ {w} : worker'[v] = worker[v]
  <1>1. worker[w] \in Loop
    OBVIOUS
  <1>2. [worker[w] EXCEPT !.at = "marking", !.attempt = a] \in Loop
    BY <1>1 DEF Loop, Points
  <1>3. worker' = [worker EXCEPT ![w] = [worker[w] EXCEPT !.at = "marking",
                                                          !.attempt = a]]
    OBVIOUS
  <1> QED
    BY <1>1, <1>2, <1>3 DEF Loop

-----------------------------------------------------------------------------
(* Typing is an invariant.                                                  *)

LEMMA HoldingKept ==
    ASSUME Holding, next \in Int, next' \in Int, next <= next',
           NEW w \in Workers,
           \A v \in Workers \ {w} : worker'[v] = worker[v],
           IF worker'[w].at \in {"idle", "reading"} THEN worker'[w].job = NoJob
           ELSE worker'[w].job \in 1..(next' - 1)
    PROVE  Holding'
  BY DEF Holding, JobOf, Submitted

LEMMA HoldingUnchanged ==
    ASSUME Holding, next \in Int, next' \in Int, next <= next',
           worker' = worker
    PROVE  Holding'
  BY DEF Holding, JobOf, Submitted

LEMMA InitTyping == Init => Typing
  <1> SUFFICES ASSUME Init PROVE Typing
    OBVIOUS
  <1> USE BoundsAssumption
  <1>1. TypeOK
    BY IdleFacts, HashFacts DEF Init, TypeOK, Job, NoJob
  <1>2. GroupSubmitted
    BY DEF Init, GroupSubmitted
  <1>3. Holding
    BY IdleFacts DEF Init, Holding, JobOf
  <1> QED
    BY <1>1, <1>2, <1>3 DEF Typing

LEMMA StepTyping == Typing /\ [Next]_vars => Typing'
  <1> SUFFICES ASSUME Typing, [Next]_vars PROVE Typing'
    OBVIOUS
  <1> USE BoundsAssumption DEF Typing
  <1>0. /\ next \in Int
        /\ \A w \in Workers : worker[w] \in Loop
        /\ Submitted \subseteq Job
    BY DEF TypeOK, Submitted, Job
  <1>1. ASSUME NEW q \in Requests, Enqueue(q) PROVE Typing'
    <2>1. next \in Job /\ next' = next + 1 /\ first' \in 1..next'
      BY <1>1, <1>0 DEF Enqueue, Trimmed, TypeOK, GroupSubmitted, Job
    <2>2. CallerOf[q] \in Callers
      BY DEF Callers
    <2>3. TypeOK'
      <3>1. rate' \in [Callers -> 0..(SubmissionLimit + 1)]
        BY <1>1, <2>2 DEF Enqueue, TypeOK, WindowCount
      <3>2. hash' \in [Job -> Hash]
        BY <1>1, <2>1, HashFacts DEF Enqueue, TypeOK
      <3>3. dedup' \in [Requests -> Job \cup {NoJob}]
        BY <1>1, <2>1 DEF Enqueue, TypeOK
      <3> QED
        BY <1>1, <2>1, <3>1, <3>2, <3>3
        DEF Enqueue, TypeOK, groupVars, Job
    <2>4. GroupSubmitted'
      BY <1>1, <2>1 DEF Enqueue, GroupSubmitted, Submitted, TypeOK, groupVars, Job
    <2>5. Holding'
      BY <1>1, <2>1, HoldingUnchanged DEF Enqueue, Job
    <2> QED
      BY <2>3, <2>4, <2>5
  <1>2. ASSUME NEW q \in Requests, RateLimited(q) PROVE Typing'
    <2>1. CallerOf[q] \in Callers
      BY DEF Callers
    <2>2. TypeOK'
      BY <1>2, <2>1 DEF RateLimited, TypeOK, WindowCount, streamVars, groupVars
    <2> QED
      BY <1>2, <2>2, <1>0, HoldingUnchanged
      DEF RateLimited, GroupSubmitted, Submitted, streamVars, groupVars
  <1>3. ASSUME NEW q \in Requests, ExpireDedup(q) PROVE Typing'
    <2>1. TypeOK'
      BY <1>3 DEF ExpireDedup, TypeOK, streamVars, groupVars
    <2> QED
      BY <1>3, <2>1, <1>0, HoldingUnchanged
      DEF ExpireDedup, GroupSubmitted, Submitted, streamVars, groupVars
  <1>4. ASSUME NEW c \in Callers, ExpireWindow(c) PROVE Typing'
    <2>1. TypeOK'
      BY <1>4 DEF ExpireWindow, TypeOK, streamVars, groupVars
    <2> QED
      BY <1>4, <2>1, <1>0, HoldingUnchanged
      DEF ExpireWindow, GroupSubmitted, Submitted, streamVars, groupVars
  <1>5. ASSUME NEW w \in Workers, AutoClaim(w) PROVE Typing'
    <2>0. JobOf(w) = NoJob
      BY <1>5 DEF AutoClaim, At, Holding
    <2>1. CASE Claimable = {} /\ Goto(w, "reading") /\ UNCHANGED <<pending, idle>>
      <3>1. TypeOK'
        BY <1>5, <2>1, GotoType DEF AutoClaim, TypeOK, Points, streamVars, groupVars, admission
      <3>2. Holding'
        BY <1>5, <2>0, <2>1, GotoType, HoldingKept, <1>0
        DEF AutoClaim, TypeOK, JobOf, Points, streamVars
      <3> QED
        BY <1>5, <2>1, <3>1, <3>2 DEF AutoClaim, GroupSubmitted, Submitted, streamVars, groupVars, admission
    <2>2. ASSUME NEW j \in Claimable, idle' = idle \ {j},
                 \/ j >= first /\ Hold(w, j) /\ UNCHANGED pending
                 \/ j < first /\ pending' = pending \ {j} /\ Goto(w, "reading"),
                 shared' \in {shared, shared \cup {j}}
          PROVE  Typing'
      <3>1. j \in Submitted /\ j \in Job
        BY <1>0 DEF Claimable, GroupSubmitted
      <3>2. /\ worker' \in [Workers -> Loop]
            /\ \A v \in Workers \ {w} : worker'[v] = worker[v]
            /\ \/ worker'[w].at = "received" /\ worker'[w].job = j
               \/ worker'[w].at = "reading" /\ worker'[w].job = NoJob
        BY <2>0, <2>2, <3>1, GotoType, HoldType DEF TypeOK, Points, JobOf
      <3>3. TypeOK'
        <4>1. shared' \subseteq Job
          BY <2>2, <3>1 DEF TypeOK
        <4> QED
          BY <1>5, <2>2, <3>2, <4>1
          DEF AutoClaim, TypeOK, streamVars, groupVars, admission
      <3>4. Holding'
        BY <1>5, <3>1, <3>2, HoldingKept, <1>0 DEF AutoClaim, streamVars, Submitted
      <3>5. GroupSubmitted'
        BY <1>5, <2>2 DEF AutoClaim, GroupSubmitted, Submitted, streamVars, groupVars, admission, Claimable
      <3> QED
        BY <3>3, <3>4, <3>5
    <2> QED
      BY <1>5, <2>1, <2>2 DEF AutoClaim
  <1>6. ASSUME NEW w \in Workers, ReadGroup(w) PROVE Typing'
    <2>1. CASE Release(w) /\ UNCHANGED <<delivered, pending>>
      <3>1. TypeOK'
        BY <1>6, <2>1, ReleaseType DEF ReadGroup, TypeOK, admission
      <3>2. Holding'
        BY <1>6, <2>1, ReleaseType, IdleFacts, HoldingKept, <1>0
        DEF ReadGroup, TypeOK
      <3> QED
        BY <1>6, <2>1, <3>1, <3>2 DEF ReadGroup, GroupSubmitted, Submitted
    <2>2. ASSUME NEW j \in Undelivered, delivered' = j,
                 pending' = pending \cup {j}, Hold(w, j)
          PROVE  Typing'
      <3>1. j \in Submitted /\ j \in Job /\ j < next
        BY <1>0 DEF Undelivered, Entries, Submitted, TypeOK, Job
      <3>2. TypeOK'
        BY <1>6, <2>2, <3>1, HoldType DEF ReadGroup, TypeOK, admission
      <3>3. Holding'
        BY <1>6, <2>2, <3>1, HoldType, HoldingKept, <1>0
        DEF ReadGroup, TypeOK, Submitted
      <3>4. GroupSubmitted'
        BY <1>6, <2>2, <3>1 DEF ReadGroup, GroupSubmitted, Submitted
      <3> QED
        BY <3>2, <3>3, <3>4
    <2> QED
      BY <1>6, <2>1, <2>2 DEF ReadGroup
  <1>7. ASSUME NEW w \in Workers, LoadStatus(w) PROVE Typing'
    <2>1. JobOf(w) \in Submitted
      BY <1>7 DEF LoadStatus, At, Holding
    <2>2. /\ worker' \in [Workers -> Loop]
          /\ \A v \in Workers \ {w} : worker'[v] = worker[v]
          /\ \/ worker'[w] = Idle
             \/ /\ worker'[w].at \in {"acking", "counting"}
                /\ worker'[w].job = JobOf(w)
      BY <1>7, GotoType, ReleaseType DEF LoadStatus, TypeOK, Points, JobOf
    <2>3. TypeOK'
      BY <1>7, <2>2 DEF LoadStatus, TypeOK, streamVars, groupVars, admission
    <2>4. Holding'
      BY <1>7, <2>1, <2>2, IdleFacts, HoldingKept, <1>0
      DEF LoadStatus, streamVars, Submitted
    <2> QED
      BY <1>7, <2>3, <2>4 DEF LoadStatus, GroupSubmitted, Submitted, streamVars, groupVars, admission
  <1>8. ASSUME NEW w \in Workers, CountAttempt(w) PROVE Typing'
    <2>1. JobOf(w) \in Submitted /\ JobOf(w) \in Job
      BY <1>8, <1>0 DEF CountAttempt, At, Holding
    <2>2. /\ worker' \in [Workers -> Loop]
          /\ \A v \in Workers \ {w} : worker'[v] = worker[v]
          /\ worker'[w].at = "marking" /\ worker'[w].job = JobOf(w)
      <3>1. hash[JobOf(w)].attempts \in Nat
        BY <2>1 DEF TypeOK, Hash
      <3>2. worker' = [worker EXCEPT ![w].at = "marking",
                                     ![w].attempt = hash[JobOf(w)].attempts + 1]
        BY <1>8 DEF CountAttempt
      <3>3. worker \in [Workers -> Loop] /\ hash[JobOf(w)].attempts + 1 \in Nat
        BY <3>1 DEF TypeOK
      <3> QED
        BY <3>2, <3>3, AttemptType DEF JobOf
    <2>3. hash' \in [Job -> Hash]
      BY <1>8, <2>1, CountType DEF CountAttempt, TypeOK
    <2>4. TypeOK'
      BY <1>8, <2>2, <2>3 DEF CountAttempt, TypeOK, streamVars, groupVars, admission
    <2>5. Holding'
      BY <1>8, <2>1, <2>2, HoldingKept, <1>0 DEF CountAttempt, streamVars, Submitted
    <2> QED
      BY <1>8, <2>4, <2>5 DEF CountAttempt, GroupSubmitted, Submitted, streamVars, groupVars, admission
  <1>9. ASSUME NEW w \in Workers, MarkRunning(w) PROVE Typing'
    <2>1. JobOf(w) \in Submitted /\ JobOf(w) \in Job
      BY <1>9, <1>0 DEF MarkRunning, At, Holding
    <2>2. /\ worker' \in [Workers -> Loop]
          /\ \A v \in Workers \ {w} : worker'[v] = worker[v]
          /\ \/ worker'[w].at \in {"touchRunning"} /\ worker'[w].job = JobOf(w)
             \/ worker'[w] = Idle
      BY <1>9, GotoType, ReleaseType DEF MarkRunning, TypeOK, Points, JobOf
    <2>3. hash' \in [Job -> Hash]
      BY <1>9, <2>1, SetStatusType DEF MarkRunning, TypeOK, Status
    <2>4. TypeOK'
      BY <1>9, <2>1, <2>2, <2>3 DEF MarkRunning, TypeOK, streamVars, groupVars, admission
    <2>5. Holding'
      BY <1>9, <2>1, <2>2, IdleFacts, HoldingKept, <1>0
      DEF MarkRunning, streamVars, Submitted
    <2> QED
      BY <1>9, <2>1, <2>4, <2>5 DEF MarkRunning, GroupSubmitted, Submitted, streamVars, groupVars, admission
  <1>10. ASSUME NEW w \in Workers, TouchRunning(w) PROVE Typing'
    <2>1. JobOf(w) \in Submitted /\ JobOf(w) \in Job
      BY <1>10, <1>0 DEF TouchRunning, At, Holding
    <2>2. /\ worker' \in [Workers -> Loop]
          /\ \A v \in Workers \ {w} : worker'[v] = worker[v]
          /\ \/ worker'[w].at \in {"starting"} /\ worker'[w].job = JobOf(w)
             \/ worker'[w] = Idle
      BY <1>10, GotoType, ReleaseType DEF TouchRunning, TypeOK, Points, JobOf
    <2>3. hash' \in [Job -> Hash]
      BY <1>10, <2>1, TouchType DEF TouchRunning, TypeOK
    <2>4. TypeOK'
      BY <1>10, <2>1, <2>2, <2>3 DEF TouchRunning, TypeOK, streamVars, groupVars, admission
    <2>5. Holding'
      BY <1>10, <2>1, <2>2, IdleFacts, HoldingKept, <1>0
      DEF TouchRunning, streamVars, Submitted
    <2> QED
      BY <1>10, <2>1, <2>4, <2>5 DEF TouchRunning, GroupSubmitted, Submitted, streamVars, groupVars, admission
  <1>11. ASSUME NEW w \in Workers, StartJob(w) PROVE Typing'
    <2>1. JobOf(w) \in Submitted /\ JobOf(w) \in Job
      BY <1>11, <1>0 DEF StartJob, At, Holding
    <2>2. /\ worker' \in [Workers -> Loop]
          /\ \A v \in Workers \ {w} : worker'[v] = worker[v]
          /\ \/ worker'[w].at \in {"recordFailure", "executing"} /\ worker'[w].job = JobOf(w)
             \/ worker'[w] = Idle
      BY <1>11, GotoType, ReleaseType DEF StartJob, TypeOK, Points, JobOf
    <2>3. hash' \in [Job -> Hash]
      BY <1>11, <2>1 DEF StartJob, TypeOK
    <2>4. TypeOK'
      BY <1>11, <2>1, <2>2, <2>3 DEF StartJob, TypeOK, streamVars, groupVars, admission
    <2>5. Holding'
      BY <1>11, <2>1, <2>2, IdleFacts, HoldingKept, <1>0
      DEF StartJob, streamVars, Submitted
    <2> QED
      BY <1>11, <2>1, <2>4, <2>5 DEF StartJob, GroupSubmitted, Submitted, streamVars, groupVars, admission
  <1>12. ASSUME NEW w \in Workers, JobSucceeds(w) PROVE Typing'
    <2>1. JobOf(w) \in Submitted /\ JobOf(w) \in Job
      BY <1>12, <1>0 DEF JobSucceeds, At, Holding
    <2>2. /\ worker' \in [Workers -> Loop]
          /\ \A v \in Workers \ {w} : worker'[v] = worker[v]
          /\ \/ worker'[w].at \in {"recordSuccess"} /\ worker'[w].job = JobOf(w)
             \/ worker'[w] = Idle
      BY <1>12, GotoType, ReleaseType DEF JobSucceeds, TypeOK, Points, JobOf
    <2>3. hash' \in [Job -> Hash]
      BY <1>12, <2>1 DEF JobSucceeds, TypeOK
    <2>4. TypeOK'
      BY <1>12, <2>1, <2>2, <2>3 DEF JobSucceeds, TypeOK, streamVars, groupVars, admission
    <2>5. Holding'
      BY <1>12, <2>1, <2>2, IdleFacts, HoldingKept, <1>0
      DEF JobSucceeds, streamVars, Submitted
    <2> QED
      BY <1>12, <2>1, <2>4, <2>5 DEF JobSucceeds, GroupSubmitted, Submitted, streamVars, groupVars, admission
  <1>13. ASSUME NEW w \in Workers, JobFails(w) PROVE Typing'
    <2>1. JobOf(w) \in Submitted /\ JobOf(w) \in Job
      BY <1>13, <1>0 DEF JobFails, At, Holding
    <2>2. /\ worker' \in [Workers -> Loop]
          /\ \A v \in Workers \ {w} : worker'[v] = worker[v]
          /\ \/ worker'[w].at \in {"recordFailure"} /\ worker'[w].job = JobOf(w)
             \/ worker'[w] = Idle
      BY <1>13, GotoType, ReleaseType DEF JobFails, TypeOK, Points, JobOf
    <2>3. hash' \in [Job -> Hash]
      BY <1>13, <2>1 DEF JobFails, TypeOK
    <2>4. TypeOK'
      BY <1>13, <2>1, <2>2, <2>3 DEF JobFails, TypeOK, streamVars, groupVars, admission
    <2>5. Holding'
      BY <1>13, <2>1, <2>2, IdleFacts, HoldingKept, <1>0
      DEF JobFails, streamVars, Submitted
    <2> QED
      BY <1>13, <2>1, <2>4, <2>5 DEF JobFails, GroupSubmitted, Submitted, streamVars, groupVars, admission
  <1>14. ASSUME NEW w \in Workers, RecordSuccess(w) PROVE Typing'
    <2>1. JobOf(w) \in Submitted /\ JobOf(w) \in Job
      BY <1>14, <1>0 DEF RecordSuccess, At, Holding
    <2>2. /\ worker' \in [Workers -> Loop]
          /\ \A v \in Workers \ {w} : worker'[v] = worker[v]
          /\ \/ worker'[w].at \in {"touchSuccess"} /\ worker'[w].job = JobOf(w)
             \/ worker'[w] = Idle
      BY <1>14, GotoType, ReleaseType DEF RecordSuccess, TypeOK, Points, JobOf
    <2>3. hash' \in [Job -> Hash]
      BY <1>14, <2>1, SuccessType DEF RecordSuccess, TypeOK
    <2>4. TypeOK'
      BY <1>14, <2>1, <2>2, <2>3 DEF RecordSuccess, TypeOK, streamVars, groupVars, admission
    <2>5. Holding'
      BY <1>14, <2>1, <2>2, IdleFacts, HoldingKept, <1>0
      DEF RecordSuccess, streamVars, Submitted
    <2> QED
      BY <1>14, <2>1, <2>4, <2>5 DEF RecordSuccess, GroupSubmitted, Submitted, streamVars, groupVars, admission
  <1>15. ASSUME NEW w \in Workers, TouchSuccess(w) PROVE Typing'
    <2>1. JobOf(w) \in Submitted /\ JobOf(w) \in Job
      BY <1>15, <1>0 DEF TouchSuccess, At, Holding
    <2>2. /\ worker' \in [Workers -> Loop]
          /\ \A v \in Workers \ {w} : worker'[v] = worker[v]
          /\ \/ worker'[w].at \in {"acking"} /\ worker'[w].job = JobOf(w)
             \/ worker'[w] = Idle
      BY <1>15, GotoType, ReleaseType DEF TouchSuccess, TypeOK, Points, JobOf
    <2>3. hash' \in [Job -> Hash]
      BY <1>15, <2>1, TouchType DEF TouchSuccess, TypeOK
    <2>4. TypeOK'
      BY <1>15, <2>1, <2>2, <2>3 DEF TouchSuccess, TypeOK, streamVars, groupVars, admission
    <2>5. Holding'
      BY <1>15, <2>1, <2>2, IdleFacts, HoldingKept, <1>0
      DEF TouchSuccess, streamVars, Submitted
    <2> QED
      BY <1>15, <2>1, <2>4, <2>5 DEF TouchSuccess, GroupSubmitted, Submitted, streamVars, groupVars, admission
  <1>16. ASSUME NEW w \in Workers, RecordFailure(w) PROVE Typing'
    <2>1. JobOf(w) \in Submitted /\ JobOf(w) \in Job
      BY <1>16, <1>0 DEF RecordFailure, At, Holding
    <2>2. /\ worker' \in [Workers -> Loop]
          /\ \A v \in Workers \ {w} : worker'[v] = worker[v]
          /\ \/ worker'[w].at \in {"touchFailure"} /\ worker'[w].job = JobOf(w)
             \/ worker'[w] = Idle
      BY <1>16, GotoType, ReleaseType DEF RecordFailure, TypeOK, Points, JobOf
    <2>3. hash' \in [Job -> Hash]
      BY <1>16, <2>1, SetStatusType DEF RecordFailure, TypeOK, Status
    <2>4. TypeOK'
      BY <1>16, <2>1, <2>2, <2>3 DEF RecordFailure, TypeOK, streamVars, groupVars, admission
    <2>5. Holding'
      BY <1>16, <2>1, <2>2, IdleFacts, HoldingKept, <1>0
      DEF RecordFailure, streamVars, Submitted
    <2> QED
      BY <1>16, <2>1, <2>4, <2>5 DEF RecordFailure, GroupSubmitted, Submitted, streamVars, groupVars, admission
  <1>17. ASSUME NEW w \in Workers, TouchFailure(w) PROVE Typing'
    <2>1. JobOf(w) \in Submitted /\ JobOf(w) \in Job
      BY <1>17, <1>0 DEF TouchFailure, At, Holding
    <2>2. /\ worker' \in [Workers -> Loop]
          /\ \A v \in Workers \ {w} : worker'[v] = worker[v]
          /\ \/ worker'[w].at \in {"deadLetter"} /\ worker'[w].job = JobOf(w)
             \/ worker'[w] = Idle
      BY <1>17, GotoType, ReleaseType DEF TouchFailure, TypeOK, Points, JobOf
    <2>3. hash' \in [Job -> Hash]
      BY <1>17, <2>1, TouchType DEF TouchFailure, TypeOK
    <2>4. TypeOK'
      BY <1>17, <2>1, <2>2, <2>3 DEF TouchFailure, TypeOK, streamVars, groupVars, admission
    <2>5. Holding'
      BY <1>17, <2>1, <2>2, IdleFacts, HoldingKept, <1>0
      DEF TouchFailure, streamVars, Submitted
    <2> QED
      BY <1>17, <2>1, <2>4, <2>5 DEF TouchFailure, GroupSubmitted, Submitted, streamVars, groupVars, admission
  <1>18. ASSUME NEW w \in Workers, DeadLetter(w) PROVE Typing'
    <2>1. JobOf(w) \in Submitted /\ JobOf(w) \in Job
      BY <1>18, <1>0 DEF DeadLetter, At, Holding
    <2>2. /\ worker' \in [Workers -> Loop]
          /\ \A v \in Workers \ {w} : worker'[v] = worker[v]
          /\ \/ worker'[w].at \in {"acking"} /\ worker'[w].job = JobOf(w)
             \/ worker'[w] = Idle
      BY <1>18, GotoType, ReleaseType DEF DeadLetter, TypeOK, Points, JobOf
    <2>3. hash' \in [Job -> Hash]
      BY <1>18, <2>1 DEF DeadLetter, TypeOK
    <2>4. TypeOK'
      BY <1>18, <2>1, <2>2, <2>3 DEF DeadLetter, TypeOK, streamVars, groupVars, admission
    <2>5. Holding'
      BY <1>18, <2>1, <2>2, IdleFacts, HoldingKept, <1>0
      DEF DeadLetter, streamVars, Submitted
    <2> QED
      BY <1>18, <2>1, <2>4, <2>5 DEF DeadLetter, GroupSubmitted, Submitted, streamVars, groupVars, admission
  <1>19. ASSUME NEW w \in Workers, Ack(w) PROVE Typing'
    <2>1. JobOf(w) \in Submitted /\ JobOf(w) \in Job
      BY <1>19, <1>0 DEF Ack, At, Holding
    <2>2. TypeOK'
      BY <1>19, <2>1, ReleaseType DEF Ack, TypeOK, streamVars, groupVars, admission
    <2>3. Holding'
      BY <1>19, ReleaseType, IdleFacts, HoldingKept, <1>0
      DEF Ack, TypeOK, streamVars
    <2> QED
      BY <1>19, <2>1, <2>2, <2>3 DEF Ack, GroupSubmitted, Submitted, streamVars, groupVars, admission
  <1>20. ASSUME NEW w \in Workers, ReceiveFails(w) PROVE Typing'
    <2>1. TypeOK'
      BY <1>20, ReleaseType DEF ReceiveFails, TypeOK, streamVars, groupVars, admission
    <2>2. Holding'
      BY <1>20, ReleaseType, IdleFacts, HoldingKept, <1>0
      DEF ReceiveFails, TypeOK, streamVars
    <2> QED
      BY <1>20, <2>1, <2>2 DEF ReceiveFails, GroupSubmitted, Submitted, streamVars, groupVars, admission
  <1>21. ASSUME NEW j \in Job, Age(j) PROVE Typing'
    <2>1. TypeOK'
      BY <1>21 DEF Age, TypeOK, streamVars, admission
    <2> QED
      BY <1>21, <2>1, <1>0, HoldingUnchanged
      DEF Age, GroupSubmitted, Submitted, streamVars, admission
  <1>22. ASSUME NEW j \in Job, ExpireStatus(j) PROVE Typing'
    <2>1. j \in Submitted
      BY <1>22 DEF ExpireStatus
    <2>2. TypeOK'
      BY <1>22, HashFacts DEF ExpireStatus, TypeOK, streamVars, groupVars, admission
    <2> QED
      BY <1>22, <2>1, <2>2, <1>0, HoldingUnchanged
      DEF ExpireStatus, GroupSubmitted, Submitted, streamVars, groupVars, admission
  <1>23. CASE WorkerDies
    <2>1. TypeOK'
      BY <1>23, IdleFacts DEF WorkerDies, TypeOK, streamVars, groupVars, admission
    <2>2. Holding'
      BY <1>23, IdleFacts DEF WorkerDies, Holding, JobOf
    <2> QED
      BY <1>23, <2>1, <2>2 DEF WorkerDies, GroupSubmitted, Submitted, streamVars, groupVars, admission
  <1>24. CASE UNCHANGED vars
    BY <1>24, <1>0, HoldingUnchanged
    DEF vars, TypeOK, GroupSubmitted, Submitted, streamVars, groupVars, admission
  <1> QED
    BY <1>1, <1>2, <1>3, <1>4, <1>5, <1>6, <1>7, <1>8, <1>9, <1>10,
       <1>11, <1>12, <1>13, <1>14, <1>15, <1>16, <1>17, <1>18, <1>19,
       <1>20, <1>21, <1>22, <1>23, <1>24 DEF Next, Step, Receive,
       Process

(* Every variable keeps its type.                                           *)
THEOREM TypeCorrect == Spec => []TypeOK
  <1>1. Spec => []Typing
    BY InitTyping, StepTyping, PTL DEF Spec
  <1> QED
    BY <1>1, PTL DEF Typing

-----------------------------------------------------------------------------
(* Settled jobs.                                                            *)

(* A status hash loses its identifying fields by expiry only.               *)
HashKept == \A j \in Submitted : j \notin expired => hash[j].whole

(* A loop that records a success has one.                                   *)
SuccessEarned ==
    \A w \in Workers :
        worker[w].at \in {"recordSuccess", "touchSuccess"} =>
            JobOf(w) \in executed

Settled(j) == j \in executed \/ dead[j] > 0 \/ j \in expired

(* A loop acknowledges settled jobs only.                                   *)
AckEarned == \A w \in Workers : At(w, "acking") => Settled(JobOf(w))

SettledInv ==
    /\ Typing
    /\ HashKept
    /\ SuccessEarned
    /\ AckEarned
    /\ AckedMeansSettled

LEMMA InitSettled == Init => SettledInv
  <1> SUFFICES ASSUME Init PROVE SettledInv
    OBVIOUS
  <1>1. HashKept /\ AckedMeansSettled
    BY DEF Init, HashKept, AckedMeansSettled, Submitted
  <1>2. SuccessEarned /\ AckEarned
    BY IdleFacts DEF Init, SuccessEarned, AckEarned, At
  <1> QED
    BY <1>1, <1>2, InitTyping DEF SettledInv

(* Nothing a loop does settles a job only for a while.                      *)
LEMMA WorkerKept ==
    ASSUME SuccessEarned, AckEarned, NEW w \in Workers,
           \A v \in Workers \ {w} : worker'[v] = worker[v],
           executed \subseteq executed', expired \subseteq expired',
           \A j \in Job : dead[j] > 0 => dead'[j] > 0,
           Typing,
           worker'[w].at \in {"recordSuccess", "touchSuccess"} =>
               worker'[w].job \in executed',
           worker'[w].at = "acking" =>
               \/ worker'[w].job \in executed'
               \/ dead'[worker'[w].job] > 0
               \/ worker'[w].job \in expired'
    PROVE  SuccessEarned' /\ AckEarned'
  <1>1. Submitted \subseteq Job
    BY BoundsAssumption DEF Typing, TypeOK, Submitted, Job
  <1>2. \A v \in Workers : At(v, "acking") => JobOf(v) \in Submitted
    BY DEF Typing, Holding, At
  <1> QED
    BY <1>1, <1>2 DEF SuccessEarned, AckEarned, At, JobOf, Settled

LEMMA WorkersUnchanged ==
    ASSUME SuccessEarned, AckEarned, Typing, worker' = worker,
           executed \subseteq executed', expired \subseteq expired',
           dead' = dead
    PROVE  SuccessEarned' /\ AckEarned'
  BY DEF SuccessEarned, AckEarned, At, JobOf, Settled

LEMMA StepSettled == SettledInv /\ [Next]_vars => SettledInv'
  <1> SUFFICES ASSUME SettledInv, [Next]_vars PROVE SettledInv'
    OBVIOUS
  <1>1. Typing'
    BY StepTyping DEF SettledInv
  <1> USE DEF SettledInv
  <1>2. /\ Submitted \subseteq Job
        /\ \A w \in Workers : worker[w].at \notin {"idle", "reading"} =>
                                   JobOf(w) \in Submitted
    BY BoundsAssumption DEF Typing, TypeOK, Submitted, Job, Holding
  <1>3. ASSUME NEW q \in Requests, Enqueue(q) PROVE SettledInv'
    <2>1. HashKept'
      <3>1. next \in Job /\ Submitted' = Submitted \cup {next}
        BY <1>3, BoundsAssumption DEF Enqueue, Submitted, Typing, TypeOK, Job
      <3>2. hash' = [hash EXCEPT ![next] = QueuedHash] /\ expired' = expired
        BY <1>3 DEF Enqueue
      <3> QED
        BY <3>1, <3>2, <1>2, HashFacts DEF HashKept, Typing, TypeOK
    <2>2. SuccessEarned' /\ AckEarned'
      BY <1>3, WorkersUnchanged DEF Enqueue
    <2> QED
      BY <1>3, <1>1, <2>1, <2>2 DEF Enqueue, AckedMeansSettled, groupVars
  <1>4. ASSUME NEW q \in Requests, RateLimited(q) PROVE SettledInv'
    <2>1. SuccessEarned' /\ AckEarned'
      BY <1>4, WorkersUnchanged DEF RateLimited
    <2> QED
      BY <1>4, <1>1, <2>1
      DEF RateLimited, HashKept, AckedMeansSettled, Submitted, streamVars, groupVars, admission
  <1>5. ASSUME NEW q \in Requests, ExpireDedup(q) PROVE SettledInv'
    <2>1. SuccessEarned' /\ AckEarned'
      BY <1>5, WorkersUnchanged DEF ExpireDedup
    <2> QED
      BY <1>5, <1>1, <2>1
      DEF ExpireDedup, HashKept, AckedMeansSettled, Submitted, streamVars, groupVars, admission
  <1>6. ASSUME NEW c \in Callers, ExpireWindow(c) PROVE SettledInv'
    <2>1. SuccessEarned' /\ AckEarned'
      BY <1>6, WorkersUnchanged DEF ExpireWindow
    <2> QED
      BY <1>6, <1>1, <2>1
      DEF ExpireWindow, HashKept, AckedMeansSettled, Submitted, streamVars, groupVars, admission
  <1>7. ASSUME NEW j \in Job, Age(j) PROVE SettledInv'
    <2>1. SuccessEarned' /\ AckEarned'
      BY <1>7, WorkersUnchanged DEF Age
    <2> QED
      BY <1>7, <1>1, <2>1
      DEF Age, HashKept, AckedMeansSettled, Submitted, streamVars, groupVars, admission
  <1>8. ASSUME NEW j \in Job, ExpireStatus(j) PROVE SettledInv'
    <2>1. SuccessEarned' /\ AckEarned'
      BY <1>8, WorkersUnchanged DEF ExpireStatus
    <2> QED
      BY <1>8, <1>1, <1>2, <2>1
      DEF ExpireStatus, HashKept, AckedMeansSettled, Submitted, Typing, TypeOK,
          streamVars, groupVars, admission
  <1>9. ASSUME NEW w \in Workers, AutoClaim(w) PROVE SettledInv'
    <2>0. worker \in [Workers -> Loop] /\ Claimable \subseteq Job
      BY DEF Typing, TypeOK, Claimable
    <2>1. SuccessEarned' /\ AckEarned'
      <3>1. /\ \A v \in Workers \ {w} : worker'[v] = worker[v]
            /\ worker'[w].at \in {"reading", "received"}
        BY <1>9, <2>0, GotoType, HoldType DEF AutoClaim, Points
      <3> QED
        BY <1>9, <3>1, WorkerKept DEF AutoClaim
    <2>2. HashKept'
      BY <1>9, <1>2 DEF AutoClaim, HashKept, Submitted, streamVars
    <2>3. AckedMeansSettled'
      BY <1>9, <1>2 DEF AutoClaim, AckedMeansSettled
    <2> QED
      BY <1>1, <2>1, <2>2, <2>3
  <1>10. ASSUME NEW w \in Workers, ReadGroup(w) PROVE SettledInv'
    <2>0. worker \in [Workers -> Loop] /\ Undelivered \subseteq Job
      BY <1>2, BoundsAssumption
      DEF Typing, TypeOK, Undelivered, Entries, Submitted, Job
    <2>1. SuccessEarned' /\ AckEarned'
      <3>1. /\ \A v \in Workers \ {w} : worker'[v] = worker[v]
            /\ worker'[w].at \in {"idle", "received"}
        BY <1>10, <2>0, ReleaseType, HoldType, IdleFacts DEF ReadGroup
      <3> QED
        BY <1>10, <3>1, WorkerKept DEF ReadGroup
    <2>2. HashKept'
      BY <1>10, <1>2 DEF ReadGroup, HashKept, Submitted, streamVars
    <2>3. AckedMeansSettled'
      BY <1>10, <1>2 DEF ReadGroup, AckedMeansSettled
    <2> QED
      BY <1>1, <2>1, <2>2, <2>3
  <1>11. ASSUME NEW w \in Workers, LoadStatus(w) PROVE SettledInv'
    <2>1. SuccessEarned' /\ AckEarned'
      <3>1. JobOf(w) \in Submitted
        BY <1>11, <1>2 DEF LoadStatus, At
      <3>2. /\ \A v \in Workers \ {w} : worker'[v] = worker[v]
            /\ \/ worker'[w].at \in {"idle", "counting"}
               \/ /\ worker'[w].at = "acking" /\ worker'[w].job = JobOf(w)
                  /\ hash[JobOf(w)] = EmptyHash
        BY <1>11, GotoType, ReleaseType, IdleFacts
        DEF LoadStatus, Typing, TypeOK, Points, JobOf
      <3>3. hash[JobOf(w)] = EmptyHash => JobOf(w) \in expired
        BY <3>1, HashFacts DEF HashKept
      <3> QED
        BY <1>11, <3>2, <3>3, WorkerKept DEF LoadStatus, Settled
    <2>2. HashKept'
      BY <1>11, <1>2 DEF LoadStatus, HashKept, Submitted, streamVars
    <2>3. AckedMeansSettled'
      BY <1>11, <1>2 DEF LoadStatus, AckedMeansSettled, groupVars
    <2> QED
      BY <1>1, <2>1, <2>2, <2>3
  <1>12. ASSUME NEW w \in Workers, CountAttempt(w) PROVE SettledInv'
    <2>0. JobOf(w) \in Job
      BY <1>12, <1>2 DEF CountAttempt, At
    <2>1. SuccessEarned' /\ AckEarned'
      <3>1. /\ \A v \in Workers \ {w} : worker'[v] = worker[v]
            /\ worker'[w].at = "marking"
        BY <1>12 DEF CountAttempt, Typing, TypeOK, Loop
      <3> QED
        BY <1>12, <3>1, WorkerKept DEF CountAttempt
    <2>2. HashKept'
      BY <1>12, <1>2, <2>0, CountType DEF CountAttempt, HashKept, Submitted, streamVars, Typing, TypeOK
    <2>3. AckedMeansSettled'
      BY <1>12, <1>2 DEF CountAttempt, AckedMeansSettled, groupVars
    <2> QED
      BY <1>1, <2>1, <2>2, <2>3
  <1>13. ASSUME NEW w \in Workers, MarkRunning(w) PROVE SettledInv'
    <2>0. JobOf(w) \in Job
      BY <1>13, <1>2 DEF MarkRunning, At
    <2>1. SuccessEarned' /\ AckEarned'
      <3>1. /\ \A v \in Workers \ {w} : worker'[v] = worker[v]
            /\ worker'[w].at \in {"touchRunning"}
        BY <1>13, GotoType, ReleaseType, IdleFacts
        DEF MarkRunning, Typing, TypeOK, Points, JobOf
      <3> QED
        BY <1>13, <3>1, WorkerKept
        DEF MarkRunning, At
    <2>2. HashKept'
      BY <1>13, <1>2, <2>0, SetStatusType DEF MarkRunning, HashKept, Submitted, streamVars, Typing, TypeOK, Status
    <2>3. AckedMeansSettled'
      BY <1>13, <1>2 DEF MarkRunning, AckedMeansSettled, groupVars
    <2> QED
      BY <1>1, <2>1, <2>2, <2>3
  <1>14. ASSUME NEW w \in Workers, TouchRunning(w) PROVE SettledInv'
    <2>0. JobOf(w) \in Job
      BY <1>14, <1>2 DEF TouchRunning, At
    <2>1. SuccessEarned' /\ AckEarned'
      <3>1. /\ \A v \in Workers \ {w} : worker'[v] = worker[v]
            /\ worker'[w].at \in {"starting"}
        BY <1>14, GotoType, ReleaseType, IdleFacts
        DEF TouchRunning, Typing, TypeOK, Points, JobOf
      <3> QED
        BY <1>14, <3>1, WorkerKept
        DEF TouchRunning, At
    <2>2. HashKept'
      BY <1>14, <1>2, <2>0, TouchType DEF TouchRunning, HashKept, Submitted, streamVars, Typing, TypeOK
    <2>3. AckedMeansSettled'
      BY <1>14, <1>2 DEF TouchRunning, AckedMeansSettled, groupVars
    <2> QED
      BY <1>1, <2>1, <2>2, <2>3
  <1>15. ASSUME NEW w \in Workers, StartJob(w) PROVE SettledInv'
    <2>0. JobOf(w) \in Job
      BY <1>15, <1>2 DEF StartJob, At
    <2>1. SuccessEarned' /\ AckEarned'
      <3>1. /\ \A v \in Workers \ {w} : worker'[v] = worker[v]
            /\ worker'[w].at \in {"recordFailure", "executing"}
        BY <1>15, GotoType, ReleaseType, IdleFacts
        DEF StartJob, Typing, TypeOK, Points, JobOf
      <3> QED
        BY <1>15, <3>1, WorkerKept
        DEF StartJob, At
    <2>2. HashKept'
      BY <1>15, <1>2, <2>0 DEF StartJob, HashKept, Submitted, streamVars
    <2>3. AckedMeansSettled'
      BY <1>15, <1>2 DEF StartJob, AckedMeansSettled, groupVars
    <2> QED
      BY <1>1, <2>1, <2>2, <2>3
  <1>16. ASSUME NEW w \in Workers, JobSucceeds(w) PROVE SettledInv'
    <2>0. JobOf(w) \in Job
      BY <1>16, <1>2 DEF JobSucceeds, At
    <2>1. SuccessEarned' /\ AckEarned'
      <3>1. /\ \A v \in Workers \ {w} : worker'[v] = worker[v]
            /\ worker'[w].at \in {"recordSuccess"} /\ worker'[w].job = JobOf(w)
        BY <1>16, GotoType, ReleaseType, IdleFacts
        DEF JobSucceeds, Typing, TypeOK, Points, JobOf
      <3> QED
        BY <1>16, <3>1, WorkerKept
        DEF JobSucceeds, At
    <2>2. HashKept'
      BY <1>16, <1>2, <2>0 DEF JobSucceeds, HashKept, Submitted, streamVars
    <2>3. AckedMeansSettled'
      BY <1>16, <1>2 DEF JobSucceeds, AckedMeansSettled, groupVars
    <2> QED
      BY <1>1, <2>1, <2>2, <2>3
  <1>17. ASSUME NEW w \in Workers, JobFails(w) PROVE SettledInv'
    <2>0. JobOf(w) \in Job
      BY <1>17, <1>2 DEF JobFails, At
    <2>1. SuccessEarned' /\ AckEarned'
      <3>1. /\ \A v \in Workers \ {w} : worker'[v] = worker[v]
            /\ worker'[w].at \in {"recordFailure"}
        BY <1>17, GotoType, ReleaseType, IdleFacts
        DEF JobFails, Typing, TypeOK, Points, JobOf
      <3> QED
        BY <1>17, <3>1, WorkerKept
        DEF JobFails, At
    <2>2. HashKept'
      BY <1>17, <1>2, <2>0 DEF JobFails, HashKept, Submitted, streamVars
    <2>3. AckedMeansSettled'
      BY <1>17, <1>2 DEF JobFails, AckedMeansSettled, groupVars
    <2> QED
      BY <1>1, <2>1, <2>2, <2>3
  <1>18. ASSUME NEW w \in Workers, RecordSuccess(w) PROVE SettledInv'
    <2>0. JobOf(w) \in Job
      BY <1>18, <1>2 DEF RecordSuccess, At
    <2>1. SuccessEarned' /\ AckEarned'
      <3>1. /\ \A v \in Workers \ {w} : worker'[v] = worker[v]
            /\ worker'[w].at \in {"touchSuccess"} /\ worker'[w].job = JobOf(w)
        BY <1>18, GotoType, ReleaseType, IdleFacts
        DEF RecordSuccess, Typing, TypeOK, Points, JobOf
      <3> QED
        BY <1>18, <3>1, WorkerKept
        DEF RecordSuccess, At, SuccessEarned
    <2>2. HashKept'
      BY <1>18, <1>2, <2>0, SuccessType DEF RecordSuccess, HashKept, Submitted, streamVars, Typing, TypeOK
    <2>3. AckedMeansSettled'
      BY <1>18, <1>2 DEF RecordSuccess, AckedMeansSettled, groupVars
    <2> QED
      BY <1>1, <2>1, <2>2, <2>3
  <1>19. ASSUME NEW w \in Workers, TouchSuccess(w) PROVE SettledInv'
    <2>0. JobOf(w) \in Job
      BY <1>19, <1>2 DEF TouchSuccess, At
    <2>1. SuccessEarned' /\ AckEarned'
      <3>1. /\ \A v \in Workers \ {w} : worker'[v] = worker[v]
            /\ worker'[w].at \in {"acking"} /\ worker'[w].job = JobOf(w)
        BY <1>19, GotoType, ReleaseType, IdleFacts
        DEF TouchSuccess, Typing, TypeOK, Points, JobOf
      <3> QED
        BY <1>19, <3>1, WorkerKept
        DEF TouchSuccess, At, SuccessEarned, Settled
    <2>2. HashKept'
      BY <1>19, <1>2, <2>0, TouchType DEF TouchSuccess, HashKept, Submitted, streamVars, Typing, TypeOK
    <2>3. AckedMeansSettled'
      BY <1>19, <1>2 DEF TouchSuccess, AckedMeansSettled, groupVars
    <2> QED
      BY <1>1, <2>1, <2>2, <2>3
  <1>20. ASSUME NEW w \in Workers, RecordFailure(w) PROVE SettledInv'
    <2>0. JobOf(w) \in Job
      BY <1>20, <1>2 DEF RecordFailure, At
    <2>1. SuccessEarned' /\ AckEarned'
      <3>1. /\ \A v \in Workers \ {w} : worker'[v] = worker[v]
            /\ worker'[w].at \in {"touchFailure"}
        BY <1>20, GotoType, ReleaseType, IdleFacts
        DEF RecordFailure, Typing, TypeOK, Points, JobOf
      <3> QED
        BY <1>20, <3>1, WorkerKept
        DEF RecordFailure, At
    <2>2. HashKept'
      BY <1>20, <1>2, <2>0, SetStatusType DEF RecordFailure, HashKept, Submitted, streamVars, Typing, TypeOK, Status
    <2>3. AckedMeansSettled'
      BY <1>20, <1>2 DEF RecordFailure, AckedMeansSettled, groupVars
    <2> QED
      BY <1>1, <2>1, <2>2, <2>3
  <1>21. ASSUME NEW w \in Workers, TouchFailure(w) PROVE SettledInv'
    <2>0. JobOf(w) \in Job
      BY <1>21, <1>2 DEF TouchFailure, At
    <2>1. SuccessEarned' /\ AckEarned'
      <3>1. /\ \A v \in Workers \ {w} : worker'[v] = worker[v]
            /\ worker'[w].at \in {"deadLetter", "idle"}
        BY <1>21, GotoType, ReleaseType, IdleFacts
        DEF TouchFailure, Typing, TypeOK, Points, JobOf
      <3> QED
        BY <1>21, <3>1, WorkerKept
        DEF TouchFailure, At
    <2>2. HashKept'
      BY <1>21, <1>2, <2>0, TouchType DEF TouchFailure, HashKept, Submitted, streamVars, Typing, TypeOK
    <2>3. AckedMeansSettled'
      BY <1>21, <1>2 DEF TouchFailure, AckedMeansSettled, groupVars
    <2> QED
      BY <1>1, <2>1, <2>2, <2>3
  <1>22. ASSUME NEW w \in Workers, DeadLetter(w) PROVE SettledInv'
    <2>0. JobOf(w) \in Job
      BY <1>22, <1>2 DEF DeadLetter, At
    <2>1. SuccessEarned' /\ AckEarned'
      <3>1. /\ \A v \in Workers \ {w} : worker'[v] = worker[v]
            /\ worker'[w].at \in {"acking"} /\ worker'[w].job = JobOf(w)
        BY <1>22, GotoType, ReleaseType, IdleFacts
        DEF DeadLetter, Typing, TypeOK, Points, JobOf
      <3> QED
        BY <1>22, <3>1, WorkerKept, <2>0
        DEF DeadLetter, At, Settled, Typing, TypeOK
    <2>2. HashKept'
      BY <1>22, <1>2, <2>0 DEF DeadLetter, HashKept, Submitted, streamVars
    <2>3. AckedMeansSettled'
      BY <1>22, <1>2 DEF DeadLetter, AckedMeansSettled, groupVars, Typing, TypeOK
    <2> QED
      BY <1>1, <2>1, <2>2, <2>3
  <1>23. ASSUME NEW w \in Workers, Ack(w) PROVE SettledInv'
    <2>0. JobOf(w) \in Job
      BY <1>23, <1>2 DEF Ack, At
    <2>1. SuccessEarned' /\ AckEarned'
      <3>1. /\ \A v \in Workers \ {w} : worker'[v] = worker[v]
            /\ worker'[w].at \in {"idle"}
        BY <1>23, GotoType, ReleaseType, IdleFacts
        DEF Ack, Typing, TypeOK, Points, JobOf
      <3> QED
        BY <1>23, <3>1, WorkerKept
        DEF Ack, At
    <2>2. HashKept'
      BY <1>23, <1>2, <2>0 DEF Ack, HashKept, Submitted, streamVars
    <2>3. AckedMeansSettled'
      BY <1>23, <1>2 DEF Ack, AckedMeansSettled, AckEarned, Settled, At
    <2> QED
      BY <1>1, <2>1, <2>2, <2>3
  <1>24. ASSUME NEW w \in Workers, ReceiveFails(w) PROVE SettledInv'
    <2>1. SuccessEarned' /\ AckEarned'
      <3>1. /\ \A v \in Workers \ {w} : worker'[v] = worker[v]
            /\ worker'[w].at = "idle"
        BY <1>24, ReleaseType, IdleFacts DEF ReceiveFails, Typing, TypeOK
      <3> QED
        BY <1>24, <3>1, WorkerKept DEF ReceiveFails
    <2>2. HashKept'
      BY <1>24, <1>2 DEF ReceiveFails, HashKept, Submitted, streamVars
    <2>3. AckedMeansSettled'
      BY <1>24, <1>2 DEF ReceiveFails, AckedMeansSettled, groupVars
    <2> QED
      BY <1>1, <2>1, <2>2, <2>3
  <1>25. CASE WorkerDies
    <2>1. SuccessEarned' /\ AckEarned'
      BY <1>25, IdleFacts DEF WorkerDies, SuccessEarned, AckEarned, At
    <2> QED
      BY <1>25, <1>1, <2>1
      DEF WorkerDies, HashKept, AckedMeansSettled, Submitted, streamVars, groupVars, admission
  <1>26. CASE UNCHANGED vars
    <2>1. SuccessEarned' /\ AckEarned'
      BY <1>26, WorkersUnchanged DEF vars
    <2> QED
      BY <1>26, <1>1, <2>1
      DEF vars, HashKept, AckedMeansSettled, Submitted, streamVars, groupVars, admission
  <1> QED
    BY <1>3, <1>4, <1>5, <1>6, <1>7, <1>8, <1>9, <1>10, <1>11, <1>12,
       <1>13, <1>14, <1>15, <1>16, <1>17, <1>18, <1>19, <1>20, <1>21,
       <1>22, <1>23, <1>24, <1>25, <1>26 DEF Next, Step, Receive,
       Process

(* An acknowledged job never vanishes: it completed, or a dead letter tells *)
(* of it, or its status hash had expired.                                   *)
THEOREM AckedJobsAreSettled == Spec => []AckedMeansSettled
  <1>1. Spec => []SettledInv
    BY InitSettled, StepSettled, PTL DEF Spec
  <1> QED
    BY <1>1, PTL DEF SettledInv

-----------------------------------------------------------------------------
(* What the group knows: every delivered entry is pending, acknowledged or  *)
(* trimmed, and a delivery that was never shared is held by one loop, which *)
(* has yet to acknowledge it.                                               *)
Delivered ==
    /\ pending \subseteq 1..delivered /\ acked \subseteq 1..delivered
    /\ pending \cap acked = {} /\ delivered \in Nat
    /\ \A j \in 1..delivered : j \in pending \/ j \in acked \/ j < first

Held ==
    \A w \in Workers : JobOf(w) # NoJob =>
        JobOf(w) <= delivered /\ (JobOf(w) \in acked => JobOf(w) \in shared)

OneHolder ==
    \A v, w \in Workers :
        v # w /\ JobOf(v) # NoJob /\ JobOf(v) = JobOf(w) => JobOf(v) \in shared

InHand == {"marking", "touchRunning", "starting", "executing", "recordSuccess",
           "touchSuccess", "recordFailure", "touchFailure", "deadLetter", "acking"}

(* What is true of a job whose holder is at p with attempt a.               *)
Tells(j, p, a) ==
    /\ hash[j].status = "SUCCEEDED" => hash[j].result /\ j \in executed
    /\ p = "recordSuccess" => j \in executed
    /\ p = "touchSuccess" => hash[j].status \in {"SUCCEEDED", "NONE"}
    /\ p = "touchFailure" =>
           hash[j].status \in {IF a >= MaxAttempts THEN "FAILED" ELSE "RETRYING", "NONE"}
    /\ p = "deadLetter" => hash[j].status \in {"FAILED", "NONE"}
    /\ (p = "acking" \/ j \in acked) =>
           ~Unsettled(j) /\ (hash[j].status = "FAILED" => dead[j] > 0)

Works(j, p, a) ==
    /\ hash[j].attempts <= MaxAttempts + faults /\ dead[j] <= 1 + faults
    /\ (j \notin acked /\ p \notin InHand) => hash[j].attempts < MaxAttempts + faults
    /\ (j \notin acked /\ p # "acking") => dead[j] <= faults
    /\ p \in InHand \ {"acking"} => hash[j].attempts <= a

Ends(j, p) ==
    faults = 0 =>
        /\ dead[j] > 0 => j \notin executed
        /\ j \in executed =>
               j \in acked \/ p \in {"recordSuccess", "touchSuccess", "acking"}
        /\ hash[j].status = "SUCCEEDED" => j \in acked \/ p \in {"touchSuccess", "acking"}
        /\ hash[j].status = "FAILED" =>
               j \in acked \/ p \in {"touchFailure", "deadLetter", "acking"}

Good(j, p, a) == Tells(j, p, a) /\ Works(j, p, a) /\ Ends(j, p)

Jobs ==
    \A j \in Job \ shared :
        /\ (\A w \in Workers : JobOf(w) # j) => Good(j, "idle", 0)
        /\ \A w \in Workers : JobOf(w) = j => Good(j, worker[w].at, worker[w].attempt)

Lone == Typing /\ Delivered /\ Held /\ OneHolder /\ Jobs

-----------------------------------------------------------------------------
(* A loop goes on with its job j, or lets go of it; nothing else changes.   *)
Only(w, j) ==
    /\ j \in Job /\ JobOf(w) = j /\ UNCHANGED <<first, delivered, faults, shared>>
    /\ \A v \in Workers \ {w} : worker'[v] = worker[v]
    /\ \A k \in Job \ {j} : /\ hash'[k] = hash[k] /\ dead'[k] = dead[k]
                            /\ k \in executed' <=> k \in executed
                            /\ k \in acked' <=> k \in acked

GoesOn(w, j, p, a) ==
    /\ Only(w, j) /\ UNCHANGED groupVars
    /\ worker'[w].at = p /\ worker'[w].job = j /\ worker'[w].attempt = a
    /\ j \notin shared => Good(j, p, a)'

LetsGo(w, j) ==
    /\ Only(w, j) /\ worker'[w] = Idle
    /\ \/ UNCHANGED groupVars
       \/ /\ acked' = acked \cup {j} /\ pending' = pending \ {j} /\ idle' = idle \ {j}
    /\ j \notin shared => Good(j, "idle", 0)'

LEMMA GoodKept ==
    ASSUME NEW k, NEW p, NEW a, Good(k, p, a), hash'[k] = hash[k], dead'[k] = dead[k],
           k \in executed' <=> k \in executed, k \in acked' <=> k \in acked,
           faults' = faults
    PROVE  Good(k, p, a)'
  BY DEF Good, Tells, Works, Ends, Unsettled

LEMMA OthersKept ==
    ASSUME Lone, NEW w \in Workers, NEW j, Only(w, j), JobOf(w) # NoJob,
           NEW k \in Job \ ({j} \cup shared)
    PROVE  /\ (\A v \in Workers : JobOf(v) # k) => Good(k, "idle", 0)'
           /\ \A v \in Workers \ {w} :
                  JobOf(v) = k => Good(k, worker[v].at, worker[v].attempt)'
  <1>1. /\ hash'[k] = hash[k] /\ dead'[k] = dead[k] /\ faults' = faults
        /\ k \in executed' <=> k \in executed
        /\ k \in acked' <=> k \in acked
    BY DEF Only
  <1>2. (\A v \in Workers : JobOf(v) # k) => Good(k, "idle", 0)'
    BY <1>1, GoodKept DEF Lone, Jobs
  <1>3. ASSUME NEW v \in Workers \ {w}, JobOf(v) = k
        PROVE  Good(k, worker[v].at, worker[v].attempt)'
    <2>1. PICK p, a : p = worker[v].at /\ a = worker[v].attempt
      OBVIOUS
    <2>2. Good(k, p, a)
      BY <1>3, <2>1 DEF Lone, Jobs
    <2>3. Good(k, p, a)'
      BY <1>1, <2>2, GoodKept
    <2>4. worker'[v].at = p /\ worker'[v].attempt = a
      BY <2>1 DEF Only
    <2> QED
      BY <2>3, <2>4
  <1> QED
    BY <1>2, <1>3

LEMMA GoesOnKeeps ==
    ASSUME Lone, Typing', NEW w \in Workers, NEW j, NEW p, NEW a, GoesOn(w, j, p, a)
    PROVE  Lone'
  <1>1. /\ j \in Job /\ JobOf(w) = j /\ j # NoJob
        /\ \A v \in Workers : worker'[v].job = worker[v].job
        /\ UNCHANGED <<first, delivered, pending, idle, acked, shared>>
    BY DEF GoesOn, Only, groupVars, Job, NoJob, JobOf
  <1>2. Delivered' /\ Held' /\ OneHolder'
    BY <1>1 DEF Lone, Delivered, Held, OneHolder, JobOf
  <1>3. Jobs'
    <2> SUFFICES ASSUME NEW k \in Job \ shared
                 PROVE  /\ (\A v \in Workers : JobOf(v)' # k) => Good(k, "idle", 0)'
                        /\ \A v \in Workers : JobOf(v)' = k =>
                               Good(k, worker[v].at, worker[v].attempt)'
      BY <1>1 DEF Jobs
    <2>1. CASE k = j
      <3>1. \A v \in Workers : JobOf(v)' = k => v = w
        BY <1>1, <2>1 DEF Lone, OneHolder, JobOf
      <3>2. JobOf(w)' = k /\ Good(k, worker[w].at, worker[w].attempt)'
        BY <1>1, <2>1 DEF GoesOn, JobOf
      <3> QED
        BY <3>1, <3>2
    <2>2. CASE k # j
      <3>1. Only(w, j)
        BY DEF GoesOn
      <3> QED
        BY <1>1, <2>2, <3>1, OthersKept DEF JobOf
    <2> QED
      BY <2>1, <2>2
  <1> QED
    BY <1>2, <1>3 DEF Lone

LEMMA LetsGoKeeps ==
    ASSUME Lone, Typing', NEW w \in Workers, NEW j, LetsGo(w, j)
    PROVE  Lone'
  <1>1. /\ j \in Job /\ JobOf(w) = j /\ j # NoJob /\ worker'[w].job = NoJob
        /\ \A v \in Workers \ {w} : worker'[v] = worker[v]
        /\ UNCHANGED <<first, delivered, shared>>
    BY IdleFacts DEF LetsGo, Only, Job, NoJob, JobOf
  <1>2. j \notin shared => \A v \in Workers \ {w} : JobOf(v) # j
    BY <1>1 DEF Lone, OneHolder
  <1>3. OneHolder'
    BY <1>1 DEF Lone, OneHolder, JobOf
  <1>4. Delivered' /\ Held'
    <2>1. j <= delivered /\ j \in 1..delivered
      BY <1>1 DEF Lone, Held, Delivered, Job
    <2> QED
      BY <1>1, <1>2, <2>1 DEF Lone, LetsGo, Delivered, Held, JobOf, groupVars
  <1>5. Jobs'
    <2> SUFFICES ASSUME NEW k \in Job \ shared
                 PROVE  /\ (\A v \in Workers : JobOf(v)' # k) => Good(k, "idle", 0)'
                        /\ \A v \in Workers : JobOf(v)' = k =>
                               Good(k, worker[v].at, worker[v].attempt)'
      BY <1>1 DEF Jobs
    <2>0. k # NoJob
      BY DEF Job, NoJob
    <2>1. CASE k = j
      BY <1>1, <1>2, <2>0, <2>1 DEF LetsGo, JobOf
    <2>2. CASE k # j
      <3>1. Only(w, j)
        BY DEF LetsGo
      <3> QED
        BY <1>1, <2>0, <2>2, <3>1, OthersKept DEF JobOf
    <2> QED
      BY <2>1, <2>2
  <1> QED
    BY <1>3, <1>4, <1>5 DEF Lone

(* A loop that holds a job, seen with what is known of it.                  *)
LEMMA HolderFacts ==
    ASSUME Lone, NEW w \in Workers, worker[w].at \notin {"idle", "reading"}
    PROVE  \E j \in Job : \E p, a :
               /\ JobOf(w) = j /\ worker[w].at = p /\ worker[w].attempt = a
               /\ a \in Nat /\ (j \notin shared => Good(j, p, a) /\ j \notin acked)
               /\ hash[j] \in Hash /\ hash[j].attempts \in Nat /\ dead[j] \in Nat
               /\ faults \in Nat /\ MaxAttempts \in Nat /\ MaxAttempts > 0
  <1>1. JobOf(w) \in Job /\ JobOf(w) # NoJob
    BY BoundsAssumption DEF Lone, Typing, TypeOK, Holding, Submitted, Job, NoJob
  <1>2. JobOf(w) \notin shared =>
            Good(JobOf(w), worker[w].at, worker[w].attempt) /\ JobOf(w) \notin acked
    BY <1>1 DEF Lone, Jobs, Held
  <1>3. worker[w].attempt \in Nat /\ faults \in Nat /\ dead[JobOf(w)] \in Nat
        /\ hash[JobOf(w)] \in Hash
    BY <1>1, BoundsAssumption DEF Lone, Typing, TypeOK, Loop
  <1>4. hash[JobOf(w)].attempts \in Nat
    BY <1>3 DEF Hash
  <1> QED
    BY <1>1, <1>2, <1>3, <1>4, BoundsAssumption

-----------------------------------------------------------------------------
(* Each command of a loop that holds a job.                                 *)
LEMMA MarkRunningKeeps ==
    ASSUME Lone, Typing', NEW w \in Workers, MarkRunning(w)
    PROVE  Lone'
  <1>1. PICK j \in Job : \E p, a :
            /\ JobOf(w) = j /\ worker[w].at = p /\ worker[w].attempt = a
            /\ a \in Nat /\ (j \notin shared => Good(j, p, a) /\ j \notin acked)
            /\ hash[j] \in Hash /\ hash[j].attempts \in Nat /\ dead[j] \in Nat
            /\ faults \in Nat /\ MaxAttempts \in Nat /\ MaxAttempts > 0
    BY HolderFacts DEF MarkRunning, At
  <1>2. PICK a : /\ JobOf(w) = j /\ worker[w].attempt = a /\ a \in Nat
                 /\ (j \notin shared => Good(j, "marking", a) /\ j \notin acked)
                 /\ hash[j] \in Hash /\ hash[j].attempts \in Nat /\ dead[j] \in Nat
                 /\ faults \in Nat /\ MaxAttempts \in Nat /\ MaxAttempts > 0
    BY <1>1 DEF MarkRunning, At
  <1>3. /\ worker \in [Workers -> Loop] /\ hash \in [Job -> Hash]
        /\ DOMAIN dead = Job
    BY DEF Lone, Typing, TypeOK
  <1>4. /\ worker'[w].at = "touchRunning" /\ worker'[w].job = j /\ worker'[w].attempt = a
        /\ \A v \in Workers \ {w} : worker'[v] = worker[v]
    BY <1>2, <1>3, GotoType DEF MarkRunning, Points, JobOf
  <1>5. /\ hash'[j].status = "RUNNING" /\ hash'[j].attempts = hash[j].attempts
        /\ \A k \in Job \ {j} : hash'[k] = hash[k]
    BY <1>2, <1>3, SetStatusType DEF MarkRunning, Status
  <1>6. /\ executed' = executed /\ dead' = dead
        /\ UNCHANGED <<first, delivered, faults, pending, idle, acked, shared>>
    BY <1>2 DEF MarkRunning, streamVars, groupVars
  <1>7. j \notin shared => Good(j, "touchRunning", a)'
    BY <1>2, <1>3, <1>5, <1>6 DEF Good, Tells, Works, Ends, InHand, Unsettled
  <1>8. GoesOn(w, j, "touchRunning", a)
    BY <1>2, <1>3, <1>4, <1>5, <1>6, <1>7 DEF GoesOn, Only, groupVars
  <1> QED
    BY <1>8, GoesOnKeeps

LEMMA TouchRunningKeeps ==
    ASSUME Lone, Typing', NEW w \in Workers, TouchRunning(w)
    PROVE  Lone'
  <1>1. PICK j \in Job : \E p, a :
            /\ JobOf(w) = j /\ worker[w].at = p /\ worker[w].attempt = a
            /\ a \in Nat /\ (j \notin shared => Good(j, p, a) /\ j \notin acked)
            /\ hash[j] \in Hash /\ hash[j].attempts \in Nat /\ dead[j] \in Nat
            /\ faults \in Nat /\ MaxAttempts \in Nat /\ MaxAttempts > 0
    BY HolderFacts DEF TouchRunning, At
  <1>2. PICK a : /\ JobOf(w) = j /\ worker[w].attempt = a /\ a \in Nat
                 /\ (j \notin shared => Good(j, "touchRunning", a) /\ j \notin acked)
                 /\ hash[j] \in Hash /\ hash[j].attempts \in Nat /\ dead[j] \in Nat
                 /\ faults \in Nat /\ MaxAttempts \in Nat /\ MaxAttempts > 0
    BY <1>1 DEF TouchRunning, At
  <1>3. /\ worker \in [Workers -> Loop] /\ hash \in [Job -> Hash]
        /\ DOMAIN dead = Job
    BY DEF Lone, Typing, TypeOK
  <1>4. /\ worker'[w].at = "starting" /\ worker'[w].job = j /\ worker'[w].attempt = a
        /\ \A v \in Workers \ {w} : worker'[v] = worker[v]
    BY <1>2, <1>3, GotoType DEF TouchRunning, Points, JobOf
  <1>5. /\ hash'[j].status = hash[j].status /\ hash'[j].attempts = hash[j].attempts
        /\ hash'[j].result = hash[j].result
        /\ \A k \in Job \ {j} : hash'[k] = hash[k]
    BY <1>2, <1>3, TouchType DEF TouchRunning, Status, Touch
  <1>6. /\ executed' = executed /\ dead' = dead
        /\ UNCHANGED <<first, delivered, faults, pending, idle, acked, shared>>
    BY <1>2 DEF TouchRunning, streamVars, groupVars
  <1>7. j \notin shared => Good(j, "starting", a)'
    BY <1>2, <1>3, <1>5, <1>6 DEF Good, Tells, Works, Ends, InHand, Unsettled
  <1>8. GoesOn(w, j, "starting", a)
    BY <1>2, <1>3, <1>4, <1>5, <1>6, <1>7 DEF GoesOn, Only, groupVars
  <1> QED
    BY <1>8, GoesOnKeeps

LEMMA JobSucceedsKeeps ==
    ASSUME Lone, Typing', NEW w \in Workers, JobSucceeds(w)
    PROVE  Lone'
  <1>1. PICK j \in Job : \E p, a :
            /\ JobOf(w) = j /\ worker[w].at = p /\ worker[w].attempt = a
            /\ a \in Nat /\ (j \notin shared => Good(j, p, a) /\ j \notin acked)
            /\ hash[j] \in Hash /\ hash[j].attempts \in Nat /\ dead[j] \in Nat
            /\ faults \in Nat /\ MaxAttempts \in Nat /\ MaxAttempts > 0
    BY HolderFacts DEF JobSucceeds, At
  <1>2. PICK a : /\ JobOf(w) = j /\ worker[w].attempt = a /\ a \in Nat
                 /\ (j \notin shared => Good(j, "executing", a) /\ j \notin acked)
                 /\ hash[j] \in Hash /\ hash[j].attempts \in Nat /\ dead[j] \in Nat
                 /\ faults \in Nat /\ MaxAttempts \in Nat /\ MaxAttempts > 0
    BY <1>1 DEF JobSucceeds, At
  <1>3. /\ worker \in [Workers -> Loop] /\ hash \in [Job -> Hash]
        /\ DOMAIN dead = Job
    BY DEF Lone, Typing, TypeOK
  <1>4. /\ worker'[w].at = "recordSuccess" /\ worker'[w].job = j /\ worker'[w].attempt = a
        /\ \A v \in Workers \ {w} : worker'[v] = worker[v]
    BY <1>2, <1>3, GotoType DEF JobSucceeds, Points, JobOf
  <1>5. /\ hash' = hash
        /\ \A k \in Job \ {j} : hash'[k] = hash[k]
    BY <1>2, <1>3 DEF JobSucceeds, Status
  <1>6. /\ executed' = executed \cup {j} /\ dead' = dead
        /\ UNCHANGED <<first, delivered, faults, pending, idle, acked, shared>>
    BY <1>2 DEF JobSucceeds, streamVars, groupVars
  <1>7. j \notin shared => Good(j, "recordSuccess", a)'
    BY <1>2, <1>3, <1>5, <1>6 DEF Good, Tells, Works, Ends, InHand, Unsettled
  <1>8. GoesOn(w, j, "recordSuccess", a)
    BY <1>2, <1>3, <1>4, <1>5, <1>6, <1>7 DEF GoesOn, Only, groupVars
  <1> QED
    BY <1>8, GoesOnKeeps

LEMMA JobFailsKeeps ==
    ASSUME Lone, Typing', NEW w \in Workers, JobFails(w)
    PROVE  Lone'
  <1>1. PICK j \in Job : \E p, a :
            /\ JobOf(w) = j /\ worker[w].at = p /\ worker[w].attempt = a
            /\ a \in Nat /\ (j \notin shared => Good(j, p, a) /\ j \notin acked)
            /\ hash[j] \in Hash /\ hash[j].attempts \in Nat /\ dead[j] \in Nat
            /\ faults \in Nat /\ MaxAttempts \in Nat /\ MaxAttempts > 0
    BY HolderFacts DEF JobFails, At
  <1>2. PICK a : /\ JobOf(w) = j /\ worker[w].attempt = a /\ a \in Nat
                 /\ (j \notin shared => Good(j, "executing", a) /\ j \notin acked)
                 /\ hash[j] \in Hash /\ hash[j].attempts \in Nat /\ dead[j] \in Nat
                 /\ faults \in Nat /\ MaxAttempts \in Nat /\ MaxAttempts > 0
    BY <1>1 DEF JobFails, At
  <1>3. /\ worker \in [Workers -> Loop] /\ hash \in [Job -> Hash]
        /\ DOMAIN dead = Job
    BY DEF Lone, Typing, TypeOK
  <1>4. /\ worker'[w].at = "recordFailure" /\ worker'[w].job = j /\ worker'[w].attempt = a
        /\ \A v \in Workers \ {w} : worker'[v] = worker[v]
    BY <1>2, <1>3, GotoType DEF JobFails, Points, JobOf
  <1>5. /\ hash' = hash
        /\ \A k \in Job \ {j} : hash'[k] = hash[k]
    BY <1>2, <1>3 DEF JobFails, Status
  <1>6. /\ executed' = executed /\ dead' = dead
        /\ UNCHANGED <<first, delivered, faults, pending, idle, acked, shared>>
    BY <1>2 DEF JobFails, streamVars, groupVars
  <1>7. j \notin shared => Good(j, "recordFailure", a)'
    BY <1>2, <1>3, <1>5, <1>6 DEF Good, Tells, Works, Ends, InHand, Unsettled
  <1>8. GoesOn(w, j, "recordFailure", a)
    BY <1>2, <1>3, <1>4, <1>5, <1>6, <1>7 DEF GoesOn, Only, groupVars
  <1> QED
    BY <1>8, GoesOnKeeps

LEMMA RecordSuccessKeeps ==
    ASSUME Lone, Typing', NEW w \in Workers, RecordSuccess(w)
    PROVE  Lone'
  <1>1. PICK j \in Job : \E p, a :
            /\ JobOf(w) = j /\ worker[w].at = p /\ worker[w].attempt = a
            /\ a \in Nat /\ (j \notin shared => Good(j, p, a) /\ j \notin acked)
            /\ hash[j] \in Hash /\ hash[j].attempts \in Nat /\ dead[j] \in Nat
            /\ faults \in Nat /\ MaxAttempts \in Nat /\ MaxAttempts > 0
    BY HolderFacts DEF RecordSuccess, At
  <1>2. PICK a : /\ JobOf(w) = j /\ worker[w].attempt = a /\ a \in Nat
                 /\ (j \notin shared => Good(j, "recordSuccess", a) /\ j \notin acked)
                 /\ hash[j] \in Hash /\ hash[j].attempts \in Nat /\ dead[j] \in Nat
                 /\ faults \in Nat /\ MaxAttempts \in Nat /\ MaxAttempts > 0
    BY <1>1 DEF RecordSuccess, At
  <1>3. /\ worker \in [Workers -> Loop] /\ hash \in [Job -> Hash]
        /\ DOMAIN dead = Job
    BY DEF Lone, Typing, TypeOK
  <1>4. /\ worker'[w].at = "touchSuccess" /\ worker'[w].job = j /\ worker'[w].attempt = a
        /\ \A v \in Workers \ {w} : worker'[v] = worker[v]
    BY <1>2, <1>3, GotoType DEF RecordSuccess, Points, JobOf
  <1>5. /\ hash'[j].status = "SUCCEEDED" /\ hash'[j].attempts = hash[j].attempts
        /\ hash'[j].result
        /\ \A k \in Job \ {j} : hash'[k] = hash[k]
    BY <1>2, <1>3, SuccessType DEF RecordSuccess, Status
  <1>6. /\ executed' = executed /\ dead' = dead
        /\ UNCHANGED <<first, delivered, faults, pending, idle, acked, shared>>
    BY <1>2 DEF RecordSuccess, streamVars, groupVars
  <1>7. j \notin shared => Good(j, "touchSuccess", a)'
    BY <1>2, <1>3, <1>5, <1>6 DEF Good, Tells, Works, Ends, InHand, Unsettled
  <1>8. GoesOn(w, j, "touchSuccess", a)
    BY <1>2, <1>3, <1>4, <1>5, <1>6, <1>7 DEF GoesOn, Only, groupVars
  <1> QED
    BY <1>8, GoesOnKeeps

LEMMA TouchSuccessKeeps ==
    ASSUME Lone, Typing', NEW w \in Workers, TouchSuccess(w)
    PROVE  Lone'
  <1>1. PICK j \in Job : \E p, a :
            /\ JobOf(w) = j /\ worker[w].at = p /\ worker[w].attempt = a
            /\ a \in Nat /\ (j \notin shared => Good(j, p, a) /\ j \notin acked)
            /\ hash[j] \in Hash /\ hash[j].attempts \in Nat /\ dead[j] \in Nat
            /\ faults \in Nat /\ MaxAttempts \in Nat /\ MaxAttempts > 0
    BY HolderFacts DEF TouchSuccess, At
  <1>2. PICK a : /\ JobOf(w) = j /\ worker[w].attempt = a /\ a \in Nat
                 /\ (j \notin shared => Good(j, "touchSuccess", a) /\ j \notin acked)
                 /\ hash[j] \in Hash /\ hash[j].attempts \in Nat /\ dead[j] \in Nat
                 /\ faults \in Nat /\ MaxAttempts \in Nat /\ MaxAttempts > 0
    BY <1>1 DEF TouchSuccess, At
  <1>3. /\ worker \in [Workers -> Loop] /\ hash \in [Job -> Hash]
        /\ DOMAIN dead = Job
    BY DEF Lone, Typing, TypeOK
  <1>4. /\ worker'[w].at = "acking" /\ worker'[w].job = j /\ worker'[w].attempt = a
        /\ \A v \in Workers \ {w} : worker'[v] = worker[v]
    BY <1>2, <1>3, GotoType DEF TouchSuccess, Points, JobOf
  <1>5. /\ hash'[j].status = hash[j].status /\ hash'[j].attempts = hash[j].attempts
        /\ hash'[j].result = hash[j].result
        /\ \A k \in Job \ {j} : hash'[k] = hash[k]
    BY <1>2, <1>3, TouchType DEF TouchSuccess, Status, Touch
  <1>6. /\ executed' = executed /\ dead' = dead
        /\ UNCHANGED <<first, delivered, faults, pending, idle, acked, shared>>
    BY <1>2 DEF TouchSuccess, streamVars, groupVars
  <1>7. j \notin shared => Good(j, "acking", a)'
    BY <1>2, <1>3, <1>5, <1>6 DEF Good, Tells, Works, Ends, InHand, Unsettled
  <1>8. GoesOn(w, j, "acking", a)
    BY <1>2, <1>3, <1>4, <1>5, <1>6, <1>7 DEF GoesOn, Only, groupVars
  <1> QED
    BY <1>8, GoesOnKeeps

LEMMA RecordFailureKeeps ==
    ASSUME Lone, Typing', NEW w \in Workers, RecordFailure(w)
    PROVE  Lone'
  <1>1. PICK j \in Job : \E p, a :
            /\ JobOf(w) = j /\ worker[w].at = p /\ worker[w].attempt = a
            /\ a \in Nat /\ (j \notin shared => Good(j, p, a) /\ j \notin acked)
            /\ hash[j] \in Hash /\ hash[j].attempts \in Nat /\ dead[j] \in Nat
            /\ faults \in Nat /\ MaxAttempts \in Nat /\ MaxAttempts > 0
    BY HolderFacts DEF RecordFailure, At
  <1>2. PICK a : /\ JobOf(w) = j /\ worker[w].attempt = a /\ a \in Nat
                 /\ (j \notin shared => Good(j, "recordFailure", a) /\ j \notin acked)
                 /\ hash[j] \in Hash /\ hash[j].attempts \in Nat /\ dead[j] \in Nat
                 /\ faults \in Nat /\ MaxAttempts \in Nat /\ MaxAttempts > 0
    BY <1>1 DEF RecordFailure, At
  <1>3. /\ worker \in [Workers -> Loop] /\ hash \in [Job -> Hash]
        /\ DOMAIN dead = Job
    BY DEF Lone, Typing, TypeOK
  <1>4. /\ worker'[w].at = "touchFailure" /\ worker'[w].job = j /\ worker'[w].attempt = a
        /\ \A v \in Workers \ {w} : worker'[v] = worker[v]
    BY <1>2, <1>3, GotoType DEF RecordFailure, Points, JobOf
  <1>5. /\ hash'[j].status = IF a >= MaxAttempts THEN "FAILED" ELSE "RETRYING"
        /\ hash'[j].attempts = hash[j].attempts
        /\ \A k \in Job \ {j} : hash'[k] = hash[k]
    <2>1. PICK t \in Status : t = IF a >= MaxAttempts THEN "FAILED" ELSE "RETRYING"
      BY DEF Status
    <2>2. SetStatus(j, t)
      BY <1>2, <2>1 DEF RecordFailure, Terminal
    <2> QED
      BY <1>3, <2>1, <2>2, SetStatusType
  <1>6. /\ executed' = executed /\ dead' = dead
        /\ UNCHANGED <<first, delivered, faults, pending, idle, acked, shared>>
    BY <1>2 DEF RecordFailure, streamVars, groupVars
  <1>7. j \notin shared => Good(j, "touchFailure", a)'
    BY <1>2, <1>3, <1>5, <1>6 DEF Good, Tells, Works, Ends, InHand, Unsettled
  <1>8. GoesOn(w, j, "touchFailure", a)
    BY <1>2, <1>3, <1>4, <1>5, <1>6, <1>7 DEF GoesOn, Only, groupVars
  <1> QED
    BY <1>8, GoesOnKeeps

LEMMA DeadLetterKeeps ==
    ASSUME Lone, Typing', NEW w \in Workers, DeadLetter(w)
    PROVE  Lone'
  <1>1. PICK j \in Job : \E p, a :
            /\ JobOf(w) = j /\ worker[w].at = p /\ worker[w].attempt = a
            /\ a \in Nat /\ (j \notin shared => Good(j, p, a) /\ j \notin acked)
            /\ hash[j] \in Hash /\ hash[j].attempts \in Nat /\ dead[j] \in Nat
            /\ faults \in Nat /\ MaxAttempts \in Nat /\ MaxAttempts > 0
    BY HolderFacts DEF DeadLetter, At
  <1>2. PICK a : /\ JobOf(w) = j /\ worker[w].attempt = a /\ a \in Nat
                 /\ (j \notin shared => Good(j, "deadLetter", a) /\ j \notin acked)
                 /\ hash[j] \in Hash /\ hash[j].attempts \in Nat /\ dead[j] \in Nat
                 /\ faults \in Nat /\ MaxAttempts \in Nat /\ MaxAttempts > 0
    BY <1>1 DEF DeadLetter, At
  <1>3. /\ worker \in [Workers -> Loop] /\ hash \in [Job -> Hash]
        /\ DOMAIN dead = Job
    BY DEF Lone, Typing, TypeOK
  <1>4. /\ worker'[w].at = "acking" /\ worker'[w].job = j /\ worker'[w].attempt = a
        /\ \A v \in Workers \ {w} : worker'[v] = worker[v]
    BY <1>2, <1>3, GotoType DEF DeadLetter, Points, JobOf
  <1>5. /\ hash' = hash
        /\ \A k \in Job \ {j} : hash'[k] = hash[k]
    BY <1>2, <1>3 DEF DeadLetter, Status
  <1>6. /\ executed' = executed /\ dead' = [dead EXCEPT ![j] = @ + 1]
        /\ UNCHANGED <<first, delivered, faults, pending, idle, acked, shared>>
    BY <1>2 DEF DeadLetter, streamVars, groupVars
  <1>7. j \notin shared => Good(j, "acking", a)'
    BY <1>2, <1>3, <1>5, <1>6 DEF Good, Tells, Works, Ends, InHand, Unsettled
  <1>8. GoesOn(w, j, "acking", a)
    BY <1>2, <1>3, <1>4, <1>5, <1>6, <1>7 DEF GoesOn, Only, groupVars
  <1> QED
    BY <1>8, GoesOnKeeps

LEMMA CountAttemptKeeps ==
    ASSUME Lone, Typing', NEW w \in Workers, CountAttempt(w)
    PROVE  Lone'
  <1>1. PICK j \in Job : \E p, a :
            /\ JobOf(w) = j /\ worker[w].at = p /\ worker[w].attempt = a
            /\ a \in Nat /\ (j \notin shared => Good(j, p, a) /\ j \notin acked)
            /\ hash[j] \in Hash /\ hash[j].attempts \in Nat /\ dead[j] \in Nat
            /\ faults \in Nat /\ MaxAttempts \in Nat /\ MaxAttempts > 0
    BY HolderFacts DEF CountAttempt, At
  <1>2. PICK a : /\ JobOf(w) = j /\ worker[w].attempt = a /\ a \in Nat
                 /\ (j \notin shared => Good(j, "counting", a) /\ j \notin acked)
                 /\ hash[j] \in Hash /\ hash[j].attempts \in Nat /\ dead[j] \in Nat
                 /\ faults \in Nat /\ MaxAttempts \in Nat /\ MaxAttempts > 0
    BY <1>1 DEF CountAttempt, At
  <1>3. /\ worker \in [Workers -> Loop] /\ hash \in [Job -> Hash]
        /\ DOMAIN dead = Job
    BY DEF Lone, Typing, TypeOK
  <1>4. PICK n \in Nat : n = hash[j].attempts + 1
    BY <1>2
  <1>5. /\ worker'[w].at = "marking" /\ worker'[w].job = j /\ worker'[w].attempt = n
        /\ \A v \in Workers \ {w} : worker'[v] = worker[v]
    BY <1>2, <1>3, <1>4, AttemptType DEF CountAttempt, JobOf
  <1>6. /\ hash'[j].attempts = n /\ hash'[j].status = hash[j].status
        /\ hash'[j].result = hash[j].result
        /\ \A k \in Job \ {j} : hash'[k] = hash[k]
    <2>1. hash' = [hash EXCEPT ![j].attempts = @ + 1]
      BY <1>2 DEF CountAttempt
    <2>2. hash'[j].result = hash[j].result
      BY <1>2, <1>3, <2>1 DEF Hash
    <2> QED
      BY <1>3, <1>4, <2>1, <2>2, CountType
  <1>7. UNCHANGED <<executed, dead, first, delivered, faults, pending, idle, acked, shared>>
    BY DEF CountAttempt, streamVars, groupVars
  <1>8. j \notin shared => Good(j, "marking", n)'
    BY <1>2, <1>4, <1>6, <1>7 DEF Good, Tells, Works, Ends, InHand, Unsettled
  <1>9. GoesOn(w, j, "marking", n)
    BY <1>2, <1>5, <1>6, <1>7, <1>8 DEF GoesOn, Only, groupVars
  <1> QED
    BY <1>9, GoesOnKeeps

LEMMA StartJobKeeps ==
    ASSUME Lone, Typing', NEW w \in Workers, StartJob(w)
    PROVE  Lone'
  <1>1. PICK j \in Job : \E p, a :
            /\ JobOf(w) = j /\ worker[w].at = p /\ worker[w].attempt = a
            /\ a \in Nat /\ (j \notin shared => Good(j, p, a) /\ j \notin acked)
            /\ hash[j] \in Hash /\ hash[j].attempts \in Nat /\ dead[j] \in Nat
            /\ faults \in Nat /\ MaxAttempts \in Nat /\ MaxAttempts > 0
    BY HolderFacts DEF StartJob, At
  <1>2. PICK a : /\ JobOf(w) = j /\ worker[w].attempt = a /\ a \in Nat
                 /\ (j \notin shared => Good(j, "starting", a) /\ j \notin acked)
                 /\ hash[j] \in Hash /\ hash[j].attempts \in Nat /\ dead[j] \in Nat
                 /\ faults \in Nat /\ MaxAttempts \in Nat /\ MaxAttempts > 0
    BY <1>1 DEF StartJob, At
  <1>3. /\ worker \in [Workers -> Loop] /\ hash \in [Job -> Hash]
        /\ DOMAIN dead = Job
    BY DEF Lone, Typing, TypeOK
  <1>4. PICK p \in {"recordFailure", "executing"} : Goto(w, p)
    BY DEF StartJob
  <1>5. /\ worker'[w].at = p /\ worker'[w].job = j /\ worker'[w].attempt = a
        /\ \A v \in Workers \ {w} : worker'[v] = worker[v]
    BY <1>2, <1>3, <1>4, GotoType DEF Points, JobOf
  <1>6. UNCHANGED <<hash, executed, dead, first, delivered, faults, pending, idle, acked, shared>>
    BY DEF StartJob, streamVars, groupVars
  <1>7. j \notin shared => Good(j, p, a)'
    BY <1>2, <1>4, <1>6 DEF Good, Tells, Works, Ends, InHand, Unsettled
  <1>8. GoesOn(w, j, p, a)
    BY <1>2, <1>5, <1>6, <1>7 DEF GoesOn, Only, groupVars
  <1> QED
    BY <1>8, GoesOnKeeps

LEMMA LoadStatusKeeps ==
    ASSUME Lone, Typing', NEW w \in Workers, LoadStatus(w)
    PROVE  Lone'
  <1>1. PICK j \in Job : \E p, a :
            /\ JobOf(w) = j /\ worker[w].at = p /\ worker[w].attempt = a
            /\ a \in Nat /\ (j \notin shared => Good(j, p, a) /\ j \notin acked)
            /\ hash[j] \in Hash /\ hash[j].attempts \in Nat /\ dead[j] \in Nat
            /\ faults \in Nat /\ MaxAttempts \in Nat /\ MaxAttempts > 0
    BY HolderFacts DEF LoadStatus, At
  <1>2. PICK a : /\ JobOf(w) = j /\ worker[w].attempt = a /\ a \in Nat
                 /\ (j \notin shared => Good(j, "received", a) /\ j \notin acked)
                 /\ hash[j] \in Hash /\ hash[j].attempts \in Nat /\ dead[j] \in Nat
                 /\ faults \in Nat /\ MaxAttempts \in Nat /\ MaxAttempts > 0
    BY <1>1 DEF LoadStatus, At
  <1>3. /\ worker \in [Workers -> Loop] /\ hash \in [Job -> Hash]
        /\ DOMAIN dead = Job
    BY DEF Lone, Typing, TypeOK
  <1>4. UNCHANGED <<hash, executed, dead, first, delivered, faults, pending, idle, acked, shared>>
    BY DEF LoadStatus, streamVars, groupVars
  <1>5. CASE Release(w)
    <2>1. worker'[w] = Idle /\ \A v \in Workers \ {w} : worker'[v] = worker[v]
      BY <1>3, <1>5, ReleaseType
    <2>2. j \notin shared => Good(j, "idle", 0)'
      BY <1>2, <1>4 DEF Good, Tells, Works, Ends, InHand, Unsettled
    <2>3. LetsGo(w, j)
      BY <1>2, <1>4, <2>1, <2>2 DEF LetsGo, Only, groupVars
    <2> QED
      BY <2>3, LetsGoKeeps
  <1>6. ASSUME NEW p \in {"acking", "counting"}, Goto(w, p),
               p = "acking" => hash[j] = EmptyHash
        PROVE  Lone'
    <2>1. /\ worker'[w].at = p /\ worker'[w].job = j /\ worker'[w].attempt = a
          /\ \A v \in Workers \ {w} : worker'[v] = worker[v]
      BY <1>2, <1>3, <1>6, GotoType DEF Points, JobOf
    <2>2. p = "acking" => hash[j].status = "NONE" /\ hash[j].attempts = 0
      BY <1>6 DEF EmptyHash
    <2>3. j \notin shared => Good(j, p, a)'
      BY <1>2, <1>4, <1>6, <2>2 DEF Good, Tells, Works, Ends, InHand, Unsettled
    <2>4. GoesOn(w, j, p, a)
      BY <1>2, <1>4, <2>1, <2>3 DEF GoesOn, Only, groupVars
    <2> QED
      BY <2>4, GoesOnKeeps
  <1> QED
    BY <1>2, <1>5, <1>6 DEF LoadStatus

LEMMA TouchFailureKeeps ==
    ASSUME Lone, Typing', NEW w \in Workers, TouchFailure(w)
    PROVE  Lone'
  <1>1. PICK j \in Job : \E p, a :
            /\ JobOf(w) = j /\ worker[w].at = p /\ worker[w].attempt = a
            /\ a \in Nat /\ (j \notin shared => Good(j, p, a) /\ j \notin acked)
            /\ hash[j] \in Hash /\ hash[j].attempts \in Nat /\ dead[j] \in Nat
            /\ faults \in Nat /\ MaxAttempts \in Nat /\ MaxAttempts > 0
    BY HolderFacts DEF TouchFailure, At
  <1>2. PICK a : /\ JobOf(w) = j /\ worker[w].attempt = a /\ a \in Nat
                 /\ (j \notin shared => Good(j, "touchFailure", a) /\ j \notin acked)
                 /\ hash[j] \in Hash /\ hash[j].attempts \in Nat /\ dead[j] \in Nat
                 /\ faults \in Nat /\ MaxAttempts \in Nat /\ MaxAttempts > 0
    BY <1>1 DEF TouchFailure, At
  <1>3. /\ worker \in [Workers -> Loop] /\ hash \in [Job -> Hash]
        /\ DOMAIN dead = Job
    BY DEF Lone, Typing, TypeOK
  <1>4. /\ hash'[j].status = hash[j].status /\ hash'[j].attempts = hash[j].attempts
        /\ hash'[j].result = hash[j].result
        /\ \A k \in Job \ {j} : hash'[k] = hash[k]
    BY <1>2, <1>3, TouchType DEF TouchFailure, Touch
  <1>5. UNCHANGED <<executed, dead, first, delivered, faults, pending, idle, acked, shared>>
    BY DEF TouchFailure, streamVars, groupVars
  <1>6. CASE a >= MaxAttempts
    <2>1. Goto(w, "deadLetter")
      BY <1>2, <1>6 DEF TouchFailure, Terminal
    <2>2. /\ worker'[w].at = "deadLetter" /\ worker'[w].job = j /\ worker'[w].attempt = a
          /\ \A v \in Workers \ {w} : worker'[v] = worker[v]
      BY <1>2, <1>3, <2>1, GotoType DEF Points, JobOf
    <2>3. j \notin shared => Good(j, "deadLetter", a)'
      BY <1>2, <1>4, <1>5, <1>6 DEF Good, Tells, Works, Ends, InHand, Unsettled
    <2>4. GoesOn(w, j, "deadLetter", a)
      BY <1>2, <1>4, <1>5, <2>2, <2>3 DEF GoesOn, Only, groupVars
    <2> QED
      BY <2>4, GoesOnKeeps
  <1>7. CASE ~(a >= MaxAttempts)
    <2>1. worker'[w] = Idle /\ \A v \in Workers \ {w} : worker'[v] = worker[v]
      BY <1>2, <1>3, <1>7, ReleaseType DEF TouchFailure, Terminal
    <2>2. j \notin shared => Good(j, "idle", 0)'
      BY <1>2, <1>4, <1>5, <1>7 DEF Good, Tells, Works, Ends, InHand, Unsettled
    <2>3. LetsGo(w, j)
      BY <1>2, <1>4, <1>5, <2>1, <2>2 DEF LetsGo, Only, groupVars
    <2> QED
      BY <2>3, LetsGoKeeps
  <1> QED
    BY <1>6, <1>7

LEMMA AckKeeps ==
    ASSUME Lone, Typing', NEW w \in Workers, Ack(w)
    PROVE  Lone'
  <1>1. PICK j \in Job : \E p, a :
            /\ JobOf(w) = j /\ worker[w].at = p /\ worker[w].attempt = a
            /\ a \in Nat /\ (j \notin shared => Good(j, p, a) /\ j \notin acked)
            /\ hash[j] \in Hash /\ hash[j].attempts \in Nat /\ dead[j] \in Nat
            /\ faults \in Nat /\ MaxAttempts \in Nat /\ MaxAttempts > 0
    BY HolderFacts DEF Ack, At
  <1>2. PICK a : /\ JobOf(w) = j /\ worker[w].attempt = a /\ a \in Nat
                 /\ (j \notin shared => Good(j, "acking", a) /\ j \notin acked)
                 /\ hash[j] \in Hash /\ hash[j].attempts \in Nat /\ dead[j] \in Nat
                 /\ faults \in Nat /\ MaxAttempts \in Nat /\ MaxAttempts > 0
    BY <1>1 DEF Ack, At
  <1>3. /\ worker \in [Workers -> Loop] /\ hash \in [Job -> Hash]
        /\ DOMAIN dead = Job
    BY DEF Lone, Typing, TypeOK
  <1>4. worker'[w] = Idle /\ \A v \in Workers \ {w} : worker'[v] = worker[v]
    BY <1>3, ReleaseType DEF Ack
  <1>5. /\ UNCHANGED <<hash, executed, dead, first, delivered, faults, shared>>
        /\ acked' = acked \cup {j} /\ pending' = pending \ {j} /\ idle' = idle \ {j}
    BY <1>2 DEF Ack, streamVars
  <1>6. j \notin shared => Good(j, "idle", 0)'
    BY <1>2, <1>5 DEF Good, Tells, Works, Ends, InHand, Unsettled
  <1>7. LetsGo(w, j)
    BY <1>2, <1>4, <1>5, <1>6 DEF LetsGo, Only
  <1> QED
    BY <1>7, LetsGoKeeps

-----------------------------------------------------------------------------
(* Commands that hold no job yet, faults and the passing of time.           *)
PicksUp(w) ==
    /\ JobOf(w) = NoJob /\ UNCHANGED <<hash, dead, executed, faults, acked>>
    /\ \A v \in Workers \ {w} : worker'[v] = worker[v]
    /\ shared \subseteq shared'
    /\ \/ worker'[w].job = NoJob
       \/ /\ worker'[w].at = "received"
          /\ worker'[w].job \in shared' \/ \A v \in Workers : JobOf(v) # worker'[w].job

LEMMA PickingUp ==
    ASSUME Lone, NEW w \in Workers, PicksUp(w)
    PROVE  OneHolder' /\ Jobs'
  <1>1. OneHolder'
    BY DEF Lone, PicksUp, OneHolder, JobOf
  <1>2. Jobs'
    <2> SUFFICES ASSUME NEW k \in Job \ shared'
                 PROVE  /\ (\A v \in Workers : JobOf(v)' # k) => Good(k, "idle", 0)'
                        /\ \A v \in Workers : JobOf(v)' = k =>
                               Good(k, worker[v].at, worker[v].attempt)'
      BY DEF Jobs
    <2>0. k # NoJob /\ k \in Job \ shared
      BY DEF Job, NoJob, PicksUp
    <2>1. \A q, b : Good(k, q, b) => Good(k, q, b)'
      BY DEF PicksUp, Good, Tells, Works, Ends, Unsettled
    <2>2. \A b : Good(k, "idle", 0) => Good(k, "received", b)
      BY DEF Good, Tells, Works, Ends, InHand
    <2>3. ASSUME \A v \in Workers : JobOf(v)' # k
          PROVE  Good(k, "idle", 0)'
      <3>1. \A v \in Workers : JobOf(v) # k
        BY <2>0, <2>3 DEF PicksUp, JobOf
      <3> QED
        BY <2>0, <2>1, <3>1 DEF Lone, Jobs
    <2>4. ASSUME NEW v \in Workers, JobOf(v)' = k
          PROVE  Good(k, worker[v].at, worker[v].attempt)'
      <3>1. PICK q, b : q = worker'[v].at /\ b = worker'[v].attempt
        OBVIOUS
      <3>2. Good(k, q, b)
        <4>1. CASE v = w
          BY <2>0, <2>2, <2>4, <3>1, <4>1 DEF PicksUp, Lone, Jobs, JobOf
        <4>2. CASE v # w
          BY <2>0, <2>4, <3>1, <4>2 DEF PicksUp, Lone, Jobs, JobOf
        <4> QED
          BY <4>1, <4>2
      <3>3. Good(k, q, b)'
        BY <2>1, <3>2
      <3> QED
        BY <3>1, <3>3
    <2> QED
      BY <2>3, <2>4
  <1> QED
    BY <1>1, <1>2

LEMMA AutoClaimKeeps ==
    ASSUME Lone, Typing', NEW w \in Workers, AutoClaim(w)
    PROVE  Lone'
  <1>1. /\ worker \in [Workers -> Loop] /\ JobOf(w) = NoJob /\ first \in Int
        /\ UNCHANGED <<first, delivered, acked, hash, dead, executed, faults>>
        /\ idle \subseteq pending /\ pending \subseteq Job
    BY DEF AutoClaim, Lone, Typing, TypeOK, GroupSubmitted, Holding, At, streamVars
  <1>2. CASE Goto(w, "reading") /\ UNCHANGED <<pending, idle, shared>>
    <2>1. /\ worker'[w].job = NoJob
          /\ \A v \in Workers \ {w} : worker'[v] = worker[v]
      BY <1>1, <1>2, GotoType DEF Points, JobOf
    <2>2. PicksUp(w)
      BY <1>1, <1>2, <2>1 DEF PicksUp
    <2> QED
      BY <1>1, <1>2, <2>1, <2>2, PickingUp DEF Lone, Delivered, Held, JobOf
  <1>3. ASSUME NEW j \in Claimable, idle' = idle \ {j}, j < first,
               pending' = pending \ {j}, Goto(w, "reading"), UNCHANGED shared
        PROVE  Lone'
    <2>1. /\ worker'[w].job = NoJob
          /\ \A v \in Workers \ {w} : worker'[v] = worker[v]
      BY <1>1, <1>3, GotoType DEF Points, JobOf
    <2>2. PicksUp(w)
      BY <1>1, <1>3, <2>1 DEF PicksUp
    <2> QED
      BY <1>1, <1>3, <2>1, <2>2, PickingUp DEF Lone, Delivered, Held, JobOf
  <1>4. ASSUME NEW j \in Claimable, idle' = idle \ {j}, j >= first, Hold(w, j),
               shared' = IF HeldBySome(j) THEN shared \cup {j} ELSE shared,
               UNCHANGED pending
        PROVE  Lone'
    <2>1. j \in pending /\ j \in Job /\ j # NoJob
      BY <1>1, <1>4 DEF Claimable, Job, NoJob
    <2>2. /\ worker'[w].at = "received" /\ worker'[w].job = j
          /\ \A v \in Workers \ {w} : worker'[v] = worker[v]
      BY <1>1, <1>4, <2>1, HoldType
    <2>3. shared \subseteq shared' /\ (j \in shared' \/ \A v \in Workers : JobOf(v) # j)
      BY <1>4 DEF HeldBySome, JobOf
    <2>4. j <= delivered /\ j \notin acked
      BY <2>1 DEF Lone, Delivered
    <2>5. PicksUp(w)
      BY <1>1, <2>2, <2>3 DEF PicksUp
    <2> QED
      BY <1>1, <1>4, <2>2, <2>3, <2>4, <2>5, PickingUp DEF Lone, Delivered, Held, JobOf
  <1> QED
    BY <1>2, <1>3, <1>4 DEF AutoClaim

LEMMA ReadGroupKeeps ==
    ASSUME Lone, Typing', NEW w \in Workers, ReadGroup(w)
    PROVE  Lone'
  <1>1. /\ worker \in [Workers -> Loop] /\ JobOf(w) = NoJob /\ first \in Int /\ next \in Int
        /\ first >= 1 /\ next <= MaxJobs + 1 /\ MaxJobs \in Nat
        /\ UNCHANGED <<first, idle, acked, shared, hash, dead, executed, faults>>
        /\ idle \subseteq pending /\ delivered \in Nat
    BY BoundsAssumption
    DEF ReadGroup, Lone, Typing, TypeOK, GroupSubmitted, Holding, Delivered, At
  <1>2. CASE Release(w) /\ UNCHANGED <<delivered, pending>>
    <2>1. /\ worker'[w].job = NoJob
          /\ \A v \in Workers \ {w} : worker'[v] = worker[v]
      BY <1>1, <1>2, ReleaseType, IdleFacts
    <2>2. PicksUp(w)
      BY <1>1, <2>1 DEF PicksUp
    <2> QED
      BY <1>1, <1>2, <2>1, <2>2, PickingUp DEF Lone, Delivered, Held, JobOf
  <1>3. ASSUME NEW j \in Undelivered, IsOldest(j, Undelivered), delivered' = j,
               pending' = pending \cup {j}, Hold(w, j)
        PROVE  Lone'
    <2>1. j \in Job /\ j > delivered /\ j \in Nat
      BY <1>1 DEF Undelivered, Entries, Job
    <2>2. /\ worker'[w].at = "received" /\ worker'[w].job = j
          /\ \A v \in Workers \ {w} : worker'[v] = worker[v]
      BY <1>1, <1>3, <2>1, HoldType
    <2>3. \A v \in Workers : JobOf(v) # NoJob => JobOf(v) \in Job /\ JobOf(v) <= delivered
      BY <1>1 DEF Lone, Held, Typing, TypeOK, Loop, JobOf
    <2>4. \A v \in Workers : JobOf(v) # j
      BY <1>1, <2>1, <2>3 DEF Job, NoJob
    <2>5. \A k \in 1..j : k > delivered /\ k # j => k < first
      BY <1>1, <1>3, <2>1 DEF IsOldest, Undelivered, Entries
    <2>6. j \notin acked
      BY <1>1, <2>1 DEF Lone, Delivered
    <2>7. Delivered'
      BY <1>1, <1>3, <2>1, <2>5, <2>6 DEF Lone, Delivered
    <2>8. Held'
      <3>1. \A v \in Workers \ {w} : JobOf(v) # NoJob => JobOf(v) <= j
        BY <1>1, <2>1, <2>3 DEF Job
      <3> QED
        BY <1>1, <1>3, <2>1, <2>2, <2>6, <3>1 DEF Lone, Held, JobOf
    <2>9. PicksUp(w)
      BY <1>1, <2>2, <2>4 DEF PicksUp
    <2> QED
      BY <2>7, <2>8, <2>9, PickingUp DEF Lone
  <1> QED
    BY <1>2, <1>3 DEF ReadGroup

(* A fault allows for one more attempt and one more dead letter.            *)
LEMMA GoodAfterFault ==
    ASSUME NEW k, NEW p, NEW a, Good(k, p, a), faults \in Nat, MaxAttempts \in Nat,
           hash[k].attempts \in Nat, dead[k] \in Nat,
           UNCHANGED <<hash, dead, executed, acked>>, faults' = faults + 1
    PROVE  Good(k, p, a)' /\ Good(k, "idle", 0)'
  BY DEF Good, Tells, Works, Ends, InHand, Unsettled

LEMMA FaultKeeps ==
    ASSUME Lone, Typing', WorkerDies \/ \E w \in Workers : ReceiveFails(w)
    PROVE  Lone'
  <1>1. /\ UNCHANGED <<first, delivered, pending, idle, acked, shared, hash, dead, executed>>
        /\ faults' = faults + 1
    BY DEF WorkerDies, ReceiveFails, streamVars, groupVars
  <1>2. \A v \in Workers : worker'[v] = worker[v] \/ worker'[v] = Idle
    BY ReleaseType DEF WorkerDies, ReceiveFails, Lone, Typing, TypeOK
  <1>3. Delivered' /\ Held' /\ OneHolder'
    BY <1>1, <1>2, IdleFacts DEF Lone, Delivered, Held, OneHolder, JobOf
  <1>4. Jobs'
    <2> SUFFICES ASSUME NEW k \in Job \ shared
                 PROVE  /\ Good(k, "idle", 0)'
                        /\ \A v \in Workers : JobOf(v)' = k =>
                               Good(k, worker[v].at, worker[v].attempt)'
      BY <1>1 DEF Jobs
    <2>1. /\ faults \in Nat /\ MaxAttempts \in Nat /\ hash[k].attempts \in Nat
          /\ dead[k] \in Nat /\ k # NoJob
      BY BoundsAssumption DEF Lone, Typing, TypeOK, Hash, Job, NoJob
    <2>2. \A q, b : Good(k, q, b) => Good(k, q, b)' /\ Good(k, "idle", 0)'
      BY <1>1, <2>1, GoodAfterFault
    <2>3. Good(k, "idle", 0)'
      <3>1. CASE \A v \in Workers : JobOf(v) # k
        BY <2>2, <3>1 DEF Lone, Jobs
      <3>2. CASE \E v \in Workers : JobOf(v) = k
        <4>1. PICK v \in Workers : JobOf(v) = k
          BY <3>2
        <4>2. \E q, b : Good(k, q, b)
          BY <4>1 DEF Lone, Jobs
        <4> QED
          BY <2>2, <4>2
      <3> QED
        BY <3>1, <3>2
    <2>4. ASSUME NEW v \in Workers, JobOf(v)' = k
          PROVE  Good(k, worker[v].at, worker[v].attempt)'
      <3>1. PICK q, b : q = worker'[v].at /\ b = worker'[v].attempt
        OBVIOUS
      <3>2. worker'[v] = worker[v]
        BY <1>2, <2>1, <2>4, IdleFacts DEF JobOf
      <3>3. Good(k, q, b)'
        BY <2>2, <2>4, <3>1, <3>2 DEF Lone, Jobs, JobOf
      <3> QED
        BY <3>1, <3>3
    <2> QED
      BY <2>3, <2>4
  <1> QED
    BY <1>3, <1>4 DEF Lone

(* Steps between commands: loops stay where they are.                       *)
Between ==
    /\ UNCHANGED <<worker, dead, executed, acked, shared, faults, delivered, pending>>
    /\ first <= first' /\ first \in Int /\ first' \in Int

LEMMA BetweenKeeps ==
    ASSUME Lone, Typing', Between,
           \A k \in Job : \A q, b :
               (Good(k, q, b) /\ (\/ q = "idle" /\ \A w \in Workers : JobOf(w) # k
                                  \/ \E w \in Workers : JobOf(w) = k /\ b = worker[w].attempt))
                   => Good(k, q, b)'
    PROVE  Lone'
  <1>1. Delivered' /\ Held' /\ OneHolder'
    BY DEF Between, Lone, Delivered, Held, OneHolder, JobOf
  <1>2. Jobs'
    <2> SUFFICES ASSUME NEW k \in Job \ shared
                 PROVE  /\ (\A v \in Workers : JobOf(v)' # k) => Good(k, "idle", 0)'
                        /\ \A v \in Workers : JobOf(v)' = k =>
                               Good(k, worker[v].at, worker[v].attempt)'
      BY DEF Jobs, Between
    <2>1. worker' = worker
      BY DEF Between
    <2>2. ASSUME \A v \in Workers : JobOf(v)' # k
          PROVE  Good(k, "idle", 0)'
      BY <2>1, <2>2 DEF Lone, Jobs, JobOf
    <2>3. ASSUME NEW v \in Workers, JobOf(v)' = k
          PROVE  Good(k, worker[v].at, worker[v].attempt)'
      <3>1. PICK q, b : q = worker[v].at /\ b = worker[v].attempt
        OBVIOUS
      <3>2. Good(k, q, b) /\ JobOf(v) = k
        BY <2>1, <2>3, <3>1 DEF Lone, Jobs, JobOf
      <3>3. Good(k, q, b)'
        BY <3>1, <3>2
      <3> QED
        BY <2>1, <3>1, <3>3
    <2> QED
      BY <2>2, <2>3
  <1> QED
    BY <1>1, <1>2 DEF Lone

LEMMA TimeKeeps ==
    ASSUME Lone, Typing',
           \/ \E q \in Requests : RateLimited(q) \/ ExpireDedup(q)
           \/ \E c \in Callers : ExpireWindow(c)
           \/ \E j \in Job : Age(j)
           \/ UNCHANGED vars
    PROVE  Lone'
  <1>1. Between /\ UNCHANGED hash
    BY DEF Between, RateLimited, ExpireDedup, ExpireWindow, Age, vars, streamVars,
           groupVars, Lone, Typing, TypeOK
  <1>3. \A k \in Job : \A q, b : Good(k, q, b) => Good(k, q, b)'
    BY <1>1 DEF Between, Good, Tells, Works, Ends, Unsettled
  <1> QED
    BY <1>1, <1>3, BetweenKeeps

LEMMA ExpireStatusKeeps ==
    ASSUME Lone, Typing', NEW j \in Job, ExpireStatus(j)
    PROVE  Lone'
  <1>1. /\ Between /\ hash' = [hash EXCEPT ![j] = EmptyHash]
        /\ hash \in [Job -> Hash] /\ faults \in Nat /\ MaxAttempts \in Nat /\ MaxAttempts > 0
        /\ \A w \in Workers : worker[w].attempt \in Nat
    BY BoundsAssumption
    DEF ExpireStatus, Between, streamVars, groupVars, Lone, Typing, TypeOK, Loop
  <1>2. /\ hash'[j].status = "NONE" /\ hash'[j].attempts = 0
        /\ \A k \in Job \ {j} : hash'[k] = hash[k]
    BY <1>1 DEF EmptyHash
  <1>4. ASSUME NEW k \in Job, NEW q, NEW b, Good(k, q, b), q = "idle" \/ b \in Nat
        PROVE  Good(k, q, b)'
    <2>1. CASE k = j
      BY <1>1, <1>2, <1>4, <2>1
      DEF Between, Good, Tells, Works, Ends, InHand, Unsettled
    <2>2. CASE k # j
      BY <1>1, <1>2, <1>4, <2>2, GoodKept DEF Between
    <2> QED
      BY <2>1, <2>2
  <1> QED
    BY <1>1, <1>4, BetweenKeeps

LEMMA EnqueueKeeps ==
    ASSUME Lone, Typing', NEW r \in Requests, Enqueue(r)
    PROVE  Lone'
  <1>1. /\ Between /\ hash' = [hash EXCEPT ![next] = QueuedHash]
        /\ hash \in [Job -> Hash] /\ faults \in Nat /\ MaxAttempts \in Nat /\ MaxAttempts > 0
        /\ next \in Job /\ next \notin acked
        /\ \A w \in Workers : JobOf(w) # next
    <2>1. first' \in Int /\ first <= first' /\ first \in Int
      BY DEF Enqueue, Trimmed, Lone, Typing, TypeOK
    <2>2. /\ acked \subseteq 1..(next - 1) /\ next \in Job /\ next \in Nat
          /\ \A w \in Workers : JobOf(w) \in (1..(next - 1)) \cup {0}
      <3>1. next \in Job /\ next \in Nat
        BY BoundsAssumption DEF Enqueue, Lone, Typing, TypeOK, Job
      <3>2. acked \subseteq 1..(next - 1)
        BY DEF Lone, Typing, GroupSubmitted, Submitted
      <3>3. \A w \in Workers : JobOf(w) \in (1..(next - 1)) \cup {0}
        BY DEF Lone, Typing, Holding, Submitted, JobOf, NoJob
      <3> QED
        BY <3>1, <3>2, <3>3
    <2> QED
      BY <2>1, <2>2, BoundsAssumption
      DEF Enqueue, Between, groupVars, Lone, Typing, TypeOK
  <1>2. /\ hash'[next].status = "QUEUED" /\ hash'[next].attempts = 0
        /\ \A k \in Job \ {next} : hash'[k] = hash[k]
    BY <1>1 DEF QueuedHash
  <1>4. ASSUME NEW k \in Job, NEW q, NEW b, Good(k, q, b), k = next => q = "idle"
        PROVE  Good(k, q, b)'
    <2>1. CASE k = next
      BY <1>1, <1>2, <1>4, <2>1
      DEF Between, Good, Tells, Works, Ends, InHand, Unsettled
    <2>2. CASE k # next
      BY <1>1, <1>2, <1>4, <2>2, GoodKept DEF Between
    <2> QED
      BY <2>1, <2>2
  <1> QED
    BY <1>1, <1>4, BetweenKeeps

LEMMA StepLone ==
    ASSUME Lone, [Next]_vars
    PROVE  Lone'
  <1>1. Typing'
    BY StepTyping DEF Lone
  <1>2. ASSUME NEW w \in Workers, Step(w)
        PROVE  Lone'
    BY <1>1, <1>2, AutoClaimKeeps, ReadGroupKeeps, LoadStatusKeeps, CountAttemptKeeps,
       MarkRunningKeeps, TouchRunningKeeps, StartJobKeeps, JobSucceedsKeeps, JobFailsKeeps,
       RecordSuccessKeeps, TouchSuccessKeeps, RecordFailureKeeps, TouchFailureKeeps,
       DeadLetterKeeps, AckKeeps DEF Step, Receive, Process
  <1> QED
    BY <1>1, <1>2, EnqueueKeeps, TimeKeeps, ExpireStatusKeeps, FaultKeeps DEF Next

LEMMA InitLone == Init => Lone
  <1> SUFFICES ASSUME Init
               PROVE  Lone
    OBVIOUS
  <1>1. Delivered /\ Held /\ OneHolder
    BY IdleFacts DEF Init, Delivered, Held, OneHolder, JobOf
  <1>2. Jobs
    BY IdleFacts, BoundsAssumption
    DEF Init, Jobs, Good, Tells, Works, Ends, InHand, Unsettled, EmptyHash, JobOf, Job, NoJob
  <1> QED
    BY <1>1, <1>2, InitTyping DEF Lone

LEMMA AlwaysLone == Spec => []Lone
  <1>1. Lone /\ [Next]_vars => Lone'
    BY StepLone
  <1> QED
    BY <1>1, InitLone, PTL DEF Spec

(* Whoever holds a job, or nobody, what is told of it is good.              *)
LEMMA JobsAreGood ==
    ASSUME Lone, NEW j \in Job \ shared
    PROVE  \E p, a : /\ Good(j, p, a)
                     /\ j \in acked => p = "idle"
                     /\ \A w \in Workers : JobOf(w) = j => p = worker[w].at
  <1>1. j # NoJob
    BY DEF Job, NoJob
  <1>2. CASE \A w \in Workers : JobOf(w) # j
    BY <1>2 DEF Lone, Jobs
  <1>3. CASE \E w \in Workers : JobOf(w) = j
    <2>1. PICK w \in Workers : JobOf(w) = j
      BY <1>3
    <2>2. Good(j, worker[w].at, worker[w].attempt) /\ j \notin acked
      BY <1>1, <2>1 DEF Lone, Jobs, Held
    <2>3. \A v \in Workers : JobOf(v) = j => v = w
      BY <1>1, <2>1 DEF Lone, OneHolder
    <2> QED
      BY <2>2, <2>3
  <1> QED
    BY <1>2, <1>3

LEMMA LoneTells ==
    ASSUME Lone
    PROVE  /\ UnsettledIsOwed /\ TerminalStatusIsTrue /\ DeadMeansNeverCompleted
           /\ \A j \in Job \ shared :
                  hash[j].attempts <= MaxAttempts + faults /\ dead[j] <= 1 + faults
  <1>1. TerminalStatusIsTrue
    <2>1. \A j \in acked \ shared : j \in Job \ shared
      BY DEF Lone, Typing, TypeOK
    <2> QED
      BY <2>1, JobsAreGood DEF TerminalStatusIsTrue, Good, Tells
  <1>2. \A j \in Job \ shared :
            hash[j].attempts <= MaxAttempts + faults /\ dead[j] <= 1 + faults
    BY JobsAreGood DEF Good, Works
  <1>3. UnsettledIsOwed
    <2> SUFFICES ASSUME NEW j \in Entries, Unsettled(j), j \notin shared
                 PROVE  Owed(j)
      BY DEF UnsettledIsOwed
    <2>1. j \in Job /\ j \in Nat /\ first \in Nat /\ j >= first
      BY BoundsAssumption DEF Entries, Lone, Typing, TypeOK, Job
    <2>2. j \notin acked
      BY <2>1, JobsAreGood DEF Good, Tells
    <2> QED
      BY <2>1, <2>2 DEF Lone, Delivered, Owed, Undelivered, Job
  <1>4. DeadMeansNeverCompleted
    BY JobsAreGood DEF DeadMeansNeverCompleted, Good, Ends
  <1> QED
    BY <1>1, <1>2, <1>3, <1>4

LEMMA OutcomesStay ==
    ASSUME Lone, [Next]_vars, faults = 0, NEW j \in Job \ shared,
           hash[j].status \in {"SUCCEEDED", "FAILED"}
    PROVE  hash'[j].status \in {hash[j].status, "NONE"}
  <1>1. /\ hash \in [Job -> Hash]
        /\ \A w \in Workers : worker[w].at \notin {"idle", "reading"} =>
               /\ JobOf(w) \in Job /\ JobOf(w) # NoJob
               /\ JobOf(w) \in acked => JobOf(w) \in shared
    BY BoundsAssumption
    DEF Lone, Typing, TypeOK, Holding, Held, Submitted, Job, NoJob
  <1>2. \A w \in Workers : worker[w].at \in {"marking", "recordSuccess", "recordFailure"}
                               => JobOf(w) # j
    BY <1>1, JobsAreGood DEF Good, Ends
  <1>3. \A q \in Requests : Enqueue(q) => j # next
    <2> SUFFICES ASSUME NEW q \in Requests, Enqueue(q), j = next
                 PROVE  FALSE
      OBVIOUS
    <2>1. next \notin acked /\ \A w \in Workers : JobOf(w) # next
      BY BoundsAssumption DEF Enqueue, Lone, Typing, TypeOK, GroupSubmitted, Holding,
                              Submitted, Job, NoJob, JobOf
    <2> QED
      BY <2>1 DEF Lone, Jobs, Good, Ends
  <1>4. ASSUME NEW w \in Workers, Step(w)
        PROVE  hash'[j].status = hash[j].status
    <2>1. CASE MarkRunning(w) \/ RecordSuccess(w) \/ RecordFailure(w)
      BY <1>1, <1>2, <2>1 DEF MarkRunning, RecordSuccess, RecordFailure, SetStatus, At
    <2>2. CASE CountAttempt(w)
      BY <1>1, <2>2, CountType DEF CountAttempt, At
    <2>3. CASE TouchRunning(w) \/ TouchSuccess(w) \/ TouchFailure(w)
      BY <1>1, <2>3, TouchType DEF TouchRunning, TouchSuccess, TouchFailure, At
    <2>4. CASE ~(\/ MarkRunning(w) \/ RecordSuccess(w) \/ RecordFailure(w)
                 \/ CountAttempt(w) \/ TouchRunning(w) \/ TouchSuccess(w)
                 \/ TouchFailure(w))
      <3>1. hash' = hash
        BY <1>4, <2>4 DEF Step, Receive, Process, AutoClaim, ReadGroup, LoadStatus,
                          StartJob, JobSucceeds, JobFails, DeadLetter, Ack
      <3> QED
        BY <3>1
    <2> QED
      BY <2>1, <2>2, <2>3, <2>4
  <1>5. ASSUME NEW q \in Requests, Enqueue(q)
        PROVE  hash'[j].status = hash[j].status
    BY <1>1, <1>3, <1>5 DEF Enqueue
  <1>6. ASSUME NEW k \in Job, ExpireStatus(k)
        PROVE  hash'[j].status \in {hash[j].status, "NONE"}
    BY <1>1, <1>6 DEF ExpireStatus, EmptyHash
  <1>7. CASE \/ \E q \in Requests : RateLimited(q) \/ ExpireDedup(q)
             \/ \E c \in Callers : ExpireWindow(c)
             \/ \E w \in Workers : ReceiveFails(w)
             \/ \E k \in Job : Age(k)
             \/ WorkerDies \/ UNCHANGED vars
    <2>1. hash' = hash
      BY <1>7 DEF RateLimited, ExpireDedup, ExpireWindow, ReceiveFails, Age, WorkerDies, vars
    <2> QED
      BY <2>1
  <1> QED
    BY <1>4, <1>5, <1>6, <1>7 DEF Next

-----------------------------------------------------------------------------
(* What a job may cost however many loops share it.  While its entry is     *)
(* pending, only a loop that is past counting with a final attempt, or that *)
(* is about to acknowledge, has spent more than the budget; once the entry  *)
(* is gone every loop may have, but those that have yet to count or report. *)
Spends(w, j) ==
    IF j \in pending
    THEN JobOf(w) = j /\ worker[w].at \notin {"received", "counting"}
             /\ worker[w].attempt >= MaxAttempts
    ELSE JobOf(w) = j => worker[w].at \notin {"received", "counting"}

Reports(w, j) ==
    IF j \in pending THEN JobOf(w) = j /\ worker[w].at = "acking"
    ELSE JobOf(w) = j => worker[w].at = "acking"

Spent(j) == {w \in Workers : Spends(w, j)}
Reported(j) == {w \in Workers : Reports(w, j)}

Ledger(j) ==
    LET lost == Cardinality(Workers) * faults
    IN  /\ hash[j].attempts <= MaxAttempts - 1 + Cardinality(Spent(j)) + lost
        /\ dead[j] <= Cardinality(Reported(j)) + lost
        /\ j > delivered => hash[j].attempts = 0 /\ dead[j] = 0

Ledgers == \A j \in Job : Ledger(j)

LEMMA CountOf ==
    ASSUME NEW S \in SUBSET Workers
    PROVE  /\ IsFiniteSet(S) /\ Cardinality(S) \in Nat
           /\ Cardinality(S) <= Cardinality(Workers)
           /\ \A T \in SUBSET S : Cardinality(T) <= Cardinality(S)
           /\ \A w \in S : \A T \in SUBSET (S \ {w}) : Cardinality(T) + 1 <= Cardinality(S)
  <1>1. IsFiniteSet(S) /\ Cardinality(S) <= Cardinality(Workers)
    BY WorkersAssumption, FS_Subset
  <1>2. \A T \in SUBSET S : Cardinality(T) <= Cardinality(S)
    BY <1>1, FS_Subset
  <1>3. ASSUME NEW w \in S, NEW T \in SUBSET (S \ {w})
        PROVE  Cardinality(T) + 1 <= Cardinality(S)
    <2>1. IsFiniteSet(S \ {w}) /\ Cardinality(S \ {w}) = Cardinality(S) - 1
      BY <1>1, FS_RemoveElement
    <2>2. IsFiniteSet(T) /\ Cardinality(T) <= Cardinality(S \ {w})
      BY <2>1, FS_Subset
    <2>3. Cardinality(S) \in Nat /\ Cardinality(T) \in Nat
      BY <1>1, <2>2, FS_CardinalityType
    <2> QED
      BY <2>1, <2>2, <2>3
  <1>4. Cardinality(S) \in Nat
    BY <1>1, FS_CardinalityType
  <1> QED
    BY <1>1, <1>2, <1>3, <1>4

LEMMA Numbers ==
    ASSUME Typing
    PROVE  /\ Cardinality(Workers) \in Nat /\ faults \in Nat
           /\ Cardinality(Workers) * faults \in Nat
           /\ MaxAttempts \in Nat /\ MaxAttempts > 0 /\ delivered \in Nat
           /\ \A j \in Job : hash[j].attempts \in Nat /\ dead[j] \in Nat /\ j \in Nat
  <1>1. /\ faults \in Nat /\ MaxAttempts \in Nat /\ MaxAttempts > 0 /\ delivered \in Nat
        /\ \A j \in Job : hash[j] \in Hash /\ dead[j] \in Nat /\ j \in Nat
    BY BoundsAssumption DEF Typing, TypeOK, Job, NoJob
  <1>2. \A j \in Job : hash[j].attempts \in Nat
    BY <1>1 DEF Hash
  <1>3. Cardinality(Workers) \in Nat
    BY CountOf
  <1> QED
    BY <1>1, <1>2, <1>3

(* A job's ledger holds on if whatever the step adds is of a loop that had  *)
(* not spent, or not reported, before it and has afterwards.                *)
LEMMA LedgerKept ==
    ASSUME Typing, Typing', NEW j \in Job, Ledger(j), faults' = faults,
           j > delivered' => hash'[j].attempts = 0 /\ dead'[j] = 0,
           \/ /\ hash'[j].attempts <= hash[j].attempts
              /\ \A v \in Workers : Spends(v, j) => Spends(v, j)'
           \/ \E w \in Workers :
                  /\ hash'[j].attempts = hash[j].attempts + 1 /\ ~Spends(w, j)
                  /\ \A v \in Workers : Spends(v, j) \/ v = w => Spends(v, j)'
           \/ hash'[j].attempts < MaxAttempts,
           \/ /\ dead'[j] = dead[j]
              /\ \A v \in Workers : Reports(v, j) => Reports(v, j)'
           \/ \E w \in Workers :
                  /\ dead'[j] = dead[j] + 1 /\ ~Reports(w, j)
                  /\ \A v \in Workers : Reports(v, j) \/ v = w => Reports(v, j)'
    PROVE  Ledger(j)'
  <1>1. PICK A \in SUBSET Workers, B \in SUBSET Workers,
             C \in SUBSET Workers, D \in SUBSET Workers :
            A = Spent(j) /\ B = Spent(j)' /\ C = Reported(j) /\ D = Reported(j)'
    BY DEF Spent, Reported
  <1>2. PICK lost \in Nat : lost = Cardinality(Workers) * faults
    BY Numbers
  <1>3. /\ Cardinality(A) \in Nat /\ Cardinality(B) \in Nat
        /\ Cardinality(C) \in Nat /\ Cardinality(D) \in Nat
    BY CountOf
  <1>4. /\ hash[j].attempts \in Nat /\ dead[j] \in Nat /\ MaxAttempts \in Nat
        /\ hash'[j].attempts \in Nat /\ dead'[j] \in Nat
    BY Numbers DEF Typing, TypeOK, Hash
  <1>5. /\ hash[j].attempts <= MaxAttempts - 1 + Cardinality(A) + lost
        /\ dead[j] <= Cardinality(C) + lost
    BY <1>1, <1>2 DEF Ledger
  <1>6. hash'[j].attempts <= MaxAttempts - 1 + Cardinality(B) + lost
    <2>1. CASE /\ hash'[j].attempts <= hash[j].attempts
               /\ \A v \in Workers : Spends(v, j) => Spends(v, j)'
      <3>1. A \subseteq B
        BY <1>1, <2>1 DEF Spent
      <3>2. Cardinality(A) <= Cardinality(B)
        BY <3>1, CountOf
      <3> QED
        BY <1>3, <1>4, <1>5, <2>1, <3>2
    <2>2. ASSUME NEW w \in Workers,
                 hash'[j].attempts = hash[j].attempts + 1, ~Spends(w, j),
                 \A v \in Workers : Spends(v, j) \/ v = w => Spends(v, j)'
          PROVE  hash'[j].attempts <= MaxAttempts - 1 + Cardinality(B) + lost
      <3>1. w \in B /\ A \in SUBSET (B \ {w})
        BY <1>1, <2>2 DEF Spent
      <3>2. Cardinality(A) + 1 <= Cardinality(B)
        BY <3>1, CountOf
      <3> QED
        BY <1>3, <1>4, <1>5, <2>2, <3>2
    <2>3. CASE hash'[j].attempts < MaxAttempts
      BY <1>3, <1>4, <2>3
    <2> QED
      BY <2>1, <2>2, <2>3
  <1>7. dead'[j] <= Cardinality(D) + lost
    <2>1. CASE /\ dead'[j] = dead[j]
               /\ \A v \in Workers : Reports(v, j) => Reports(v, j)'
      <3>1. C \subseteq D
        BY <1>1, <2>1 DEF Reported
      <3>2. Cardinality(C) <= Cardinality(D)
        BY <3>1, CountOf
      <3> QED
        BY <1>3, <1>4, <1>5, <2>1, <3>2
    <2>2. ASSUME NEW w \in Workers, dead'[j] = dead[j] + 1, ~Reports(w, j),
                 \A v \in Workers : Reports(v, j) \/ v = w => Reports(v, j)'
          PROVE  dead'[j] <= Cardinality(D) + lost
      <3>1. w \in D /\ C \in SUBSET (D \ {w})
        BY <1>1, <2>2 DEF Reported
      <3>2. Cardinality(C) + 1 <= Cardinality(D)
        BY <3>1, CountOf
      <3> QED
        BY <1>3, <1>4, <1>5, <2>2, <3>2
    <2> QED
      BY <2>1, <2>2
  <1> QED
    BY <1>1, <1>2, <1>6, <1>7 DEF Ledger

(* A fault pays for every loop, whatever they had spent.                    *)
LEMMA FaultPays ==
    ASSUME Typing, Typing', Ledgers, faults' = faults + 1,
           UNCHANGED <<hash, dead, delivered>>
    PROVE  Ledgers'
  <1> SUFFICES ASSUME NEW j \in Job
               PROVE  Ledger(j)'
    BY DEF Ledgers
  <1>1. PICK A \in SUBSET Workers, B \in SUBSET Workers,
             C \in SUBSET Workers, D \in SUBSET Workers :
            A = Spent(j) /\ B = Spent(j)' /\ C = Reported(j) /\ D = Reported(j)'
    BY DEF Spent, Reported
  <1>2. PICK n \in Nat : n = Cardinality(Workers)
    BY Numbers
  <1>3. /\ Cardinality(A) \in Nat /\ Cardinality(A) <= n /\ Cardinality(B) \in Nat
        /\ Cardinality(C) \in Nat /\ Cardinality(C) <= n /\ Cardinality(D) \in Nat
    BY <1>2, CountOf
  <1>4. PICK lost \in Nat : lost = n * faults /\ n * (faults + 1) = lost + n
    BY <1>2, Numbers
  <1>5. /\ hash[j].attempts \in Nat /\ dead[j] \in Nat /\ MaxAttempts \in Nat
    BY Numbers
  <1>6. /\ hash[j].attempts <= MaxAttempts - 1 + Cardinality(A) + lost
        /\ dead[j] <= Cardinality(C) + lost
        /\ j > delivered => hash[j].attempts = 0 /\ dead[j] = 0
    BY <1>1, <1>2, <1>4 DEF Ledgers, Ledger
  <1>7. /\ hash[j].attempts <= MaxAttempts - 1 + Cardinality(B) + (lost + n)
        /\ dead[j] <= Cardinality(D) + (lost + n)
    BY <1>2, <1>3, <1>5, <1>6
  <1> QED
    BY <1>1, <1>2, <1>4, <1>6, <1>7 DEF Ledger

(* One loop's step on its own job.                                          *)
LEMMA HolderPays ==
    ASSUME Typing, Typing', Ledgers, NEW w \in Workers, NEW j \in Job, JobOf(w) = j,
           j <= delivered, UNCHANGED <<delivered, faults>>,
           \A v \in Workers \ {w} : worker'[v] = worker[v],
           worker'[w].job \in {j, NoJob},
           pending' = pending \/ pending' = pending \ {j},
           \A k \in Job \ {j} : hash'[k].attempts = hash[k].attempts /\ dead'[k] = dead[k],
           \/ hash'[j].attempts = hash[j].attempts /\ (Spends(w, j) => Spends(w, j)')
           \/ /\ hash'[j].attempts = hash[j].attempts + 1 /\ ~Spends(w, j)
              /\ Spends(w, j)' \/ hash'[j].attempts < MaxAttempts,
           \/ dead'[j] = dead[j] /\ (Reports(w, j) => Reports(w, j)')
           \/ dead'[j] = dead[j] + 1 /\ ~Reports(w, j) /\ Reports(w, j)'
    PROVE  Ledgers'
  <1>1. delivered \in Nat /\ \A k \in Job : k \in Nat /\ hash[k].attempts \in Nat
    BY Numbers
  <1>2. ASSUME NEW v \in Workers, NEW k \in Job, v # w \/ k # j
        PROVE  /\ Spends(v, k) => Spends(v, k)'
               /\ Reports(v, k) => Reports(v, k)'
    <2>1. CASE v # w
      BY <2>1 DEF Spends, Reports, JobOf
    <2>2. CASE k # j
      BY <1>2, <2>2 DEF Spends, Reports, JobOf, Job, NoJob
    <2> QED
      BY <1>2, <2>1, <2>2
  <1> SUFFICES ASSUME NEW k \in Job
               PROVE  Ledger(k)'
    BY DEF Ledgers
  <1>3. Ledger(k) /\ (k > delivered => hash[k].attempts = 0 /\ dead[k] = 0)
    BY DEF Ledgers, Ledger
  <1>4. CASE k # j
    <2>1. \A v \in Workers : (Spends(v, k) => Spends(v, k)') /\ (Reports(v, k) => Reports(v, k)')
      BY <1>2, <1>4
    <2> QED
      BY <1>1, <1>3, <1>4, <2>1, LedgerKept
  <1>5. CASE k = j
    <2>1. /\ (Spends(w, j) => Spends(w, j)') => \A v \in Workers : Spends(v, j) => Spends(v, j)'
          /\ (Reports(w, j) => Reports(w, j)') =>
                 \A v \in Workers : Reports(v, j) => Reports(v, j)'
          /\ Spends(w, j)' => \A v \in Workers : Spends(v, j) \/ v = w => Spends(v, j)'
          /\ Reports(w, j)' => \A v \in Workers : Reports(v, j) \/ v = w => Reports(v, j)'
      BY <1>2
    <2>2. ~(j > delivered')
      BY <1>1
    <2> QED
      BY <1>1, <1>3, <1>5, <2>1, <2>2, LedgerKept
  <1> QED
    BY <1>4, <1>5

(* The commands between counting an attempt and acknowledging or giving up. *)
LEMMA OnwardPays ==
    ASSUME Lone, Typing', Ledgers, NEW w \in Workers, NEW p \in InHand,
           worker[w].at \in InHand \ {"acking"}, Goto(w, p),
           \A k \in Job : hash'[k].attempts = hash[k].attempts,
           UNCHANGED <<delivered, faults, pending, dead>>
    PROVE  Ledgers'
  <1>1. PICK j \in Job : JobOf(w) = j /\ j <= delivered
    BY HolderFacts DEF Lone, Held, InHand, Job, NoJob
  <1>2. /\ worker'[w].at = p /\ worker'[w].job = j
        /\ worker'[w].attempt = worker[w].attempt
        /\ \A v \in Workers \ {w} : worker'[v] = worker[v]
    BY <1>1, GotoType DEF Lone, Typing, TypeOK, Points, InHand, JobOf
  <1>3. /\ Spends(w, j) => Spends(w, j)'
        /\ Reports(w, j) => Reports(w, j)'
    BY <1>1, <1>2 DEF Spends, Reports, JobOf, InHand
  <1> QED
    BY <1>1, <1>2, <1>3, HolderPays DEF Lone

LEMMA InHandPays ==
    ASSUME Lone, Typing', Ledgers, NEW w \in Workers,
           \/ MarkRunning(w) \/ TouchRunning(w) \/ StartJob(w) \/ JobSucceeds(w)
           \/ JobFails(w) \/ RecordSuccess(w) \/ TouchSuccess(w) \/ RecordFailure(w)
           \/ TouchFailure(w) /\ Terminal(w)
    PROVE  Ledgers'
  <1>1. /\ hash \in [Job -> Hash]
        /\ worker[w].at \in InHand \ {"acking"} => JobOf(w) \in Job
    BY HolderFacts DEF Lone, Typing, TypeOK, InHand
  <1>2. worker[w].at \in InHand \ {"acking"} /\ UNCHANGED <<delivered, faults, pending, dead>>
    BY DEF MarkRunning, TouchRunning, StartJob, JobSucceeds, JobFails, RecordSuccess,
           TouchSuccess, RecordFailure, TouchFailure, InHand, At, streamVars, groupVars
  <1>3. \E p \in InHand : Goto(w, p)
    BY DEF MarkRunning, TouchRunning, StartJob, JobSucceeds, JobFails, RecordSuccess,
           TouchSuccess, RecordFailure, TouchFailure, InHand
  <1>4. \A k \in Job : hash'[k].attempts = hash[k].attempts
    <2>1. CASE MarkRunning(w)
      BY <1>1, <1>2, <2>1, SetStatusType DEF MarkRunning, Status
    <2>2. CASE RecordFailure(w)
      <3>1. PICK s \in Status : SetStatus(JobOf(w), s)
        BY <2>2 DEF RecordFailure, Status
      <3> QED
        BY <1>1, <1>2, <3>1, SetStatusType
    <2>3. CASE TouchRunning(w) \/ TouchSuccess(w) \/ TouchFailure(w)
      BY <1>1, <1>2, <2>3, TouchType DEF TouchRunning, TouchSuccess, TouchFailure
    <2>4. CASE RecordSuccess(w)
      BY <1>1, <1>2, <2>4, SuccessType DEF RecordSuccess
    <2>5. CASE StartJob(w) \/ JobSucceeds(w) \/ JobFails(w)
      BY <2>5 DEF StartJob, JobSucceeds, JobFails
    <2> QED
      BY <2>1, <2>2, <2>3, <2>4, <2>5
  <1> QED
    BY <1>2, <1>3, <1>4, OnwardPays

LEMMA CountingPays ==
    ASSUME Lone, Typing', Ledgers, NEW w \in Workers, CountAttempt(w)
    PROVE  Ledgers'
  <1>1. worker[w].at = "counting" /\ UNCHANGED <<delivered, faults, pending, dead>>
    BY DEF CountAttempt, At, streamVars, groupVars
  <1>2. PICK j \in Job : JobOf(w) = j /\ j <= delivered
    BY <1>1, HolderFacts DEF Lone, Held, Job, NoJob
  <1>3. PICK n \in Nat : n = hash[j].attempts + 1
    BY Numbers DEF Lone
  <1>4. /\ worker'[w].at = "marking" /\ worker'[w].job = j /\ worker'[w].attempt = n
        /\ \A v \in Workers \ {w} : worker'[v] = worker[v]
    BY <1>2, <1>3, AttemptType DEF CountAttempt, Lone, Typing, TypeOK, JobOf
  <1>5. hash'[j].attempts = n /\ \A k \in Job \ {j} : hash'[k] = hash[k]
    BY <1>2, <1>3, CountType DEF CountAttempt, Lone, Typing, TypeOK
  <1>6. ~Spends(w, j) /\ (Spends(w, j)' \/ n < MaxAttempts)
    BY <1>1, <1>2, <1>3, <1>4, Numbers DEF Lone, Spends, JobOf
  <1>7. Reports(w, j) => Reports(w, j)'
    BY <1>1, <1>2 DEF Reports
  <1> QED
    BY <1>1, <1>2, <1>3, <1>4, <1>5, <1>6, <1>7, HolderPays DEF Lone

LEMMA DeadLetterPays ==
    ASSUME Lone, Typing', Ledgers, NEW w \in Workers, DeadLetter(w)
    PROVE  Ledgers'
  <1>1. worker[w].at = "deadLetter" /\ UNCHANGED <<delivered, faults, pending, hash>>
    BY DEF DeadLetter, At, streamVars, groupVars
  <1>2. PICK j \in Job : JobOf(w) = j /\ j <= delivered
    BY <1>1, HolderFacts DEF Lone, Held, Job, NoJob
  <1>3. /\ worker'[w].at = "acking" /\ worker'[w].job = j
        /\ worker'[w].attempt = worker[w].attempt
        /\ \A v \in Workers \ {w} : worker'[v] = worker[v]
    BY <1>2, GotoType DEF DeadLetter, Lone, Typing, TypeOK, Points, JobOf
  <1>4. dead'[j] = dead[j] + 1 /\ \A k \in Job \ {j} : dead'[k] = dead[k]
    BY <1>2 DEF DeadLetter, Lone, Typing, TypeOK
  <1>5. /\ Spends(w, j) => Spends(w, j)'
        /\ ~Reports(w, j) /\ Reports(w, j)'
    BY <1>1, <1>2, <1>3 DEF Spends, Reports, JobOf
  <1> QED
    BY <1>1, <1>2, <1>3, <1>4, <1>5, HolderPays DEF Lone

(* Letting go: the status cannot be read, the attempt may be repeated, or   *)
(* the entry has been acknowledged.                                         *)
LEMMA ReleasePays ==
    ASSUME Lone, Typing', Ledgers, NEW w \in Workers, Release(w),
           \A k \in Job : hash'[k].attempts = hash[k].attempts,
           UNCHANGED <<delivered, faults, dead>>,
           \/ worker[w].at = "received" /\ pending' = pending
           \/ /\ worker[w].at = "touchFailure" /\ ~(worker[w].attempt >= MaxAttempts)
              /\ pending' = pending
           \/ worker[w].at = "acking" /\ pending' = pending \ {JobOf(w)}
    PROVE  Ledgers'
  <1>1. PICK j \in Job : JobOf(w) = j /\ j <= delivered
    BY HolderFacts DEF Lone, Held, Job, NoJob
  <1>2. worker'[w] = Idle /\ \A v \in Workers \ {w} : worker'[v] = worker[v]
    BY ReleaseType DEF Lone, Typing, TypeOK
  <1>3. worker'[w].job = NoJob /\ NoJob # j
    BY <1>2, IdleFacts DEF Job, NoJob
  <1>4. /\ Spends(w, j) => Spends(w, j)'
        /\ Reports(w, j) => Reports(w, j)'
    BY <1>1, <1>3 DEF Spends, Reports, JobOf
  <1> QED
    BY <1>1, <1>2, <1>3, <1>4, HolderPays DEF Lone

LEMMA LoadStatusPays ==
    ASSUME Lone, Typing', Ledgers, NEW w \in Workers, LoadStatus(w)
    PROVE  Ledgers'
  <1>1. worker[w].at = "received" /\ UNCHANGED <<delivered, faults, pending, hash, dead>>
    BY DEF LoadStatus, At, streamVars, groupVars
  <1>2. CASE Release(w)
    BY <1>1, <1>2, ReleasePays
  <1>3. ASSUME NEW p \in {"acking", "counting"}, Goto(w, p)
        PROVE  Ledgers'
    <2>1. PICK j \in Job : JobOf(w) = j /\ j <= delivered
      BY <1>1, HolderFacts DEF Lone, Held, Job, NoJob
    <2>2. /\ worker'[w].at = p /\ worker'[w].job = j
          /\ worker'[w].attempt = worker[w].attempt
          /\ \A v \in Workers \ {w} : worker'[v] = worker[v]
      BY <1>3, <2>1, GotoType DEF Lone, Typing, TypeOK, Points, JobOf
    <2>3. /\ Spends(w, j) => Spends(w, j)'
          /\ Reports(w, j) => Reports(w, j)'
      BY <1>1, <1>3, <2>1, <2>2 DEF Spends, Reports, JobOf
    <2> QED
      BY <1>1, <2>1, <2>2, <2>3, HolderPays DEF Lone
  <1> QED
    BY <1>2, <1>3 DEF LoadStatus

(* A loop that has no job yet spends nothing by being handed one.           *)
LEMMA PickingUpPays ==
    ASSUME Lone, Typing', Ledgers, NEW w \in Workers, JobOf(w) = NoJob,
           \A v \in Workers \ {w} : worker'[v] = worker[v],
           UNCHANGED <<hash, dead, faults>>,
           worker'[w].job = NoJob \/ worker'[w].at = "received",
           \/ /\ UNCHANGED delivered
              /\ pending' = pending \/ \E j \in pending : pending' = pending \ {j}
              /\ worker'[w].job \in pending' \cup {NoJob}
           \/ \E j \in Job :
                 /\ j > delivered /\ delivered' = j /\ pending' = pending \cup {j}
                 /\ worker'[w].job = j
    PROVE  Ledgers'
  <1>1. /\ delivered \in Nat /\ delivered' \in Nat /\ MaxAttempts \in Nat /\ MaxAttempts > 0
        /\ \A j \in Job : j \in Nat /\ hash[j].attempts \in Nat /\ dead[j] \in Nat
    BY Numbers DEF Lone, Typing, TypeOK, Job, NoJob
  <1> SUFFICES ASSUME NEW k \in Job
               PROVE  Ledger(k)'
    BY DEF Ledgers
  <1>2. k # NoJob /\ Ledger(k) /\ (k > delivered => hash[k].attempts = 0 /\ dead[k] = 0)
    BY DEF Ledgers, Ledger, Job, NoJob
  <1>3. k > delivered' => k > delivered
    BY <1>1
  <1>4. CASE k \in pending' => k \in pending
    <2>1. ASSUME NEW v \in Workers
          PROVE  (Spends(v, k) => Spends(v, k)') /\ (Reports(v, k) => Reports(v, k)')
      <3>1. CASE v = w
        BY <1>2, <1>4, <3>1 DEF Spends, Reports, JobOf
      <3>2. CASE v # w
        BY <1>2, <1>4, <3>2 DEF Spends, Reports, JobOf
      <3> QED
        BY <3>1, <3>2
    <2> QED
      BY <1>1, <1>2, <1>3, <2>1, LedgerKept DEF Lone
  <1>5. CASE k \in pending' /\ k \notin pending
    <2>1. k > delivered /\ k = delivered'
      BY <1>5
    <2>2. hash'[k].attempts = 0 /\ dead'[k] = 0 /\ ~(k > delivered')
      BY <1>1, <1>2, <2>1
    <2>3. Cardinality(Spent(k)') \in Nat /\ Cardinality(Reported(k)') \in Nat
      BY CountOf DEF Spent, Reported
    <2>4. PICK lost \in Nat : lost = Cardinality(Workers) * faults
      BY Numbers DEF Lone
    <2>5. /\ 0 <= MaxAttempts - 1 + Cardinality(Spent(k)') + lost
          /\ 0 <= Cardinality(Reported(k)') + lost
      BY <1>1, <2>3, <2>4
    <2> QED
      BY <2>2, <2>4, <2>5 DEF Ledger
  <1> QED
    BY <1>4, <1>5

LEMMA ReceivePays ==
    ASSUME Lone, Typing', Ledgers, NEW w \in Workers, AutoClaim(w) \/ ReadGroup(w)
    PROVE  Ledgers'
  <1>1. /\ worker \in [Workers -> Loop] /\ JobOf(w) = NoJob
        /\ UNCHANGED <<hash, dead, faults>> /\ pending \subseteq Job
    BY DEF AutoClaim, ReadGroup, Lone, Typing, TypeOK, Holding, At
  <1>2. CASE AutoClaim(w)
    <2>1. UNCHANGED delivered
      BY <1>2 DEF AutoClaim, streamVars
    <2>2. CASE Goto(w, "reading") /\ (pending' = pending \/ \E j \in pending : pending' = pending \ {j})
      <3>1. worker'[w].job = NoJob /\ \A v \in Workers \ {w} : worker'[v] = worker[v]
        BY <1>1, <2>2, GotoType DEF Points, JobOf
      <3> QED
        BY <1>1, <2>1, <2>2, <3>1, PickingUpPays
    <2>3. ASSUME NEW j \in pending, Hold(w, j), pending' = pending
          PROVE  Ledgers'
      <3>1. /\ worker'[w].job = j /\ worker'[w].at = "received"
            /\ \A v \in Workers \ {w} : worker'[v] = worker[v]
        BY <1>1, <2>3, HoldType
      <3> QED
        BY <1>1, <2>1, <2>3, <3>1, PickingUpPays
    <2> QED
      BY <1>2, <2>2, <2>3 DEF AutoClaim, Claimable
  <1>3. CASE ReadGroup(w)
    <2>1. CASE Release(w) /\ UNCHANGED <<delivered, pending>>
      <3>1. worker'[w].job = NoJob /\ \A v \in Workers \ {w} : worker'[v] = worker[v]
        BY <1>1, <2>1, ReleaseType, IdleFacts
      <3> QED
        BY <1>1, <2>1, <3>1, PickingUpPays
    <2>2. ASSUME NEW j \in Undelivered, delivered' = j,
                 pending' = pending \cup {j}, Hold(w, j)
          PROVE  Ledgers'
      <3>1. j \in Job /\ j > delivered
        BY BoundsAssumption DEF Undelivered, Entries, Lone, Typing, TypeOK, Job
      <3>2. /\ worker'[w].job = j /\ worker'[w].at = "received"
            /\ \A v \in Workers \ {w} : worker'[v] = worker[v]
        BY <1>1, <2>2, <3>1, HoldType
      <3> QED
        BY <1>1, <2>2, <3>1, <3>2, PickingUpPays
    <2> QED
      BY <1>3, <2>1, <2>2 DEF ReadGroup
  <1> QED
    BY <1>2, <1>3

(* What is not a loop's command moves no ledger but by a fault.             *)
LEMMA OutsidePays ==
    ASSUME Lone, Typing', Ledgers, UNCHANGED <<worker, pending, dead, delivered, faults>>,
           \A j \in Job : hash'[j].attempts \in {hash[j].attempts, 0}
    PROVE  Ledgers'
  <1>1. \A j \in Job : hash[j].attempts \in Nat
    BY Numbers DEF Lone
  <1> SUFFICES ASSUME NEW j \in Job
               PROVE  Ledger(j)'
    BY DEF Ledgers
  <1>2. /\ hash'[j].attempts <= hash[j].attempts
        /\ j > delivered' => hash'[j].attempts = 0 /\ dead'[j] = 0
    BY <1>1 DEF Ledgers, Ledger
  <1>3. \A v \in Workers : (Spends(v, j) => Spends(v, j)') /\ (Reports(v, j) => Reports(v, j)')
    BY DEF Spends, Reports, JobOf
  <1> QED
    BY <1>2, <1>3, LedgerKept DEF Lone, Ledgers

LEMMA StepLedgers == Lone /\ Typing' /\ Ledgers /\ [Next]_vars => Ledgers'
  <1> SUFFICES ASSUME Lone, Typing', Ledgers, [Next]_vars
               PROVE  Ledgers'
    OBVIOUS
  <1>0. hash \in [Job -> Hash]
    BY DEF Lone, Typing, TypeOK
  <1>1. ASSUME NEW w \in Workers, Step(w)
        PROVE  Ledgers'
    <2>1. CASE AutoClaim(w) \/ ReadGroup(w)
      BY <2>1, ReceivePays
    <2>2. CASE LoadStatus(w)
      BY <2>2, LoadStatusPays
    <2>3. CASE CountAttempt(w)
      BY <2>3, CountingPays
    <2>4. CASE DeadLetter(w)
      BY <2>4, DeadLetterPays
    <2>5. CASE TouchFailure(w) /\ ~Terminal(w)
      <3>1. /\ worker[w].at = "touchFailure" /\ Release(w) /\ Touch(JobOf(w))
            /\ UNCHANGED <<delivered, faults, pending, dead>>
        BY <2>5 DEF TouchFailure, At, streamVars, groupVars
      <3>2. JobOf(w) \in Job
        BY <3>1, HolderFacts
      <3>3. \A k \in Job : hash'[k].attempts = hash[k].attempts
        BY <1>0, <3>1, <3>2, TouchType
      <3> QED
        BY <2>5, <3>1, <3>3, ReleasePays DEF Terminal
    <2>6. CASE Ack(w)
      <3>1. /\ worker[w].at = "acking" /\ Release(w) /\ pending' = pending \ {JobOf(w)}
            /\ UNCHANGED <<delivered, faults, hash, dead>>
        BY <2>6 DEF Ack, At, streamVars
      <3> QED
        BY <3>1, ReleasePays
    <2>7. CASE \/ MarkRunning(w) \/ TouchRunning(w) \/ StartJob(w) \/ JobSucceeds(w)
               \/ JobFails(w) \/ RecordSuccess(w) \/ TouchSuccess(w) \/ RecordFailure(w)
               \/ TouchFailure(w) /\ Terminal(w)
      BY <2>7, InHandPays
    <2> QED
      BY <1>1, <2>1, <2>2, <2>3, <2>4, <2>5, <2>6, <2>7 DEF Step, Receive, Process
  <1>2. CASE WorkerDies \/ \E w \in Workers : ReceiveFails(w)
    <2>1. faults' = faults + 1 /\ UNCHANGED <<hash, dead, delivered>>
      BY <1>2 DEF WorkerDies, ReceiveFails, streamVars
    <2> QED
      BY <2>1, FaultPays DEF Lone
  <1>3. ASSUME NEW q \in Requests, Enqueue(q)
        PROVE  Ledgers'
    <2>1. /\ UNCHANGED <<worker, pending, dead, delivered, faults>>
          /\ hash' = [hash EXCEPT ![next] = QueuedHash]
      BY <1>3 DEF Enqueue, groupVars
    <2>2. \A j \in Job : hash'[j] \in {hash[j], QueuedHash}
      BY <1>0, <2>1
    <2> QED
      BY <2>1, <2>2, OutsidePays DEF QueuedHash
  <1>4. ASSUME NEW k \in Job, ExpireStatus(k)
        PROVE  Ledgers'
    <2>1. /\ UNCHANGED <<worker, pending, dead, delivered, faults>>
          /\ hash' = [hash EXCEPT ![k] = EmptyHash]
      BY <1>4 DEF ExpireStatus, groupVars, streamVars
    <2>2. \A j \in Job : hash'[j] \in {hash[j], EmptyHash}
      BY <1>0, <2>1
    <2> QED
      BY <2>1, <2>2, OutsidePays DEF EmptyHash
  <1>5. CASE \/ \E q \in Requests : RateLimited(q) \/ ExpireDedup(q)
             \/ \E c \in Callers : ExpireWindow(c)
             \/ \E j \in Job : Age(j)
             \/ UNCHANGED vars
    <2>1. UNCHANGED <<worker, pending, dead, delivered, faults, hash>>
      BY <1>5 DEF RateLimited, ExpireDedup, ExpireWindow, Age, vars, groupVars, streamVars
    <2> QED
      BY <2>1, OutsidePays
  <1> QED
    BY <1>1, <1>2, <1>3, <1>4, <1>5 DEF Next

LEMMA InitLedgers == Init => Ledgers
  <1> SUFFICES ASSUME Init, NEW j \in Job
               PROVE  Ledger(j)
    BY DEF Ledgers
  <1>1. hash[j].attempts = 0 /\ dead[j] = 0
    BY DEF Init, EmptyHash
  <1>2. Cardinality(Spent(j)) \in Nat /\ Cardinality(Reported(j)) \in Nat
    BY CountOf DEF Spent, Reported
  <1>3. PICK lost \in Nat : lost = Cardinality(Workers) * faults
    BY InitTyping, Numbers
  <1>4. MaxAttempts \in Nat /\ MaxAttempts > 0
    BY BoundsAssumption
  <1>5. 0 <= MaxAttempts - 1 + Cardinality(Spent(j)) + lost
        /\ 0 <= Cardinality(Reported(j)) + lost
    BY <1>2, <1>3, <1>4
  <1> QED
    BY <1>1, <1>3, <1>5 DEF Ledger

(* However many loops are handed a job that others are still at, past its   *)
(* retry budget it costs each loop one attempt and one dead letter per      *)
(* fault and one more; a job that is never shared costs that once.          *)
THEOREM WorkStaysBounded == Spec => []WorkIsBounded
  <1>1. Lone /\ Ledgers => WorkIsBounded
    <2> SUFFICES ASSUME Lone, Ledgers, NEW j \in Job
                 PROVE  LET spare == (1 + faults) *
                                (IF j \in shared THEN Cardinality(Workers) ELSE 1)
                        IN  hash[j].attempts <= MaxAttempts - 1 + spare /\ dead[j] <= spare
      BY DEF WorkIsBounded
    <2>1. PICK n \in Nat, lost \in Nat :
              n = Cardinality(Workers) /\ lost = n * faults /\ (1 + faults) * n = n + lost
      BY Numbers DEF Lone
    <2>2. /\ hash[j].attempts \in Nat /\ dead[j] \in Nat /\ MaxAttempts \in Nat
          /\ faults \in Nat
      BY Numbers DEF Lone
    <2>3. CASE j \in shared
      <3>1. PICK A \in SUBSET Workers, C \in SUBSET Workers : A = Spent(j) /\ C = Reported(j)
        BY DEF Spent, Reported
      <3>2. /\ hash[j].attempts <= MaxAttempts - 1 + Cardinality(A) + lost
            /\ dead[j] <= Cardinality(C) + lost
        BY <2>1, <3>1 DEF Ledgers, Ledger
      <3>3. /\ Cardinality(A) \in Nat /\ Cardinality(A) <= n
            /\ Cardinality(C) \in Nat /\ Cardinality(C) <= n
        BY <2>1, CountOf
      <3>4. hash[j].attempts <= MaxAttempts - 1 + (n + lost) /\ dead[j] <= n + lost
        BY <2>1, <2>2, <3>2, <3>3
      <3> QED
        BY <2>1, <2>3, <3>4
    <2>4. CASE j \notin shared
      <3>1. hash[j].attempts <= MaxAttempts + faults /\ dead[j] <= 1 + faults
        BY <2>4, LoneTells
      <3> QED
        BY <2>2, <2>4, <3>1
    <2> QED
      BY <2>3, <2>4
  <1>2. Lone /\ [Next]_vars => Typing'
    BY StepLone DEF Lone
  <1>3. Lone /\ Ledgers /\ [Next]_vars => Ledgers'
    BY <1>2, StepLedgers
  <1>4. Lone /\ [Next]_vars => Lone'
    BY StepLone
  <1> QED
    BY <1>1, <1>3, <1>4, InitLone, InitLedgers, PTL DEF Spec

(* A status that promises work belongs to a job that the queue still holds, *)
(* through deaths, expiry and trimming, if no two loops were at it at once. *)
THEOREM PromisedWorkIsOwed == Spec => []UnsettledIsOwed
  <1>1. Lone => UnsettledIsOwed
    BY LoneTells
  <1> QED
    BY <1>1, AlwaysLone, PTL

(* The final status of an acknowledged job is true.                         *)
THEOREM FinalStatusesAreTrue == Spec => []TerminalStatusIsTrue
  <1>1. Lone => TerminalStatusIsTrue
    BY LoneTells
  <1> QED
    BY <1>1, AlwaysLone, PTL

(* Without faults no job both completes and is reported dead.               *)
THEOREM DeadJobsNeverCompleted == Spec => []DeadMeansNeverCompleted
  <1>1. Lone => DeadMeansNeverCompleted
    BY LoneTells
  <1> QED
    BY <1>1, AlwaysLone, PTL

(* Without faults an outcome, once recorded, only expires.                  *)
THEOREM OutcomesAreFinal == Spec => TerminalStatusIsFinal
  <1>1. Lone /\ [Next]_vars =>
            [faults = 0 =>
                 \A j \in Job \ shared :
                    hash[j].status \in {"SUCCEEDED", "FAILED"} =>
                        hash'[j].status \in {hash[j].status, "NONE"}]_vars
    BY OutcomesStay
  <1> QED
    BY <1>1, AlwaysLone, PTL DEF Spec, TerminalStatusIsFinal

=============================================================================
