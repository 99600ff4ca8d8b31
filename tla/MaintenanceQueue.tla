-------------------------- MODULE MaintenanceQueue --------------------------
(***************************************************************************)
(* The Redis Streams maintenance queue of app/operations: the API process  *)
(* submits embedding-reindex jobs through one Lua script, the worker       *)
(* process consumes them through a consumer group, and each job has a      *)
(* status hash that the API reads back.                                    *)
(*                                                                         *)
(* One action is one Redis command, because a process may die, and Redis   *)
(* may expire a key, between any two of them; the Lua script is one action *)
(* because Redis runs a script without interleaving.  A job is named by    *)
(* its position in the stream, which stands both for its uuid and for its  *)
(* stream entry id, so "older" is "smaller".                               *)
(***************************************************************************)
EXTENDS Integers, FiniteSets

CONSTANTS
    Workers,          \* consumer loops of the worker process
    Requests,         \* distinct submissions, as told apart by _dedup_key
    CallerOf,         \* the requested_by of each submission
    MaxJobs,          \* bound: jobs ever accepted
    MaxFaults,        \* bound: process deaths and failed receive calls
    MaxAttempts,      \* config.max_attempts
    SubmissionLimit,  \* config.submission_limit
    MaxStreamLength,  \* config.max_stream_length
    StatusMayExpire   \* may a status hash outlive config.status_ttl_seconds?

ASSUME BoundsAssumption ==
    /\ MaxJobs \in Nat
    /\ MaxFaults \in Nat
    /\ MaxAttempts \in Nat \ {0}
    /\ SubmissionLimit \in Nat \ {0}
    /\ MaxStreamLength \in Nat \ {0}
    /\ StatusMayExpire \in BOOLEAN

Callers == {CallerOf[q] : q \in Requests}

ASSUME WorkersAssumption == IsFiniteSet(Workers)

ASSUME CallerAssumption == CallerOf \in [Requests -> Callers]

Job == 1..MaxJobs
NoJob == 0

VARIABLES
    next,       \* the next stream position XADD will assign
    first,      \* the oldest position MAXLEN has left in the stream
    delivered,  \* the group's last-delivered id
    pending,    \* the group's pending entries list
    idle,       \* pending entries whose idle time has reached the retry limit
    acked,      \* entries acknowledged with XACK
    shared,     \* history: entries claimed while a loop was still at them
    hash,       \* the status hash of each job
    dead,       \* dead-letter entries recorded for each job
    dedup,      \* the job each dedup key holds, NoJob once it has expired
    rate,       \* submissions counted in each caller's current window
    worker,     \* each loop: the command it issues next, its job, its attempt
    executed,   \* history: jobs whose reindex ran to completion
    expired,    \* history: jobs whose status hash Redis has expired
    faults      \* history: process deaths and failed receive calls

streamVars == <<next, first, delivered>>
groupVars == <<pending, idle, acked, shared>>
admission == <<dedup, rate>>
vars == <<streamVars, groupVars, hash, dead, admission, worker,
          executed, expired, faults>>

-----------------------------------------------------------------------------
(* The status hash.  "whole" tells whether the identifying fields written   *)
(* by the enqueue script are there; HINCRBY and HSET on an expired key make *)
(* a hash without them.  A key with no field does not exist.                *)

Status == {"NONE", "QUEUED", "RUNNING", "RETRYING", "SUCCEEDED", "FAILED"}

Hash == [status : Status, attempts : Nat, result : BOOLEAN,
         whole : BOOLEAN, ttl : BOOLEAN]

EmptyHash == [status |-> "NONE", attempts |-> 0, result |-> FALSE,
              whole |-> FALSE, ttl |-> FALSE]

QueuedHash == [status |-> "QUEUED", attempts |-> 0, result |-> FALSE,
               whole |-> TRUE, ttl |-> TRUE]

SetStatus(j, s) == hash' = [hash EXCEPT ![j].status = s]

(* EXPIRE does nothing to a key that does not exist.                        *)
Touch(j) == hash' = IF hash[j] = EmptyHash THEN hash
                    ELSE [hash EXCEPT ![j].ttl = TRUE]

Unsettled(j) == hash[j].status \in {"QUEUED", "RUNNING", "RETRYING"}

-----------------------------------------------------------------------------
(* The stream and its consumer group.                                       *)

Submitted == 1..(next - 1)
Entries == first..(next - 1)

IsOldest(j, S) == j \in S /\ \A k \in S : j <= k

Undelivered == {j \in Entries : j > delivered}

(* Mutant of Claimable: only the purge of trimmed entries is left.          *)
ClaimableNever == {j \in pending : j < first}

(* What XAUTOCLAIM stops at: an entry idle for long enough, or one that     *)
(* MAXLEN has removed from the stream and that it purges from the list.     *)
Claimable == {j \in pending : j \in idle \/ j < first}

(* The queue still holds the job: a worker will be handed its entry.        *)
Owed(j) == j \in Undelivered \/ (j \in pending /\ j \in Entries)

Idle == [at |-> "idle", job |-> NoJob, attempt |-> 0]

Points == {"idle", "reading", "received", "counting", "marking",
           "touchRunning", "starting", "executing", "recordSuccess",
           "touchSuccess", "recordFailure", "touchFailure", "deadLetter",
           "acking"}

Loop == [at : Points, job : Job \cup {NoJob}, attempt : Nat]

Goto(w, point) == worker' = [worker EXCEPT ![w].at = point]
Release(w) == worker' = [worker EXCEPT ![w] = Idle]

At(w, point) == worker[w].at = point
JobOf(w) == worker[w].job
HeldBySome(j) == \E w \in Workers : worker[w].job = j

Init ==
    /\ next = 1
    /\ first = 1
    /\ delivered = 0
    /\ pending = {}
    /\ idle = {}
    /\ acked = {}
    /\ shared = {}
    /\ hash = [j \in Job |-> EmptyHash]
    /\ dead = [j \in Job |-> 0]
    /\ dedup = [q \in Requests |-> NoJob]
    /\ rate = [c \in Callers |-> 0]
    /\ worker = [w \in Workers |-> Idle]
    /\ executed = {}
    /\ expired = {}
    /\ faults = 0

-----------------------------------------------------------------------------
(* Submission.  A submission whose dedup key is live answers DEDUPLICATED   *)
(* and changes nothing.  The window count is only ever compared with the    *)
(* limit, so it saturates one above it.                                     *)

WindowCount(q) ==
    IF rate[CallerOf[q]] <= SubmissionLimit THEN rate[CallerOf[q]] + 1
    ELSE rate[CallerOf[q]]

RateLimited(q) ==
    /\ dedup[q] = NoJob
    /\ WindowCount(q) > SubmissionLimit
    /\ rate' = [rate EXCEPT ![CallerOf[q]] = WindowCount(q)]
    /\ UNCHANGED <<streamVars, groupVars, hash, dead, dedup, worker,
                   executed, expired, faults>>

(* MAXLEN ~ trims old entries, whole nodes at a time and so perhaps none,   *)
(* and never below the limit.  It does not look at acknowledgements.        *)
Trimmed == {f \in first..(next + 1) :
               f = first \/ (next + 1) - f >= MaxStreamLength}

Enqueue(q) ==
    /\ dedup[q] = NoJob
    /\ WindowCount(q) <= SubmissionLimit
    /\ next <= MaxJobs
    /\ rate' = [rate EXCEPT ![CallerOf[q]] = WindowCount(q)]
    /\ first' \in Trimmed
    /\ next' = next + 1
    /\ hash' = [hash EXCEPT ![next] = QueuedHash]
    /\ dedup' = [dedup EXCEPT ![q] = next]
    /\ UNCHANGED <<delivered, groupVars, dead, worker, executed, expired,
                   faults>>

-----------------------------------------------------------------------------
(* A consumer loop.  receive: XAUTOCLAIM, then XREADGROUP, then HGETALL.    *)

Hold(w, j) == worker' = [worker EXCEPT ![w].at = "received", ![w].job = j]

AutoClaim(w) ==
    /\ At(w, "idle")
    /\ \/ /\ Claimable = {}
          /\ Goto(w, "reading")
          /\ UNCHANGED <<pending, idle, shared>>
       \/ \E j \in Claimable :
             /\ IsOldest(j, Claimable)
             /\ idle' = idle \ {j}
             /\ \/ /\ j >= first
                   /\ Hold(w, j)
                   /\ shared' = IF HeldBySome(j) THEN shared \cup {j} ELSE shared
                   /\ UNCHANGED pending
                \/ /\ j < first
                   /\ pending' = pending \ {j}
                   /\ Goto(w, "reading")
                   /\ UNCHANGED shared
    /\ UNCHANGED <<streamVars, acked, hash, dead, admission, executed,
                   expired, faults>>

ReadGroup(w) ==
    /\ At(w, "reading")
    /\ \/ /\ Undelivered = {}
          /\ Release(w)
          /\ UNCHANGED <<delivered, pending>>
       \/ \E j \in Undelivered :
             /\ IsOldest(j, Undelivered)
             /\ delivered' = j
             /\ pending' = pending \cup {j}
             /\ Hold(w, j)
    /\ UNCHANGED <<next, first, idle, acked, shared, hash, dead, admission,
                   executed, expired, faults>>

(* An absent hash drops the delivery, a hash without its identifying        *)
(* fields makes the decoder raise, which ends this round of the loop.       *)
LoadStatus(w) ==
    /\ At(w, "received")
    /\ LET h == hash[JobOf(w)] IN
       \/ h = EmptyHash /\ Goto(w, "acking")
       \/ h # EmptyHash /\ ~h.whole /\ Release(w)
       \/ h.whole /\ Goto(w, "counting")
    /\ UNCHANGED <<streamVars, groupVars, hash, dead, admission, executed,
                   expired, faults>>

(* mark_running: HINCRBY, HSET, EXPIRE.                                     *)
CountAttempt(w) ==
    /\ At(w, "counting")
    /\ hash' = [hash EXCEPT ![JobOf(w)].attempts = @ + 1]
    /\ worker' = [worker EXCEPT ![w].at = "marking",
                                ![w].attempt = hash[JobOf(w)].attempts + 1]
    /\ UNCHANGED <<streamVars, groupVars, dead, admission, executed,
                   expired, faults>>

MarkRunning(w) ==
    /\ At(w, "marking")
    /\ SetStatus(JobOf(w), "RUNNING")
    /\ Goto(w, "touchRunning")
    /\ UNCHANGED <<streamVars, groupVars, dead, admission, executed,
                   expired, faults>>

TouchRunning(w) ==
    /\ At(w, "touchRunning")
    /\ Touch(JobOf(w))
    /\ Goto(w, "starting")
    /\ UNCHANGED <<streamVars, groupVars, dead, admission, executed,
                   expired, faults>>

(* The reindex takes the exclusive maintenance lane without waiting: while  *)
(* another loop is executing the attempt fails with a conflict.             *)
LaneTaken(w) == \E v \in Workers \ {w} : At(v, "executing")

StartJob(w) ==
    /\ At(w, "starting")
    /\ Goto(w, IF LaneTaken(w) THEN "recordFailure" ELSE "executing")
    /\ UNCHANGED <<streamVars, groupVars, hash, dead, admission, executed,
                   expired, faults>>

JobSucceeds(w) ==
    /\ At(w, "executing")
    /\ executed' = executed \cup {JobOf(w)}
    /\ Goto(w, "recordSuccess")
    /\ UNCHANGED <<streamVars, groupVars, hash, dead, admission, expired,
                   faults>>

JobFails(w) ==
    /\ At(w, "executing")
    /\ Goto(w, "recordFailure")
    /\ UNCHANGED <<streamVars, groupVars, hash, dead, admission, executed,
                   expired, faults>>

(* mark_succeeded: HSET, EXPIRE, XACK.                                      *)
(* Mutant of RecordSuccess: the counts of the result are not stored.        *)
RecordSuccessBare(w) ==
    /\ At(w, "recordSuccess")
    /\ SetStatus(JobOf(w), "SUCCEEDED")
    /\ Goto(w, "touchSuccess")
    /\ UNCHANGED <<streamVars, groupVars, dead, admission, executed,
                   expired, faults>>

RecordSuccess(w) ==
    /\ At(w, "recordSuccess")
    /\ hash' = [hash EXCEPT ![JobOf(w)].status = "SUCCEEDED",
                            ![JobOf(w)].result = TRUE]
    /\ Goto(w, "touchSuccess")
    /\ UNCHANGED <<streamVars, groupVars, dead, admission, executed,
                   expired, faults>>

(* Mutant of TouchSuccess: the delivery is never acknowledged.              *)
TouchSuccessUnacked(w) ==
    /\ At(w, "touchSuccess")
    /\ Touch(JobOf(w))
    /\ Release(w)
    /\ UNCHANGED <<streamVars, groupVars, dead, admission, executed,
                   expired, faults>>

TouchSuccess(w) ==
    /\ At(w, "touchSuccess")
    /\ Touch(JobOf(w))
    /\ Goto(w, "acking")
    /\ UNCHANGED <<streamVars, groupVars, dead, admission, executed,
                   expired, faults>>

(* Mutant of Terminal: one attempt too many.                                *)
TerminalLate(w) == worker[w].attempt > MaxAttempts

(* mark_failed: HSET, EXPIRE and, on the last attempt, XADD and XACK.       *)
Terminal(w) == worker[w].attempt >= MaxAttempts

(* Mutant of RecordFailure: a status no reader of the hash knows.           *)
RecordFailureUnknown(w) ==
    /\ At(w, "recordFailure")
    /\ SetStatus(JobOf(w), IF Terminal(w) THEN "DEAD" ELSE "RETRYING")
    /\ Goto(w, "touchFailure")
    /\ UNCHANGED <<streamVars, groupVars, dead, admission, executed,
                   expired, faults>>

RecordFailure(w) ==
    /\ At(w, "recordFailure")
    /\ SetStatus(JobOf(w), IF Terminal(w) THEN "FAILED" ELSE "RETRYING")
    /\ Goto(w, "touchFailure")
    /\ UNCHANGED <<streamVars, groupVars, dead, admission, executed,
                   expired, faults>>

(* Mutants of TouchFailure: a final failure leaves no dead letter; a        *)
(* retryable failure is acknowledged too.                                   *)
TouchFailureUntold(w) ==
    /\ At(w, "touchFailure")
    /\ Touch(JobOf(w))
    /\ IF Terminal(w) THEN Goto(w, "acking") ELSE Release(w)
    /\ UNCHANGED <<streamVars, groupVars, dead, admission, executed,
                   expired, faults>>

TouchFailureAcked(w) ==
    /\ At(w, "touchFailure")
    /\ Touch(JobOf(w))
    /\ Goto(w, IF Terminal(w) THEN "deadLetter" ELSE "acking")
    /\ UNCHANGED <<streamVars, groupVars, dead, admission, executed,
                   expired, faults>>

TouchFailure(w) ==
    /\ At(w, "touchFailure")
    /\ Touch(JobOf(w))
    /\ IF Terminal(w) THEN Goto(w, "deadLetter") ELSE Release(w)
    /\ UNCHANGED <<streamVars, groupVars, dead, admission, executed,
                   expired, faults>>

(* Mutant of DeadLetter: the delivery stays pending.                        *)
DeadLetterUnacked(w) ==
    /\ At(w, "deadLetter")
    /\ dead' = [dead EXCEPT ![JobOf(w)] = @ + 1]
    /\ Release(w)
    /\ UNCHANGED <<streamVars, groupVars, hash, admission, executed,
                   expired, faults>>

DeadLetter(w) ==
    /\ At(w, "deadLetter")
    /\ dead' = [dead EXCEPT ![JobOf(w)] = @ + 1]
    /\ Goto(w, "acking")
    /\ UNCHANGED <<streamVars, groupVars, hash, admission, executed,
                   expired, faults>>

Ack(w) ==
    /\ At(w, "acking")
    /\ acked' = acked \cup {JobOf(w)}
    /\ pending' = pending \ {JobOf(w)}
    /\ idle' = idle \ {JobOf(w)}
    /\ Release(w)
    /\ UNCHANGED <<streamVars, shared, hash, dead, admission, executed, expired,
                   faults>>

-----------------------------------------------------------------------------
(* Faults.  Outside receive nothing catches a Redis error: the task group   *)
(* cancels every loop, the process exits and is restarted, which is what a  *)
(* kill does too.  A Redis error in receive sends one loop back to its      *)
(* start; the entry it had just been handed stays pending.                  *)

WorkerDies ==
    /\ faults < MaxFaults
    /\ \E w \in Workers : ~At(w, "idle")
    /\ faults' = faults + 1
    /\ worker' = [w \in Workers |-> Idle]
    /\ UNCHANGED <<streamVars, groupVars, hash, dead, admission, executed,
                   expired>>

ReceiveFails(w) ==
    /\ faults < MaxFaults
    /\ worker[w].at \in {"reading", "received"}
    /\ faults' = faults + 1
    /\ Release(w)
    /\ UNCHANGED <<streamVars, groupVars, hash, dead, admission, executed,
                   expired>>

-----------------------------------------------------------------------------
(* The passing of time.  Nothing renews the idle time of an entry while a   *)
(* loop works on it, so it may become claimable in the hands of its loop.   *)

Age(j) ==
    /\ j \in pending \ idle
    /\ idle' = idle \cup {j}
    /\ UNCHANGED <<streamVars, pending, acked, shared, hash, dead, admission, worker,
                   executed, expired, faults>>

(* The status TTL exceeds the dedup cooldown and is set with it, so the     *)
(* hash is still there while a dedup key names the job.                     *)
ExpireStatus(j) ==
    /\ StatusMayExpire
    /\ j \in Submitted
    /\ hash[j].ttl
    /\ \A q \in Requests : dedup[q] # j
    /\ hash' = [hash EXCEPT ![j] = EmptyHash]
    /\ expired' = expired \cup {j}
    /\ UNCHANGED <<streamVars, groupVars, dead, admission, worker, executed,
                   faults>>

ExpireDedup(q) ==
    /\ dedup[q] # NoJob
    /\ dedup' = [dedup EXCEPT ![q] = NoJob]
    /\ UNCHANGED <<streamVars, groupVars, hash, dead, rate, worker, executed,
                   expired, faults>>

ExpireWindow(c) ==
    /\ rate[c] > 0
    /\ rate' = [rate EXCEPT ![c] = 0]
    /\ UNCHANGED <<streamVars, groupVars, hash, dead, dedup, worker,
                   executed, expired, faults>>

-----------------------------------------------------------------------------
Receive(w) == AutoClaim(w) \/ ReadGroup(w) \/ LoadStatus(w)

Process(w) ==
    \/ CountAttempt(w) \/ MarkRunning(w) \/ TouchRunning(w)
    \/ StartJob(w) \/ JobSucceeds(w) \/ JobFails(w)
    \/ RecordSuccess(w) \/ TouchSuccess(w)
    \/ RecordFailure(w) \/ TouchFailure(w) \/ DeadLetter(w)
    \/ Ack(w)

Step(w) == Receive(w) \/ Process(w)

Next ==
    \/ \E q \in Requests : Enqueue(q) \/ RateLimited(q) \/ ExpireDedup(q)
    \/ \E c \in Callers : ExpireWindow(c)
    \/ \E w \in Workers : Step(w) \/ ReceiveFails(w)
    \/ \E j \in Job : Age(j) \/ ExpireStatus(j)
    \/ WorkerDies

Spec == Init /\ [][Next]_vars

(* The event loop runs every loop's next command, and time passes.          *)
Fairness ==
    /\ \A w \in Workers : WF_vars(Step(w))
    /\ \A j \in Job : WF_vars(Age(j))

FairSpec == Spec /\ Fairness

-----------------------------------------------------------------------------
(* Properties.                                                              *)

(* Every variable keeps its type.                                           *)
TypeOK ==
    /\ next \in 1..(MaxJobs + 1)
    /\ first \in 1..(MaxJobs + 1)
    /\ delivered \in Job \cup {NoJob}
    /\ pending \subseteq Job
    /\ idle \subseteq Job
    /\ acked \subseteq Job
    /\ shared \subseteq Job
    /\ hash \in [Job -> Hash]
    /\ dead \in [Job -> Nat]
    /\ dedup \in [Requests -> Job \cup {NoJob}]
    /\ rate \in [Callers -> 0..(SubmissionLimit + 1)]
    /\ worker \in [Workers -> Loop]
    /\ executed \subseteq Job
    /\ expired \subseteq Job
    /\ faults \in 0..MaxFaults

(* An acknowledged job never vanishes: its reindex ran to completion, or a  *)
(* dead letter tells of it, or Redis had expired its status hash.  Covers   *)
(* the order of commands in mark_succeeded, mark_failed and receive.        *)
AckedMeansSettled ==
    \A j \in acked : j \in executed \/ dead[j] > 0 \/ j \in expired

(* A job whose status still promises work is still held by the queue,       *)
(* unless MAXLEN trimmed it away or its hash had expired meanwhile: no      *)
(* client polls a job that nobody will ever run again.                      *)
UnsettledIsOwed ==
    \A j \in Entries : Unsettled(j) /\ j \notin expired \cup shared => Owed(j)

(* However slow the loops, and however often one is handed what another is  *)
(* still at, the retry budget holds: past it a job costs one attempt, and   *)
(* one dead letter, per fault and one more; a shared job costs as much for  *)
(* each loop.                                                               *)
WorkIsBounded ==
    LET spare(j) == (1 + faults) * (IF j \in shared THEN Cardinality(Workers) ELSE 1)
    IN  \A j \in Job :
            hash[j].attempts <= MaxAttempts - 1 + spare(j) /\ dead[j] <= spare(j)

(* A terminal status tells the truth once the delivery is acknowledged:     *)
(* FAILED has its dead letter, SUCCEEDED its result and its completed run.  *)
TerminalStatusIsTrue ==
    \A j \in acked \ shared :
        /\ hash[j].status = "FAILED" => dead[j] > 0
        /\ hash[j].status = "SUCCEEDED" => hash[j].result /\ j \in executed

(* As long as nothing has failed but jobs themselves, no job both completes *)
(* and is reported dead.                                                    *)
DeadMeansNeverCompleted ==
    faults = 0 => \A j \in Job \ shared : dead[j] > 0 => j \notin executed

(* As long as nothing has failed but jobs themselves, SUCCEEDED and FAILED  *)
(* are final: only expiry changes such a hash's status.                     *)
TerminalStatusIsFinal ==
    [][faults = 0 =>
         \A j \in Job \ shared :
            hash[j].status \in {"SUCCEEDED", "FAILED"} =>
                hash'[j].status \in {hash[j].status, "NONE"}]_vars

(* Every accepted job is eventually acknowledged, whatever its attempts do. *)
EveryJobSettles == \A j \in Job : j < next ~> j \in acked

=============================================================================
