---------------------------- MODULE RecoveryRun ----------------------------
(***************************************************************************)
(* Recovery runs.  A run rebuilds what readiness finds broken, behind a    *)
(* lock file, and leaves a manifest; both outlive the API process, which   *)
(* executes the runs on one event loop and may die at every pause.         *)
(***************************************************************************)
EXTENDS Naturals

CONSTANTS
    Operators,          \* requests to start, inspect or retry a run
    RunKeys,            \* idempotency keys of first runs
    MaxRetries,         \* bound: retries of retries
    MaxTrouble,         \* bound: edits, decays, failing steps and deaths
    NoRun

VARIABLES
    files,      \* the version of the vault's Markdown
    broken,     \* the indexes that need a rebuild
    lock,       \* active-run.json: the run that holds the lock, or NoRun
    manifest,   \* each run: its recovery-run.json, or NoRun
    ops,        \* each request: where it is and its local state
    trouble,
    interrupted \* history: has a run been taken for dead while it executed?

recoveryVars == <<files, broken, lock, manifest, ops, trouble, interrupted>>

(* A retry's key is derived from its parent's id.                           *)
RunIds == RunKeys \X (0..MaxRetries)
RetryOf(id) == <<id[1], id[2] + 1>>

Indexes == {"reindex_vault", "reindex_embeddings"}
Steps == Indexes \cup {"verify_readiness"}
Place == [reindex_vault |-> 1, reindex_embeddings |-> 2, verify_readiness |-> 3]

Manifests == [status : {"COMPLETED", "FAILED", "BLOCKED"},
              plan : SUBSET Steps, done : SUBSET Steps, parent : RunIds \cup {NoRun}]
ASSUME RecoveryAssumption == MaxRetries \in Nat /\ NoRun \notin RunIds /\ NoRun \notin Manifests
Blocked(parent) == [status |-> "BLOCKED", plan |-> {}, done |-> {}, parent |-> parent]

Ops == [at : {"idle", "inspecting", "planning", "planned", "executing", "over"},
        id : RunIds \cup {NoRun}, parent : RunIds \cup {NoRun}, plan : SUBSET Steps,
        since : Nat, todo : SUBSET Steps, done : SUBSET Steps]
Idle == [at |-> "idle", id |-> NoRun, parent |-> NoRun, plan |-> {}, since |-> 0,
         todo |-> {}, done |-> {}]

RecoveryInit ==
    /\ files = 0 /\ broken = {} /\ lock = NoRun
    /\ manifest = [id \in RunIds |-> NoRun]
    /\ ops = [r \in Operators |-> Idle]
    /\ trouble = 0
    /\ interrupted = FALSE

-----------------------------------------------------------------------------
Known(id) == id # NoRun /\ manifest[id] # NoRun
Executing(r) == ops[r].at = "executing"
Turns(r, to) == ops' = [ops EXCEPT ![r].at = to]
Happens == trouble < MaxTrouble /\ trouble' = trouble + 1

(* Markdown changes behind the index; embeddings fall behind by themselves. *)
Edit ==
    /\ Happens
    /\ files' = files + 1 /\ broken' = broken \cup {"reindex_vault"}
    /\ UNCHANGED <<lock, manifest, ops, interrupted>>

Decay ==
    /\ Happens
    /\ broken' = broken \cup {"reindex_embeddings"}
    /\ UNCHANGED <<files, lock, manifest, ops, interrupted>>

RequestStart(r) ==
    /\ ops[r].at = "idle"
    /\ \E k \in RunKeys :
          ops' = [ops EXCEPT ![r] = [Idle EXCEPT !.at = "planning", !.id = <<k, 0>>]]
    /\ UNCHANGED <<files, broken, lock, manifest, trouble, interrupted>>

Planning(id, own) == [Idle EXCEPT !.at = "planning", !.id = own, !.parent = id]
Inspecting(id, own) == [Idle EXCEPT !.at = "inspecting", !.id = own, !.parent = id]

(* get, alone or as the first step of retry, which may bring a key of its   *)
(* own.  A run that holds the lock and has no manifest is taken for one     *)
(* that a restart has interrupted.                                          *)
Inspect(r) ==
    /\ ops[r].at = "idle"
    /\ \E id \in RunIds, own \in RunIds \cup {NoRun} :
          /\ own \in {NoRun, RetryOf(id)} \cup (RunKeys \X {0})
          /\ ops' = [ops EXCEPT ![r] =
                 IF Known(id) /\ own # NoRun THEN Planning(id, own)
                 ELSE IF ~Known(id) /\ lock = id THEN Inspecting(id, own)
                 ELSE [Idle EXCEPT !.at = "over"]]
          /\ interrupted' = (interrupted
                 \/ \E s \in Operators : Executing(s) /\ ops[s].id = id /\ lock = id)
    /\ UNCHANGED <<files, broken, lock, manifest, trouble>>

Released(id) == IF lock = id THEN NoRun ELSE lock

(* After the vault's status was awaited.                                    *)
Interrupt(r) ==
    LET id == ops[r].parent
        own == ops[r].id
    IN  /\ ops[r].at = "inspecting"
        /\ manifest' = [manifest EXCEPT ![id] = Blocked(NoRun)]
        /\ lock' = Released(id)
        /\ ops' = [ops EXCEPT ![r] = IF own # NoRun THEN Planning(id, own)
                                     ELSE [Idle EXCEPT !.at = "over"]]
        /\ UNCHANGED <<files, broken, trouble, interrupted>>

(* Readiness decides the steps; the request goes on after the last await.   *)
Plan(r) ==
    /\ ops[r].at = "planning"
    /\ ops' = [ops EXCEPT ![r].at = "planned", ![r].plan =
           IF broken = {} THEN {} ELSE broken \cup {"verify_readiness"}]
    /\ UNCHANGED <<files, broken, lock, manifest, trouble, interrupted>>

Finished(r, status, done) ==
    [manifest EXCEPT ![ops[r].id] =
        [status |-> status, plan |-> ops[r].plan, done |-> done, parent |-> ops[r].parent]]

(* Mutant of ParentDone: every step the parent planned is skipped.          *)
ParentPlanned(parent) ==
    IF ~Known(parent) THEN {} ELSE manifest[parent].plan

(* What the parent has itself executed is not executed again.               *)
ParentDone(parent) ==
    IF ~Known(parent) THEN {} ELSE manifest[parent].done
Due(todo) == {s \in todo : \A t \in todo : Place[s] <= Place[t]}

(* Mutant of Free: the lock is not consulted.                               *)
FreeUnlocked(id) == ~Known(id)

Free(id) == ~Known(id) /\ lock = NoRun

Start(r) ==
    LET id == ops[r].id
        plan == ops[r].plan
        todo == plan \ ParentDone(ops[r].parent)
    IN  /\ ops[r].at = "planned"
        /\ \/ ~Free(id) /\ Turns(r, "over") /\ UNCHANGED <<lock, manifest>>
           \/ /\ Free(id) /\ plan = {}
              /\ manifest' = [manifest EXCEPT ![id] = Blocked(ops[r].parent)]
              /\ Turns(r, "over") /\ UNCHANGED lock
           \/ /\ Free(id) /\ plan # {} /\ todo = {}
              /\ manifest' = Finished(r, "COMPLETED", {})
              /\ Turns(r, "over") /\ UNCHANGED lock
           \/ /\ Free(id) /\ plan # {} /\ todo # {}
              /\ lock' = id
              /\ ops' = [ops EXCEPT ![r].at = "executing", ![r].todo = todo,
                                    ![r].since = files]
              /\ UNCHANGED manifest
        /\ UNCHANGED <<files, broken, trouble, interrupted>>

(* READY needs sound indexes, unchanged Markdown and no other run's lock.   *)
Verified(r) == broken = {} /\ files = ops[r].since /\ lock \in {NoRun, ops[r].id}

Succeeds(r, step) == step = "verify_readiness" => Verified(r)

(* The step that was awaited ends; the next one's checkpoint writes the     *)
(* lock again, whoever holds it.                                            *)
StepEnds(r) == \E step \in Due(ops[r].todo) :
    LET rest == ops[r].todo \ {step}
        done == ops[r].done \cup {step}
    IN  /\ Executing(r) /\ Succeeds(r, step)
        /\ broken' = broken \ {step}
        /\ IF rest = {}
           THEN /\ manifest' = Finished(r, "COMPLETED", done)
                /\ lock' = Released(ops[r].id)
                /\ Turns(r, "over")
           ELSE /\ lock' = ops[r].id
                /\ ops' = [ops EXCEPT ![r].todo = rest, ![r].done = done]
                /\ UNCHANGED manifest
        /\ UNCHANGED <<files, trouble, interrupted>>

(* A step raises, or reports errors, warnings or a state other than READY.  *)
StepFails(r) ==
    /\ Executing(r)
    /\ \/ Happens
       \/ (\E step \in Due(ops[r].todo) : ~Succeeds(r, step)) /\ UNCHANGED trouble
    /\ manifest' = Finished(r, "FAILED", ops[r].done)
    /\ lock' = Released(ops[r].id)
    /\ Turns(r, "over")
    /\ UNCHANGED <<files, broken, interrupted>>

(* The process dies: files stay, requests are gone.  It may die between a   *)
(* finished run's manifest and the release of the lock.                     *)
ProcessDies ==
    /\ \E r \in Operators : ops[r].at \notin {"idle", "over"}
    /\ Happens
    /\ \/ UNCHANGED manifest
       \/ \E r \in Operators : Executing(r) /\ manifest' = Finished(r, "FAILED", ops[r].done)
    /\ ops' = [r \in Operators |->
                  IF ops[r].at = "idle" THEN ops[r] ELSE [Idle EXCEPT !.at = "over"]]
    /\ UNCHANGED <<files, broken, lock, interrupted>>

RecoveryNext ==
    \/ Edit \/ Decay \/ ProcessDies
    \/ \E r \in Operators :
          \/ RequestStart(r) \/ Inspect(r) \/ Interrupt(r) \/ Plan(r) \/ Start(r)
          \/ StepEnds(r) \/ StepFails(r)
    \/ (\A r \in Operators : ops[r].at = "over") /\ UNCHANGED recoveryVars

RecoverySpec == RecoveryInit /\ [][RecoveryNext]_recoveryVars

-----------------------------------------------------------------------------
(* Locks name runs, manifests are whole, and a request that plans, executes *)
(* or inspects names the run.                                               *)
RecoveryTypeOK ==
    /\ lock \in RunIds \cup {NoRun} /\ broken \subseteq Indexes
    /\ manifest \in [RunIds -> Manifests \cup {NoRun}]
    /\ ops \in [Operators -> Ops]
    /\ files \in Nat /\ interrupted \in BOOLEAN
    /\ \A r \in Operators :
          /\ ops[r].at \in {"planning", "planned", "executing"} => ops[r].id \in RunIds
          /\ ops[r].at = "inspecting" => ops[r].parent \in RunIds

(* The lock serializes recovery: two runs never execute at the same time,   *)
(* whatever retries, deaths and inspections of dead runs come between,      *)
(* unless a run was inspected, and its lock released, while it executed.    *)
OneRecoveryAtATime ==
    interrupted \/ \A r, s \in Operators : (Executing(r) /\ Executing(s)) => r = s

(* A run that says COMPLETED has its whole plan behind it: each step was    *)
(* executed by the run itself or by the run it retries, although processes  *)
(* die, keys are reused and readiness changes between the two; unless a run *)
(* was interrupted while it executed, which replaces its manifest.          *)
CompletedPlansAreDone ==
    interrupted \/ \A id \in RunIds :
        (Known(id) /\ manifest[id].status = "COMPLETED") =>
            \A step \in manifest[id].plan \ manifest[id].done :
                Known(manifest[id].parent) /\ step \in manifest[manifest[id].parent].done
=============================================================================
