-------------------------- MODULE GraphProjection --------------------------
(***************************************************************************)
(* Rebuilding the optional Neo4j projection: the rebuild service stages    *)
(* the batches of a fresh run, one transaction each, and then activates    *)
(* the run and deletes the previous one in a single transaction.  Readers  *)
(* follow the active run.  A failed transaction makes the service abort    *)
(* the run; a cancelled request or a dead process does not.                *)
(*                                                                         *)
(* Neo4j is external: a write transaction takes effect at once or not at   *)
(* all, its driver never repeats a commit, and the service may be told of  *)
(* a failure although the commit took effect.  A read transaction is READ  *)
(* COMMITTED: each of its queries sees what is committed when it runs.     *)
(***************************************************************************)
EXTENDS Integers, FiniteSets

CONSTANTS
    Rebuilders,         \* requests that may run a rebuild
    MaxRuns,            \* bound: rebuild runs ever started
    BatchCount,         \* batches of a source snapshot
    ExclusiveLane,      \* does the maintenance lane keep rebuilds apart?
    RepliesMayBeLost    \* may a commit take effect and yet be reported failed?

ASSUME BoundsAssumption ==
    /\ MaxRuns \in Nat
    /\ BatchCount \in Nat
    /\ ExclusiveLane \in BOOLEAN
    /\ RepliesMayBeLost \in BOOLEAN

Runs == 1..MaxRuns
NoRun == 0
Batches == 1..BatchCount

VARIABLES
    nextRun,    \* the next run id the factory will return
    active,     \* run_id of the projection metadata node
    rows,       \* the batches stored under each run id
    rebuilder,  \* each request: where it is, its run, the batches it has sent,
                \* and whether its current transaction has committed
    outcome,    \* the status of the report each run ended with
    abandoned,  \* history: runs that ended without their abort taking effect
    view        \* one status read: where it is, its run, what it has found

store == <<active, rows>>
vars == <<nextRun, store, rebuilder, outcome, abandoned, view>>

Points == {"idle", "building", "starting", "writing", "aborting"}
Idle == [at |-> "idle", run |-> NoRun, sent |-> 0,
         committed |-> FALSE]
NoView == [at |-> "idle", run |-> NoRun, nodes |-> {}, edges |-> {}]

RunOf(b) == rebuilder[b].run
At(b, point) == rebuilder[b].at = point
Goto(b, point) ==
    rebuilder' = [rebuilder EXCEPT ![b].at = point, ![b].committed = FALSE]
Done(b) == rebuilder' = [rebuilder EXCEPT ![b] = Idle]

Init ==
    /\ nextRun = 1
    /\ active = NoRun
    /\ rows = [r \in Runs |-> {}]
    /\ rebuilder = [b \in Rebuilders |-> Idle]
    /\ outcome = [r \in Runs |-> "none"]
    /\ abandoned = {}
    /\ view = NoView

-----------------------------------------------------------------------------
(* The rebuild.                                                             *)

(* Mutant of LaneFree: the lane is taken only when writing starts.          *)
LaneFreeOfWriters == \A b \in Rebuilders : ~At(b, "writing")

LaneFree == \A b \in Rebuilders : At(b, "idle")

Begin(b) ==
    /\ At(b, "idle")
    /\ ExclusiveLane => LaneFree
    /\ nextRun \in Runs
    /\ nextRun' = nextRun + 1
    /\ rebuilder' = [rebuilder EXCEPT ![b] =
                         [Idle EXCEPT !.at = "building", !.run = nextRun]]
    /\ UNCHANGED <<store, outcome, abandoned, view>>

(* Nothing has been staged yet: a failing source build reports and ends.    *)
BuildSource(b) ==
    /\ At(b, "building")
    /\ \/ Goto(b, "starting") /\ UNCHANGED outcome
       \/ Done(b) /\ outcome' = [outcome EXCEPT ![RunOf(b)] = "failed"]
    /\ UNCHANGED <<nextRun, store, abandoned, view>>

(* A write transaction of the rebuild: it commits, or it does not, and the  *)
(* service learns of it in a later step.                                    *)
Commits(b, effect) ==
    /\ ~rebuilder[b].committed
    /\ effect
    /\ rebuilder' = [rebuilder EXCEPT ![b].committed = TRUE]
    /\ UNCHANGED outcome

Succeeds(b) == rebuilder[b].committed /\ UNCHANGED store

Fails(b) ==
    /\ rebuilder[b].committed => RepliesMayBeLost
    /\ Goto(b, "aborting")
    /\ UNCHANGED <<store, outcome>>

DeleteRun(r) == rows' = [rows EXCEPT ![r] = {}] /\ UNCHANGED active

(* Mutant of ActivateProjection: the previous rows are left in the store.   *)
ActivateProjectionKept(r) == active' = r /\ UNCHANGED rows

(* Set the active run and delete the rows of the previous one, if it is     *)
(* another.                                                                 *)
ActivateProjection(r) ==
    /\ active' = r
    /\ rows' = IF active \in Runs \ {r} THEN [rows EXCEPT ![active] = {}]
               ELSE rows

(* Mutant of StartRebuild: the run is made active before it is staged.      *)
StartRebuildActive(b) ==
    /\ At(b, "starting")
    /\ \/ Commits(b, ActivateProjection(RunOf(b)))
       \/ Succeeds(b) /\ Goto(b, "writing") /\ UNCHANGED outcome
       \/ Fails(b)
    /\ UNCHANGED <<nextRun, abandoned, view>>

StartRebuild(b) ==
    /\ At(b, "starting")
    /\ \/ Commits(b, DeleteRun(RunOf(b)))
       \/ Succeeds(b) /\ Goto(b, "writing") /\ UNCHANGED outcome
       \/ Fails(b)
    /\ UNCHANGED <<nextRun, abandoned, view>>

AddBatch(r, i) == rows' = [rows EXCEPT ![r] = @ \cup {i}] /\ UNCHANGED active

(* Mutant of WriteRebuildBatch: one batch beyond the last.                  *)
WriteRebuildBatchBeyond(b) ==
    /\ At(b, "writing")
    /\ rebuilder[b].sent <= BatchCount
    /\ \/ Commits(b, AddBatch(RunOf(b), rebuilder[b].sent + 1))
       \/ /\ Succeeds(b)
          /\ rebuilder' = [rebuilder EXCEPT ![b].sent = @ + 1,
                                            ![b].committed = FALSE]
          /\ UNCHANGED outcome
       \/ Fails(b)
    /\ UNCHANGED <<nextRun, abandoned, view>>

WriteRebuildBatch(b) ==
    /\ At(b, "writing")
    /\ rebuilder[b].sent < BatchCount
    /\ \/ Commits(b, AddBatch(RunOf(b), rebuilder[b].sent + 1))
       \/ /\ Succeeds(b)
          /\ rebuilder' = [rebuilder EXCEPT ![b].sent = @ + 1,
                                            ![b].committed = FALSE]
          /\ UNCHANGED outcome
       \/ Fails(b)
    /\ UNCHANGED <<nextRun, abandoned, view>>

(* Mutant of CompleteRebuild: it does not wait for the last batch.          *)
CompleteRebuildEarly(b) ==
    /\ At(b, "writing")
    /\ \/ Commits(b, ActivateProjection(RunOf(b)))
       \/ /\ Succeeds(b)
          /\ Done(b)
          /\ outcome' = [outcome EXCEPT ![RunOf(b)] = "completed"]
       \/ Fails(b)
    /\ UNCHANGED <<nextRun, abandoned, view>>

CompleteRebuild(b) ==
    /\ At(b, "writing")
    /\ rebuilder[b].sent = BatchCount
    /\ \/ Commits(b, ActivateProjection(RunOf(b)))
       \/ /\ Succeeds(b)
          /\ Done(b)
          /\ outcome' = [outcome EXCEPT ![RunOf(b)] = "completed"]
       \/ Fails(b)
    /\ UNCHANGED <<nextRun, abandoned, view>>

(* Mutant of AbortRebuild: it deletes the rows of the active run.           *)
AbortRebuildOfActive(b) ==
    /\ At(b, "aborting")
    /\ Done(b)
    /\ outcome' = [outcome EXCEPT ![RunOf(b)] = "failed"]
    /\ IF active = NoRun THEN UNCHANGED store ELSE DeleteRun(active)
    /\ UNCHANGED <<nextRun, abandoned, view>>

AbortRebuild(b) ==
    /\ At(b, "aborting")
    /\ Done(b)
    /\ outcome' = [outcome EXCEPT ![RunOf(b)] = "failed"]
    /\ \/ DeleteRun(RunOf(b)) /\ UNCHANGED abandoned
       \/ UNCHANGED store /\ abandoned' = abandoned \cup {RunOf(b)}
    /\ UNCHANGED <<nextRun, view>>

(* Cancellation is not an Exception and a dead process runs no handler:     *)
(* neither aborts the run.                                                  *)
Vanish(b) ==
    /\ ~At(b, "idle")
    /\ Done(b)
    /\ abandoned' = abandoned \cup {RunOf(b)}
    /\ UNCHANGED <<nextRun, store, outcome, view>>

-----------------------------------------------------------------------------
(* A status read: metadata, nodes and edges, three queries of one read      *)
(* transaction.                                                             *)

(* Mutant of ReadMetadata: the newest run is read instead of the active.    *)
ReadMetadataOfNewest ==
    /\ view.at \in {"idle", "done"}
    /\ view' = IF nextRun = 1 THEN NoView
               ELSE [NoView EXCEPT !.at = "nodes", !.run = nextRun - 1]
    /\ UNCHANGED <<nextRun, store, rebuilder, outcome, abandoned>>

ReadMetadata ==
    /\ view.at \in {"idle", "done"}
    /\ view' = IF active = NoRun THEN NoView
               ELSE [NoView EXCEPT !.at = "nodes", !.run = active]
    /\ UNCHANGED <<nextRun, store, rebuilder, outcome, abandoned>>

ReadNodes ==
    /\ view.at = "nodes"
    /\ view' = [view EXCEPT !.at = "edges", !.nodes = rows[view.run]]
    /\ UNCHANGED <<nextRun, store, rebuilder, outcome, abandoned>>

ReadEdges ==
    /\ view.at = "edges"
    /\ view' = [view EXCEPT !.at = "done", !.edges = rows[view.run]]
    /\ UNCHANGED <<nextRun, store, rebuilder, outcome, abandoned>>

-----------------------------------------------------------------------------
Next ==
    \/ \E b \in Rebuilders :
          \/ Begin(b) \/ BuildSource(b) \/ StartRebuild(b)
          \/ WriteRebuildBatch(b) \/ CompleteRebuild(b) \/ AbortRebuild(b)
          \/ Vanish(b)
    \/ ReadMetadata \/ ReadNodes \/ ReadEdges

Spec == Init /\ [][Next]_vars

-----------------------------------------------------------------------------
(* Properties.                                                              *)

TypeOK ==
    /\ nextRun \in 1..(MaxRuns + 1)
    /\ active \in Runs \cup {NoRun}
    /\ rows \in [Runs -> SUBSET Batches]
    /\ rebuilder \in [Rebuilders -> [at : Points, run : Runs \cup {NoRun},
                                     sent : 0..BatchCount,
                                     committed : BOOLEAN]]
    /\ outcome \in [Runs -> {"none", "completed", "failed"}]
    /\ abandoned \subseteq Runs
    /\ view \in [at : {"idle", "nodes", "edges", "done"},
                 run : Runs \cup {NoRun},
                 nodes : SUBSET Batches, edges : SUBSET Batches]

(* Readers are shown a whole run: activation never precedes staging, and    *)
(* neither an abort nor a later activation takes rows from the active run.  *)
ActiveIsWhole == active # NoRun => rows[active] = Batches

(* The service implements the atomic projection.                            *)
Abstract == INSTANCE AtomicProjection WITH
    Content <- Batches,
    shown <- IF active = NoRun THEN [run |-> NoRun, rows |-> {}]
             ELSE [run |-> active, rows |-> rows[active]]

AtomicSpec == Abstract!Spec

(* No staged rows are left behind but those of a run that is active, still  *)
(* in progress, or ended without its abort taking effect.                   *)
StagingAccounted ==
    \A r \in Runs :
        rows[r] # {} =>
            \/ r = active
            \/ r \in abandoned
            \/ \E b \in Rebuilders : RunOf(b) = r

(* A rebuild reported as failed has left the projection as it was.          *)
FailedMeansUnchanged ==
    \A r \in Runs : outcome[r] = "failed" => active # r

(* Once a rebuild is reported as completed its run, or one started after    *)
(* it, is the active one.                                                   *)
CompletedIsShown ==
    \A r \in Runs : outcome[r] = "completed" => active >= r

(* Each list a status read returns is whole or empty, never a part.         *)
ListsWholeOrEmpty ==
    /\ view.at \in {"edges", "done"} => view.nodes \in {{}, Batches}
    /\ view.at = "done" => view.edges \in {{}, Batches}
=============================================================================
