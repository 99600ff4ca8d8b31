--------------------------- MODULE LibrarianWorkflow ---------------------------
(***************************************************************************)
(* Librarian workflows: a request plans actions and stores a row that waits *)
(* for approval, a second one carries the approved actions out and stores  *)
(* the row again, a third one may cancel it.  Rows commit after the answer; *)
(* notes and the provider are written to at once.                          *)
(***************************************************************************)
EXTENDS Naturals, Sequences, FiniteSets

CONSTANTS
    Threads,            \* workflows
    PendingActions,     \* the actions a plan offers, in the order of execution
    Approvers,          \* requests
    MaxWorkflowFaults,  \* bound: dying requests
    NoThread            \* a request that has no workflow yet

ASSUME WorkflowAssumption == NoThread \notin Threads /\ MaxWorkflowFaults \in Nat

VARIABLES
    workflows,      \* committed rows
    stored,         \* each request's session: it has written its row
    approver,       \* each request: where it is and its local state
    done,           \* the actions carried out, in notes and at the provider
    accepted,       \* history: resumptions committed
    muddled,        \* history: workflows whose requests met or failed midway
    workflowFaults

workflowVars == <<workflows, stored, approver, done, accepted, muddled, workflowFaults>>

ActionIds == {PendingActions[i] : i \in 1..Len(PendingActions)}
NoRecord == [status |-> "none", completed |-> {}]
NoApprover == [at |-> "idle", thread |-> NoThread, write |-> NoRecord, todo |-> {}]

WorkflowInit ==
    /\ workflows = [w \in Threads |-> NoRecord]
    /\ stored = [r \in Approvers |-> FALSE]
    /\ approver = [r \in Approvers |-> NoApprover]
    /\ done = [w \in Threads |-> {}]
    /\ accepted = [w \in Threads |-> 0]
    /\ muddled = {}
    /\ workflowFaults = 0

-----------------------------------------------------------------------------
ApproverAt(r, point) == approver[r].at = point
Busy(w) == \E s \in Approvers : approver[s].thread = w
Carried(r) == approver[r].write.completed
WorkKept == UNCHANGED <<workflows, stored, done, accepted, workflowFaults>>
ComesFirst(i, todo) == i \in todo /\ \A j \in todo : i <= j

(* A new workflow, under a thread id of its own, waits for approval.        *)
StartWorkflow(r) ==
    /\ ApproverAt(r, "idle")
    /\ \E w \in Threads :
          /\ workflows[w] = NoRecord /\ ~Busy(w)
          /\ approver' = [approver EXCEPT ![r] = [@ EXCEPT !.at = "storing", !.thread = w,
                 !.write = [status |-> "WAITING", completed |-> {}]]]
    /\ UNCHANGED muddled
    /\ WorkKept

AwaitsApproval(w) == workflows[w].status = "WAITING"

(* The row as committed decides; the approved actions are known ones, to be *)
(* carried out in their order.                                              *)
ResumeWorkflow(r) ==
    /\ ApproverAt(r, "idle")
    /\ \E w \in Threads, approved \in SUBSET ActionIds :
          /\ workflows[w] # NoRecord
          /\ approver' = [approver EXCEPT ![r] = [@ EXCEPT
                 !.at = IF AwaitsApproval(w) THEN "executing" ELSE "failing",
                 !.thread = w,
                 !.write = [status |-> "COMPLETED", completed |-> workflows[w].completed],
                 !.todo = {i \in 1..Len(PendingActions) : PendingActions[i] \in approved}]]
          /\ muddled' = IF Busy(w) THEN muddled \cup {w} ELSE muddled
    /\ WorkKept

(* Mutant of CarryOut: an action that fails is passed over, yet listed.     *)
CarryOutAnyway(r) ==
    /\ ApproverAt(r, "executing")
    /\ \E i \in approver[r].todo :
          /\ ComesFirst(i, approver[r].todo)
          /\ approver' = [approver EXCEPT ![r].todo = @ \ {i},
                              ![r].write.completed = @ \cup {PendingActions[i]}]
          /\ \/ done' = [done EXCEPT ![approver[r].thread] = @ \cup {PendingActions[i]}]
             \/ UNCHANGED done
    /\ UNCHANGED <<workflows, stored, accepted, muddled, workflowFaults>>

(* An approved action writes its note or asks the provider at once; if it   *)
(* fails, before or after its effect, the whole request does.               *)
CarryOut(r) ==
    /\ ApproverAt(r, "executing")
    /\ \E i \in approver[r].todo :
       LET act == PendingActions[i]
       IN  /\ ComesFirst(i, approver[r].todo)
           /\ \/ /\ approver' = [approver EXCEPT ![r].todo = @ \ {i},
                                                 ![r].write.completed = @ \cup {act}]
                 /\ done' = [done EXCEPT ![approver[r].thread] = @ \cup {act}]
                 /\ UNCHANGED muddled
              \/ /\ approver' = [approver EXCEPT ![r].at = "failing"]
                 /\ \/ UNCHANGED <<done, muddled>>
                    \/ /\ done' = [done EXCEPT ![approver[r].thread] = @ \cup {act}]
                       /\ muddled' = muddled \cup {approver[r].thread}
    /\ UNCHANGED <<workflows, stored, accepted, workflowFaults>>

Finalize(r) ==
    /\ ApproverAt(r, "executing") /\ approver[r].todo = {}
    /\ approver' = [approver EXCEPT ![r].at = "storing"]
    /\ UNCHANGED muddled
    /\ WorkKept

(* A cancellation asks for no status: it also cancels what has completed.   *)
CancelWorkflow(r) ==
    /\ ApproverAt(r, "idle")
    /\ \E w \in Threads :
          /\ workflows[w] # NoRecord
          /\ approver' = [approver EXCEPT ![r] = [@ EXCEPT !.at = "storing", !.thread = w,
                 !.write = [status |-> "CANCELLED", completed |-> workflows[w].completed]]]
          /\ muddled' = IF Busy(w) \/ workflows[w].status = "COMPLETED"
                        THEN muddled \cup {w} ELSE muddled
    /\ WorkKept

(* The row is written in the session; another session that has written it   *)
(* is waited for, and then overwritten.                                     *)
StoreWorkflow(r) ==
    /\ ApproverAt(r, "storing")
    /\ \A s \in Approvers : approver[s].thread = approver[r].thread => ~stored[s]
    /\ stored' = [stored EXCEPT ![r] = TRUE]
    /\ approver' = [approver EXCEPT ![r].at = "committing"]
    /\ UNCHANGED <<workflows, done, accepted, muddled, workflowFaults>>

CommitWorkflow(r) ==
    LET w == approver[r].thread
    IN  /\ ApproverAt(r, "committing")
        /\ workflows' = [workflows EXCEPT ![w] = approver[r].write]
        /\ accepted' = IF approver[r].write.status = "COMPLETED"
                       THEN [accepted EXCEPT ![w] = @ + 1] ELSE accepted
        /\ stored' = [stored EXCEPT ![r] = FALSE]
        /\ approver' = [approver EXCEPT ![r] = [NoApprover EXCEPT !.at = "over"]]
        /\ UNCHANGED <<done, muddled, workflowFaults>>

(* The row is rolled back; what the actions have done stays done.           *)
DropWorkflow(r) ==
    /\ \/ ApproverAt(r, "failing") /\ UNCHANGED workflowFaults
       \/ /\ approver[r].at \notin {"idle", "over"} /\ workflowFaults < MaxWorkflowFaults
          /\ workflowFaults' = workflowFaults + 1
    /\ muddled' = IF Carried(r) \ workflows[approver[r].thread].completed # {}
                  THEN muddled \cup {approver[r].thread} ELSE muddled
    /\ stored' = [stored EXCEPT ![r] = FALSE]
    /\ approver' = [approver EXCEPT ![r] = [NoApprover EXCEPT !.at = "over"]]
    /\ UNCHANGED <<workflows, done, accepted>>

WorkflowNext ==
    \/ \E r \in Approvers :
          \/ StartWorkflow(r) \/ ResumeWorkflow(r) \/ CarryOut(r) \/ Finalize(r)
          \/ CancelWorkflow(r) \/ StoreWorkflow(r) \/ CommitWorkflow(r) \/ DropWorkflow(r)
    \/ (\A r \in Approvers : ApproverAt(r, "over")) /\ UNCHANGED workflowVars

WorkflowSpec == WorkflowInit /\ [][WorkflowNext]_workflowVars

-----------------------------------------------------------------------------
(* A completed workflow has carried out all that it lists.  Unless its      *)
(* requests met, failed midway or cancelled it when it was complete, what   *)
(* was carried out is what it lists, after one approval, and nothing at all *)
(* while it waits or once it is cancelled.                                  *)
WorkflowsTellTheirWork ==
    \A w \in Threads :
        /\ workflows[w].status = "COMPLETED" => workflows[w].completed \subseteq done[w]
        /\ (w \notin muddled /\ ~Busy(w)) =>
              /\ done[w] = workflows[w].completed
              /\ accepted[w] = IF workflows[w].status = "COMPLETED" THEN 1 ELSE 0

(* Requests hold known workflows; at most one session has written a row.    *)
WorkflowTypeOK ==
    /\ \A w \in Threads : done[w] \subseteq ActionIds /\ workflows[w].completed \subseteq ActionIds
    /\ muddled \subseteq Threads
    /\ workflowFaults \in 0..MaxWorkflowFaults
    /\ \A r, s \in Approvers : (r # s /\ stored[r] /\ stored[s]) =>
           approver[r].thread # approver[s].thread
=============================================================================
