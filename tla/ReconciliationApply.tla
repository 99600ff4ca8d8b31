------------------------ MODULE ReconciliationApply ------------------------
(***************************************************************************)
(* Applying reconciliation plans.  A plan relates a new memory to one      *)
(* existing Context; applying it changes Markdown files at once and        *)
(* database rows when the request's session commits.  Requests for one     *)
(* plan or one Context may overlap, fail half way, die and be retried.     *)
(***************************************************************************)
EXTENDS Naturals, Sequences

CONSTANTS
    Plans,
    CandidateOf,        \* the candidate memory that each plan places
    ClaimOf,            \* the canonical claim that each plan is about
    TextOf,             \* the body its Context gets, links section included
    RelationOf,         \* each plan's primary relation to the existing Context
    Applies,            \* requests, one session each
    MaxApplyFaults,     \* bound: failing steps and dying requests
    NoRow               \* no row, no file, no value

Candidates == {CandidateOf[p] : p \in Plans}
Overlays == [closed : BOOLEAN, by : SUBSET Candidates, conflicts : SUBSET Plans]
Words == {"error", "unmarked", "linked", "open", "reviewing", "resolved", "current",
          "APPLIED", "FAILED", "PARTIAL_APPLY"}

VARIABLES
    made,       \* each candidate's Context file: the plan that wrote it last
    merged,     \* candidates whose evidence is in the existing Context's file
    markedBy,   \* the candidate that the existing Context's file names
    rows,       \* committed rows, by key
    pending,    \* each request's session: rows flushed, not committed
    reading,    \* conflicts that a reviewer has read as not resolved
    apply,      \* each request: where it is and its local state
    applyFaults,
    overlap     \* history: two requests were under way at once

fileVars == <<made, merged, markedBy>>
applyVars == <<fileVars, rows, pending, reading, apply, applyFaults, overlap>>

(* The actions of each relation, in the order they are applied.             *)
StepsOf ==
    [none |-> <<"create", "verify", "own", "result">>,
     unrelated |-> <<"create", "verify", "own", "state", "result">>,
     duplicate |-> <<"read", "merge", "verify", "state", "result">>,
     supports |-> <<"read", "merge", "verify", "relation", "state", "result">>,
     extends |-> <<"create", "verify", "relation", "own", "state", "result">>,
     contradicts |->
         <<"create", "verify", "relation", "conflict", "own", "state", "result">>,
     supersedes |->
         <<"create", "verify", "relation", "supersede", "own", "state", "result">>]
Takes(p, step) == \E k \in DOMAIN StepsOf[RelationOf[p]] : StepsOf[RelationOf[p]][k] = step
Relates(p) == RelationOf[p] # "none"
Replacing(p) == RelationOf[p] = "supersedes"

(* A relation leads from a Context, or from a candidate's evidence; one     *)
(* conflict is kept for each candidate and claim.                           *)
NoteRow(c) == <<"note", c>>
MarkRow == <<"mark", "target">>
RelationRow(c, p) == <<"relation", <<c, RelationOf[p]>>>>
ConflictRow(p) == <<"conflict", <<CandidateOf[p], ClaimOf[p]>>>>
ResultRow(p) == <<"result", p>>
StateRow == <<"state", "target">>
NoteKeys == {NoteRow(c) : c \in Candidates} \cup {MarkRow}
ConflictKeys == {ConflictRow(p) : p \in Plans}
Keys == NoteKeys \cup ConflictKeys \cup {<<"own", c>> : c \in Candidates}
            \cup {RelationRow(c, p) : c \in Candidates, p \in Plans}
            \cup {ResultRow(p) : p \in Plans} \cup {StateRow}

ASSUME ApplyAssumption ==
    /\ Plans # {} /\ RelationOf \in [Plans -> DOMAIN StepsOf]
    /\ NoRow \notin Plans \cup Candidates \cup Words \cup Overlays
    /\ Words \cap (Plans \cup Candidates) = {}
    /\ \A p, q \in Plans : TextOf[p] = TextOf[q] => (Replacing(p) <=> Replacing(q))
    /\ MaxApplyFaults \in Nat

Untouched == [k \in Keys |-> NoRow]
OpenState == [closed |-> FALSE, by |-> {}, conflicts |-> {}]
Started(p) ==
    [plan |-> p, at |-> "working", step |-> 1, part |-> "begin",
     created |-> CandidateOf[p], selected |-> FALSE, seen |-> NoRow,
     evidence |-> {}, named |-> "unmarked", changed |-> FALSE, status |-> "APPLIED"]
NoApply == [Started(CHOOSE p \in Plans : TRUE) EXCEPT !.at = "idle"]

ApplyInit ==
    /\ made = [c \in Candidates |-> NoRow] /\ merged = {} /\ markedBy = "unmarked"
    /\ rows = [Untouched EXCEPT ![MarkRow] = "unmarked"]
    /\ pending = [r \in Applies |-> Untouched]
    /\ reading = {}
    /\ apply = [r \in Applies |-> NoApply]
    /\ applyFaults = 0
    /\ overlap = FALSE

-----------------------------------------------------------------------------
Seen(r, k) == IF pending[r][k] = NoRow THEN rows[k] ELSE pending[r][k]
UnlockedKey(r, k) == \A s \in Applies \ {r} : pending[s][k] = NoRow
Puts(r, k, v) == pending' = [pending EXCEPT ![r][k] = v]

Underway(r) == apply[r].at \notin {"idle", "over"}
OnStep(r, step) ==
    /\ apply[r].at = "working"
    /\ StepsOf[RelationOf[apply[r].plan]][apply[r].step] = step
OnPart(r, step, part) == OnStep(r, step) /\ apply[r].part = part

Goto(r, part) == apply' = [apply EXCEPT ![r].part = part]
Continue(r) == [apply[r] EXCEPT !.step = @ + 1, !.part = "begin",
                                !.selected = FALSE, !.seen = NoRow]
Proceed(r) == apply' = [apply EXCEPT ![r] = Continue(r)]
ChangesWith(r, c) == apply' = [apply EXCEPT ![r] = [Continue(r) EXCEPT
    !.changed = TRUE, !.created = c, !.evidence = {}, !.named = "unmarked"]]
Changes(r) == ChangesWith(r, apply[r].created)

(* A step raises: the outcome is recorded instead of the remaining steps.   *)
Fails(r) ==
    apply' = [apply EXCEPT ![r] = [Continue(r) EXCEPT
        !.step = Len(StepsOf[RelationOf[apply[r].plan]]),
        !.evidence = {}, !.named = "unmarked",
        !.status = IF apply[r].changed THEN "PARTIAL_APPLY" ELSE "FAILED"]]
Fault == applyFaults < MaxApplyFaults /\ applyFaults' = applyFaults + 1

(* Mutant of Reused: a recorded result never stops the plan.                *)
ReusedNever(result, retry) == FALSE

(* A recorded result is returned, unless it may be retried.                 *)
Reused(result, retry) == result # NoRow /\ (result = "APPLIED" \/ ~retry)

Apply(r) ==
    /\ apply[r].at = "idle"
    /\ \E p \in Plans, retry \in BOOLEAN :
          apply' = [apply EXCEPT ![r] = IF Reused(rows[ResultRow(p)], retry)
                                        THEN [NoApply EXCEPT !.at = "over"]
                                        ELSE Started(p)]
    /\ overlap' = (overlap \/ \E s \in Applies \ {r} : Underway(s))
    /\ UNCHANGED <<fileVars, rows, pending, reading, applyFaults>>

-----------------------------------------------------------------------------
(* The rows that a step's reads of notes go by.                             *)
Reads(r) ==
    LET p == apply[r].plan
        created == NoteRow(apply[r].created)
    IN  IF (OnPart(r, "create", "begin") /\ Relates(p)) \/ OnStep(r, "read") THEN {MarkRow}
        ELSE IF OnStep(r, "verify") THEN {IF Takes(p, "create") THEN created ELSE MarkRow}
        ELSE IF OnPart(r, "supersede", "begin") THEN {MarkRow, created}
        ELSE {}
Lost(r) == \E k \in Reads(r) : Seen(r, k) = "error"

(* What a reindex indexes when the existing Context's replacement is w: a   *)
(* Context that claims the place of another's is an error, and so are all   *)
(* of them and the existing one if the one it names does not claim it.      *)
Claiming == {c \in Candidates : made[c] # NoRow /\ Replacing(made[c])}
Replacements ==
    LET fits == {c \in Claiming : markedBy \in {"unmarked", c}}
    IN  IF fits # {} THEN fits
        ELSE IF markedBy = "unmarked" THEN {"unmarked"} ELSE {"error"}
NoteScanned(c, w) == IF c \in Claiming /\ c # w THEN "error" ELSE made[c]
Scanned(r, w) ==
    [k \in Keys |-> IF k = MarkRow THEN w
                    ELSE IF k \in NoteKeys /\ made[k[2]] # NoRow THEN NoteScanned(k[2], w)
                    ELSE pending[r][k]]

(* A note whose row is an error is looked for again after a reindex, which  *)
(* also completes the link of a replacement, unless the lane is taken.      *)
Reindex(r) ==
    /\ Lost(r)
    /\ \/ \E w \in Replacements :
             /\ \A k \in NoteKeys : UnlockedKey(r, k)
             /\ pending' = [pending EXCEPT ![r] = Scanned(r, w)]
             /\ markedBy' = IF w \in Candidates THEN w ELSE markedBy
             /\ IF \E k \in Reads(r) : Scanned(r, w)[k] = "error"
                THEN Fails(r) ELSE UNCHANGED apply
       \/ Fails(r) /\ UNCHANGED <<markedBy, pending>>
    /\ UNCHANGED <<made, merged, rows, reading, applyFaults, overlap>>

(* Another Context with the text that this plan's would get.                *)
Twins(r) ==
    {c \in Candidates \ {CandidateOf[apply[r].plan]} :
        /\ Seen(r, NoteRow(c)) \in Plans
        /\ TextOf[Seen(r, NoteRow(c))] = TextOf[apply[r].plan]}

(* The candidate's note is saved under the candidate's id: refused over an  *)
(* error row, or if the index knows another replacement; a note with the    *)
(* same text is taken instead.  The file is written without any row locked. *)
SaveContext(r) ==
    LET p == apply[r].plan
        c == CandidateOf[p]
        refused == Seen(r, NoteRow(c)) = "error"
                   \/ (Replacing(p) /\ Seen(r, MarkRow) \notin {"unmarked", c})
    IN  /\ OnPart(r, "create", "begin") /\ ~Lost(r)
        /\ \/ refused /\ Fails(r) /\ UNCHANGED made
           \/ ~refused /\ (\E d \in Twins(r) : ChangesWith(r, d)) /\ UNCHANGED made
           \/ /\ ~refused /\ Twins(r) = {}
              /\ made' = [made EXCEPT ![c] = p]
              /\ apply' = [apply EXCEPT ![r].part = "index", ![r].seen = Seen(r, NoteRow(c))]
        /\ UNCHANGED <<merged, markedBy, rows, pending, reading, applyFaults, overlap>>

(* Its row is written.  That fails if another session inserted it since it  *)
(* was looked up, and leaves an error row.                                  *)
IndexContext(r) ==
    LET p == apply[r].plan
        own == NoteRow(apply[r].created)
        overtaken == apply[r].seen = NoRow /\ Seen(r, own) # NoRow
    IN  /\ OnPart(r, "create", "index") \/ OnPart(r, "supersede", "index")
        /\ UnlockedKey(r, own)
        /\ \/ /\ Puts(r, own, p) /\ UNCHANGED applyFaults
              /\ IF Replacing(p) THEN Goto(r, "mark") ELSE Changes(r)
           \/ /\ Fault \/ (overtaken /\ UNCHANGED applyFaults)
              /\ Puts(r, own, "error") /\ Fails(r)
        /\ UNCHANGED <<fileVars, rows, reading, overlap>>

(* A failing mark leaves an error row for the note that was being saved.    *)
MarkFails(r, others) ==
    /\ Fails(r)
    /\ pending' = [pending EXCEPT ![r] = [k \in Keys |->
           IF k \in others \/ (OnStep(r, "create") /\ k = NoteRow(apply[r].created))
           THEN "error" ELSE @[k]]]

(* The existing Context is marked as replaced: decided by its row, written  *)
(* to its file, and only then to its row, which another session may hold.   *)
MarkTarget(r) ==
    LET c == apply[r].created
        row == Seen(r, MarkRow)
    IN  /\ OnPart(r, "create", "mark") \/ OnPart(r, "supersede", "mark")
        /\ \/ row \notin {"unmarked", c} /\ MarkFails(r, {}) /\ UNCHANGED markedBy
           \/ row = c /\ Changes(r) /\ UNCHANGED <<markedBy, pending>>
           \/ /\ row = "unmarked"
              /\ markedBy' = c
              /\ apply' = [apply EXCEPT ![r].part = "flag", ![r].named = c]
              /\ UNCHANGED pending
        /\ UNCHANGED <<made, merged, rows, reading, applyFaults, overlap>>

IndexTarget(r) ==
    /\ apply[r].at = "working" /\ apply[r].part = "flag"
    /\ UnlockedKey(r, MarkRow)
    /\ \/ Puts(r, MarkRow, apply[r].named) /\ Changes(r) /\ UNCHANGED applyFaults
       \/ /\ Fault \/ (Seen(r, MarkRow) = "error" /\ UNCHANGED applyFaults)
          /\ MarkFails(r, {MarkRow})
    /\ UNCHANGED <<fileVars, rows, reading, overlap>>

Verify(r) ==
    /\ OnStep(r, "verify") /\ ~Lost(r)
    /\ (Proceed(r) /\ UNCHANGED applyFaults) \/ (Fails(r) /\ Fault)
    /\ UNCHANGED <<fileVars, rows, pending, reading, overlap>>

ReadEvidence(r) ==
    /\ OnStep(r, "read") /\ ~Lost(r)
    /\ apply' = [apply EXCEPT ![r] = [Continue(r) EXCEPT
                     !.evidence = merged, !.named = markedBy]]
    /\ UNCHANGED <<fileVars, rows, pending, reading, applyFaults, overlap>>

(* The whole note is saved as it was read, with the evidence; refused over  *)
(* an error row, or if the replacement it names does not name it.           *)
MergeEvidence(r) ==
    LET named == apply[r].named
        backed == Seen(r, NoteRow(named)) \in Plans /\ Replacing(Seen(r, NoteRow(named)))
        refused == Seen(r, MarkRow) = "error" \/ (named # "unmarked" /\ ~backed)
    IN  /\ OnPart(r, "merge", "begin")
        /\ \/ refused /\ Fails(r) /\ UNCHANGED <<merged, markedBy>>
           \/ /\ ~refused /\ Goto(r, "flag")
              /\ merged' = apply[r].evidence \cup {CandidateOf[apply[r].plan]}
              /\ markedBy' = named
        /\ UNCHANGED <<made, rows, pending, reading, applyFaults, overlap>>

(* The link that the save has written is usually complete; what is missing  *)
(* of it is written, the replacement's side first.                          *)
Supersede(r) ==
    LET c == apply[r].created
    IN  /\ OnPart(r, "supersede", "begin") /\ ~Lost(r)
        /\ \/ markedBy = c /\ c \in Claiming /\ Changes(r) /\ UNCHANGED made
           \/ markedBy \notin {"unmarked", c} /\ Fails(r) /\ UNCHANGED made
           \/ /\ markedBy = "unmarked" /\ c \in Claiming
              /\ Goto(r, "mark") /\ UNCHANGED made
           \/ /\ markedBy \in {"unmarked", c} /\ c \notin Claiming
              /\ made' = [made EXCEPT ![c] = apply[r].plan]
              /\ apply' = [apply EXCEPT ![r].part = "index", ![r].seen = Seen(r, NoteRow(c))]
        /\ UNCHANGED <<merged, markedBy, rows, pending, reading, applyFaults, overlap>>

-----------------------------------------------------------------------------
(* Mutant of Overlay: the overlay of a superseded Context stays current.    *)
OverlayOpen(p, c, base) ==
    IF Replacing(p) THEN [base EXCEPT !.by = @ \cup {c}]
    ELSE IF RelationOf[p] = "contradicts" THEN [base EXCEPT !.conflicts = @ \cup {p}]
    ELSE base

(* The existing Context's temporal overlay, from the one that was read.     *)
Overlay(p, c, base) ==
    IF Replacing(p) THEN [base EXCEPT !.closed = TRUE, !.by = @ \cup {c}]
    ELSE IF RelationOf[p] = "contradicts" THEN [base EXCEPT !.conflicts = @ \cup {p}]
    ELSE base

Stores == {"relation", "conflict", "own", "state", "result"}
RowOf(r, step) ==
    LET p == apply[r].plan
        c == apply[r].created
    IN  CASE step = "relation" -> RelationRow(c, p)
          [] step = "conflict" -> ConflictRow(p)
          [] step = "own" -> <<"own", c>>
          [] step = "state" -> StateRow
          [] step = "result" -> ResultRow(p)

ValueOf(r, step) ==
    LET base == IF apply[r].seen = NoRow THEN OpenState ELSE apply[r].seen
    IN  CASE step = "relation" -> "linked"
          [] step = "conflict" -> "open"
          [] step = "own" -> "current"
          [] step = "state" -> Overlay(apply[r].plan, apply[r].created, base)
          [] step = "result" -> apply[r].status

(* Every store reads the row, and then inserts or replaces it.              *)
Select(r) ==
    /\ \E step \in Stores :
          /\ OnStep(r, step) /\ ~apply[r].selected
          /\ apply' = [apply EXCEPT ![r].selected = TRUE, ![r].seen = Seen(r, RowOf(r, step))]
    /\ UNCHANGED <<fileVars, rows, pending, reading, applyFaults, overlap>>

(* Where a request is after a store; a duplicate key ends its session.      *)
AfterStep(r, step, duplicate) ==
    [apply[r] EXCEPT
        !.at = IF duplicate THEN "undoing" ELSE IF step = "result" THEN "closing" ELSE @,
        !.step = IF step = "result" THEN @ ELSE @ + 1,
        !.changed = @ \/ step \in {"relation", "conflict"},
        !.selected = FALSE, !.seen = NoRow]

Flush(r) ==
    /\ \E step \in Stores :
          LET k == RowOf(r, step)
              duplicate == apply[r].seen = NoRow /\ Seen(r, k) # NoRow
          IN  /\ OnStep(r, step) /\ apply[r].selected
              /\ UnlockedKey(r, k)
              /\ IF duplicate THEN UNCHANGED pending ELSE Puts(r, k, ValueOf(r, step))
              /\ apply' = [apply EXCEPT ![r] = AfterStep(r, step, duplicate)]
    /\ UNCHANGED <<fileVars, rows, reading, applyFaults, overlap>>

Finish(r) ==
    /\ pending' = [pending EXCEPT ![r] = Untouched]
    /\ apply' = [apply EXCEPT ![r] = [NoApply EXCEPT !.at = "over"]]

CommitApply(r) ==
    /\ apply[r].at = "closing"
    /\ rows' = [k \in Keys |-> Seen(r, k)]
    /\ Finish(r)
    /\ UNCHANGED <<fileVars, reading, applyFaults, overlap>>

(* A duplicate key, a failing statement or a death ends the session.        *)
AbortApply(r) ==
    /\ \/ apply[r].at = "undoing" /\ UNCHANGED applyFaults
       \/ Underway(r) /\ Fault
    /\ Finish(r)
    /\ UNCHANGED <<fileVars, rows, reading, overlap>>

-----------------------------------------------------------------------------
(* A reviewer marks a conflict from an earlier read, whatever its status is *)
(* by then, or settles it.                                                  *)
Review(k, status) ==
    /\ \A r \in Applies : pending[r][k] = NoRow
    /\ rows' = [rows EXCEPT ![k] = status]

ReadConflict ==
    /\ \E k \in ConflictKeys \ reading :
          rows[k] \in {"open", "reviewing"} /\ reading' = reading \cup {k}
    /\ UNCHANGED <<fileVars, rows, pending, apply, applyFaults, overlap>>

MarkReviewing ==
    /\ \E k \in reading : Review(k, "reviewing") /\ reading' = reading \ {k}
    /\ UNCHANGED <<fileVars, pending, apply, applyFaults, overlap>>

ResolveConflict ==
    /\ \E k \in ConflictKeys : rows[k] \in {"open", "reviewing"} /\ Review(k, "resolved")
    /\ UNCHANGED <<fileVars, pending, reading, apply, applyFaults, overlap>>

ApplyNext ==
    \/ \E r \in Applies :
          \/ Apply(r) \/ Reindex(r) \/ SaveContext(r) \/ IndexContext(r)
          \/ MarkTarget(r) \/ IndexTarget(r) \/ Verify(r) \/ ReadEvidence(r)
          \/ MergeEvidence(r) \/ Supersede(r) \/ Select(r) \/ Flush(r)
          \/ CommitApply(r) \/ AbortApply(r)
    \/ ReadConflict \/ MarkReviewing \/ ResolveConflict
    \/ (\A r \in Applies : ~Underway(r) /\ apply[r].at = "over") /\ UNCHANGED applyVars

ApplySpec == ApplyInit /\ [][ApplyNext]_applyVars

-----------------------------------------------------------------------------
Applied(p) == rows[ResultRow(p)] = "APPLIED"

(* The Context that an APPLIED plan has left: the candidate's own or one    *)
(* with its text, with a row and the rows that the plan's relation needs.   *)
Left(p, c) ==
    /\ \E q \in Plans : CandidateOf[q] = c /\ TextOf[q] = TextOf[p]
    /\ Takes(p, "create") => /\ made[c] # NoRow /\ rows[NoteRow(c)] # NoRow
                             /\ rows[<<"own", c>>] # NoRow
    /\ Takes(p, "relation") => rows[RelationRow(c, p)] # NoRow
    /\ Takes(p, "supersede") /\ ~overlap => markedBy = c

(* An APPLIED plan has left what its actions promise, in files and rows,    *)
(* whatever failed or was retried before; that its evidence is merged and   *)
(* the Context it supersedes is marked and closed is only sure if no        *)
(* requests overlapped.                                                     *)
AppliedIsDone ==
    \A p \in Plans : Applied(p) =>
        /\ \E c \in Candidates : Left(p, c)
        /\ Takes(p, "conflict") => rows[ConflictRow(p)] # NoRow
        /\ ~overlap => /\ Takes(p, "merge") => CandidateOf[p] \in merged
                       /\ Takes(p, "supersede") => rows[StateRow].closed

(* Without overlapping requests, a settled conflict is opened again only by *)
(* a plan that has not been applied, or by a reviewer who read it before it *)
(* was settled, and an APPLIED result is not replaced, whatever is retried. *)
SettledForGood ==
    [][~overlap =>
          /\ \A k \in ConflictKeys : rows[k] = "resolved" /\ rows'[k] # "resolved" =>
                \/ k \in reading /\ rows'[k] = "reviewing"
                \/ \E r \in Applies :
                      /\ apply[r].at = "closing" /\ ConflictRow(apply[r].plan) = k
                      /\ ~Applied(apply[r].plan)
          /\ \A p \in Plans : Applied(p) => Applied(p)']_applyVars

(* Files, rows and results are of their kinds; a request that is not under  *)
(* way has flushed nothing.                                                 *)
ApplyTypeOK ==
    /\ made \in [Candidates -> Plans \cup {NoRow}] /\ merged \subseteq Candidates
    /\ markedBy \in Candidates \cup {"unmarked"} /\ reading \subseteq ConflictKeys
    /\ applyFaults \in 0..MaxApplyFaults /\ overlap \in BOOLEAN
    /\ \A p \in Plans : rows[ResultRow(p)] \in
           {NoRow, "APPLIED", "FAILED", "PARTIAL_APPLY"}
    /\ \A r \in Applies : ~Underway(r) => pending[r] = Untouched
=============================================================================
