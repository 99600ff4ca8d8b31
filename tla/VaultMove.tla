------------------------------ MODULE VaultMove ------------------------------
(***************************************************************************)
(* Batches of note moves.  A request checks every move against the disk,   *)
(* checks again, renames one file after the other, reindexes and writes a  *)
(* report; in the background it is a job whose status lives in the process. *)
(* It takes no lane before the reindex: requests of other processes and    *)
(* people at work in Obsidian may change the disk between two steps.       *)
(***************************************************************************)
EXTENDS Naturals, Sequences, FiniteSets

CONSTANTS
    PathOf,             \* the file that each spelling of a path names
    MoveLists,          \* batches: sequences of moves between spellings
    Papers,             \* notes
    Movers,             \* requests
    MaxMeddling,        \* bound: changes made in Obsidian
    MaxMoveFaults,      \* bound: dying processes
    NoPaper             \* no file

Spellings == DOMAIN PathOf
Spots == {PathOf[s] : s \in Spellings}

ASSUME MoveAssumption ==
    /\ MoveLists \subseteq Seq(Spellings \X Spellings)
    /\ NoPaper \notin Papers /\ "people" \notin Movers
    /\ MaxMeddling \in Nat /\ MaxMoveFaults \in Nat

VARIABLES
    disk,           \* the note in each file
    mover,          \* each request: where it is and its local state
    reports,        \* each request's report file
    job,            \* each request's entry in its process's job registry
    putBy,          \* history: who put the note into a file
    binned,         \* history: notes that somebody has deleted
    crossed,        \* history: notes that came in between a check and a rename
    meddling, moveFaults

moveVars == <<disk, mover, reports, job, putBy, binned, crossed, meddling, moveFaults>>

OnDisk == {disk[p] : p \in Spots} \ {NoPaper}
NoMover == [at |-> "idle", asked |-> <<>>, todo |-> {}, moved |-> 0]

MoveInit ==
    /\ disk \in [Spots -> Papers \cup {NoPaper}]
    /\ OnDisk = Papers
    /\ \A p, q \in Spots : p # q /\ disk[p] = disk[q] => disk[p] = NoPaper
    /\ mover = [r \in Movers |-> NoMover]
    /\ reports = [r \in Movers |-> "none"]
    /\ job = [r \in Movers |-> "none"]
    /\ putBy = [p \in Spots |-> "people"]
    /\ binned = {} /\ crossed = {}
    /\ meddling = 0 /\ moveFaults = 0

-----------------------------------------------------------------------------
MoverAt(r, point) == mover[r].at = point
MoverGoes(r, point) == mover' = [mover EXCEPT ![r].at = point]
From(m) == PathOf[m[1]]
To(m) == PathOf[m[2]]
Movable(m) == From(m) # To(m) /\ disk[From(m)] # NoPaper /\ disk[To(m)] = NoPaper
DiskKept == UNCHANGED <<disk, putBy, binned, crossed, meddling>>

(* Somebody moves a note to a free place or deletes it.                     *)
Meddle(p) ==
    /\ meddling < MaxMeddling /\ disk[p] # NoPaper
    /\ meddling' = meddling + 1
    /\ \/ \E q \in Spots :
             /\ disk[q] = NoPaper
             /\ disk' = [disk EXCEPT ![q] = disk[p], ![p] = NoPaper]
             /\ putBy' = [putBy EXCEPT ![q] = "people"]
             /\ UNCHANGED binned
       \/ /\ disk' = [disk EXCEPT ![p] = NoPaper]
          /\ binned' = binned \cup {disk[p]}
          /\ UNCHANGED putBy
    /\ UNCHANGED <<mover, reports, job, crossed, moveFaults>>

(* A batch arrives, to be applied at once or by a job that is pending.      *)
AskMoves(r) ==
    /\ MoverAt(r, "idle")
    /\ \E batch \in MoveLists, background \in {"none", "PENDING"} :
          /\ mover' = [mover EXCEPT ![r].at = "planning", ![r].asked = batch]
          /\ job' = [job EXCEPT ![r] = background]
    /\ UNCHANGED <<reports, moveFaults>>
    /\ DiskKept

(* The plan keeps the moves that are safe now, by their places in the batch. *)
PlanMoves(r) ==
    /\ MoverAt(r, "planning")
    /\ job' = [job EXCEPT ![r] = IF @ = "PENDING" THEN "RUNNING" ELSE @]
    /\ mover' = [mover EXCEPT ![r].at = "checking",
           ![r].todo = {i \in DOMAIN mover[r].asked : Movable(mover[r].asked[i])}]
    /\ UNCHANGED <<reports, moveFaults>>
    /\ DiskKept

(* Mutant of Distinct: two moves of a batch may go to one place.            *)
DistinctSources(batch, i, kept) ==
    \A j \in kept : j < i => batch[j][1] # batch[i][1]

(* A move differs from the kept ones before it in its source and target, as *)
(* they are spelt.                                                          *)
Distinct(batch, i, kept) ==
    \A j \in kept : j < i => batch[j][1] # batch[i][1] /\ batch[j][2] # batch[i][2]

(* The plan is checked once more, and for duplicates.                       *)
CheckMoves(r) ==
    LET batch == mover[r].asked
        plan == mover[r].todo
    IN  /\ MoverAt(r, "checking")
        /\ \/ \E kept \in SUBSET plan :
                 /\ \A i \in plan : i \in kept <=> Distinct(batch, i, kept) /\ Movable(batch[i])
                 /\ mover' = [mover EXCEPT ![r].at = "renaming", ![r].todo = kept]
           \/ MoverGoes(r, "failing")       \* there is a file where the report goes
        /\ UNCHANGED <<reports, job, moveFaults>>
        /\ DiskKept

(* A rename takes its target's place, whatever is there by now; without its *)
(* source it is an error that ends the request.                             *)
Rename(r) ==
    /\ MoverAt(r, "renaming")
    /\ \E i \in mover[r].todo :
       LET m == mover[r].asked[i]
       IN  /\ \A j \in mover[r].todo : i <= j
           /\ IF disk[From(m)] = NoPaper
              THEN MoverGoes(r, "failing") /\ UNCHANGED <<disk, putBy, crossed>>
              ELSE /\ disk' = [disk EXCEPT ![To(m)] = disk[From(m)], ![From(m)] = NoPaper]
                   /\ putBy' = [putBy EXCEPT ![To(m)] = r]
                   /\ crossed' = IF disk[To(m)] # NoPaper /\ putBy[To(m)] # r
                                 THEN crossed \cup {disk[To(m)]} ELSE crossed
                   /\ mover' = [mover EXCEPT ![r].todo = @ \ {i}, ![r].moved = @ + 1]
    /\ UNCHANGED <<reports, job, binned, meddling, moveFaults>>

(* The reindex may be left out, succeed, count errors, or find the lane     *)
(* taken, which ends the request without a report.                          *)
ReindexMoves(r) ==
    /\ MoverAt(r, "renaming") /\ mover[r].todo = {}
    /\ MoverGoes(r, "reporting") \/ MoverGoes(r, "failing")
    /\ UNCHANGED <<reports, job, moveFaults>>
    /\ DiskKept

(* The report is written beside no other; then the session commits, and a   *)
(* job has succeeded.                                                       *)
ReportMoves(r) ==
    /\ MoverAt(r, "reporting")
    /\ \/ /\ reports' = [reports EXCEPT ![r] =
                IF mover[r].moved = 0 THEN "failed"
                ELSE IF mover[r].moved = Len(mover[r].asked) THEN "succeeded" ELSE "partial"]
          /\ MoverGoes(r, "committing")
       \/ MoverGoes(r, "failing") /\ UNCHANGED reports
    /\ UNCHANGED <<job, moveFaults>>
    /\ DiskKept

EndMoves(r) ==
    /\ \/ /\ MoverAt(r, "committing")
          /\ job' = [job EXCEPT ![r] = IF @ = "none" THEN @ ELSE "SUCCEEDED"]
       \/ /\ mover[r].at \in {"committing", "failing"}
          /\ job' = [job EXCEPT ![r] = IF @ = "none" THEN @ ELSE "FAILED"]
    /\ mover' = [mover EXCEPT ![r].at = "over", ![r].todo = {}]
    /\ UNCHANGED <<reports, moveFaults>>
    /\ DiskKept

(* The process dies and forgets its job; the files stay as they are.        *)
MoverDies(r) ==
    /\ mover[r].at \notin {"idle", "over"} /\ moveFaults < MaxMoveFaults
    /\ moveFaults' = moveFaults + 1
    /\ job' = [job EXCEPT ![r] = "none"]
    /\ mover' = [mover EXCEPT ![r].at = "over", ![r].todo = {}]
    /\ UNCHANGED reports
    /\ DiskKept

MoveNext ==
    \/ \E p \in Spots : Meddle(p)
    \/ \E r \in Movers :
          \/ AskMoves(r) \/ PlanMoves(r) \/ CheckMoves(r) \/ Rename(r) \/ ReindexMoves(r)
          \/ ReportMoves(r) \/ EndMoves(r) \/ MoverDies(r)
    \/ (\A r \in Movers : MoverAt(r, "over")) /\ UNCHANGED moveVars

MoveSpec == MoveInit /\ [][MoveNext]_moveVars

-----------------------------------------------------------------------------
(* Moves lose no note: every note is in a file, unless somebody deleted it  *)
(* or it came to a target after the check.  A report that tells of success  *)
(* or of failure tells of all the moves, or of none, and a job that has     *)
(* succeeded has left a report.                                             *)
MovesLoseNothing ==
    /\ Papers \subseteq OnDisk \cup binned \cup crossed
    /\ \A r \in Movers :
          /\ reports[r] = "succeeded" => mover[r].moved = Len(mover[r].asked)
          /\ reports[r] = "failed" => mover[r].moved = 0
          /\ job[r] = "SUCCEEDED" => reports[r] # "none"

(* Moves overwrite no note.                                                 *)
NothingIsOverwritten == Papers \subseteq OnDisk \cup binned

(* Files hold notes, one file each.                                         *)
MoveTypeOK ==
    /\ \A p, q \in Spots : p # q /\ disk[p] = disk[q] => disk[p] = NoPaper
    /\ meddling \in 0..MaxMeddling /\ moveFaults \in 0..MaxMoveFaults
    /\ \A r \in Movers : mover[r].moved <= Len(mover[r].asked)
=============================================================================
