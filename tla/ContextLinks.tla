---------------------------- MODULE ContextLinks ----------------------------
(***************************************************************************)
(* The lifecycle of Contexts: a Context supersedes another by a forward    *)
(* link in its own file and a backlink in the other's.  A file changes at  *)
(* once, its index row when the request's session commits; a reindex       *)
(* completes links that were left half written.                            *)
(***************************************************************************)
EXTENDS ContextManifest

CONSTANTS
    Callers,            \* requests, one call and one session each
    CallsOf,            \* the calls each request may make
    MaxLinkFaults,      \* bound: failed index writes and dying processes
    Unwritten           \* a row the session has not touched

VARIABLES
    note,       \* each Context: its Markdown file's links and status
    entry,      \* each Context: its committed index row; NoContext: none, or error
    draft,      \* each request's session: rows written, not committed
    call,       \* each request: where it is and its local state
    linkFaults,
    settled,    \* history: the last thing to happen to files or rows was a
                \* reindex that ran alone and met no trouble
    resaved     \* history: the Contexts whose whole note a save has replaced

linkVars == <<note, entry, draft, call, linkFaults, settled, resaved>>

Notes == [sup : Contexts \cup {NoContext}, by : Contexts \cup {NoContext},
          status : {"active", "current", "superseded", "archived"}]

ASSUME LinksAssumption ==
    /\ \A r \in Callers : CallsOf[r] \subseteq {"save", "archive", "supersede", "reindex"}
    /\ NoContext \notin Notes /\ Unwritten \notin Notes \cup {NoContext}
    /\ MaxLinkFaults \in Nat

Plain == [sup |-> NoContext, by |-> NoContext, status |-> "active"]
Fresh == [at |-> "idle", kind |-> "reindex", old |-> NoContext, new |-> NoContext,
          seen |-> Plain, to |-> NoContext, copy |-> Plain, next |-> "closing",
          scan |-> <<>>, todo |-> {}, mark |-> NoContext, back |-> "closing",
          tried |-> FALSE, alone |-> FALSE]

LinksInit ==
    /\ note = [c \in Contexts |-> IF c = ContextOrder[1] THEN NoContext ELSE Plain]
    /\ entry = note
    /\ draft = [r \in Callers |-> [c \in Contexts |-> Unwritten]]
    /\ call = [r \in Callers |-> Fresh]
    /\ linkFaults = 0
    /\ settled = FALSE
    /\ resaved = {}

-----------------------------------------------------------------------------
Row(r, c) == IF draft[r][c] = Unwritten THEN entry[c] ELSE draft[r][c]
At(r, point) == call[r].at = point
Goes(r, point) == call' = [call EXCEPT ![r].at = point]
GivesUp(r) == call' = [call EXCEPT ![r].at = "undoing", ![r].scan = <<>>]

Over(r) == At(r, "over")
Live(r) == ~Over(r) /\ ~At(r, "idle")

(* A save holds the lane shared, a reindex alone; links take no lease.      *)
Saving(r) == call[r].kind = "save" /\ Live(r) /\ ~At(r, "closing")
Reindexing(r) == call[r].scan # <<>>

Opening(kind) == CASE kind = "save" -> "saving"
                   [] kind = "reindex" -> "scanning"
                   [] OTHER -> "reading"

Ask(r) ==
    /\ At(r, "idle")
    /\ \E kind \in CallsOf[r], old, new \in Contexts \cup {NoContext} :
          /\ old = new => old = NoContext
          /\ kind \in {"archive", "supersede"} => old # NoContext
          /\ kind \in {"save", "supersede"} <=> new # NoContext
          /\ kind = "reindex" => old = NoContext
          /\ kind = "save" => \A s \in Callers : ~Reindexing(s)
          /\ call' = [call EXCEPT ![r] = [Fresh EXCEPT
                 !.kind = kind, !.old = old, !.new = new, !.at = Opening(kind)]]
    /\ UNCHANGED <<note, entry, draft, linkFaults, settled, resaved>>

(* A note the index lacks is looked for again after a reindex.              *)
Absent(r, c) == Row(r, c) = NoContext \/ note[c] = NoContext
SearchFirst(r, c) ==
    /\ Absent(r, c)
    /\ IF call[r].tried THEN GivesUp(r)
       ELSE call' = [call EXCEPT ![r].at = "scanning", ![r].tried = TRUE,
                                 ![r].back = call[r].at]

ReadOld(r) ==
    LET old == call[r].old
    IN  /\ At(r, "reading")
        /\ \/ SearchFirst(r, old)
           \/ /\ ~Absent(r, old)
              /\ call' = [call EXCEPT ![r].seen = note[old], ![r].tried = FALSE,
                     ![r].at = IF call[r].kind = "archive"
                               THEN "archiving" ELSE "linking"]
        /\ UNCHANGED <<note, entry, draft, linkFaults, settled, resaved>>

(* A file is patched and read back without a pause; the copy is indexed.    *)
Patch(r, c, n, next) ==
    /\ note' = [note EXCEPT ![c] = n]
    /\ call' = [s \in Callers |->
           IF s = r THEN [call[r] EXCEPT !.at = "indexing", !.next = next,
                                         !.to = c, !.copy = n]
           ELSE [call[s] EXCEPT !.alone = FALSE]]
    /\ settled' = FALSE

Archive(r) ==
    /\ At(r, "archiving")
    /\ Patch(r, call[r].old, [note[call[r].old] EXCEPT !.status = "archived"], "closing")
    /\ UNCHANGED <<entry, draft, linkFaults, resaved>>

(* Mutant of Conflict: what the replacement replaces already is not looked  *)
(* at.                                                                      *)
ConflictBehind(seen, n, old, new) == seen.by \notin {NoContext, new}

Conflict(seen, n, old, new) ==
    seen.by \notin {NoContext, new} \/ n.sup \notin {NoContext, old}

(* The replacement is read, the relation checked on the two notes as they   *)
(* were read, and the forward link written first.                           *)
LinkForward(r) ==
    LET old == call[r].old
        new == call[r].new
        seen == call[r].seen
        n == note[new]
    IN  /\ At(r, "linking")
        /\ \/ SearchFirst(r, new) /\ UNCHANGED <<note, settled>>
           \/ /\ ~Absent(r, new) /\ Conflict(seen, n, old, new)
              /\ GivesUp(r) /\ UNCHANGED <<note, settled>>
           \/ /\ ~Absent(r, new) /\ ~Conflict(seen, n, old, new) /\ n.sup = old
              /\ Goes(r, IF seen.by = new /\ seen.status = "superseded"
                         THEN "closing" ELSE "marking")
              /\ UNCHANGED <<note, settled>>
           \/ /\ ~Absent(r, new) /\ ~Conflict(seen, n, old, new) /\ n.sup # old
              /\ Patch(r, new, [n EXCEPT !.sup = old,
                     !.status = IF n.by = NoContext THEN "current" ELSE @], "marking")
        /\ UNCHANGED <<entry, draft, linkFaults, resaved>>

(* A save checks its links against the index and replaces the whole note.   *)
SoundLinks(r, by) ==
    LET old == call[r].old
        new == call[r].new
    IN  /\ by # new
        /\ old # NoContext => /\ Row(r, old) # NoContext
                              /\ Row(r, old).by \in {NoContext, new}
        /\ by # NoContext => Row(r, by) # NoContext /\ Row(r, by).sup = new

Save(r) ==
    /\ At(r, "saving")
    /\ \E by \in Contexts \cup {NoContext} :
          \/ ~SoundLinks(r, by) /\ GivesUp(r) /\ UNCHANGED <<note, settled, resaved>>
          \/ /\ SoundLinks(r, by)
             /\ resaved' = IF note[call[r].new] = NoContext THEN resaved
                           ELSE resaved \cup {call[r].new}
             /\ Patch(r, call[r].new,
                    [sup |-> call[r].old, by |-> by,
                     status |-> IF by = NoContext THEN "active" ELSE "superseded"],
                    IF call[r].old = NoContext THEN "closing" ELSE "marking")
    /\ UNCHANGED <<entry, draft, linkFaults>>

(* The pair to link: the reindex's, or the request's own.                   *)
Target(r) == IF Reindexing(r) THEN call[r].scan[call[r].mark].sup ELSE call[r].old
Replacement(r) == IF Reindexing(r) THEN call[r].mark ELSE call[r].new
Following(r) == IF Reindexing(r) THEN "reconciling" ELSE "closing"

(* Mutant of Marked: a backlink counts as complete whatever the status.     *)
MarkedByLink(row, new) == row.by = new

Markable(row, new) == row # NoContext /\ row.by \in {NoContext, new}
Marked(row, new) == row.by = new /\ row.status = "superseded"

(* A reindex goes on past a note it cannot finish, leaving error rows.      *)
Quarantine(r, cs) ==
    /\ draft' = [draft EXCEPT ![r] = [c \in Contexts |->
                     IF c \in cs THEN NoContext ELSE @[c]]]
    /\ call' = [call EXCEPT ![r].at = "reconciling", ![r].alone = FALSE]

(* The backlink: decided by the row of the old note, written to its file.   *)
MarkSuperseded(r) ==
    LET old == Target(r)
        new == Replacement(r)
        row == Row(r, old)
    IN  /\ At(r, "marking")
        /\ \/ /\ ~Markable(row, new)
              /\ IF Reindexing(r) THEN Quarantine(r, {new})
                 ELSE GivesUp(r) /\ UNCHANGED draft
              /\ UNCHANGED <<note, settled>>
           \/ /\ Markable(row, new) /\ Marked(row, new)
              /\ Goes(r, Following(r)) /\ UNCHANGED <<note, draft, settled>>
           \/ /\ Markable(row, new) /\ ~Marked(row, new)
              /\ Patch(r, old, [note[old] EXCEPT !.by = new, !.status = "superseded"],
                       Following(r))
              /\ UNCHANGED draft
        /\ UNCHANGED <<entry, linkFaults, resaved>>

(* A row is locked by the session that wrote it.                            *)
Unlocked(r, cs) == \A s \in Callers \ {r}, c \in cs : draft[s][c] = Unwritten

IndexCopy(r) ==
    /\ At(r, "indexing")
    /\ Unlocked(r, {call[r].to})
    /\ draft' = [draft EXCEPT ![r][call[r].to] = call[r].copy]
    /\ Goes(r, call[r].next)
    /\ UNCHANGED <<note, entry, linkFaults, settled, resaved>>

(* The write fails, or closes a circle of sessions waiting for each other.  *)
IndexFails(r) ==
    /\ At(r, "indexing")
    /\ linkFaults < MaxLinkFaults \/ ~Unlocked(r, {call[r].to})
    /\ linkFaults' = IF Unlocked(r, {call[r].to}) THEN linkFaults + 1 ELSE linkFaults
    /\ IF Reindexing(r) THEN Quarantine(r, {Target(r), Replacement(r)})
       ELSE GivesUp(r) /\ UNCHANGED draft
    /\ UNCHANGED <<note, entry, settled, resaved>>

-----------------------------------------------------------------------------
LinksOf(ns) == [c \in Contexts |-> IF ns[c] = NoContext THEN NoContext
                                   ELSE [sup |-> ns[c].sup, by |-> ns[c].by]]
LaneTaken(r) == \E s \in Callers \ {r} : Saving(s) \/ Reindexing(s)
Alone(r) == \A s \in Callers \ {r} : ~Live(s)

Scan(r) ==
    /\ At(r, "scanning")
    /\ IF LaneTaken(r) THEN GivesUp(r)
       ELSE call' = [call EXCEPT ![r].at = "cataloguing", ![r].scan = note,
                                 ![r].alone = Alone(r)]
    /\ UNCHANGED <<note, entry, draft, linkFaults, settled, resaved>>

(* Accepted notes are indexed, rejected ones become error rows.             *)
Catalogue(r) ==
    LET scan == call[r].scan
        accepted == Accepted(LinksOf(scan))
    IN  /\ At(r, "cataloguing")
        /\ Unlocked(r, Contexts)
        /\ draft' = [draft EXCEPT ![r] = [c \in Contexts |->
                         IF c \in accepted THEN scan[c] ELSE NoContext]]
        /\ call' = [call EXCEPT ![r].at = "reconciling",
               ![r].todo = {c \in accepted : scan[c].sup # NoContext}]
        /\ UNCHANGED <<note, entry, linkFaults, settled, resaved>>

(* Each accepted forward link gets its backlink; then the request goes on.  *)
Reconcile(r) ==
    LET todo == call[r].todo
    IN  /\ At(r, "reconciling")
        /\ \/ /\ todo = {}
              /\ call' = [call EXCEPT ![r].scan = <<>>, ![r].at = call[r].back,
                                      ![r].mark = NoContext]
           \/ \E c \in todo :
                 /\ \A d \in todo : ~Before(d, c)
                 /\ call' = [call EXCEPT ![r].at = "marking", ![r].mark = c,
                                         ![r].todo = todo \ {c}]
        /\ UNCHANGED <<note, entry, draft, linkFaults, settled, resaved>>

(* Mutant of Undo: a refused request's session keeps its rows.              *)
UndoNothing(r) ==
    /\ At(r, "undoing")
    /\ call' = [call EXCEPT ![r] = [Fresh EXCEPT !.at = "over", !.kind = call[r].kind]]
    /\ UNCHANGED <<note, entry, draft, linkFaults, settled, resaved>>

Ends(r) ==
    /\ draft' = [draft EXCEPT ![r] = [c \in Contexts |-> Unwritten]]
    /\ call' = [call EXCEPT ![r] = [Fresh EXCEPT !.at = "over", !.kind = call[r].kind]]

Undo(r) == At(r, "undoing") /\ Ends(r) /\ UNCHANGED <<note, entry, linkFaults, settled, resaved>>

Commit(r) ==
    /\ At(r, "closing")
    /\ entry' = [c \in Contexts |-> Row(r, c)]
    /\ settled' = (call[r].kind = "reindex" /\ call[r].alone)
    /\ Ends(r)
    /\ UNCHANGED <<note, linkFaults, resaved>>

Die(r) ==
    /\ Live(r) /\ linkFaults < MaxLinkFaults
    /\ linkFaults' = linkFaults + 1
    /\ Ends(r)
    /\ UNCHANGED <<note, entry, settled, resaved>>

LinksNext ==
    \/ \E r \in Callers :
          \/ Ask(r) \/ ReadOld(r) \/ Archive(r) \/ LinkForward(r) \/ Save(r)
          \/ MarkSuperseded(r) \/ IndexCopy(r) \/ IndexFails(r)
          \/ Scan(r) \/ Catalogue(r) \/ Reconcile(r)
          \/ Undo(r) \/ Commit(r) \/ Die(r)
    \/ (\A r \in Callers : Over(r)) /\ UNCHANGED linkVars

LinksSpec == LinksInit /\ [][LinksNext]_linkVars

-----------------------------------------------------------------------------
(* Files, rows and drafts are notes; a request that is over holds no row.   *)
LinksTypeOK ==
    /\ note \in [Contexts -> Notes \cup {NoContext}]
    /\ entry \in [Contexts -> Notes \cup {NoContext}]
    /\ linkFaults \in 0..MaxLinkFaults /\ settled \in BOOLEAN /\ resaved \subseteq Contexts
    /\ \A r \in Callers, c \in Contexts :
          /\ draft[r][c] \in Notes \cup {NoContext, Unwritten}
          /\ ~Live(r) => draft[r][c] = Unwritten

(* A reindex that ran alone repairs what a failed or killed supersede left: *)
(* every accepted forward link has its backlink, in the file and in the     *)
(* index, and the index mirrors the accepted files.                         *)
ReindexReconciles ==
    settled => \A c \in Accepted(LinksOf(note)) :
        /\ entry[c] = note[c]
        /\ note[c].sup # NoContext =>
              note[note[c].sup].by = c /\ note[note[c].sup].status = "superseded"

(* The forward link comes first and outlives the backlink: whatever stops,  *)
(* dies or meets another request, no backlink names a Context that does not *)
(* claim the place, which no reindex could repair.  Only a save, which      *)
(* replaces the whole note, may drop a link or bring one that has gone.     *)
BacklinksAreClaimed ==
    \A c \in Contexts \ resaved :
        note[c] # NoContext /\ note[c].by \notin resaved \cup {NoContext}
            => note[c].by # c /\ note[note[c].by] # NoContext /\ note[note[c].by].sup = c
=============================================================================
