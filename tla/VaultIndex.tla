----------------------------- MODULE VaultIndex -----------------------------
(***************************************************************************)
(* Notes of the vault and their rows in the PostgreSQL index.  Markdown    *)
(* files are canonical and change at once (os.replace); rows change in the *)
(* transaction of the request's session, which the middleware commits      *)
(* after the handler, so after the maintenance lane has been released.     *)
(*                                                                         *)
(* A note's text is the set of the updates that went into it: a client     *)
(* that sends expected_content_hash has merged its update into the text it *)
(* read, any other write replaces the text.  The parse errors a reindex    *)
(* records while it walks the vault pause the walk; here the walk is one   *)
(* snapshot.  A Markdown file may also have no Alexandria frontmatter: the  *)
(* index passes over such a file and keeps the row it had.                  *)
(***************************************************************************)
EXTENDS Naturals, Sequences, FiniteSets

CONSTANTS
    Requests,           \* requests, one session each
    PathOrder,          \* vault-relative paths, sorted
    Seeded,             \* paths that hold an indexed note at the start
    KindsOf,            \* what each request may ask for
    User,               \* the update made by somebody editing in Obsidian
    ConcurrentWrites,   \* allow_concurrent_writes of the coordinator
    MaxFaults,          \* bound: failed index writes and process deaths
    MaxEdits,           \* bound: edits in Obsidian
    NoFile, NoRow, NoId,
    Plain,              \* a file without Alexandria frontmatter
    Same,               \* a row the session has not touched
    Anything            \* no expected_content_hash

Paths == {PathOrder[k] : k \in DOMAIN PathOrder}
Kinds == {"save", "create", "update", "upsert", "archive", "reindex"}

ASSUME VaultAssumption ==
    /\ PathOrder \in Seq(Paths) /\ Seeded \subseteq Paths
    /\ KindsOf \in [Requests -> SUBSET Kinds]
    /\ ConcurrentWrites \in BOOLEAN
    /\ MaxFaults \in Nat /\ MaxEdits \in Nat

VARIABLES
    file,       \* each path: the Markdown file
    row,        \* each path: the committed index row
    tx,         \* each request's session: rows written and not yet committed
    req,        \* each request: where it is and its local state
    faults, edits,
    suspect,    \* history: paths whose row may lag their file since the last
                \* scan: the write failed, an error row says so, somebody
                \* edited the file, two writers crossed, or two files
                \* declare one id
    lost,       \* history: completed updates dropped by a write that expected
                \* a content hash
    overtaken   \* history: creations whose path somebody without a lane
                \* touched between their look at the disk and their write

vars == <<file, row, tx, req, faults, edits, suspect, lost, overtaken>>

(* A new uuid, a stable id known from before, the id of an error row.       *)
Minted(r) == <<"new", r>>
Known(p) == <<"note", p>>
ErrorId(p) == <<"index-error", p>>
Ids == {Minted(r) : r \in Requests}
           \cup {Known(p) : p \in Paths} \cup {ErrorId(p) : p \in Paths}

Texts == SUBSET (Requests \cup {User})
Files == [id : Ids, text : Texts, ok : BOOLEAN]
Rows == [id : Ids, text : Texts, indexed : BOOLEAN]
ASSUME RowAssumption ==
    /\ {NoFile, Plain} \cap Files = {} /\ NoFile # Plain /\ NoRow \notin Rows /\ NoId \notin Ids
    /\ Same \notin Rows \cup {NoRow}

ErrorRow(p) == [id |-> ErrorId(p), text |-> {}, indexed |-> FALSE]
IsNote(f) == f \notin {NoFile, Plain}
RowOf(f) == [id |-> f.id, text |-> f.text, indexed |-> TRUE]

Points == {"idle", "entering", "resolving", "checking", "matching", "writing",
           "looking", "flushing", "reading", "patching", "scanning", "rejecting",
           "indexing", "settling", "committing", "failing", "ok", "failed"}

Fresh == [at |-> "idle", kind |-> "save", path |-> PathOrder[1],
          named |-> NoId, expects |-> Anything, id |-> NoId, lane |-> "none",
          seen |-> <<NoId, {}>>, scan |-> <<>>, todo |-> {}, back |-> "idle",
          wrote |-> FALSE, scanned |-> FALSE]

Init ==
    /\ file = [p \in Paths |-> IF p \in Seeded
                   THEN [id |-> Known(p), text |-> {}, ok |-> TRUE] ELSE NoFile]
    /\ row = [p \in Paths |->
                  IF p \in Seeded THEN RowOf(file[p]) ELSE NoRow]
    /\ tx = [r \in Requests |-> [p \in Paths |-> Same]]
    /\ req = [r \in Requests |-> Fresh]
    /\ faults = 0 /\ edits = 0
    /\ suspect = {} /\ lost = {} /\ overtaken = {}

-----------------------------------------------------------------------------
(* Reading: a session sees committed rows and its own.                      *)

At(r, point) == req[r].at = point
Path(r) == req[r].path
Visible(r, p) == IF tx[r][p] = Same THEN row[p] ELSE tx[r][p]
PathsOf(r, id) == {p \in Paths : Visible(r, p) # NoRow /\ Visible(r, p).id = id}

Goto(r, point) == req' = [req EXCEPT ![r].at = point]

(* Another request still has a copy of the path's file, or of one with its  *)
(* id, to put into the index.                                               *)
Crossed(r, fs) ==
    {p \in DOMAIN fs : \E s \in Requests \ {r} : \E q \in DOMAIN req[s].scan :
        LET copy == req[s].scan[q]
        IN  \/ q = p
            \/ IsNote(fs[p]) /\ IsNote(copy) /\ fs[p].id = copy.id}

(* The lease is released on the way out, the session later.                 *)
Fail(r) ==
    req' = [req EXCEPT ![r] =
        [@ EXCEPT !.at = "failing", !.lane = "none", !.scan = <<>>, !.todo = {}]]

Finished(r) == req[r].at \in {"ok", "failed"}

-----------------------------------------------------------------------------
(* Requests and their lane.                                                 *)

(* A careful client sends the hash of the text it has read.                 *)
Begun(kind, p, named, careful) ==
    [Fresh EXCEPT !.at = IF kind = "archive" THEN "reading" ELSE "entering",
                  !.kind = kind, !.path = p, !.named = named,
                  !.expects = IF careful THEN file[p].text ELSE Anything]

Start(r) ==
    /\ At(r, "idle")
    /\ \E kind \in KindsOf[r], p \in Paths,
          named \in {NoId} \cup {Known(q) : q \in Seeded}, careful \in BOOLEAN :
          /\ kind = "reindex" => named = NoId /\ ~careful
          /\ kind = "archive" => named # NoId /\ ~careful
          /\ kind \in {"reindex", "archive"} => p = PathOrder[1]
          /\ careful => IsNote(file[p])
          /\ req' = [req EXCEPT ![r] = Begun(kind, p, named, careful)]
    /\ UNCHANGED <<file, row, tx, faults, edits, suspect, lost, overtaken>>

(* Mutant of Mode: an explicit write takes the lane of a plain save.         *)
ModeShared(kind) ==
    IF kind # "reindex" /\ ConcurrentWrites THEN "shared" ELSE "exclusive"

Mode(kind) ==
    IF kind = "save" /\ ConcurrentWrites THEN "shared" ELSE "exclusive"

Grantable(r, mode) ==
    \A s \in Requests \ {r} :
        req[s].lane \in {"none"} \cup IF mode = "shared" THEN {mode} ELSE {}

Entry(kind) ==
    CASE kind = "save" -> "checking"
      [] kind \in {"create", "update", "upsert"} -> "resolving"
      [] OTHER -> "scanning"

Enter(r) ==
    LET mode == Mode(req[r].kind)
    IN  /\ At(r, "entering")
        /\ Grantable(r, mode)
        /\ req' = [req EXCEPT ![r].at = Entry(req[r].kind), ![r].lane = mode]
        /\ UNCHANGED <<file, row, tx, faults, edits, suspect, lost, overtaken>>

(* A reindex does not wait for the lane.                                    *)
Refuse(r) ==
    /\ At(r, "entering") /\ req[r].kind \in {"reindex", "archive"}
    /\ ~Grantable(r, "exclusive")
    /\ Fail(r)
    /\ UNCHANGED <<file, row, tx, faults, edits, suspect, lost, overtaken>>

-----------------------------------------------------------------------------
(* Writing a note.                                                          *)

(* Explicit writes find their target by path and refresh the index when it  *)
(* does not know the file or the id.                                        *)
Resolve(r) ==
    LET p == Path(r)
        named == req[r].named
        target == Visible(r, p)
        elsewhere == named # NoId /\ PathsOf(r, named) # {}
        stale == \/ file[p] # NoFile /\ target = NoRow
                 \/ named # NoId /\ ~elsewhere
        updates == /\ target # NoRow /\ req[r].kind \in {"update", "upsert"}
                   /\ named \in {NoId, target.id}
        creates == /\ target = NoRow /\ req[r].kind \in {"create", "upsert"}
                   /\ ~elsewhere /\ file[p] = NoFile
    IN  /\ At(r, "resolving")
        /\ IF stale /\ req[r].back = "idle"
           THEN req' = [req EXCEPT ![r].at = "scanning", ![r].back = "resolving"]
           ELSE IF updates
           THEN req' = [req EXCEPT ![r].at = "checking", ![r].named = target.id]
           ELSE IF creates THEN Goto(r, "checking")
           ELSE Fail(r)
        /\ UNCHANGED <<file, row, tx, faults, edits, suspect, lost, overtaken>>

FileId(p) == IF IsNote(file[p]) /\ file[p].ok THEN file[p].id ELSE NoId

Or(id, other) == IF id # NoId THEN id ELSE other

(* The expected hash is compared with the indexed row; the id comes from    *)
(* the caller, the row, the file, or is new.                                *)
Check(r) ==
    LET p == Path(r)
        indexed == Visible(r, p)
        indexedId == IF indexed = NoRow THEN NoId ELSE indexed.id
        expects == req[r].expects
    IN  /\ At(r, "checking")
        /\ IF /\ expects # Anything =>
                    indexed # NoRow /\ indexed.indexed /\ indexed.text = expects
              /\ req[r].named = NoId \/ indexedId \in {NoId, req[r].named}
           THEN req' = [req EXCEPT ![r].at = "matching",
                  ![r].id = Or(req[r].named,
                                   Or(indexedId, Or(FileId(p), Minted(r))))]
           ELSE Fail(r)
        /\ UNCHANGED <<file, row, tx, faults, edits, suspect, lost, overtaken>>

Match(r) ==
    /\ At(r, "matching")
    /\ IF PathsOf(r, req[r].id) \subseteq {Path(r)}
       THEN Goto(r, "writing") ELSE Fail(r)
    /\ UNCHANGED <<file, row, tx, faults, edits, suspect, lost, overtaken>>

TextOf(r) == {r} \cup IF req[r].expects = Anything THEN {} ELSE req[r].expects

Dropped(r) ==
    IF req[r].expects = Anything \/ file[Path(r)] = NoFile THEN {}
    ELSE IF file[Path(r)] = Plain THEN {User}
    ELSE {u \in file[Path(r)].text \ TextOf(r) : u = User \/ req[u].at = "ok"}

(* Two files declare one id: the later write takes the row of the other.    *)
Doubled(p, f) ==
    LET others == {q \in Paths \ {p} :
                      IsNote(f) /\ IsNote(file[q]) /\ file[q].id = f.id}
    IN  IF others = {} THEN {} ELSE {p} \cup others

(* The write reads its file back at once: that is what it will index.       *)
Wrote(r, p, f) ==
    /\ file' = [file EXCEPT ![p] = f]
    /\ suspect' = suspect \cup Crossed(r, [q \in {p} |-> f]) \cup Doubled(p, f)
    /\ req' = [req EXCEPT ![r].at = "looking", ![r].path = p, ![r].wrote = TRUE,
                          ![r].scan = [q \in {p} |-> f], ![r].todo = {p}]

WriteFile(r) ==
    /\ At(r, "writing")
    /\ Wrote(r, Path(r), [id |-> req[r].id, text |-> TextOf(r), ok |-> TRUE])
    /\ lost' = lost \cup Dropped(r)
    /\ UNCHANGED <<row, tx, faults, edits, overtaken>>

(* Archiving takes no lease; reading the note may reindex, which does.      *)
ReadForArchive(r) ==
    /\ At(r, "reading")
    /\ LET found == PathsOf(r, req[r].named)
       IN  req' = [req EXCEPT ![r] =
               IF found # {} THEN [@ EXCEPT !.at = "patching",
                                            !.path = CHOOSE p \in found : TRUE]
               ELSE IF @.back = "idle"
               THEN [@ EXCEPT !.at = "entering", !.back = "reading"]
               ELSE [@ EXCEPT !.at = "failing"]]
    /\ UNCHANGED <<file, row, tx, faults, edits, suspect, lost, overtaken>>

(* The file is read, patched and replaced without a pause.                  *)
Patch(r) ==
    LET f == file[Path(r)]
    IN  /\ At(r, "patching")
        /\ IF IsNote(f) /\ f.ok
           THEN Wrote(r, Path(r), [f EXCEPT !.text = @ \cup {r}])
           ELSE Fail(r) /\ UNCHANGED <<file, suspect>>
        /\ UNCHANGED <<row, tx, faults, edits, lost, overtaken>>

-----------------------------------------------------------------------------
(* Writing index rows.                                                      *)

Rank(p) == CHOOSE k \in DOMAIN PathOrder : PathOrder[k] = p
First(ps) == CHOOSE p \in ps : \A q \in ps : Rank(p) <= Rank(q)

(* Of several files that declare one id the first path keeps it.            *)
Accepted(fs) ==
    {p \in Paths : /\ IsNote(fs[p]) /\ fs[p].ok
                   /\ \A q \in Paths : IsNote(fs[q]) /\ fs[q].ok
                          /\ fs[q].id = fs[p].id => Rank(p) <= Rank(q)}
Rejected(fs) == {p \in Paths : IsNote(fs[p])} \ Accepted(fs)

(* Rows that another session has written stay locked until it ends.         *)
Unlocked(r, p) == \A s \in Requests \ {r} : tx[s][p] = Same

IdUnlocked(r, id) ==
    \A s \in Requests \ {r}, q \in Paths :
        tx[s][q] # Same => \A old \in {row[q], tx[s][q]} :
                               old # NoRow => old.id # id

(* What the lookups by path and by id find, as far as it decides between    *)
(* insert and update.                                                       *)
Around(r, p, id) ==
    <<IF Visible(r, p) = NoRow THEN NoId ELSE Visible(r, p).id, PathsOf(r, id)>>

Target(r) == First(req[r].todo)
Payload(r) == req[r].scan[Target(r)]
Indexing(r) == req[r].scanned /\ ~req[r].wrote

(* The next note of the batch, or what follows the last one.                *)
Onward(r) ==
    LET o == req[r]
        rest == o.todo \ {Target(r)}
        next == IF o.at = "rejecting" THEN Accepted(o.scan) ELSE {}
        again == IF o.at = "rejecting" THEN "rejecting" ELSE "looking"
    IN  IF rest # {} THEN [o EXCEPT !.todo = rest, !.at = again]
        ELSE IF next # {} THEN [o EXCEPT !.todo = next, !.at = "looking"]
        ELSE IF Indexing(r) THEN [o EXCEPT !.todo = {}, !.at = "settling"]
        ELSE [o EXCEPT !.todo = {}, !.scan = <<>>, !.at = "committing", !.lane = "none"]

Advance(r) == req' = [req EXCEPT ![r] = Onward(r)]

Pend(r, p, new) == tx' = [tx EXCEPT ![r][p] = new]

LookUp(r) ==
    /\ At(r, "looking")
    /\ req' = [req EXCEPT ![r].at = "flushing",
                   ![r].seen = Around(r, Target(r), Payload(r).id)]
    /\ UNCHANGED <<file, row, tx, faults, edits, suspect, lost, overtaken>>

(* A failed upsert is undone alone.  A reindex records it and goes on; a    *)
(* write records it in a session it is about to roll back.                  *)
Unindexed(r) ==
    IF Indexing(r)
    THEN /\ Unlocked(r, Target(r))
         /\ Pend(r, Target(r), ErrorRow(Target(r)))
         /\ Advance(r)
    ELSE Fail(r) /\ UNCHANGED tx

(* The row of the id moves to the path and replaces the row there.  When    *)
(* rows came or went since the lookup, the insert or update fails.          *)
Upsert(r) ==
    LET p == Target(r)
        new == RowOf(Payload(r))
    IN  /\ At(r, "flushing")
        /\ Unlocked(r, p) /\ IdUnlocked(r, new.id)
        /\ IF req[r].seen = Around(r, p, new.id)
           THEN /\ tx' = [tx EXCEPT ![r] = [q \in Paths |->
                             IF q = p THEN new
                             ELSE IF q \in PathsOf(r, new.id) THEN NoRow ELSE @[q]]]
                /\ Advance(r)
           ELSE Unindexed(r)
        /\ UNCHANGED <<file, row, faults, edits, suspect, lost, overtaken>>

UpsertFails(r) ==
    /\ At(r, "flushing")
    /\ faults < MaxFaults
    /\ faults' = faults + 1
    /\ Unindexed(r)
    /\ UNCHANGED <<file, row, edits, suspect, lost, overtaken>>

-----------------------------------------------------------------------------
(* The reindex, alone or inside another request.  It passes over files      *)
(* without Alexandria frontmatter, but has seen their paths.                *)

Skipped == {p \in Paths : file[p] = Plain}

Scan(r) ==
    /\ At(r, "scanning")
    /\ req' = [req EXCEPT ![r].scan = file, ![r].scanned = TRUE,
           ![r].todo = IF Rejected(file) # {} THEN Rejected(file)
                       ELSE Accepted(file),
           ![r].at = IF Rejected(file) # {} THEN "rejecting"
                     ELSE IF Accepted(file) # {} THEN "looking"
                     ELSE "settling"]
    /\ suspect' = {p \in suspect : ~Unlocked(r, p)} \cup Skipped \cup Crossed(r, file)
    /\ UNCHANGED <<file, row, tx, faults, edits, lost, overtaken>>

RejectNote(r) ==
    /\ At(r, "rejecting")
    /\ Unlocked(r, Target(r))
    /\ Pend(r, Target(r), ErrorRow(Target(r)))
    /\ Advance(r)
    /\ UNCHANGED <<file, row, faults, edits, suspect, lost, overtaken>>

(* Mutant of Missing: rows outlive their files.                              *)
NoneMissing(r) == {}

Missing(r) == {p \in Paths : req[r].scan[p] = NoFile /\ Visible(r, p) # NoRow}

(* Rows of paths the scan did not find are removed.                         *)
Settle(r) ==
    /\ At(r, "settling")
    /\ \A p \in Missing(r) : Unlocked(r, p)
    /\ tx' = [tx EXCEPT ![r] =
                  [p \in Paths |-> IF p \in Missing(r) THEN NoRow ELSE @[p]]]
    /\ req' = [req EXCEPT ![r].scan = <<>>,
           ![r].at = IF req[r].back # "idle" THEN req[r].back ELSE "committing",
           ![r].lane = IF req[r].back = "resolving" THEN @ ELSE "none"]
    /\ UNCHANGED <<file, row, faults, edits, suspect, lost, overtaken>>

-----------------------------------------------------------------------------
(* The end of a request, of the process, and edits in Obsidian.             *)

Unchanged == [p \in Paths |-> Same]

(* What a request leaves behind when it ends without a commit.              *)
Unsettled(r) ==
    (IF req[r].wrote THEN {Path(r)} ELSE {})
        \cup IF req[r].scanned THEN Paths ELSE {}

Commit(r) ==
    /\ At(r, "committing")
    /\ row' = [p \in Paths |-> Visible(r, p)]
    /\ tx' = [tx EXCEPT ![r] = Unchanged]
    /\ req' = [req EXCEPT ![r] = [Fresh EXCEPT !.at = "ok"]]
    /\ suspect' = suspect \cup {p \in Paths : tx[r][p] = ErrorRow(p)}
    /\ UNCHANGED <<file, faults, edits, lost, overtaken>>

(* Mutant of Rollback: the session keeps its rows.                           *)
RollbackNothing(r) ==
    /\ At(r, "failing")
    /\ req' = [req EXCEPT ![r] = [Fresh EXCEPT !.at = "failed"]]
    /\ suspect' = suspect \cup Unsettled(r)
    /\ UNCHANGED <<file, row, tx, faults, edits, lost, overtaken>>

Rollback(r) ==
    /\ At(r, "failing")
    /\ tx' = [tx EXCEPT ![r] = Unchanged]
    /\ req' = [req EXCEPT ![r] = [Fresh EXCEPT !.at = "failed"]]
    /\ suspect' = suspect \cup Unsettled(r)
    /\ UNCHANGED <<file, row, faults, edits, lost, overtaken>>

Under(r) == ~At(r, "idle") /\ ~Finished(r)

Die ==
    /\ faults < MaxFaults /\ faults' = faults + 1
    /\ \E r \in Requests : Under(r)
    /\ tx' = [r \in Requests |-> Unchanged]
    /\ req' = [r \in Requests |-> IF Under(r)
                   THEN [Fresh EXCEPT !.at = "failed"]
                   ELSE req[r]]
    /\ suspect' = suspect \cup UNION {Unsettled(r) : r \in Requests}
    /\ UNCHANGED <<file, row, edits, lost, overtaken>>

(* Who takes no lane: a person in Obsidian, who edits a note, takes its      *)
(* frontmatter away, deletes it or copies another one over it, and the      *)
(* rename of a move, which takes the place of what is there.  A note that   *)
(* was saved under the id of an error row is not brought elsewhere.         *)
Portable(f) == IsNote(f) => f.id \notin {ErrorId(p) : p \in Paths}

Edited(p) ==
    {NoFile, Plain} \cup {f \in {file[q] : q \in Paths \ {p}} : Portable(f)}
        \cup IF ~IsNote(file[p]) THEN {}
             ELSE {[file[p] EXCEPT !.text = @ \cup {User}, !.ok = ok] : ok \in BOOLEAN}

Overtaken(p) == {r \in Requests : Path(r) = p /\ req[r].kind = "create" /\
                                  req[r].at \in {"checking", "matching", "writing"}}

UserEdits(p) ==
    /\ edits < MaxEdits /\ edits' = edits + 1
    /\ \E f \in Edited(p) :
          /\ file' = [file EXCEPT ![p] = f]
          /\ suspect' = suspect \cup {p} \cup Doubled(p, file[p]) \cup Doubled(p, f)
    /\ overtaken' = overtaken \cup Overtaken(p)
    /\ UNCHANGED <<row, tx, req, faults, lost>>

Renames(p, q) ==
    /\ edits < MaxEdits /\ edits' = edits + 1
    /\ p # q /\ file[p] # NoFile /\ Portable(file[p])
    /\ file' = [file EXCEPT ![p] = NoFile, ![q] = file[p]]
    /\ suspect' = suspect \cup {p, q} \cup Doubled(p, file[p]) \cup Doubled(q, file[q])
    /\ overtaken' = overtaken \cup Overtaken(p) \cup Overtaken(q)
    /\ UNCHANGED <<row, tx, req, faults, lost>>

Rest == (\A r \in Requests : Finished(r)) /\ UNCHANGED vars

Proceed(r) ==
    \/ Enter(r) \/ Refuse(r) \/ Resolve(r) \/ Check(r) \/ Match(r)
    \/ WriteFile(r) \/ ReadForArchive(r) \/ Patch(r) \/ LookUp(r) \/ Upsert(r)
    \/ Scan(r) \/ RejectNote(r) \/ Settle(r) \/ Commit(r) \/ Rollback(r)

Next ==
    \/ \E r \in Requests : Start(r) \/ Proceed(r) \/ UpsertFails(r)
    \/ Die \/ Rest
    \/ \E p \in Paths : UserEdits(p) \/ \E q \in Paths : Renames(p, q)

Spec == Init /\ [][Next]_vars

-----------------------------------------------------------------------------
(* Properties.                                                              *)

(* Types; a session that has ended holds no rows and no lane.               *)
TypeOK ==
    /\ file \in [Paths -> Files \cup {NoFile, Plain}]
    /\ row \in [Paths -> Rows \cup {NoRow}]
    /\ tx \in [Requests -> [Paths -> Rows \cup {NoRow, Same}]]
    /\ \A r \in Requests : req[r].at \in Points
    /\ \A r \in Requests : ~Under(r) => tx[r] = Unchanged /\ req[r].lane = "none"
    /\ suspect \subseteq Paths

(* What an index that mirrors the vault holds for a path.                   *)
Mirrored(p) ==
    row[p] = IF ~IsNote(file[p]) THEN NoRow
             ELSE IF p \in Accepted(file) THEN RowOf(file[p]) ELSE ErrorRow(p)

(* Once the requests have ended, a row differs from its file only where a   *)
(* failed request, an error row, an edit in Obsidian, two writers of the    *)
(* same note or two files with one id explain it.  A committed reindex      *)
(* heals all of these but one: a file that has lost its frontmatter keeps   *)
(* the row it had.                                                          *)
UnsuspectedRowsMirrorFiles ==
    (\A r \in Requests : ~Under(r)) => \A p \in Paths \ suspect : Mirrored(p)

(* However the check of write_note with mode "create" and its write are     *)
(* separated by other requests, it replaces a file only when somebody who   *)
(* takes no lane touched the path between the two.                          *)
CreateNeverOverwrites ==
    [][\A r \in Requests : WriteFile(r) /\ req[r].kind = "create"
                               => file[Path(r)] = NoFile \/ r \in overtaken]_vars

(* skills_alexandria/alexandria-library/SKILL.md:69 "expected_content_hash  *)
(* prevents one agent from silently overwriting another agent's completed   *)
(* update."                                                                 *)
NoSilentOverwrite == lost = {}
=============================================================================
