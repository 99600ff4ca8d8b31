----------------------------- MODULE ReportBundle -----------------------------
(***************************************************************************)
(* Report bundles of one idempotency key: a request writes the source      *)
(* note, links it from every owner note, reindexes, verifies the links in  *)
(* the graph and leaves its outcome in a checkpoint file.  It holds the    *)
(* exclusive lane until its answer; its index rows are committed after.    *)
(* People edit the same Markdown in Obsidian and take no lane.             *)
(***************************************************************************)
EXTENDS Naturals, Sequences

CONSTANTS
    Source,             \* the note that carries the report
    OwnerOrder,         \* the notes that link it, in the order of the request
    Bundles,            \* requests
    MaxEdits,           \* bound: edits in Obsidian
    MaxBundleFaults,    \* bound: dying requests
    Missing,            \* no file, no row
    Bare,               \* a file without frontmatter, which no reindex reads
    Broken,             \* a file that cannot be read, an error row
    Unseen              \* a row the session has not written

VARIABLES
    markdown,       \* files: the source holds the report, an owner the link
    indexed,        \* committed index rows, copies of files, or error rows
    drafts,         \* each request's session: rows written, not committed
    bundle,         \* each request: where it is and its local state
    checkpoint,     \* the checkpoint file
    revised,        \* history: notes edited since the checkpoint's own work
    edits, bundleFaults

bundleVars == <<markdown, indexed, drafts, bundle, checkpoint, revised, edits, bundleFaults>>

OwnerSet == {OwnerOrder[i] : i \in 1..Len(OwnerOrder)}
Pages == OwnerSet \cup {Source}
PageStates == [holds : BOOLEAN, edit : Nat]

ASSUME BundleAssumption ==
    /\ OwnerOrder \in Seq(OwnerSet)
    /\ MaxEdits \in Nat /\ MaxBundleFaults \in Nat
    /\ {Missing, Bare, Broken} \cap PageStates = {}
    /\ Bare # Missing /\ Broken \notin {Missing, Bare}
    /\ Unseen \notin PageStates \cup {Missing, Bare, Broken}

Old == [holds |-> FALSE, edit |-> 0]
NoDrafts == [n \in Pages |-> Unseen]
NoCheckpoint == [status |-> "none", verifies |-> TRUE]
NoBundle == [at |-> "idle", verifies |-> TRUE, read |-> NoDrafts, next |-> 1,
             outcome |-> "none", revised |-> {}]

BundleInit ==
    /\ markdown \in [Pages -> {Old, Missing}]
    /\ indexed = markdown
    /\ drafts = [r \in Bundles |-> NoDrafts]
    /\ bundle = [r \in Bundles |-> NoBundle]
    /\ checkpoint = NoCheckpoint
    /\ revised = {}
    /\ edits = 0 /\ bundleFaults = 0

-----------------------------------------------------------------------------
BundleAt(r, point) == bundle[r].at = point
RowIn(rows, n) == IF rows[n] = Unseen THEN indexed[n] ELSE rows[n]
Indexed(r, n) == RowIn(drafts[r], n)
Writable(r, n) == \A s \in Bundles \ {r} : drafts[s][n] = Unseen

(* A reindex takes every row from its file, or records an error in its      *)
(* place; a file without frontmatter is passed over and keeps its old row.  *)
Refreshed(r, rejected) ==
    [n \in Pages |-> IF markdown[n] = Bare THEN drafts[r][n]
                     ELSE IF n \in rejected /\ markdown[n] # Missing THEN Broken
                     ELSE markdown[n]]

(* The session's rows, after the reindex that searches for what is missing. *)
Searches(r) ==
    {Refreshed(r, rejected) : rejected \in
        IF \A n \in Pages : Writable(r, n) THEN SUBSET Pages ELSE {}}
Lookups(r, found) == IF found THEN {drafts[r]} ELSE Searches(r)
Proceeds(r, point) == bundle' = [bundle EXCEPT ![r].at = point]
Concludes(r, outcome) ==
    bundle' = [bundle EXCEPT ![r].at = "recording", ![r].outcome = outcome]
Carries(page) == page \in PageStates /\ page.holds
FilesKept == UNCHANGED <<markdown, revised, edits>>
RecordKept == UNCHANGED <<indexed, checkpoint, bundleFaults>>

(* Somebody edits a note in Obsidian, drops its content, the frontmatter    *)
(* with it or its syntax, deletes the note or makes it.                     *)
EditPage(n) ==
    /\ edits < MaxEdits
    /\ edits' = edits + 1
    /\ \E page \in {[holds |-> h, edit |-> edits'] : h \in BOOLEAN}
                   \cup {Missing, Bare, Broken} :
          /\ Carries(page) => Carries(markdown[n])
          /\ page # markdown[n]
          /\ markdown' = [markdown EXCEPT ![n] = page]
    /\ revised' = revised \cup {n}
    /\ bundle' = [r \in Bundles |-> IF bundle[r].at \in {"idle", "over"} THEN bundle[r]
                                    ELSE [bundle[r] EXCEPT !.revised = @ \cup {n}]]
    /\ UNCHANGED drafts /\ RecordKept

(* A request waits for the lane.  Another payload under the same key is an  *)
(* error; a completed checkpoint answers while its source is there, and     *)
(* fails on a note that it cannot read again.                               *)
Replays(verifies) == checkpoint.status = "COMPLETED" /\ checkpoint.verifies = verifies

Answer(verifies, rows) ==
    IF checkpoint.status # "none" /\ checkpoint.verifies # verifies THEN {"failing"}
    ELSE IF \/ checkpoint.status # "COMPLETED"
            \/ RowIn(rows, Source) \notin PageStates \/ markdown[Source] = Missing
         THEN {"preflight"}
    ELSE (IF markdown[Source] \in PageStates THEN {"committing"} ELSE {})
         \cup (IF \E n \in Pages : markdown[n] \in {Bare, Broken} THEN {"failing"} ELSE {})

Admit(r) ==
    /\ BundleAt(r, "idle")
    /\ \A s \in Bundles : bundle[s].at \in {"idle", "committing", "over"}
    /\ \E verifies \in BOOLEAN :
       \E rows \in Lookups(r, Replays(verifies) => Indexed(r, Source) \in PageStates) :
       \E point \in Answer(verifies, rows) :
          /\ drafts' = [drafts EXCEPT ![r] = rows]
          /\ bundle' = [bundle EXCEPT ![r].verifies = verifies, ![r].at = point]
    /\ FilesKept /\ RecordKept

(* Every owner is read from its file, found by its row; a row that is not   *)
(* there is searched for by a reindex.  One that is not found is recorded   *)
(* as such; one that cannot be read ends the request with no checkpoint.    *)
Preflight(r) ==
    /\ BundleAt(r, "preflight")
    /\ \E rows \in Lookups(r, \A n \in OwnerSet : Indexed(r, n) # Missing) :
          LET known == {n \in OwnerSet : RowIn(rows, n) # Missing /\ markdown[n] # Missing}
          IN  /\ drafts' = [drafts EXCEPT ![r] = rows]
              /\ \/ known # OwnerSet /\ Concludes(r, "FAILED_NO_MUTATION")
                 \/ /\ \E n \in known : markdown[n] \in {Bare, Broken}
                    /\ Proceeds(r, "failing")
                 \/ /\ \A n \in OwnerSet : n \in known /\ markdown[n] \in PageStates
                    /\ bundle' = [bundle EXCEPT ![r].at = "source", ![r].read = markdown,
                                                ![r].revised = {}]
    /\ FilesKept /\ RecordKept

(* A note is written, file before row; when the row is refused, an error    *)
(* row may take its place and the request stops.                            *)
WritesPage(r, rows, n, page, proceeding, outcome) ==
    /\ Writable(r, n)
    /\ markdown' = [markdown EXCEPT ![n] = page]
    /\ \/ /\ drafts' = [drafts EXCEPT ![r] = [rows EXCEPT ![n] = page]]
          /\ bundle' = [bundle EXCEPT ![r] =
                            [proceeding EXCEPT !.revised = @ \ {n}]]
       \/ /\ \E refused \in {rows[n], Broken} :
                drafts' = [drafts EXCEPT ![r] = [rows EXCEPT ![n] = refused]]
          /\ Concludes(r, outcome)

(* The source is left alone when its row already holds the report, and else *)
(* written, unless a file that the index does not know is in the way.       *)
WriteSource(r) ==
    /\ BundleAt(r, "source")
    /\ \E rows \in {drafts[r]} \cup Lookups(r, Indexed(r, Source) \in PageStates) :
       LET row == RowIn(rows, Source)
           report == [holds |-> TRUE, edit |-> IF row \in PageStates THEN row.edit ELSE 0]
           proceeding == [bundle[r] EXCEPT !.at = "owners"]
       IN  \/ /\ Concludes(r, "FAILED_NO_MUTATION")
              /\ drafts' = [drafts EXCEPT ![r] = rows]
              /\ UNCHANGED markdown
           \/ /\ Carries(row)
              /\ bundle' = [bundle EXCEPT ![r] = [proceeding EXCEPT !.revised =
                                IF markdown[Source] = row THEN @ ELSE @ \cup {Source}]]
              /\ drafts' = [drafts EXCEPT ![r] = rows]
              /\ UNCHANGED markdown
           \/ /\ row # Missing \/ markdown[Source] = Missing
              /\ WritesPage(r, rows, Source, report, proceeding, "FAILED_NO_MUTATION")
    /\ UNCHANGED <<revised, edits>> /\ RecordKept

(* An owner is written as it was read, with the link, provided that its row *)
(* still is what was read; an error row is looked behind by a reindex.  An  *)
(* edit of the file since is overwritten.                                   *)
UpdateOwner(r) ==
    LET n == OwnerOrder[bundle[r].next]
        known == bundle[r].read[n]
        proceeding == [bundle[r] EXCEPT !.next = @ + 1]
    IN  /\ BundleAt(r, "owners") /\ bundle[r].next <= Len(OwnerOrder)
        /\ \E rows \in Lookups(r, Indexed(r, n) \in PageStates) :
           \/ /\ Concludes(r, "PARTIAL")
              /\ drafts' = [drafts EXCEPT ![r] = rows]
              /\ UNCHANGED markdown
           \/ /\ RowIn(rows, n) = known /\ known.holds
              /\ bundle' = [bundle EXCEPT ![r] = proceeding]
              /\ drafts' = [drafts EXCEPT ![r] = rows]
              /\ UNCHANGED markdown
           \/ /\ RowIn(rows, n) = known /\ ~known.holds
              /\ WritesPage(r, rows, n, [known EXCEPT !.holds = TRUE], proceeding, "PARTIAL")
        /\ UNCHANGED <<revised, edits>> /\ RecordKept

(* The edits that a reindex does not see: of a file without frontmatter, and *)
(* of the source, whose text nothing verifies.                              *)
Overlooked(r) == {n \in bundle[r].revised : n = Source \/ markdown[n] = Bare}

Verifying(r, rows) ==
    [bundle[r] EXCEPT !.at = "verifying", !.read = [n \in Pages |-> RowIn(rows, n)],
                      !.revised = IF bundle[r].verifies THEN Overlooked(r) ELSE @]

(* The whole vault is read into rows, the graph is rebuilt from the rows.   *)
(* Both may fail, and a request may ask for no reindex.                     *)
ReindexVault(r) ==
    /\ BundleAt(r, "owners") /\ bundle[r].next > Len(OwnerOrder)
    /\ \/ Concludes(r, "PARTIAL") /\ UNCHANGED drafts
       \/ \E rows \in Searches(r) :
             /\ drafts' = [drafts EXCEPT ![r] = rows]
             /\ bundle' = [bundle EXCEPT ![r] = Verifying(r, rows)]
    /\ FilesKept /\ RecordKept

(* Mutant of LinksFound: no owner is looked up.                             *)
LinksFoundUnseen(r) == TRUE

LinksFound(r) == \A n \in OwnerSet : Carries(bundle[r].read[n])

(* The source must be on file; every owner's link must be in the graph,     *)
(* which knows the rows only.                                               *)
VerifyLinks(r) ==
    /\ BundleAt(r, "verifying")
    /\ \/ Concludes(r, "PARTIAL")
       \/ /\ markdown[Source] \in PageStates /\ bundle[r].read[Source] \in PageStates
          /\ bundle[r].verifies => LinksFound(r)
          /\ Concludes(r, "COMPLETED")
    /\ UNCHANGED drafts
    /\ FilesKept /\ RecordKept

(* The outcome replaces the checkpoint, and the lane is free.               *)
SaveCheckpoint(r) ==
    /\ BundleAt(r, "recording")
    /\ checkpoint' = [status |-> bundle[r].outcome, verifies |-> bundle[r].verifies]
    /\ revised' = bundle[r].revised
    /\ Proceeds(r, "committing")
    /\ UNCHANGED <<markdown, edits, indexed, drafts, bundleFaults>>

CommitBundle(r) ==
    /\ BundleAt(r, "committing")
    /\ indexed' = [n \in Pages |-> Indexed(r, n)]
    /\ drafts' = [drafts EXCEPT ![r] = NoDrafts]
    /\ bundle' = [bundle EXCEPT ![r] = [NoBundle EXCEPT !.at = "over"]]
    /\ UNCHANGED <<markdown, revised, edits, checkpoint, bundleFaults>>

(* A refused request, any other exception or a death: the rows are rolled   *)
(* back, the files stay, and so does the checkpoint, even an old one.       *)
AbandonBundle(r) ==
    /\ \/ BundleAt(r, "failing") /\ UNCHANGED bundleFaults
       \/ /\ bundle[r].at \notin {"idle", "over"} /\ bundleFaults < MaxBundleFaults
          /\ bundleFaults' = bundleFaults + 1
    /\ drafts' = [drafts EXCEPT ![r] = NoDrafts]
    /\ bundle' = [bundle EXCEPT ![r] = [NoBundle EXCEPT !.at = "over"]]
    /\ UNCHANGED <<markdown, revised, edits, indexed, checkpoint>>

BundleNext ==
    \/ \E n \in Pages : EditPage(n)
    \/ \E r \in Bundles :
          \/ Admit(r) \/ Preflight(r) \/ WriteSource(r) \/ UpdateOwner(r)
          \/ ReindexVault(r) \/ VerifyLinks(r) \/ SaveCheckpoint(r)
          \/ CommitBundle(r) \/ AbandonBundle(r)
    \/ (\A r \in Bundles : BundleAt(r, "over")) /\ UNCHANGED bundleVars

BundleSpec == BundleInit /\ [][BundleNext]_bundleVars

-----------------------------------------------------------------------------
(* A completed checkpoint, which answers every later request of its key,    *)
(* tells the truth of the files: the source carries the report and every    *)
(* owner links it.  Not so when a note was edited after the request had     *)
(* written the source or had looked the owners' links up; when the source's *)
(* row still shows the report that an edit took away, so that the request   *)
(* lets it be; or when an owner's frontmatter was removed with its link     *)
(* before the reindex, which passes such a file over: the link is then      *)
(* found in the row, and the file no longer has it.                         *)
CompletedBundlesHold ==
    checkpoint.status = "COMPLETED" => \A n \in Pages \ revised : Carries(markdown[n])

(* One request at a time is inside the lane; sessions that are over or have *)
(* not begun hold no row.                                                   *)
BundleTypeOK ==
    /\ checkpoint.status \in {"none", "COMPLETED", "PARTIAL", "FAILED_NO_MUTATION"}
    /\ revised \subseteq Pages /\ edits \in 0..MaxEdits
    /\ bundleFaults \in 0..MaxBundleFaults
    /\ \A r \in Bundles : bundle[r].at \in {"idle", "over"} => drafts[r] = NoDrafts
=============================================================================
