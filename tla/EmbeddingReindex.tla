--------------------------- MODULE EmbeddingReindex ---------------------------
(***************************************************************************)
(* Vectors of indexed chunks, one chunk per note here.  Saves and vault    *)
(* reindexes replace a note's chunk rows, and carry over the vector of a   *)
(* chunk whose text is the same; embedding runs select chunks without a    *)
(* vector, end their read transaction, compute vectors outside of any, and *)
(* put them on the rows that are still there.  A vault reindex may start a *)
(* recovery of embeddings of its own, in the session it works in.          *)
(***************************************************************************)
EXTENDS Naturals, FiniteSets

CONSTANTS
    Chunked,            \* notes
    ChunkTexts,         \* what a note may say
    Tasks,              \* requests
    TasksOf,            \* what each request may ask for
    BatchSize, MaxBatches,
    RecoverAfterReindex,    \* rag_embedding_recovery_on_vault_reindex
    MaxChunkFaults,     \* bound: failed inferences and dying requests
    Imported,           \* made the rows of the start
    NoVector,
    Clean               \* a row the session has not written

VARIABLES
    body,           \* the text of each note's file
    chunks,         \* committed rows: their id (who made them), text and vector
    unsaved,        \* each request's session: rows written, not committed
    task,           \* each request: where it is and its local state
    outcome,        \* what each request has answered
    stirred,        \* history: requests during which another one committed rows
    chunkFaults

chunkVars == <<body, chunks, unsaved, task, outcome, stirred, chunkFaults>>

ChunkRows == [id : Tasks \cup {Imported}, text : ChunkTexts, vector : ChunkTexts \cup {NoVector}]
Picks == [note : Chunked, row : ChunkRows]

ASSUME ChunksAssumption ==
    /\ Imported \notin Tasks /\ Clean \notin ChunkRows /\ NoVector \notin Picks
    /\ NoVector \notin ChunkTexts /\ IsFiniteSet(Chunked)
    /\ BatchSize \in Nat \ {0} /\ MaxBatches \in Nat /\ MaxChunkFaults \in Nat

(* What a request remembers.                                                *)
TaskRecords ==
    [at : {"idle", "reading", "replacing", "selecting", "embedding", "updating",
           "closing", "failing", "over"},
     kind : {"none", "save", "patch", "reindex", "embed", "recover"},
     scan : [Chunked -> ChunkTexts \cup {NoVector}], todo : SUBSET Chunked,
     old : Picks \cup {NoVector}, picked : SUBSET Picks, force : BOOLEAN, batch : Nat]

CleanSession == [n \in Chunked |-> Clean]
NoTask == [at |-> "idle", kind |-> "none", scan |-> [n \in Chunked |-> NoVector],
           todo |-> {}, old |-> NoVector, picked |-> {}, force |-> FALSE, batch |-> 0]

ChunksInit ==
    /\ body \in [Chunked -> ChunkTexts]
    /\ chunks \in [Chunked -> ChunkRows] /\ \A n \in Chunked : chunks[n].id = Imported
    /\ \A n \in Chunked : chunks[n].text = body[n] /\ chunks[n].vector \in {body[n], NoVector}
    /\ unsaved = [r \in Tasks |-> CleanSession]
    /\ task = [r \in Tasks |-> NoTask]
    /\ outcome = [r \in Tasks |-> "none"]
    /\ stirred = {}
    /\ chunkFaults = 0

-----------------------------------------------------------------------------
TaskAt(r, point) == task[r].at = point
TaskGoes(r, point) == task' = [task EXCEPT ![r].at = point]
Row(r, n) == IF unsaved[r][n] = Clean THEN chunks[n] ELSE unsaved[r][n]
Held(r, n) == \E s \in Tasks \ {r} : unsaved[s][n] # Clean
Bare(r) == {n \in Chunked : Row(r, n).vector = NoVector}
Recovers(r) == task[r].kind \in {"recover", "reindex"}
ChunkFault == chunkFaults < MaxChunkFaults /\ chunkFaults' = chunkFaults + 1
RowsCommitted(r) == chunks' = [n \in Chunked |-> Row(r, n)]

(* The lanes: shared for saves, exclusive for the others; a recovery gives  *)
(* its lane back between two batches.                                       *)
Sharing(r) == task[r].kind = "save" /\ task[r].at \in {"reading", "replacing"}
Excluding(r) ==
    \/ task[r].kind = "reindex"
           /\ task[r].at \in {"reading", "replacing", "selecting", "embedding", "updating"}
    \/ task[r].kind \in {"embed", "recover"} /\ task[r].at \in {"embedding", "updating"}
LaneFree(r) == \A s \in Tasks \ {r} : ~Excluding(s) /\ ~Sharing(s)
Unstarted == UNCHANGED <<chunks, unsaved, outcome, stirred, chunkFaults>>

(* A save writes the file and then the row; a patch of a lifecycle does so  *)
(* without a lane.                                                          *)
BeginSave(r) ==
    /\ TaskAt(r, "idle")
    /\ \E n \in Chunked, text \in ChunkTexts, kind \in TasksOf[r] \cap {"save", "patch"} :
          /\ kind = "save" => \A s \in Tasks : ~Excluding(s)
          /\ body' = [body EXCEPT ![n] = text]
          /\ task' = [task EXCEPT ![r] = [@ EXCEPT
                 !.at = "reading", !.kind = kind, !.scan = body', !.todo = {n}]]
    /\ Unstarted

(* A reindex reads every file; it does not wait for the lane.               *)
BeginReindex(r) ==
    /\ TaskAt(r, "idle") /\ "reindex" \in TasksOf[r]
    /\ task' = [task EXCEPT ![r] = [@ EXCEPT !.kind = "reindex", !.scan = body,
                   !.todo = Chunked, !.at = IF LaneFree(r) THEN "reading" ELSE "failing"]]
    /\ UNCHANGED body /\ Unstarted

BeginEmbedding(r) ==
    /\ TaskAt(r, "idle")
    /\ \E kind \in TasksOf[r] \cap {"embed", "recover"}, force \in BOOLEAN :
          /\ force => kind = "embed"
          /\ task' = [task EXCEPT ![r] = [@ EXCEPT
                 !.at = "selecting", !.kind = kind, !.force = force]]
    /\ UNCHANGED body /\ Unstarted

-----------------------------------------------------------------------------
(* The vectors of the note's rows are read before the rows are replaced.    *)
ReadVectors(r) ==
    /\ TaskAt(r, "reading")
    /\ \E n \in task[r].todo :
          task' = [task EXCEPT ![r] = [@ EXCEPT
              !.at = "replacing", !.old = [note |-> n, row |-> Row(r, n)]]]
    /\ UNCHANGED body /\ Unstarted

CarryOver(old, text) == IF old.text = text THEN old.vector ELSE NoVector

ReplaceChunks(r) ==
    LET n == task[r].old.note
        text == task[r].scan[n]
        rest == task[r].todo \ {n}
        next == IF rest # {} THEN "reading"
                ELSE IF task[r].kind = "reindex" /\ RecoverAfterReindex THEN "selecting"
                ELSE "closing"
    IN  /\ TaskAt(r, "replacing") /\ ~Held(r, n)
        /\ unsaved' = [unsaved EXCEPT ![r][n] =
               [id |-> r, text |-> text, vector |-> CarryOver(task[r].old.row, text)]]
        /\ task' = [task EXCEPT ![r] = [@ EXCEPT !.at = next, !.todo = rest, !.old = NoVector]]
        /\ UNCHANGED <<body, chunks, outcome, stirred, chunkFaults>>

-----------------------------------------------------------------------------
(* A batch: chunks without a vector, and under force others after them.     *)
NextBatches(r) ==
    LET pool == IF task[r].force THEN Chunked ELSE Bare(r)
        size(s) == IF Cardinality(s) < BatchSize THEN Cardinality(s) ELSE BatchSize
    IN  {s \in SUBSET pool : /\ Cardinality(s) = size(pool)
                             /\ Cardinality(s \cap Bare(r)) = size(Bare(r))}

(* Answers end the work: a request to embed answers after one batch.        *)
Answers(r, said) ==
    /\ task' = [task EXCEPT ![r] = [@ EXCEPT !.at = "closing", !.picked = {}]]
    /\ outcome' = [outcome EXCEPT ![r] = said]

(* Selected chunks are remembered, and the session is rolled back, with all *)
(* that it has written before.  Vectors may not be available, which is a    *)
(* warning; the lane may be taken, which is an error.                       *)
SelectChunks(r) ==
    /\ TaskAt(r, "selecting")
    /\ \/ LaneFree(r) /\ Answers(r, "warned") /\ UNCHANGED unsaved
       \/ ~LaneFree(r) /\ TaskGoes(r, "failing") /\ UNCHANGED <<unsaved, outcome>>
       \/ /\ LaneFree(r)
          /\ \E batch \in NextBatches(r) :
                IF batch = {} THEN Answers(r, "drained")
                ELSE /\ task' = [task EXCEPT ![r] = [@ EXCEPT !.at = "embedding",
                            !.batch = task[r].batch + 1,
                            !.picked = {[note |-> n, row |-> Row(r, n)] : n \in batch}]]
                     /\ UNCHANGED outcome
          /\ unsaved' = [unsaved EXCEPT ![r] = CleanSession]
    /\ UNCHANGED <<body, chunks, stirred, chunkFaults>>

(* Mutant of StillThere: a chunk is found again by its place.               *)
StillThereByPlace(r, pick) == TRUE

StillThere(r, pick) == Row(r, pick.note).id = pick.row.id

FindChunks(r) ==
    /\ TaskAt(r, "embedding")
    /\ \/ /\ task' = [task EXCEPT ![r] = [@ EXCEPT !.at = "updating",
                 !.todo = {pick.note : pick \in {p \in task[r].picked : StillThere(r, p)}}]]
          /\ UNCHANGED chunkFaults
       \/ ChunkFault /\ TaskGoes(r, "failing")
    /\ UNCHANGED <<body, chunks, unsaved, outcome, stirred>>

Stirs(r) ==
    stirred' = stirred \cup {s \in Tasks \ {r} : task[s].at \notin {"idle", "over"}}

(* Mutant of Drained: a full batch is taken for the last one.               *)
DrainedEarly(scanned, updated) == updated = 0 \/ scanned <= BatchSize

Drained(scanned, updated) == updated = 0 \/ scanned < BatchSize

(* The rows found get their vectors, and the batch is committed, unless one *)
(* of them has gone since.                                                  *)
UpdateChunks(r) ==
    LET found == {p \in task[r].picked : p.note \in task[r].todo}
        gone == \E p \in found : ~StillThere(r, p)
        scanned == Cardinality(task[r].picked)
    IN  /\ TaskAt(r, "updating")
        /\ \A p \in found : ~Held(r, p.note)
        /\ IF gone THEN TaskGoes(r, "failing") /\ UNCHANGED <<chunks, outcome, stirred>>
           ELSE /\ chunks' = [n \in Chunked |-> IF n \in task[r].todo THEN [chunks[n] EXCEPT
                      !.vector = (CHOOSE p \in found : p.note = n).row.text] ELSE chunks[n]]
                /\ Stirs(r)
                /\ IF ~Recovers(r) THEN Answers(r, "embedded")
                   ELSE IF Drained(scanned, Cardinality(found)) THEN Answers(r, "drained")
                   ELSE IF task[r].batch = MaxBatches THEN Answers(r, "warned")
                   ELSE /\ task' = [task EXCEPT ![r] = [@ EXCEPT
                               !.at = "selecting", !.todo = {}, !.picked = {}]]
                        /\ UNCHANGED outcome
        /\ UNCHANGED <<body, unsaved, chunkFaults>>

-----------------------------------------------------------------------------
(* The session commits or is rolled back after the answer.                  *)
CommitChunks(r) ==
    /\ TaskAt(r, "closing")
    /\ RowsCommitted(r)
    /\ unsaved' = [unsaved EXCEPT ![r] = CleanSession]
    /\ Stirs(r)
    /\ TaskGoes(r, "over")
    /\ UNCHANGED <<body, outcome, chunkFaults>>

DropChunks(r) ==
    /\ \/ TaskAt(r, "failing") /\ UNCHANGED chunkFaults
       \/ task[r].at \notin {"idle", "failing", "over"} /\ ChunkFault
    /\ unsaved' = [unsaved EXCEPT ![r] = CleanSession]
    /\ task' = [task EXCEPT ![r] = [NoTask EXCEPT !.at = "over"]]
    /\ UNCHANGED <<body, chunks, outcome, stirred>>

ChunksNext ==
    \/ \E r \in Tasks :
          \/ BeginSave(r) \/ BeginReindex(r) \/ BeginEmbedding(r) \/ ReadVectors(r)
          \/ ReplaceChunks(r) \/ SelectChunks(r) \/ FindChunks(r) \/ UpdateChunks(r)
          \/ CommitChunks(r) \/ DropChunks(r)
    \/ (\A r \in Tasks : TaskAt(r, "over")) /\ UNCHANGED chunkVars

ChunksSpec == ChunksInit /\ [][ChunksNext]_chunkVars

-----------------------------------------------------------------------------
(* A vector was computed from the text of its row, although rows may be     *)
(* replaced between the selection of a chunk and the update, and vectors    *)
(* are carried over to new rows.                                            *)
VectorsFitTheirText ==
    \A n \in Chunked : chunks[n].vector \in {chunks[n].text, NoVector}

(* A recovery that ends without a warning leaves no chunk without a vector, *)
(* unless another request has committed rows meanwhile.                     *)
DrainedMeansNoneIsLeft ==
    [][\A r \in Tasks :
          (outcome'[r] = "drained" /\ outcome[r] # "drained"
               /\ task[r].kind = "recover" /\ r \notin stirred')
          => \A n \in Chunked : chunks'[n].vector # NoVector]_chunkVars

(* A vault reindex that succeeds has put every file it read into the index, *)
(* unless another request has committed rows meanwhile.                     *)
ReindexIsKept ==
    [][\A r \in Tasks :
          (TaskAt(r, "closing") /\ task'[r].at = "over" /\ task'[r].kind = "reindex"
               /\ r \notin stirred)
          => \A n \in Chunked : chunks'[n].text = task[r].scan[n]]_chunkVars

(* Rows come from known requests; a request that reads files has their      *)
(* texts; a session that is over, or that computes vectors, holds no row.   *)
ChunksTypeOK ==
    /\ body \in [Chunked -> ChunkTexts]
    /\ chunks \in [Chunked -> ChunkRows]
    /\ unsaved \in [Tasks -> [Chunked -> ChunkRows \cup {Clean}]]
    /\ task \in [Tasks -> TaskRecords]
    /\ \A r \in Tasks :
          /\ task[r].at \in {"reading", "replacing"} => task[r].scan \in [Chunked -> ChunkTexts]
          /\ task[r].at = "replacing" => task[r].old \in Picks
          /\ task[r].at \in {"idle", "embedding", "updating", "over"} => unsaved[r] = CleanSession
=============================================================================
