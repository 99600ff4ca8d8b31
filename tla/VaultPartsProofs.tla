------------------------- MODULE VaultPartsProofs -------------------------
(***************************************************************************)
(* Proofs about what works beside the writers of notes: chunks and their   *)
(* vectors, batches of moves, and Memory Compacts; and about all of what   *)
(* works on the vault side by side.                                        *)
(***************************************************************************)
EXTENDS MCVaultIndex, VaultIndexProofs, FiniteSetTheorems, TLAPS

(***************************************************************************)
(* A stored vector belongs to the text of its row, and a recovery that     *)
(* ends without a warning has left no chunk without one, for any notes,    *)
(* texts and requests, however saves, reindexes and embedding runs         *)
(* interleave.                                                             *)
(***************************************************************************)

Makers == Tasks \cup {Imported}
Is(chunk, id, text) == chunk.id = id /\ chunk.text = text

(* A chunk of the note with this id and text is stored, written or picked.  *)
Occurs(n, id, text) ==
    \/ Is(chunks[n], id, text)
    \/ \E s \in Tasks : unsaved[s][n] # Clean /\ Is(unsaved[s][n], id, text)
    \/ \E s \in Tasks : \E p \in task[s].picked : p.note = n /\ Is(p.row, id, text)

(* The request has still to replace the note's rows.                        *)
Unmade(r, n) ==
    \/ task[r].at = "idle"
    \/ task[r].at \in {"reading", "replacing"} /\ n \in task[r].todo

(* Rows of one note with one id say the same: an id is never used again.    *)
OneText ==
    \A n \in Chunked, id \in Makers, t, u \in ChunkTexts :
        (Occurs(n, id, t) /\ Occurs(n, id, u)) => t = u
IdsAreFresh ==
    \A r \in Tasks, n \in Chunked, t \in ChunkTexts : Unmade(r, n) => ~Occurs(n, r, t)

Fits(chunk) == chunk.vector \in {chunk.text, NoVector}
AllFit ==
    /\ \A n \in Chunked : Fits(chunks[n])
    /\ \A r \in Tasks, n \in Chunked : unsaved[r][n] # Clean => Fits(unsaved[r][n])
    /\ \A r \in Tasks : task[r].at = "replacing" =>
           Fits(task[r].old.row) /\ task[r].old.note \in task[r].todo

(* Rows about to be updated were picked.                                    *)
UpdatesWerePicked ==
    \A r \in Tasks : task[r].at = "updating" =>
        \A n \in task[r].todo : \E p \in task[r].picked : p.note = n

ChunksInv == ChunksTypeOK /\ OneText /\ IdsAreFresh /\ AllFit /\ UpdatesWerePicked

-----------------------------------------------------------------------------
LEMMA NoTaskTyped == NoTask \in TaskRecords /\ CleanSession \in [Chunked -> ChunkRows \cup {Clean}]
  BY DEF NoTask, TaskRecords, CleanSession

LEMMA ChunksInitially == ChunksInit => ChunksInv
  <1> SUFFICES ASSUME ChunksInit
               PROVE  ChunksInv
    OBVIOUS
  <1>1. /\ \A r \in Tasks : task[r] = NoTask /\ task[r].at = "idle" /\ task[r].picked = {}
        /\ \A r \in Tasks, n \in Chunked : unsaved[r] = CleanSession /\ unsaved[r][n] = Clean
    BY DEF ChunksInit, NoTask, CleanSession
  <1>2. ChunksTypeOK
    BY <1>1, NoTaskTyped DEF ChunksInit, ChunksTypeOK
  <1>3. \A n \in Chunked : \A id, t : Occurs(n, id, t) => id = Imported /\ t = chunks[n].text
    BY <1>1 DEF ChunksInit, Occurs, Is
  <1>4. OneText /\ IdsAreFresh
    BY <1>3, ChunksAssumption DEF OneText, IdsAreFresh
  <1>5. AllFit
    BY <1>1 DEF ChunksInit, AllFit, Fits
  <1>6. UpdatesWerePicked
    BY <1>1 DEF UpdatesWerePicked
  <1> QED
    BY <1>2, <1>4, <1>5, <1>6 DEF ChunksInv

-----------------------------------------------------------------------------
LEMMA TaskTyped ==
  ASSUME ChunksTypeOK, NEW r \in Tasks, NEW o \in TaskRecords,
         task' = [task EXCEPT ![r] = o],
         o.at \in {"reading", "replacing"} => o.scan \in [Chunked -> ChunkTexts],
         o.at = "replacing" => o.old \in Picks,
         body' \in [Chunked -> ChunkTexts], chunks' \in [Chunked -> ChunkRows],
         unsaved' \in [Tasks -> [Chunked -> ChunkRows \cup {Clean}]],
         \A s \in Tasks : s # r => unsaved'[s] = unsaved[s],
         o.at \in {"idle", "embedding", "updating", "over"} => unsaved'[r] = CleanSession
  PROVE  /\ ChunksTypeOK'
         /\ task'[r] = o /\ \A s \in Tasks : s # r => task'[s] = task[s]
  BY DEF ChunksTypeOK

LEMMA RowTyped ==
  ASSUME ChunksTypeOK, NEW r \in Tasks, NEW n \in Chunked
  PROVE  /\ Row(r, n) \in ChunkRows
         /\ Row(r, n) = chunks[n] \/ (unsaved[r][n] # Clean /\ Row(r, n) = unsaved[r][n])
  BY DEF ChunksTypeOK, Row

(* Rows that are stored, written or picked were so before, with their text. *)
LEMMA NothingNew ==
  ASSUME ChunksTypeOK,
         \A n \in Chunked :
             \/ Is(chunks'[n], chunks[n].id, chunks[n].text)
             \/ \E s \in Tasks : unsaved[s][n] # Clean /\ chunks'[n] = unsaved[s][n],
         \A s \in Tasks, n \in Chunked : unsaved'[s][n] \in {Clean, unsaved[s][n]},
         \A s \in Tasks : \A p \in task'[s].picked :
             p \in task[s].picked \/ p.row = Row(s, p.note)
  PROVE  \A n \in Chunked : \A id, t : Occurs(n, id, t)' => Occurs(n, id, t)
  <1> SUFFICES ASSUME NEW n \in Chunked, NEW id, NEW t, Occurs(n, id, t)'
               PROVE  Occurs(n, id, t)
    OBVIOUS
  <1>1. CASE Is(chunks'[n], id, t)
    BY <1>1 DEF Occurs, Is
  <1>2. CASE \E s \in Tasks : unsaved'[s][n] # Clean /\ Is(unsaved'[s][n], id, t)
    BY <1>2 DEF Occurs
  <1>3. CASE \E s \in Tasks : \E p \in task'[s].picked : p.note = n /\ Is(p.row, id, t)
    <2>1. PICK s \in Tasks : \E p \in task'[s].picked : p.note = n /\ Is(p.row, id, t)
      BY <1>3
    <2>2. PICK p \in task'[s].picked : p.note = n /\ Is(p.row, id, t)
      BY <2>1
    <2>3. CASE p \in task[s].picked
      BY <2>2, <2>3 DEF Occurs
    <2>4. CASE p.row = Row(s, n)
      BY <2>2, <2>4, RowTyped DEF Occurs
    <2> QED
      BY <2>2, <2>3, <2>4
  <1> QED
    BY <1>1, <1>2, <1>3 DEF Occurs, Is

LEMMA TextsStay ==
  ASSUME ChunksInv,
         \A n \in Chunked : \A id, t : Occurs(n, id, t)' => Occurs(n, id, t),
         \A r \in Tasks, n \in Chunked : Unmade(r, n)' => Unmade(r, n)
  PROVE  OneText' /\ IdsAreFresh'
  <1>1. OneText'
    BY DEF ChunksInv, OneText
  <1>2. IdsAreFresh'
    BY DEF ChunksInv, IdsAreFresh
  <1> QED
    BY <1>1, <1>2

(* A request that goes elsewhere while committed rows stay and nothing is   *)
(* written: sessions stay, or lose their rows.                              *)
LEMMA MoveStep ==
  ASSUME ChunksInv, ChunksTypeOK', NEW r \in Tasks, chunks' = chunks,
         \A s \in Tasks : s # r => task'[s] = task[s],
         \A s \in Tasks, n \in Chunked : unsaved'[s][n] \in {Clean, unsaved[s][n]},
         \A p \in task'[r].picked : p \in task[r].picked \/ p.row = Row(r, p.note),
         \A n \in Chunked : Unmade(r, n)' => Unmade(r, n),
         task'[r].at = "replacing" =>
             Fits(task'[r].old.row) /\ task'[r].old.note \in task'[r].todo,
         task'[r].at = "updating" =>
             \A n \in task'[r].todo : \E p \in task'[r].picked : p.note = n
  PROVE  ChunksInv'
  <1>1. ChunksTypeOK
    BY DEF ChunksInv
  <1>2. \A n \in Chunked : \A id, t : Occurs(n, id, t)' => Occurs(n, id, t)
    BY <1>1, NothingNew DEF Is
  <1>3. \A s \in Tasks, n \in Chunked : Unmade(s, n)' => Unmade(s, n)
    BY DEF Unmade
  <1>4. OneText' /\ IdsAreFresh'
    BY <1>2, <1>3, TextsStay
  <1>5. AllFit'
    BY DEF ChunksInv, AllFit, Fits
  <1>6. UpdatesWerePicked'
    BY DEF ChunksInv, UpdatesWerePicked
  <1> QED
    BY <1>4, <1>5, <1>6 DEF ChunksInv

-----------------------------------------------------------------------------
(* A task record with other contents.                                       *)
LEMMA RecordTyped ==
  ASSUME ChunksTypeOK, NEW r \in Tasks
  PROVE  /\ task[r] \in TaskRecords
         /\ \A at \in {"reading", "replacing", "selecting", "embedding", "updating",
                       "closing", "failing", "over"} :
                [task[r] EXCEPT !.at = at] \in TaskRecords
  BY DEF ChunksTypeOK, TaskRecords

LEMMA Unchanging ==
  ASSUME ChunksTypeOK, UNCHANGED <<body, chunks, unsaved>>
  PROVE  /\ body' \in [Chunked -> ChunkTexts] /\ chunks' \in [Chunked -> ChunkRows]
         /\ unsaved' \in [Tasks -> [Chunked -> ChunkRows \cup {Clean}]]
         /\ \A s \in Tasks, n \in Chunked : unsaved'[s][n] \in {Clean, unsaved[s][n]}
  BY DEF ChunksTypeOK

LEMMA BeginSaveStep ==
  ASSUME ChunksInv, NEW r \in Tasks, BeginSave(r)
  PROVE  ChunksInv'
  <1>1. PICK n \in Chunked, text \in ChunkTexts, kind \in TasksOf[r] \cap {"save", "patch"} :
            /\ body' = [body EXCEPT ![n] = text]
            /\ task' = [task EXCEPT ![r] = [@ EXCEPT
                   !.at = "reading", !.kind = kind, !.scan = body', !.todo = {n}]]
    BY DEF BeginSave
  <1> DEFINE o == [task[r] EXCEPT !.at = "reading", !.kind = kind, !.scan = body', !.todo = {n}]
  <1>2. /\ ChunksTypeOK /\ task[r] \in TaskRecords /\ task[r].at = "idle"
        /\ UNCHANGED <<chunks, unsaved>>
    BY RecordTyped DEF ChunksInv, BeginSave, TaskAt, Unstarted
  <1>3. body' \in [Chunked -> ChunkTexts]
    BY <1>1, <1>2 DEF ChunksTypeOK
  <1>4. task' = [task EXCEPT ![r] = o]
    BY <1>1 DEF ChunksInv, ChunksTypeOK
  <1>5. o \in TaskRecords /\ o.at = "reading" /\ o.scan = body' /\ o.picked = task[r].picked
    BY <1>1, <1>2, <1>3 DEF TaskRecords
  <1> HIDE DEF o
  <1>6. /\ ChunksTypeOK' /\ task'[r] = o
        /\ \A s \in Tasks : s # r => task'[s] = task[s]
    BY <1>2, <1>3, <1>4, <1>5, TaskTyped DEF ChunksTypeOK
  <1> QED
    BY <1>2, <1>5, <1>6, MoveStep DEF Unmade

LEMMA BeginReindexStep ==
  ASSUME ChunksInv, NEW r \in Tasks, BeginReindex(r)
  PROVE  ChunksInv'
  <1> DEFINE o == [task[r] EXCEPT !.kind = "reindex", !.scan = body, !.todo = Chunked,
                                  !.at = IF LaneFree(r) THEN "reading" ELSE "failing"]
  <1>1. /\ ChunksTypeOK /\ task[r] \in TaskRecords /\ task[r].at = "idle"
        /\ UNCHANGED <<body, chunks, unsaved>> /\ body \in [Chunked -> ChunkTexts]
    BY RecordTyped DEF ChunksInv, BeginReindex, TaskAt, Unstarted, ChunksTypeOK
  <1>2. task' = [task EXCEPT ![r] = o]
    BY DEF BeginReindex
  <1>3. /\ o \in TaskRecords /\ o.at \in {"reading", "failing"} /\ o.scan = body
        /\ o.picked = task[r].picked
    BY <1>1 DEF TaskRecords
  <1> HIDE DEF o
  <1>4. /\ ChunksTypeOK' /\ task'[r] = o
        /\ \A s \in Tasks : s # r => task'[s] = task[s]
    BY <1>1, <1>2, <1>3, Unchanging, TaskTyped
  <1> QED
    BY <1>1, <1>3, <1>4, MoveStep DEF Unmade

LEMMA BeginEmbeddingStep ==
  ASSUME ChunksInv, NEW r \in Tasks, BeginEmbedding(r)
  PROVE  ChunksInv'
  <1>1. PICK kind \in TasksOf[r] \cap {"embed", "recover"}, force \in BOOLEAN :
            task' = [task EXCEPT ![r] = [@ EXCEPT
                !.at = "selecting", !.kind = kind, !.force = force]]
    BY DEF BeginEmbedding
  <1> DEFINE o == [task[r] EXCEPT !.at = "selecting", !.kind = kind, !.force = force]
  <1>2. /\ ChunksTypeOK /\ task[r] \in TaskRecords /\ task[r].at = "idle"
        /\ UNCHANGED <<body, chunks, unsaved>>
    BY RecordTyped DEF ChunksInv, BeginEmbedding, TaskAt, Unstarted
  <1>3. task' = [task EXCEPT ![r] = o]
    BY <1>1 DEF ChunksInv, ChunksTypeOK
  <1>4. o \in TaskRecords /\ o.at = "selecting" /\ o.picked = task[r].picked
    BY <1>1, <1>2 DEF TaskRecords
  <1> HIDE DEF o
  <1>5. /\ ChunksTypeOK' /\ task'[r] = o
        /\ \A s \in Tasks : s # r => task'[s] = task[s]
    BY <1>2, <1>3, <1>4, Unchanging, TaskTyped
  <1> QED
    BY <1>2, <1>4, <1>5, MoveStep DEF Unmade

LEMMA ReadVectorsStep ==
  ASSUME ChunksInv, NEW r \in Tasks, ReadVectors(r)
  PROVE  ChunksInv'
  <1>1. PICK n \in task[r].todo :
            task' = [task EXCEPT ![r] = [@ EXCEPT
                !.at = "replacing", !.old = [note |-> n, row |-> Row(r, n)]]]
    BY DEF ReadVectors
  <1> DEFINE pick == [note |-> n, row |-> Row(r, n)]
             o == [task[r] EXCEPT !.at = "replacing", !.old = pick]
  <1>2. /\ ChunksTypeOK /\ task[r] \in TaskRecords /\ task[r].at = "reading"
        /\ UNCHANGED <<body, chunks, unsaved>>
        /\ task[r].scan \in [Chunked -> ChunkTexts]
    BY RecordTyped DEF ChunksInv, ReadVectors, TaskAt, Unstarted, ChunksTypeOK
  <1>3. n \in Chunked
    BY <1>2 DEF TaskRecords
  <1>4. pick \in Picks
    BY <1>2, <1>3, RowTyped DEF Picks
  <1>5. task' = [task EXCEPT ![r] = o]
    BY <1>1 DEF ChunksInv, ChunksTypeOK
  <1>6. Fits(Row(r, n))
    BY <1>2, <1>3, RowTyped DEF ChunksInv, AllFit
  <1>7. /\ o \in TaskRecords /\ o.at = "replacing" /\ o.picked = task[r].picked
        /\ o.old = pick /\ o.todo = task[r].todo /\ o.scan = task[r].scan
    <2> HIDE DEF pick
    <2> QED
      BY <1>2, <1>4 DEF TaskRecords
  <1>8. /\ o.old.row = Row(r, n) /\ o.old.note = n
    BY <1>7
  <1> HIDE DEF o, pick
  <1>9. /\ ChunksTypeOK' /\ task'[r] = o
        /\ \A s \in Tasks : s # r => task'[s] = task[s]
    BY <1>2, <1>4, <1>5, <1>7, Unchanging, TaskTyped
  <1> QED
    BY <1>2, <1>6, <1>7, <1>8, <1>9, MoveStep, Unchanging DEF Unmade

LEMMA CommonEnd ==
  ASSUME ChunksInv, NEW r \in Tasks, NEW o \in TaskRecords, task' = [task EXCEPT ![r] = o],
         o.at \in {"closing", "failing", "over"},
         o.picked \subseteq task[r].picked,
         body' \in [Chunked -> ChunkTexts], chunks' = chunks,
         \/ unsaved' = unsaved /\ o.at # "over"
         \/ unsaved' = [unsaved EXCEPT ![r] = CleanSession]
  PROVE  ChunksInv'
  <1>1. ChunksTypeOK
    BY DEF ChunksInv
  <1>2. /\ unsaved' \in [Tasks -> [Chunked -> ChunkRows \cup {Clean}]]
        /\ \A s \in Tasks, n \in Chunked : unsaved'[s][n] \in {Clean, unsaved[s][n]}
        /\ \A s \in Tasks : s # r => unsaved'[s] = unsaved[s]
        /\ o.at = "over" => unsaved'[r] = CleanSession
        /\ chunks' \in [Chunked -> ChunkRows]
    BY <1>1, NoTaskTyped DEF ChunksTypeOK, CleanSession
  <1>3. /\ ChunksTypeOK' /\ task'[r] = o
        /\ \A s \in Tasks : s # r => task'[s] = task[s]
    BY <1>1, <1>2, TaskTyped
  <1> QED
    BY <1>2, <1>3, MoveStep DEF Unmade

(* A replaced row has the session's text and a vector that fits it.         *)
LEMMA ReplaceChunksStep ==
  ASSUME ChunksInv, NEW r \in Tasks, ReplaceChunks(r)
  PROVE  ChunksInv'
  <1> DEFINE n == task[r].old.note
             text == task[r].scan[n]
             made == [id |-> r, text |-> text, vector |-> CarryOver(task[r].old.row, text)]
             rest == task[r].todo \ {n}
  <1>1. /\ ChunksTypeOK /\ task[r] \in TaskRecords /\ task[r].at = "replacing"
        /\ task[r].old \in Picks /\ task[r].scan \in [Chunked -> ChunkTexts]
        /\ UNCHANGED <<body, chunks>>
        /\ body \in [Chunked -> ChunkTexts] /\ chunks \in [Chunked -> ChunkRows]
    BY RecordTyped DEF ChunksInv, ReplaceChunks, TaskAt, ChunksTypeOK
  <1>2. n \in Chunked /\ text \in ChunkTexts /\ task[r].old.row \in ChunkRows
    BY <1>1 DEF Picks
  <1>3. n \in task[r].todo /\ Fits(task[r].old.row)
    BY <1>1 DEF ChunksInv, AllFit
  <1>4. made \in ChunkRows /\ Fits(made) /\ made.id = r /\ made.text = text
    BY <1>2, <1>3 DEF ChunkRows, CarryOver, Fits
  <1>5. PICK next \in {"reading", "selecting", "closing"} :
            task' = [task EXCEPT ![r] = [@ EXCEPT !.at = next, !.todo = rest, !.old = NoVector]]
    BY DEF ReplaceChunks
  <1>6. unsaved' = [unsaved EXCEPT ![r][n] = made]
    BY DEF ReplaceChunks
  <1> DEFINE o == [task[r] EXCEPT !.at = next, !.todo = rest, !.old = NoVector]
  <1>7. /\ o \in TaskRecords /\ o.at = next /\ o.todo = rest /\ o.scan = task[r].scan
        /\ o.picked = task[r].picked
    <2>1. rest \in SUBSET Chunked
      BY <1>1 DEF TaskRecords
    <2> HIDE DEF rest
    <2> QED
      BY <1>1, <2>1 DEF TaskRecords
  <1>8. task' = [task EXCEPT ![r] = o]
    BY <1>5 DEF ChunksInv, ChunksTypeOK
  <1> HIDE DEF o, made, n, text
  <1>9. /\ unsaved' \in [Tasks -> [Chunked -> ChunkRows \cup {Clean}]]
        /\ \A s \in Tasks : s # r => unsaved'[s] = unsaved[s]
        /\ unsaved'[r][n] = made
        /\ \A m \in Chunked : m # n => unsaved'[r][m] = unsaved[r][m]
    BY <1>1, <1>2, <1>4, <1>6 DEF ChunksTypeOK
  <1>10. /\ ChunksTypeOK' /\ task'[r] = o
         /\ \A s \in Tasks : s # r => task'[s] = task[s]
    <2>1. body' \in [Chunked -> ChunkTexts] /\ chunks' \in [Chunked -> ChunkRows]
      BY <1>1
    <2>2. o.scan \in [Chunked -> ChunkTexts] /\ o.at \in {"reading", "selecting", "closing"}
      BY <1>1, <1>7
    <2> QED
      BY <1>1, <1>7, <1>8, <1>9, <2>1, <2>2, TaskTyped
  <1>11. \A m \in Chunked : \A id, t :
             Occurs(m, id, t)' => Occurs(m, id, t) \/ (m = n /\ id = r /\ t = text)
    BY <1>1, <1>4, <1>7, <1>9, <1>10 DEF Occurs, Is
  <1>12. \A s \in Tasks, m \in Chunked :
             Unmade(s, m)' => Unmade(s, m) /\ ~(s = r /\ m = n)
    BY <1>1, <1>5, <1>7, <1>10 DEF Unmade
  <1>13. Unmade(r, n)
    BY <1>1, <1>3 DEF Unmade, n
  <1>14. OneText'
    BY <1>2, <1>11, <1>13 DEF ChunksInv, OneText, IdsAreFresh
  <1>15. IdsAreFresh'
    BY <1>11, <1>12 DEF ChunksInv, IdsAreFresh
  <1>16. AllFit'
    <2>1. \A m \in Chunked : Fits(chunks[m])'
      BY <1>1 DEF ChunksInv, AllFit, Fits
    <2>2. \A s \in Tasks, m \in Chunked : unsaved'[s][m] # Clean => Fits(unsaved[s][m])'
      <3> SUFFICES ASSUME NEW s \in Tasks, NEW m \in Chunked, unsaved'[s][m] # Clean
                   PROVE  Fits(unsaved[s][m])'
        OBVIOUS
      <3>1. CASE s = r /\ m = n
        BY <1>4, <1>9, <3>1 DEF Fits
      <3>2. CASE ~(s = r /\ m = n)
        <4>1. unsaved'[s][m] = unsaved[s][m]
          BY <1>9, <3>2
        <4> QED
          BY <4>1 DEF ChunksInv, AllFit, Fits
      <3> QED
        BY <3>1, <3>2
    <2>3. \A s \in Tasks : task'[s].at = "replacing" => s # r /\ task'[s] = task[s]
      BY <1>5, <1>7, <1>10
    <2>4. \A s \in Tasks : task'[s].at = "replacing" =>
              Fits(task[s].old.row)' /\ task'[s].old.note \in task'[s].todo
      BY <2>3 DEF ChunksInv, AllFit, Fits
    <2> QED
      BY <2>1, <2>2, <2>4 DEF AllFit
  <1>17. UpdatesWerePicked'
    BY <1>5, <1>7, <1>10 DEF ChunksInv, UpdatesWerePicked
  <1> QED
    BY <1>10, <1>14, <1>15, <1>16, <1>17 DEF ChunksInv

LEMMA SelectChunksStep ==
  ASSUME ChunksInv, NEW r \in Tasks, SelectChunks(r)
  PROVE  ChunksInv'
  <1>1. /\ ChunksTypeOK /\ task[r] \in TaskRecords /\ task[r].at = "selecting"
        /\ UNCHANGED <<body, chunks>> /\ body' \in [Chunked -> ChunkTexts]
        /\ \A s \in Tasks : task[s] \in TaskRecords
    BY RecordTyped DEF ChunksInv, SelectChunks, TaskAt, ChunksTypeOK
  <1>2. ASSUME NEW said, Answers(r, said),
               UNCHANGED unsaved \/ unsaved' = [unsaved EXCEPT ![r] = CleanSession]
        PROVE  ChunksInv'
    <2> DEFINE o == [task[r] EXCEPT !.at = "closing", !.picked = {}]
    <2>1. o \in TaskRecords /\ o.at = "closing" /\ o.picked = {}
      BY <1>1 DEF TaskRecords
    <2>2. task' = [task EXCEPT ![r] = o]
      BY <1>2 DEF Answers, ChunksInv, ChunksTypeOK
    <2> HIDE DEF o
    <2> QED
      BY <1>1, <1>2, <2>1, <2>2, CommonEnd
  <1>3. CASE TaskGoes(r, "failing") /\ UNCHANGED unsaved
    <2> DEFINE o == [task[r] EXCEPT !.at = "failing"]
    <2>1. o \in TaskRecords /\ o.at = "failing" /\ o.picked = task[r].picked
      BY <1>1 DEF TaskRecords
    <2>2. task' = [task EXCEPT ![r] = o]
      BY <1>3 DEF TaskGoes, ChunksInv, ChunksTypeOK
    <2> HIDE DEF o
    <2> QED
      BY <1>1, <1>3, <2>1, <2>2, CommonEnd
  <1>4. ASSUME NEW batch \in NextBatches(r),
               unsaved' = [unsaved EXCEPT ![r] = CleanSession],
               task' = [task EXCEPT ![r] = [@ EXCEPT !.at = "embedding", !.batch = task[r].batch + 1,
                           !.picked = {[note |-> n, row |-> Row(r, n)] : n \in batch}]]
        PROVE  ChunksInv'
    <2> DEFINE picked == {[note |-> n, row |-> Row(r, n)] : n \in batch}
               batches == task[r].batch + 1
               o == [task[r] EXCEPT !.at = "embedding", !.batch = batches, !.picked = picked]
    <2>0. batches \in Nat
      BY <1>1 DEF TaskRecords
    <2>1. batch \subseteq Chunked
      <3>1. batch \in SUBSET (IF task[r].force THEN Chunked ELSE Bare(r))
        BY <1>4, Zenon DEF NextBatches
      <3> QED
        BY <3>1 DEF Bare
    <2>2. picked \in SUBSET Picks
      <3> SUFFICES ASSUME NEW n \in batch
                   PROVE  [note |-> n, row |-> Row(r, n)] \in Picks
        OBVIOUS
      <3>1. n \in Chunked /\ Row(r, n) \in ChunkRows
        BY <1>1, <2>1, RowTyped
      <3> QED
        BY <3>1 DEF Picks
    <2>3. \A p \in picked : p.row = Row(r, p.note)
      OBVIOUS
    <2>4. task' = [task EXCEPT ![r] = o]
      BY <1>4, Zenon
    <2> HIDE DEF picked, batches
    <2>5. o \in TaskRecords /\ o.at = "embedding" /\ o.picked = picked
      BY <1>1, <2>0, <2>2 DEF TaskRecords
    <2> HIDE DEF o
    <2>6. /\ unsaved' \in [Tasks -> [Chunked -> ChunkRows \cup {Clean}]]
          /\ \A s \in Tasks, n \in Chunked : unsaved'[s][n] \in {Clean, unsaved[s][n]}
          /\ \A s \in Tasks : s # r => unsaved'[s] = unsaved[s]
          /\ unsaved'[r] = CleanSession /\ chunks' \in [Chunked -> ChunkRows]
      BY <1>1, <1>4, NoTaskTyped DEF ChunksTypeOK, CleanSession
    <2>7. /\ ChunksTypeOK' /\ task'[r] = o
          /\ \A s \in Tasks : s # r => task'[s] = task[s]
      BY <1>1, <2>4, <2>5, <2>6, TaskTyped
    <2> QED
      BY <1>1, <2>3, <2>5, <2>6, <2>7, MoveStep DEF Unmade
  <1> QED
    BY <1>2, <1>3, <1>4 DEF SelectChunks

LEMMA FindChunksStep ==
  ASSUME ChunksInv, NEW r \in Tasks, FindChunks(r)
  PROVE  ChunksInv'
  <1>1. /\ ChunksTypeOK /\ task[r] \in TaskRecords /\ task[r].at = "embedding"
        /\ UNCHANGED <<body, chunks, unsaved>> /\ body' \in [Chunked -> ChunkTexts]
        /\ unsaved[r] = CleanSession
    BY RecordTyped DEF ChunksInv, FindChunks, TaskAt, ChunksTypeOK
  <1> DEFINE found == {pick.note : pick \in {p \in task[r].picked : StillThere(r, p)}}
  <1>2. CASE task' = [task EXCEPT ![r] = [@ EXCEPT !.at = "updating", !.todo = found]]
    <2> DEFINE o == [task[r] EXCEPT !.at = "updating", !.todo = found]
    <2>1. task[r].picked \subseteq Picks
      BY <1>1 DEF TaskRecords
    <2>2. found \in SUBSET Chunked
      BY <2>1 DEF Picks
    <2>3. \A n \in found : \E p \in task[r].picked : p.note = n
      OBVIOUS
    <2> HIDE DEF found
    <2>4. /\ o \in TaskRecords /\ o.at = "updating" /\ o.todo = found
          /\ o.picked = task[r].picked
      BY <1>1, <2>2 DEF TaskRecords
    <2>5. task' = [task EXCEPT ![r] = o]
      BY <1>2 DEF ChunksInv, ChunksTypeOK
    <2> HIDE DEF o
    <2>6. /\ ChunksTypeOK' /\ task'[r] = o
          /\ \A s \in Tasks : s # r => task'[s] = task[s]
      BY <1>1, <2>4, <2>5, Unchanging, TaskTyped
    <2> QED
      BY <1>1, <2>3, <2>4, <2>6, MoveStep, Unchanging DEF Unmade
  <1>3. CASE TaskGoes(r, "failing")
    <2> DEFINE o == [task[r] EXCEPT !.at = "failing"]
    <2>1. o \in TaskRecords /\ o.at = "failing" /\ o.picked = task[r].picked
      BY <1>1 DEF TaskRecords
    <2>2. task' = [task EXCEPT ![r] = o]
      BY <1>3 DEF TaskGoes, ChunksInv, ChunksTypeOK
    <2> HIDE DEF o
    <2> QED
      BY <1>1, <2>1, <2>2, CommonEnd
  <1> QED
    BY <1>2, <1>3 DEF FindChunks

(* Rows that are still there get the vector of the text they were picked    *)
(* with, and by their id that is their text.                                *)
LEMMA UpdatedRowsFit ==
  ASSUME ChunksInv, NEW r \in Tasks, task[r].at = "updating",
         NEW found, found = {p \in task[r].picked : p.note \in task[r].todo},
         \A p \in found : StillThere(r, p),
         chunks' = [n \in Chunked |-> IF n \in task[r].todo THEN [chunks[n] EXCEPT
                       !.vector = (CHOOSE p \in found : p.note = n).row.text] ELSE chunks[n]]
  PROVE  /\ chunks' \in [Chunked -> ChunkRows]
         /\ \A n \in Chunked : Fits(chunks[n])' /\ Is(chunks'[n], chunks[n].id, chunks[n].text)
  <1>1. /\ task[r] \in TaskRecords /\ unsaved[r] = CleanSession
        /\ chunks \in [Chunked -> ChunkRows]
    BY DEF ChunksInv, ChunksTypeOK
  <1> SUFFICES ASSUME NEW n \in Chunked
               PROVE  /\ chunks'[n] \in ChunkRows
                      /\ Fits(chunks[n])' /\ Is(chunks'[n], chunks[n].id, chunks[n].text)
    BY <1>1
  <1>2. CASE n \notin task[r].todo
    BY <1>1, <1>2 DEF ChunksInv, AllFit, Fits, Is
  <1>3. CASE n \in task[r].todo
    <2> DEFINE p == CHOOSE q \in found : q.note = n
    <2>1. p \in found /\ p.note = n
      BY <1>3 DEF ChunksInv, UpdatesWerePicked
    <2>2. p \in task[r].picked /\ p \in Picks /\ StillThere(r, p)
      BY <1>1, <2>1 DEF TaskRecords
    <2> HIDE DEF p
    <2>3. Row(r, n) = chunks[n]
      BY <1>1 DEF Row, CleanSession
    <2>4. p.row \in ChunkRows /\ p.row.id = chunks[n].id
      BY <2>1, <2>2, <2>3 DEF Picks, StillThere
    <2>5. chunks[n] \in ChunkRows /\ chunks[n].text \in ChunkTexts /\ chunks[n].id \in Makers
          /\ p.row.text \in ChunkTexts
      BY <1>1, <2>4 DEF ChunkRows, Makers
    <2>6. Occurs(n, chunks[n].id, chunks[n].text) /\ Occurs(n, chunks[n].id, p.row.text)
      BY <2>1, <2>2, <2>4 DEF Occurs, Is
    <2>7. p.row.text = chunks[n].text
      BY <2>5, <2>6 DEF ChunksInv, OneText
    <2>8. chunks'[n] = [chunks[n] EXCEPT !.vector = p.row.text]
      BY <1>3 DEF p
    <2> QED
      BY <2>5, <2>7, <2>8 DEF ChunkRows, Fits, Is
  <1> QED
    BY <1>2, <1>3

LEMMA UpdateChunksStep ==
  ASSUME ChunksInv, NEW r \in Tasks, UpdateChunks(r)
  PROVE  ChunksInv'
  <1> DEFINE found == {p \in task[r].picked : p.note \in task[r].todo}
             gone == \E p \in found : ~StillThere(r, p)
  <1>1. /\ ChunksTypeOK /\ task[r] \in TaskRecords /\ task[r].at = "updating"
        /\ UNCHANGED <<body, unsaved>> /\ body' \in [Chunked -> ChunkTexts]
        /\ unsaved[r] = CleanSession
    BY RecordTyped DEF ChunksInv, UpdateChunks, TaskAt, ChunksTypeOK
  <1>2. CASE gone
    <2> DEFINE o == [task[r] EXCEPT !.at = "failing"]
    <2>0. TaskGoes(r, "failing") /\ UNCHANGED chunks
      BY <1>2 DEF UpdateChunks
    <2>1. o \in TaskRecords /\ o.at = "failing" /\ o.picked = task[r].picked
      BY <1>1 DEF TaskRecords
    <2>2. task' = [task EXCEPT ![r] = o]
      BY <2>0 DEF TaskGoes, ChunksInv, ChunksTypeOK
    <2> HIDE DEF o
    <2> QED
      BY <1>1, <2>0, <2>1, <2>2, CommonEnd
  <1>3. CASE ~gone
    <2>1. /\ chunks' = [n \in Chunked |-> IF n \in task[r].todo THEN [chunks[n] EXCEPT
                 !.vector = (CHOOSE p \in found : p.note = n).row.text] ELSE chunks[n]]
          /\ \/ \E said : Answers(r, said)
             \/ task' = [task EXCEPT ![r] = [@ EXCEPT
                    !.at = "selecting", !.todo = {}, !.picked = {}]]
      BY <1>3 DEF UpdateChunks
    <2>2. /\ chunks' \in [Chunked -> ChunkRows]
          /\ \A n \in Chunked :
                Fits(chunks[n])' /\ Is(chunks'[n], chunks[n].id, chunks[n].text)
      <3>1. \A p \in found : StillThere(r, p)
        BY <1>3
      <3> HIDE DEF found
      <3> QED
        BY <1>1, <2>1, <3>1, UpdatedRowsFit DEF found
    <2>3. PICK o \in TaskRecords :
              /\ task' = [task EXCEPT ![r] = o]
              /\ o.at \in {"closing", "selecting"} /\ o.picked = {}
      <3>1. CASE \E said : Answers(r, said)
        <4>1. [task[r] EXCEPT !.at = "closing", !.picked = {}] \in TaskRecords
          BY <1>1 DEF TaskRecords
        <4>2. task' = [task EXCEPT ![r] = [task[r] EXCEPT !.at = "closing", !.picked = {}]]
          BY <3>1 DEF Answers
        <4> QED
          BY <1>1, <4>1, <4>2 DEF TaskRecords
      <3>2. CASE task' = [task EXCEPT ![r] = [@ EXCEPT
                     !.at = "selecting", !.todo = {}, !.picked = {}]]
        <4>1. [task[r] EXCEPT !.at = "selecting", !.todo = {}, !.picked = {}] \in TaskRecords
          BY <1>1 DEF TaskRecords
        <4> QED
          BY <1>1, <3>2, <4>1 DEF TaskRecords
      <3> QED
        BY <2>1, <3>1, <3>2
    <2>4. /\ ChunksTypeOK' /\ task'[r] = o
          /\ \A s \in Tasks : s # r => task'[s] = task[s]
      <3>1. unsaved' \in [Tasks -> [Chunked -> ChunkRows \cup {Clean}]]
        BY <1>1 DEF ChunksTypeOK
      <3> QED
        BY <1>1, <2>2, <2>3, <3>1, TaskTyped
    <2>5. \A n \in Chunked : \A id, t : Occurs(n, id, t)' => Occurs(n, id, t)
      <3>1. \A s \in Tasks : task'[s].picked \subseteq task[s].picked
        BY <2>3, <2>4
      <3>2. \A s \in Tasks, n \in Chunked : unsaved'[s][n] \in {Clean, unsaved[s][n]}
        BY <1>1
      <3> QED
        BY <1>1, <2>2, <3>1, <3>2, NothingNew
    <2>6. \A s \in Tasks, n \in Chunked : Unmade(s, n)' => Unmade(s, n)
      BY <2>3, <2>4 DEF Unmade
    <2>7. OneText' /\ IdsAreFresh'
      BY <2>5, <2>6, TextsStay
    <2>8. AllFit'
      BY <1>1, <2>2, <2>3, <2>4 DEF ChunksInv, AllFit, Fits
    <2>9. UpdatesWerePicked'
      BY <2>3, <2>4 DEF ChunksInv, UpdatesWerePicked
    <2> QED
      BY <2>4, <2>7, <2>8, <2>9 DEF ChunksInv
  <1> QED
    BY <1>2, <1>3

LEMMA CommitChunksStep ==
  ASSUME ChunksInv, NEW r \in Tasks, CommitChunks(r)
  PROVE  ChunksInv'
  <1> DEFINE o == [task[r] EXCEPT !.at = "over"]
  <1>1. /\ ChunksTypeOK /\ task[r] \in TaskRecords /\ task[r].at = "closing"
        /\ UNCHANGED body /\ body' \in [Chunked -> ChunkTexts]
        /\ chunks' = [n \in Chunked |-> Row(r, n)]
        /\ unsaved' = [unsaved EXCEPT ![r] = CleanSession]
    BY RecordTyped DEF ChunksInv, CommitChunks, TaskAt, ChunksTypeOK, RowsCommitted
  <1>2. /\ o \in TaskRecords /\ o.at = "over" /\ o.picked = task[r].picked
        /\ task' = [task EXCEPT ![r] = o]
    BY <1>1 DEF TaskRecords, CommitChunks, TaskGoes
  <1> HIDE DEF o
  <1>3. \A n \in Chunked : chunks'[n] \in ChunkRows /\ Fits(chunks[n])'
    BY <1>1, RowTyped DEF ChunksInv, AllFit, Fits
  <1>4. chunks' \in [Chunked -> ChunkRows]
    BY <1>1, <1>3
  <1>5. /\ unsaved' \in [Tasks -> [Chunked -> ChunkRows \cup {Clean}]]
        /\ \A s \in Tasks, n \in Chunked : unsaved'[s][n] \in {Clean, unsaved[s][n]}
        /\ \A s \in Tasks : s # r => unsaved'[s] = unsaved[s]
        /\ unsaved'[r] = CleanSession
    BY <1>1, NoTaskTyped DEF ChunksTypeOK, CleanSession
  <1>6. /\ ChunksTypeOK' /\ task'[r] = o
        /\ \A s \in Tasks : s # r => task'[s] = task[s]
    BY <1>1, <1>2, <1>4, <1>5, TaskTyped
  <1>7. \A n \in Chunked : \A id, t : Occurs(n, id, t)' => Occurs(n, id, t)
    <2>1. \A s \in Tasks : task'[s].picked = task[s].picked
      BY <1>2, <1>6
    <2>2. \A n \in Chunked :
             \/ Is(chunks'[n], chunks[n].id, chunks[n].text)
             \/ \E s \in Tasks : unsaved[s][n] # Clean /\ chunks'[n] = unsaved[s][n]
      BY <1>1, RowTyped DEF Is
    <2> QED
      BY <1>1, <1>5, <2>1, <2>2, NothingNew
  <1>8. \A s \in Tasks, n \in Chunked : Unmade(s, n)' => Unmade(s, n)
    BY <1>2, <1>6 DEF Unmade
  <1>9. OneText' /\ IdsAreFresh'
    BY <1>7, <1>8, TextsStay
  <1>10. AllFit'
    BY <1>2, <1>3, <1>5, <1>6 DEF ChunksInv, AllFit, Fits
  <1>11. UpdatesWerePicked'
    BY <1>2, <1>6 DEF ChunksInv, UpdatesWerePicked
  <1> QED
    BY <1>6, <1>9, <1>10, <1>11 DEF ChunksInv

LEMMA DropChunksStep ==
  ASSUME ChunksInv, NEW r \in Tasks, DropChunks(r)
  PROVE  ChunksInv'
  <1> DEFINE o == [NoTask EXCEPT !.at = "over"]
  <1>1. o \in TaskRecords /\ o.at = "over" /\ o.picked = {}
    BY DEF NoTask, TaskRecords
  <1>2. /\ task' = [task EXCEPT ![r] = o] /\ unsaved' = [unsaved EXCEPT ![r] = CleanSession]
        /\ UNCHANGED <<body, chunks>>
    BY DEF DropChunks
  <1>3. body' \in [Chunked -> ChunkTexts]
    BY <1>2 DEF ChunksInv, ChunksTypeOK
  <1> HIDE DEF o
  <1> QED
    BY <1>1, <1>2, <1>3, CommonEnd

-----------------------------------------------------------------------------
LEMMA ChunksStep == ChunksInv /\ [ChunksNext]_chunkVars => ChunksInv'
  <1> SUFFICES ASSUME ChunksInv, [ChunksNext]_chunkVars
               PROVE  ChunksInv'
    OBVIOUS
  <1>1. CASE UNCHANGED chunkVars
    <2>1. ChunksTypeOK'
      BY <1>1 DEF chunkVars, ChunksInv, ChunksTypeOK
    <2>2. \A n \in Chunked : \A id, t : Occurs(n, id, t)' => Occurs(n, id, t)
      BY <1>1 DEF chunkVars, Occurs
    <2>3. \A r \in Tasks, n \in Chunked : Unmade(r, n)' => Unmade(r, n)
      BY <1>1 DEF chunkVars, Unmade
    <2>4. AllFit' /\ UpdatesWerePicked'
      BY <1>1 DEF chunkVars, ChunksInv, AllFit, UpdatesWerePicked, Fits
    <2> QED
      BY <2>1, <2>2, <2>3, <2>4, TextsStay DEF ChunksInv
  <1> QED
    BY <1>1, BeginSaveStep, BeginReindexStep, BeginEmbeddingStep, ReadVectorsStep,
       ReplaceChunksStep, SelectChunksStep, FindChunksStep, UpdateChunksStep,
       CommitChunksStep, DropChunksStep
       DEF ChunksNext

(* A stored vector was computed from the text of its row: ids tell rows of  *)
(* different texts apart, and vectors are carried over between equal texts  *)
(* (context_embedding_reindex_service.py, obsidian_chunk_embeddings.py).    *)
THEOREM VectorsAlwaysFit == ChunksSpec => []VectorsFitTheirText
  <1>1. ChunksInv => VectorsFitTheirText
    BY DEF ChunksInv, AllFit, Fits, VectorsFitTheirText
  <1> QED
    BY <1>1, ChunksInitially, ChunksStep, PTL DEF ChunksSpec
-----------------------------------------------------------------------------
(* A recovery writes rows of no session, and never forces an embedding.     *)
Recovering(r) ==
    /\ unsaved[r] = CleanSession /\ task[r].force = FALSE
    /\ task[r].at \notin {"reading", "replacing"}

(* The picked chunks are as they were selected; less than a full batch of   *)
(* them are all chunks without a vector.                                    *)
Covers(r) ==
    /\ task[r].picked # {} /\ \A p \in task[r].picked : chunks[p.note] = p.row
    /\ Cardinality(task[r].picked) < BatchSize =>
           \A n \in Chunked : chunks[n].vector = NoVector =>
               \E p \in task[r].picked : p.note = n

Drains(r) ==
    task[r].kind = "recover" =>
        /\ Recovering(r)
        /\ (task[r].at \in {"embedding", "updating"} /\ r \notin stirred) => Covers(r)
        /\ (task[r].at = "updating" /\ r \notin stirred) =>
               task[r].todo = {p.note : p \in task[r].picked}

DrainInv == ChunksInv /\ \A r \in Tasks : Drains(r)

Answered == outcome = [s \in Tasks |-> outcome[s]]

LEMMA DrainInitially == ChunksInit => DrainInv
  <1> SUFFICES ASSUME ChunksInit
               PROVE  DrainInv
    OBVIOUS
  <1>1. \A r \in Tasks : task[r].kind = "none"
    BY DEF ChunksInit, NoTask
  <1> QED
    BY <1>1, ChunksInitially DEF DrainInv, Drains

(* A request that does not move keeps its batch, unless it is stirred.      *)
LEMMA OthersDrain ==
  ASSUME ChunksTypeOK, NEW s \in Tasks, Drains(s), task'[s] = task[s], unsaved'[s] = unsaved[s],
         stirred \subseteq stirred',
         (task[s].at \in {"embedding", "updating"} /\ s \notin stirred') => chunks' = chunks
  PROVE  Drains(s)'
  <1>1. Recovering(s) => Recovering(s)'
    BY DEF Recovering
  <1>2. (Covers(s) /\ chunks' = chunks) => Covers(s)'
    BY DEF Covers
  <1> QED
    BY <1>1, <1>2 DEF Drains

(* A step of a request leaves those of the others to drain what they would. *)
LEMMA DrainStep ==
  ASSUME DrainInv, ChunksInv', NEW r \in Tasks, Drains(r)',
         \A s \in Tasks : s # r => task'[s] = task[s] /\ unsaved'[s] = unsaved[s],
         \/ chunks' = chunks /\ stirred' = stirred
         \/ Stirs(r)
  PROVE  DrainInv'
  <1> SUFFICES ASSUME NEW s \in Tasks, s # r
               PROVE  Drains(s)'
    BY DEF DrainInv
  <1>1. stirred \subseteq stirred'
    BY DEF Stirs
  <1>2. (task[s].at \in {"embedding", "updating"} /\ s \notin stirred') => chunks' = chunks
    BY DEF Stirs
  <1> QED
    BY <1>1, <1>2, OthersDrain DEF DrainInv, ChunksInv

(* A batch of chunks without a vector that is not full has all of them.     *)
LEMMA BatchesCover ==
  ASSUME ChunksTypeOK, NEW r \in Tasks, unsaved[r] = CleanSession, task[r].force = FALSE,
         NEW batch \in NextBatches(r),
         NEW picked, picked = {[note |-> n, row |-> Row(r, n)] : n \in batch}
  PROVE  /\ \A n \in Chunked : Row(r, n) = chunks[n]
         /\ batch \subseteq Chunked
         /\ batch = {} => \A n \in Chunked : chunks[n].vector # NoVector
         /\ Cardinality(picked) < BatchSize =>
                \A n \in Chunked : chunks[n].vector = NoVector => n \in batch
  <1> DEFINE bare == {n \in Chunked : chunks[n].vector = NoVector}
  <1>1. \A n \in Chunked : Row(r, n) = chunks[n]
    BY DEF Row, CleanSession
  <1>2. Bare(r) = bare
    BY <1>1 DEF Bare
  <1>3. /\ batch \in SUBSET bare
        /\ Cardinality(batch) =
               IF Cardinality(bare) < BatchSize THEN Cardinality(bare) ELSE BatchSize
    BY <1>2 DEF NextBatches
  <1>4. /\ IsFiniteSet(bare) /\ Cardinality(bare) \in Nat
        /\ IsFiniteSet(batch) /\ Cardinality(batch) \in Nat
    BY <1>3, ChunksAssumption, FS_Subset, FS_CardinalityType
  <1>5. batch = {} => bare = {}
    BY <1>3, <1>4, ChunksAssumption, FS_EmptySet
  <1>6. Cardinality(picked) = Cardinality(batch)
    <2> DEFINE g == [n \in batch |-> [note |-> n, row |-> Row(r, n)]]
    <2>1. \A n \in batch : g[n] \in picked /\ g[n].note = n
      OBVIOUS
    <2>2. \A p \in picked : \E n \in batch : g[n] = p
      OBVIOUS
    <2>3. g \in [batch -> picked]
      BY <2>1
    <2> HIDE DEF g
    <2>4. g \in Bijection(batch, picked)
      BY <2>1, <2>2, <2>3 DEF Bijection, Injection, Surjection, IsInjective
    <2>5. ExistsBijection(batch, picked)
      BY <2>4 DEF ExistsBijection
    <2> QED
      BY <1>4, <2>5, FS_Bijection
  <1>7. Cardinality(picked) < BatchSize => batch = bare
    <2> SUFFICES ASSUME Cardinality(picked) < BatchSize
                 PROVE  batch = bare
      OBVIOUS
    <2>1. Cardinality(bare) = Cardinality(batch)
      BY <1>3, <1>4, <1>6, ChunksAssumption
    <2> QED
      BY <1>3, <1>4, <2>1, FS_Subset
  <1> QED
    BY <1>1, <1>3, <1>5, <1>7

LEMMA SelectDrains ==
  ASSUME DrainInv, NEW r \in Tasks, SelectChunks(r)
  PROVE  /\ DrainInv'
         /\ (outcome'[r] = "drained" /\ outcome[r] # "drained" /\ task[r].kind = "recover")
                => \A n \in Chunked : chunks'[n].vector # NoVector
  <1>1. /\ ChunksInv /\ ChunksTypeOK /\ Drains(r) /\ chunks' = chunks /\ stirred' = stirred
        /\ task \in [Tasks -> TaskRecords] /\ unsaved \in [Tasks -> [Chunked -> ChunkRows \cup {Clean}]]
        /\ ChunksInv' /\ task[r].at = "selecting"
    BY SelectChunksStep DEF DrainInv, ChunksInv, ChunksTypeOK, SelectChunks, TaskAt
  <1>2. /\ unsaved'[r] \in {unsaved[r], CleanSession}
        /\ \A s \in Tasks : s # r => task'[s] = task[s] /\ unsaved'[s] = unsaved[s]
    BY <1>1 DEF SelectChunks, Answers, TaskGoes
  <1>3. CASE task[r].kind # "recover"
    <2>1. task'[r].kind = task[r].kind
      <3>1. CASE (\E said : Answers(r, said)) \/ TaskGoes(r, "failing")
        BY <1>1, <3>1 DEF Answers, TaskGoes, TaskRecords
      <3>2. CASE \E picked, batch : task' = [task EXCEPT ![r] = [@ EXCEPT
                     !.at = "embedding", !.batch = batch, !.picked = picked]]
        BY <1>1, <3>2 DEF TaskRecords
      <3> QED
        BY <3>1, <3>2, Zenon DEF SelectChunks
    <2>2. Drains(r)'
      BY <1>3, <2>1 DEF Drains
    <2> QED
      BY <1>1, <1>2, <1>3, <2>2, DrainStep
  <1>4. CASE task[r].kind = "recover"
    <2>1. unsaved[r] = CleanSession /\ task[r].force = FALSE
      BY <1>1, <1>4 DEF Drains, Recovering
    <2>2. ASSUME task'[r].at \in {"closing", "failing"}, task'[r].force = task[r].force
          PROVE  Drains(r)'
      BY <1>2, <2>1, <2>2 DEF Drains, Recovering
    <2>3. CASE \E said \in {"warned"} : Answers(r, said)
      <3>1. /\ task'[r].at = "closing" /\ task'[r].force = task[r].force
            /\ outcome'[r] = "warned" \/ outcome'[r] = outcome[r]
        BY <1>1, <2>3 DEF Answers, TaskRecords
      <3> QED
        BY <1>1, <1>2, <2>2, <3>1, DrainStep
    <2>4. CASE TaskGoes(r, "failing") /\ UNCHANGED outcome
      <3>1. task'[r].at = "failing" /\ task'[r].force = task[r].force
        BY <1>1, <2>4 DEF TaskGoes, TaskRecords
      <3> QED
        BY <1>1, <1>2, <2>2, <2>4, <3>1, DrainStep
    <2>5. ASSUME NEW batch \in NextBatches(r),
                 IF batch = {} THEN Answers(r, "drained")
                 ELSE /\ task' = [task EXCEPT ![r] = [@ EXCEPT !.at = "embedding",
                             !.batch = task[r].batch + 1,
                             !.picked = {[note |-> n, row |-> Row(r, n)] : n \in batch}]]
                      /\ UNCHANGED outcome
          PROVE  /\ Drains(r)'
                 /\ (outcome'[r] = "drained" /\ outcome[r] # "drained")
                       => \A n \in Chunked : chunks'[n].vector # NoVector
      <3> DEFINE picked == {[note |-> n, row |-> Row(r, n)] : n \in batch}
      <3>1. /\ \A n \in Chunked : Row(r, n) = chunks[n]
            /\ batch \subseteq Chunked
            /\ batch = {} => \A n \in Chunked : chunks[n].vector # NoVector
            /\ Cardinality(picked) < BatchSize =>
                   \A n \in Chunked : chunks[n].vector = NoVector => n \in batch
        BY <1>1, <2>1, BatchesCover
      <3>2. CASE batch = {}
        <4>0. Answers(r, "drained")
          BY <2>5, <3>2
        <4>1. task'[r].at = "closing" /\ task'[r].force = task[r].force
          BY <1>1, <4>0 DEF Answers, TaskRecords
        <4> QED
          BY <1>1, <2>2, <3>1, <3>2, <4>1
      <3>3. CASE batch # {}
        <4>1. task'[r].at = "embedding" /\ task'[r].force = task[r].force /\ task'[r].picked = picked
          BY <1>1, <2>5, <3>3 DEF TaskRecords
        <4>2. \A p \in picked : chunks[p.note] = p.row
          BY <3>1
        <4>3. \A n \in batch : \E p \in picked : p.note = n
          <5> SUFFICES ASSUME NEW n \in batch
                       PROVE  \E p \in picked : p.note = n
            OBVIOUS
          <5> WITNESS [note |-> n, row |-> Row(r, n)] \in picked
          <5> QED
            OBVIOUS
        <4> HIDE DEF picked
        <4>6. picked # {}
          BY <3>3, <4>3
        <4>4. Covers(r)'
          BY <1>1, <3>1, <4>1, <4>2, <4>3, <4>6 DEF Covers
        <4>5. Recovering(r)'
          BY <1>2, <2>1, <4>1 DEF Recovering
        <4> QED
          BY <2>5, <3>3, <4>1, <4>4, <4>5 DEF Drains
      <3> QED
        BY <3>2, <3>3
    <2> QED
      BY <1>1, <1>2, <2>3, <2>4, <2>5, DrainStep DEF SelectChunks
  <1> QED
    BY <1>3, <1>4

LEMMA FindDrains ==
  ASSUME DrainInv, NEW r \in Tasks, FindChunks(r)
  PROVE  DrainInv'
  <1>1. /\ ChunksInv /\ ChunksTypeOK /\ Drains(r) /\ chunks' = chunks /\ stirred' = stirred
        /\ task \in [Tasks -> TaskRecords] /\ unsaved' = unsaved
        /\ ChunksInv' /\ task[r].at = "embedding" /\ unsaved[r] = CleanSession
    BY FindChunksStep DEF DrainInv, ChunksInv, ChunksTypeOK, FindChunks, TaskAt
  <1>2. /\ \A s \in Tasks : s # r => task'[s] = task[s]
        /\ task'[r].kind = task[r].kind /\ task'[r].force = task[r].force
        /\ task'[r].picked = task[r].picked
        /\ \/ task'[r].at = "failing"
           \/ /\ task'[r].at = "updating"
              /\ task'[r].todo = {pick.note : pick \in {p \in task[r].picked : StillThere(r, p)}}
    <2> DEFINE found == {pick.note : pick \in {p \in task[r].picked : StillThere(r, p)}}
    <2>1. task[r] \in TaskRecords
      BY <1>1
    <2>2. CASE TaskGoes(r, "failing")
      BY <1>1, <2>1, <2>2 DEF TaskGoes, TaskRecords
    <2>3. CASE task' = [task EXCEPT ![r] = [task[r] EXCEPT !.at = "updating", !.todo = found]]
      <3> HIDE DEF found
      <3>1. /\ task'[r] = [task[r] EXCEPT !.at = "updating", !.todo = found]
            /\ \A s \in Tasks : s # r => task'[s] = task[s]
        BY <1>1, <2>3
      <3> QED
        BY <2>1, <3>1 DEF TaskRecords, found
    <2> QED
      BY <2>2, <2>3 DEF FindChunks
  <1>3. Recovering(r) => Recovering(r)'
    BY <1>1, <1>2 DEF Recovering
  <1>4. Covers(r) => Covers(r)'
    BY <1>1, <1>2 DEF Covers
  <1>5. Covers(r) => \A p \in task[r].picked : StillThere(r, p)
    <2> SUFFICES ASSUME Covers(r), NEW p \in task[r].picked
                 PROVE  StillThere(r, p)
      OBVIOUS
    <2>1. p \in Picks
      BY <1>1 DEF TaskRecords
    <2>2. Row(r, p.note) = chunks[p.note]
      BY <1>1, <2>1 DEF Row, CleanSession, Picks
    <2> QED
      BY <2>2 DEF Covers, StillThere
  <1>6. Drains(r)'
    BY <1>1, <1>2, <1>3, <1>4, <1>5 DEF Drains
  <1> QED
    BY <1>1, <1>2, <1>6, DrainStep

(* The recovery ends: nobody has touched its last batch, which was not full,*)
(* so it had all chunks without a vector, and each of them has one now.     *)
LEMMA UpdateDrains ==
  ASSUME DrainInv, Answered, NEW r \in Tasks, UpdateChunks(r)
  PROVE  /\ DrainInv'
         /\ (outcome'[r] = "drained" /\ outcome[r] # "drained" /\ task[r].kind = "recover"
                /\ r \notin stirred)
                => \A n \in Chunked : chunks'[n].vector # NoVector
  <1> DEFINE found == {p \in task[r].picked : p.note \in task[r].todo}
             gone == \E p \in found : ~StillThere(r, p)
  <1>1. /\ ChunksInv /\ ChunksTypeOK /\ Drains(r) /\ unsaved' = unsaved
        /\ task \in [Tasks -> TaskRecords] /\ chunks \in [Chunked -> ChunkRows]
        /\ ChunksInv' /\ task[r].at = "updating" /\ unsaved[r] = CleanSession
    BY UpdateChunksStep DEF DrainInv, ChunksInv, ChunksTypeOK, UpdateChunks, TaskAt
  <1>2. /\ \A s \in Tasks : s # r => task'[s] = task[s]
        /\ task'[r].at \in {"failing", "closing", "selecting"}
        /\ task'[r].kind = task[r].kind /\ task'[r].force = task[r].force
    <2>1. \/ (\E said : Answers(r, said)) \/ TaskGoes(r, "failing")
          \/ task' = [task EXCEPT ![r] = [@ EXCEPT !.at = "selecting", !.todo = {}, !.picked = {}]]
      BY Zenon DEF UpdateChunks
    <2> QED
      <3>1. CASE TaskGoes(r, "failing")
        BY <1>1, <3>1 DEF TaskGoes, TaskRecords
      <3>2. CASE \E said : Answers(r, said)
        BY <1>1, <3>2 DEF Answers, TaskRecords
      <3>3. CASE task' = [task EXCEPT ![r] = [@ EXCEPT
                     !.at = "selecting", !.todo = {}, !.picked = {}]]
        BY <1>1, <3>3 DEF TaskRecords
      <3> QED
        BY <2>1, <3>1, <3>2, <3>3
  <1>3. \/ chunks' = chunks /\ stirred' = stirred
        \/ Stirs(r)
    BY DEF UpdateChunks
  <1>4. Drains(r)'
    BY <1>1, <1>2 DEF Drains, Recovering
  <1>5. DrainInv'
    BY <1>1, <1>2, <1>3, <1>4, DrainStep
  <1>6. ASSUME outcome'[r] = "drained", outcome[r] # "drained", task[r].kind = "recover",
               r \notin stirred
        PROVE  \A n \in Chunked : chunks'[n].vector # NoVector
    <2>1. Covers(r) /\ task[r].todo = {p.note : p \in task[r].picked}
      BY <1>1, <1>6 DEF Drains
    <2>2. found = task[r].picked
      BY <2>1
    <2>3. /\ chunks' = [n \in Chunked |-> IF n \in task[r].todo THEN [chunks[n] EXCEPT
                 !.vector = (CHOOSE p \in found : p.note = n).row.text] ELSE chunks[n]]
          /\ Drained(Cardinality(task[r].picked), Cardinality(found))
      <3>1. ~gone
        BY <1>6 DEF UpdateChunks
      <3>2. ~Answers(r, "warned") /\ outcome' # outcome
        BY <1>6 DEF Answers, Answered
      <3>3. Recovers(r)
        BY <1>6 DEF Recovers
      <3> HIDE DEF gone
      <3> QED
        BY <3>1, <3>2, <3>3, Zenon DEF UpdateChunks, gone
    <2>4. Cardinality(task[r].picked) < BatchSize
      <3>1. task[r].picked \subseteq Picks /\ task[r].picked # {}
        BY <1>1, <2>1 DEF TaskRecords, Covers
      <3>2. IsFiniteSet(task[r].picked)
        <4> DEFINE g == [p \in task[r].picked |-> p.note]
        <4>1. \A p, q \in task[r].picked : p.note = q.note => p = q
          BY <2>1, <3>1 DEF Covers, Picks
        <4>2. g \in [task[r].picked -> Chunked]
          BY <3>1 DEF Picks
        <4>3. g \in Injection(task[r].picked, Chunked)
          BY <4>1, <4>2 DEF Injection, IsInjective
        <4> QED
          BY <4>3, ChunksAssumption, FS_Injection
      <3>3. Cardinality(task[r].picked) # 0
        BY <3>1, <3>2, FS_EmptySet
      <3> QED
        BY <2>2, <2>3, <3>3 DEF Drained
    <2> SUFFICES ASSUME NEW n \in Chunked
                 PROVE  chunks'[n].vector # NoVector
      OBVIOUS
    <2>5. CASE n \in task[r].todo
      <3> DEFINE p == CHOOSE q \in found : q.note = n
      <3>1. p \in task[r].picked
        BY <2>1, <2>2, <2>5
      <3>2. p \in Picks
        BY <1>1, <3>1 DEF TaskRecords
      <3>3. chunks'[n] = [chunks[n] EXCEPT !.vector = p.row.text]
        BY <2>3, <2>5
      <3> HIDE DEF p
      <3>4. p.row.text \in ChunkTexts /\ chunks[n] \in ChunkRows
        BY <1>1, <3>2 DEF Picks, ChunkRows
      <3> QED
        BY <3>3, <3>4, ChunksAssumption DEF ChunkRows
    <2>6. CASE n \notin task[r].todo
      BY <2>1, <2>3, <2>4, <2>6 DEF Covers
    <2> QED
      BY <2>5, <2>6
  <1> QED
    BY <1>5, <1>6

(* The other actions answer nothing, and what they change is not a batch.   *)
LEMMA RestDrains ==
  ASSUME DrainInv, NEW r \in Tasks,
         \/ BeginSave(r) \/ BeginReindex(r) \/ BeginEmbedding(r) \/ ReadVectors(r)
         \/ ReplaceChunks(r) \/ CommitChunks(r) \/ DropChunks(r)
  PROVE  DrainInv' /\ outcome' = outcome
  <1>1. /\ ChunksInv /\ ChunksTypeOK /\ Drains(r)
        /\ task \in [Tasks -> TaskRecords] /\ unsaved \in [Tasks -> [Chunked -> ChunkRows \cup {Clean}]]
        /\ task[r].at = "idle" => unsaved[r] = CleanSession
    BY DEF DrainInv, ChunksInv, ChunksTypeOK
  <1>2. ChunksInv'
    BY <1>1, BeginSaveStep, BeginReindexStep, BeginEmbeddingStep, ReadVectorsStep,
       ReplaceChunksStep, CommitChunksStep, DropChunksStep
  <1>3. outcome' = outcome
    BY DEF BeginSave, BeginReindex, BeginEmbedding, ReadVectors, ReplaceChunks,
           CommitChunks, DropChunks, Unstarted
  <1>4. CASE BeginSave(r) \/ BeginReindex(r)
    <2>1. /\ \A s \in Tasks : s # r => task'[s] = task[s] /\ unsaved'[s] = unsaved[s]
          /\ task'[r].kind \in {"save", "patch", "reindex"}
          /\ chunks' = chunks /\ stirred' = stirred
      BY <1>1, <1>4 DEF BeginSave, BeginReindex, Unstarted, TaskRecords
    <2> QED
      BY <1>2, <1>3, <2>1, DrainStep DEF Drains
  <1>5. CASE BeginEmbedding(r)
    <2>1. /\ \A s \in Tasks : s # r => task'[s] = task[s] /\ unsaved'[s] = unsaved[s]
          /\ task'[r].at = "selecting"
          /\ task'[r].kind = "recover" => task'[r].force = FALSE
          /\ unsaved'[r] = CleanSession
          /\ chunks' = chunks /\ stirred' = stirred
      <3>1. PICK kind \in TasksOf[r] \cap {"embed", "recover"}, force \in BOOLEAN :
                /\ force => kind = "embed"
                /\ task' = [task EXCEPT ![r] = [@ EXCEPT
                       !.at = "selecting", !.kind = kind, !.force = force]]
        BY <1>5, Zenon DEF BeginEmbedding
      <3>2. UNCHANGED <<chunks, unsaved, stirred>> /\ task[r].at = "idle"
        BY <1>5 DEF BeginEmbedding, Unstarted, TaskAt
      <3>3. kind = "recover" => force = FALSE
        BY <3>1
      <3>4. task'[r] = [task[r] EXCEPT !.at = "selecting", !.kind = kind, !.force = force]
        BY <1>1, <3>1
      <3>5. /\ task'[r].at = "selecting" /\ task'[r].kind = kind /\ task'[r].force = force
        BY <1>1, <3>4 DEF TaskRecords
      <3> QED
        BY <1>1, <3>1, <3>2, <3>3, <3>5
    <2>2. Drains(r)'
      BY <2>1 DEF Drains, Recovering
    <2> QED
      BY <1>2, <1>3, <2>1, <2>2, DrainStep
  <1>6. CASE ReadVectors(r) \/ ReplaceChunks(r)
    <2>1. task[r].at \in {"reading", "replacing"}
      BY <1>6 DEF ReadVectors, ReplaceChunks, TaskAt
    <2>2. task[r].kind # "recover"
      BY <1>1, <2>1 DEF Drains, Recovering
    <2>3. /\ \A s \in Tasks : s # r => task'[s] = task[s] /\ unsaved'[s] = unsaved[s]
          /\ task'[r].kind = task[r].kind
          /\ chunks' = chunks /\ stirred' = stirred
      <3>1. CASE ReadVectors(r)
        BY <1>1, <3>1 DEF ReadVectors, Unstarted, TaskRecords
      <3>2. CASE ReplaceChunks(r)
        BY <1>1, <3>2 DEF ReplaceChunks, TaskRecords
      <3> QED
        BY <1>6, <3>1, <3>2
    <2> QED
      BY <1>2, <1>3, <2>2, <2>3, DrainStep DEF Drains
  <1>7. CASE CommitChunks(r)
    <2>1. /\ \A s \in Tasks : s # r => task'[s] = task[s] /\ unsaved'[s] = unsaved[s]
          /\ task'[r].at = "over" /\ task'[r].kind = task[r].kind
          /\ task'[r].force = task[r].force
          /\ unsaved'[r] = CleanSession /\ Stirs(r)
      BY <1>1, <1>7 DEF CommitChunks, TaskGoes, TaskRecords
    <2>2. Drains(r)'
      BY <1>1, <2>1 DEF Drains, Recovering
    <2> QED
      BY <1>2, <1>3, <2>1, <2>2, DrainStep
  <1>8. CASE DropChunks(r)
    <2>1. /\ \A s \in Tasks : s # r => task'[s] = task[s] /\ unsaved'[s] = unsaved[s]
          /\ task'[r].kind = "none" /\ chunks' = chunks /\ stirred' = stirred
      BY <1>1, <1>8 DEF DropChunks, NoTask
    <2> QED
      BY <1>2, <1>3, <2>1, DrainStep DEF Drains
  <1> QED
    BY <1>3, <1>4, <1>5, <1>6, <1>7, <1>8

(* A recovery that ends without a warning leaves no chunk without a vector, *)
(* unless others committed rows meanwhile                                   *)
(* (context_embedding_recovery_service.py), for batches of any size.        *)
THEOREM RecoveriesDrain == ChunksSpec => DrainedMeansNoneIsLeft
  <1> DEFINE Drain ==
          \A r \in Tasks :
              (outcome'[r] = "drained" /\ outcome[r] # "drained"
                   /\ task[r].kind = "recover" /\ r \notin stirred')
              => \A n \in Chunked : chunks'[n].vector # NoVector
  <1>1. ASSUME DrainInv, Answered, [ChunksNext]_chunkVars
        PROVE  DrainInv' /\ Answered' /\ Drain
    <2>1. CASE UNCHANGED chunkVars
      <3>1. \A r \in Tasks : Drains(r)'
        BY <1>1, <2>1 DEF chunkVars, DrainInv, Drains, Recovering, Covers
      <3>2. ChunksInv'
        BY <1>1, <2>1, ChunksStep DEF DrainInv
      <3> QED
        BY <1>1, <2>1, <3>1, <3>2 DEF chunkVars, DrainInv, Answered
    <2>2. ASSUME NEW r \in Tasks,
                 \/ BeginSave(r) \/ BeginReindex(r) \/ BeginEmbedding(r) \/ ReadVectors(r)
                 \/ ReplaceChunks(r) \/ CommitChunks(r) \/ DropChunks(r)
          PROVE  DrainInv' /\ Answered' /\ Drain
      BY <1>1, <2>2, RestDrains DEF Answered
    <2>3. ASSUME NEW r \in Tasks, SelectChunks(r) \/ FindChunks(r) \/ UpdateChunks(r)
          PROVE  DrainInv' /\ Answered' /\ Drain
      <3>1. /\ DrainInv'
            /\ (outcome'[r] = "drained" /\ outcome[r] # "drained"
                   /\ task[r].kind = "recover" /\ r \notin stirred')
               => \A n \in Chunked : chunks'[n].vector # NoVector
        <4>1. r \notin stirred' => r \notin stirred
          BY <2>3, Zenon DEF SelectChunks, FindChunks, UpdateChunks, Stirs
        <4> QED
          BY <1>1, <2>3, <4>1, SelectDrains, FindDrains, UpdateDrains DEF FindChunks
      <3>2. outcome' = outcome \/ \E said : outcome' = [outcome EXCEPT ![r] = said]
        <4>1. outcome' = outcome \/ \E said : Answers(r, said)
          BY <2>3, Zenon DEF SelectChunks, FindChunks, UpdateChunks
        <4> QED
          BY <4>1 DEF Answers
      <3>3. Answered' /\ \A s \in Tasks : s # r => outcome'[s] = outcome[s]
        BY <1>1, <3>2 DEF Answered
      <3> QED
        BY <3>1, <3>3
    <2> QED
      BY <1>1, <2>1, <2>2, <2>3 DEF ChunksNext
  <1>2. ChunksInit => Answered
    BY DEF ChunksInit, Answered
  <1>3. (DrainInv /\ Answered) /\ [ChunksNext]_chunkVars => (DrainInv /\ Answered)'
    BY <1>1
  <1>4. DrainInv /\ Answered /\ [ChunksNext]_chunkVars
            => [\A r \in Tasks :
                   (outcome'[r] = "drained" /\ outcome[r] # "drained"
                        /\ task[r].kind = "recover" /\ r \notin stirred')
                   => \A n \in Chunked : chunks'[n].vector # NoVector]_chunkVars
    BY <1>1
  <1> QED
    BY <1>2, <1>3, <1>4, DrainInitially, PTL DEF ChunksSpec, DrainedMeansNoneIsLeft

-----------------------------------------------------------------------------
(***************************************************************************)
(* Batches of moves. Where every note is spelt in one way, no move         *)
(* replaces a note: a batch is planned against the notes there are, and    *)
(* what somebody puts in its way is renamed or left.                       *)
(***************************************************************************)
MovePoints == {"idle", "planning", "checking", "renaming", "reporting", "committing", "failing",
           "over"}
MoverRecords ==
    [at : MovePoints, asked : Seq(Spellings \X Spellings), todo : SUBSET Nat, moved : Nat]
Reports == {"none", "succeeded", "failed", "partial"}
JobStates == {"none", "PENDING", "RUNNING", "SUCCEEDED", "FAILED"}

(* No path is spelt in two ways.                                            *)
OneSpellingEach == \A s, t \in Spellings : PathOf[s] = PathOf[t] => s = t

MoveShapes ==
    /\ disk \in [Spots -> Papers \cup {NoPaper}]
    /\ putBy \in [Spots -> Movers \cup {"people"}]
    /\ mover \in [Movers -> MoverRecords]
    /\ reports \in [Movers -> Reports] /\ job \in [Movers -> JobStates]
    /\ meddling \in 0..MaxMeddling /\ moveFaults \in 0..MaxMoveFaults

OneFileEach == \A p, q \in Spots : p # q /\ disk[p] = disk[q] => disk[p] = NoPaper

NoneIsLost == OneSpellingEach => Papers \subseteq OnDisk \cup binned \cup crossed

(* What a request has done, and what it has to tell.                        *)
Tells(r) ==
    /\ mover[r].todo \subseteq DOMAIN mover[r].asked
    /\ mover[r].moved + Cardinality(mover[r].todo) <= Len(mover[r].asked)
    /\ mover[r].at \in {"idle", "planning"} => mover[r].todo = {}
    /\ mover[r].at \in {"idle", "planning", "checking"} => mover[r].moved = 0
    /\ mover[r].at \in {"idle", "planning", "checking", "renaming", "reporting"}
           => reports[r] = "none"
    /\ mover[r].at = "committing" => reports[r] # "none"
    /\ job[r] = "SUCCEEDED" => reports[r] # "none"
    /\ reports[r] = "succeeded" => mover[r].moved = Len(mover[r].asked)
    /\ reports[r] = "failed" => mover[r].moved = 0

(* The targets of the renames to come are free, or hold what another one    *)
(* has put there.                                                           *)
Targets(r) ==
    mover[r].at = "renaming" =>
        \A i \in mover[r].todo :
            LET m == mover[r].asked[i]
            IN  /\ From(m) # To(m)
                /\ OneSpellingEach =>
                      /\ disk[To(m)] # NoPaper => putBy[To(m)] # r
                      /\ \A j \in mover[r].todo : i # j => To(mover[r].asked[j]) # To(m)

MoveInv ==
    /\ MoveShapes /\ OneFileEach /\ NoneIsLost
    /\ \A r \in Movers : Tells(r) /\ Targets(r)

-----------------------------------------------------------------------------
LEMMA PlacesAreCounted ==
  ASSUME NEW n \in Nat, NEW T \in SUBSET (1..n)
  PROVE  IsFiniteSet(T) /\ Cardinality(T) \in Nat /\ Cardinality(T) <= n
  <1>1. IsFiniteSet(1..n) /\ Cardinality(1..n) = n
    BY FS_Interval
  <1> QED
    BY <1>1, FS_Subset, FS_CardinalityType

LEMMA MovesHaveSpots ==
  ASSUME NEW m \in Spellings \X Spellings
  PROVE  From(m) \in Spots /\ To(m) \in Spots
  BY DEF From, To, Spots, Spellings

LEMMA AskedTyped ==
  ASSUME MoveShapes, NEW r \in Movers
  PROVE  /\ Len(mover[r].asked) \in Nat /\ DOMAIN mover[r].asked = 1..Len(mover[r].asked)
         /\ mover[r].moved \in Nat /\ mover[r].at \in MovePoints
         /\ \A i \in DOMAIN mover[r].asked : mover[r].asked[i] \in Spellings \X Spellings
  BY DEF MoveShapes, MoverRecords

(* The requests that do not move.                                           *)
OthersRest(r) ==
    \A s \in Movers \ {r} : mover'[s] = mover[s] /\ reports'[s] = reports[s] /\ job'[s] = job[s]

LEMMA OthersTell ==
  ASSUME NEW r \in Movers, OthersRest(r), \A s \in Movers : Tells(s), Tells(r)'
  PROVE  \A s \in Movers : Tells(s)'
  BY DEF OthersRest, Tells

(* A step of a request that leaves the disk alone.                          *)
LEMMA DiskKeptKeeps ==
  ASSUME MoveInv, NEW r \in Movers, OthersRest(r), DiskKept,
         mover' \in [Movers -> MoverRecords], reports' \in [Movers -> Reports],
         job' \in [Movers -> JobStates], moveFaults' \in 0..MaxMoveFaults,
         Tells(r)', Targets(r)'
  PROVE  MoveInv'
  <1>1. /\ disk' = disk /\ putBy' = putBy /\ binned' = binned /\ crossed' = crossed
        /\ meddling' = meddling
    BY DEF DiskKept
  <1>2. MoveShapes' /\ OneFileEach' /\ NoneIsLost'
    BY <1>1 DEF MoveInv, MoveShapes, OneFileEach, NoneIsLost, OnDisk
  <1>3. \A s \in Movers : Tells(s)'
    BY OthersTell DEF MoveInv
  <1>4. \A s \in Movers : Targets(s)'
    <2> TAKE s \in Movers
    <2>1. CASE s = r
      BY <2>1
    <2>2. CASE s # r
      BY <1>1, <2>2 DEF MoveInv, Targets, OthersRest
    <2> QED
      BY <2>1, <2>2
  <1> QED
    BY <1>2, <1>3, <1>4 DEF MoveInv

(* A request that only goes elsewhere, leaving what it has to do as it is,  *)
(* or all of it undone.                                                     *)
LEMMA MoverGoesKeeps ==
  ASSUME MoveInv, NEW r \in Movers, NEW to \in {"failing", "reporting", "committing", "over"},
         NEW todo \in SUBSET mover[r].todo,
         mover' = [mover EXCEPT ![r] = [mover[r] EXCEPT !.at = to, !.todo = todo]],
         DiskKept, moveFaults' \in 0..MaxMoveFaults,
         reports' \in [Movers -> Reports], job' \in [Movers -> JobStates],
         \A s \in Movers \ {r} : reports'[s] = reports[s] /\ job'[s] = job[s],
         to = "reporting" => reports'[r] = "none",
         to = "committing" => reports'[r] # "none",
         job'[r] = "SUCCEEDED" => reports'[r] # "none",
         reports'[r] = "succeeded" => mover[r].moved = Len(mover[r].asked),
         reports'[r] = "failed" => mover[r].moved = 0
  PROVE  MoveInv'
  <1> DEFINE o == [mover[r] EXCEPT !.at = to, !.todo = todo]
  <1>1. MoveShapes /\ Tells(r) /\ mover[r] \in MoverRecords
    BY DEF MoveInv, MoveShapes
  <1>2. /\ o \in MoverRecords /\ o.at = to /\ o.todo = todo /\ o.asked = mover[r].asked
        /\ o.moved = mover[r].moved
    BY <1>1 DEF MoverRecords, MovePoints
  <1>3. mover' = [mover EXCEPT ![r] = o]
    OBVIOUS
  <1> HIDE DEF o
  <1>4. /\ mover' \in [Movers -> MoverRecords] /\ mover'[r] = o
        /\ \A s \in Movers \ {r} : mover'[s] = mover[s]
    BY <1>1, <1>2, <1>3 DEF MoveShapes
  <1>5. Cardinality(todo) <= Cardinality(mover[r].todo)
        /\ Cardinality(todo) \in Nat /\ Cardinality(mover[r].todo) \in Nat
    <2>1. IsFiniteSet(mover[r].todo) /\ Cardinality(mover[r].todo) \in Nat
      BY <1>1, AskedTyped, PlacesAreCounted DEF Tells
    <2> QED
      BY <2>1, FS_Subset, FS_CardinalityType
  <1>6. Tells(r)'
    <2>1. mover[r].moved + Cardinality(todo) <= Len(mover[r].asked)
      BY <1>1, <1>5, AskedTyped DEF Tells
    <2> QED
      BY <1>1, <1>2, <1>4, <2>1 DEF Tells
  <1>7. Targets(r)'
    BY <1>2, <1>4 DEF Targets
  <1> QED
    BY <1>4, <1>6, <1>7, DiskKeptKeeps DEF OthersRest

(* The same of the steps that set nothing but the place.                    *)
LEMMA PointKeeps ==
  ASSUME MoveInv, NEW r \in Movers, NEW to \in {"failing", "reporting", "committing", "over"},
         mover' = [mover EXCEPT ![r].at = to],
         DiskKept, moveFaults' \in 0..MaxMoveFaults,
         reports' \in [Movers -> Reports], job' \in [Movers -> JobStates],
         \A s \in Movers \ {r} : reports'[s] = reports[s] /\ job'[s] = job[s],
         to = "reporting" => reports'[r] = "none",
         to = "committing" => reports'[r] # "none",
         job'[r] = "SUCCEEDED" => reports'[r] # "none",
         reports'[r] = "succeeded" => mover[r].moved = Len(mover[r].asked),
         reports'[r] = "failed" => mover[r].moved = 0
  PROVE  MoveInv'
  <1>1. PICK todo \in SUBSET mover[r].todo : todo = mover[r].todo
    OBVIOUS
  <1>2. mover[r] \in MoverRecords /\ mover \in [Movers -> MoverRecords]
    BY DEF MoveInv, MoveShapes
  <1>3. [mover[r] EXCEPT !.at = to] = [mover[r] EXCEPT !.at = to, !.todo = todo]
    BY <1>1, <1>2 DEF MoverRecords
  <1>4. mover' = [mover EXCEPT ![r] = [mover[r] EXCEPT !.at = to, !.todo = todo]]
    BY <1>2, <1>3
  <1> QED
    BY <1>4, MoverGoesKeeps

-----------------------------------------------------------------------------
LEMMA MeddleKeeps ==
  ASSUME MoveInv, NEW p \in Spots, Meddle(p)
  PROVE  MoveInv'
  <1>1. /\ MoveShapes /\ OneFileEach /\ NoneIsLost
        /\ mover' = mover /\ reports' = reports /\ job' = job /\ crossed' = crossed
        /\ moveFaults' = moveFaults /\ meddling' \in 0..MaxMeddling /\ disk[p] # NoPaper
    BY MoveAssumption DEF MoveInv, Meddle, MoveShapes
  <1>2. \A r \in Movers : Tells(r)'
    BY <1>1 DEF MoveInv, Tells
  <1>3. ASSUME NEW q \in Spots, disk[q] = NoPaper,
               disk' = [disk EXCEPT ![q] = disk[p], ![p] = NoPaper],
               putBy' = [putBy EXCEPT ![q] = "people"], binned' = binned
        PROVE  MoveInv'
    <2>1. MoveShapes'
      BY <1>1, <1>3 DEF MoveShapes
    <2>2. \A x \in Spots : disk'[x] = IF x = p THEN NoPaper ELSE IF x = q THEN disk[p] ELSE disk[x]
      BY <1>1, <1>3 DEF MoveShapes
    <2>3. OneFileEach'
      <3> SUFFICES ASSUME NEW x \in Spots, NEW y \in Spots, x # y, disk'[x] = disk'[y]
                   PROVE  disk'[x] = NoPaper
        BY DEF OneFileEach
      <3>1. \A z \in Spots : z # p => disk[z] # disk[p]
        BY <1>1 DEF OneFileEach
      <3>2. disk[x] = disk[y] => disk[x] = NoPaper
        BY <1>1 DEF OneFileEach
      <3>3. x = p \/ y = p \/ x = q \/ y = q \/ (disk'[x] = disk[x] /\ disk'[y] = disk[y])
        BY <2>2
      <3>4. x = p => disk'[x] = NoPaper
        BY <2>2
      <3>5. y = p => disk'[y] = NoPaper
        BY <2>2
      <3>6. x # p /\ y # p /\ x = q => disk'[x] # disk'[y]
        BY <2>2, <3>1
      <3>7. x # p /\ y # p /\ y = q => disk'[x] # disk'[y]
        BY <2>2, <3>1
      <3> QED
        BY <3>2, <3>3, <3>4, <3>5, <3>6, <3>7
    <2>4. OnDisk \subseteq OnDisk'
      BY <1>1, <1>3, <2>2 DEF OnDisk
    <2>5. NoneIsLost'
      BY <1>1, <1>3, <2>4 DEF NoneIsLost
    <2>6. \A x \in Spots : disk'[x] # NoPaper => disk[x] # NoPaper \/ putBy'[x] = "people"
      BY <1>1, <1>3, <2>2 DEF MoveShapes
    <2>7. \A x \in Spots : putBy'[x] = putBy[x] \/ putBy'[x] = "people"
      BY <1>1, <1>3 DEF MoveShapes
    <2>8. \A r \in Movers : Targets(r)'
      <3> SUFFICES ASSUME NEW r \in Movers, mover[r].at = "renaming", NEW i \in mover[r].todo
                   PROVE  LET m == mover[r].asked[i]
                          IN  /\ From(m) # To(m)
                              /\ OneSpellingEach =>
                                    /\ disk'[To(m)] # NoPaper => putBy'[To(m)] # r
                                    /\ \A j \in mover[r].todo :
                                          i # j => To(mover[r].asked[j]) # To(m)
        BY <1>1 DEF Targets
      <3>1. To(mover[r].asked[i]) \in Spots
        BY <1>1, AskedTyped, MovesHaveSpots DEF MoveInv, Tells
      <3>2. "people" # r
        BY MoveAssumption
      <3> QED
        BY <2>6, <2>7, <3>1, <3>2 DEF MoveInv, Targets
    <2> QED
      BY <1>2, <2>1, <2>3, <2>5, <2>8 DEF MoveInv
  <1>4. ASSUME disk' = [disk EXCEPT ![p] = NoPaper], binned' = binned \cup {disk[p]},
               putBy' = putBy
        PROVE  MoveInv'
    <2>1. MoveShapes'
      BY <1>1, <1>4 DEF MoveShapes
    <2>2. \A x \in Spots : disk'[x] = IF x = p THEN NoPaper ELSE disk[x]
      BY <1>1, <1>4 DEF MoveShapes
    <2>3. OneFileEach'
      BY <1>1, <2>2 DEF OneFileEach
    <2>4. OnDisk \subseteq OnDisk' \cup {disk[p]}
      BY <2>2 DEF OnDisk
    <2>5. NoneIsLost'
      BY <1>1, <1>4, <2>4 DEF NoneIsLost
    <2>6. \A r \in Movers : Targets(r)'
      <3> SUFFICES ASSUME NEW r \in Movers, mover[r].at = "renaming", NEW i \in mover[r].todo
                   PROVE  LET m == mover[r].asked[i]
                          IN  /\ From(m) # To(m)
                              /\ OneSpellingEach =>
                                    /\ disk'[To(m)] # NoPaper => putBy'[To(m)] # r
                                    /\ \A j \in mover[r].todo :
                                          i # j => To(mover[r].asked[j]) # To(m)
        BY <1>1 DEF Targets
      <3>1. To(mover[r].asked[i]) \in Spots
        BY <1>1, AskedTyped, MovesHaveSpots DEF MoveInv, Tells
      <3> QED
        BY <1>4, <2>2, <3>1 DEF MoveInv, Targets
    <2> QED
      BY <1>2, <2>1, <2>3, <2>5, <2>6 DEF MoveInv
  <1> QED
    BY <1>3, <1>4 DEF Meddle

-----------------------------------------------------------------------------
LEMMA AskMovesKeeps ==
  ASSUME MoveInv, NEW r \in Movers, AskMoves(r)
  PROVE  MoveInv'
  <1>1. PICK batch \in MoveLists, background \in {"none", "PENDING"} :
          /\ mover' = [mover EXCEPT ![r].at = "planning", ![r].asked = batch]
          /\ job' = [job EXCEPT ![r] = background]
    BY DEF AskMoves
  <1>2. /\ MoveShapes /\ Tells(r) /\ mover[r] \in MoverRecords /\ mover[r].at = "idle"
        /\ reports' = reports /\ moveFaults' = moveFaults /\ DiskKept
        /\ mover \in [Movers -> MoverRecords]
    BY DEF MoveInv, MoveShapes, AskMoves, MoverAt
  <1>3. batch \in Seq(Spellings \X Spellings) /\ Len(batch) \in Nat
    <2>1. batch \in Seq(Spellings \X Spellings)
      BY MoveAssumption
    <2> QED
      BY <2>1
  <1> DEFINE o == [mover[r] EXCEPT !.at = "planning", !.asked = batch]
  <1>4. /\ o \in MoverRecords /\ o.at = "planning" /\ o.asked = batch /\ o.todo = mover[r].todo
        /\ o.moved = mover[r].moved
    BY <1>2, <1>3 DEF MoverRecords, MovePoints
  <1>5. mover' = [mover EXCEPT ![r] = o]
    BY <1>1, <1>2
  <1> HIDE DEF o
  <1>6. /\ mover' \in [Movers -> MoverRecords] /\ mover'[r] = o
        /\ \A s \in Movers \ {r} : mover'[s] = mover[s]
        /\ job' \in [Movers -> JobStates] /\ job'[r] \in {"none", "PENDING"}
        /\ \A s \in Movers \ {r} : job'[s] = job[s]
    BY <1>1, <1>2, <1>4, <1>5 DEF MoveShapes, JobStates
  <1>7. Tells(r)'
    <2>1. mover[r].todo = {} /\ mover[r].moved = 0 /\ Cardinality(mover[r].todo) = 0
          /\ reports[r] = "none"
      BY <1>2, FS_EmptySet DEF Tells
    <2>2. /\ mover'[r].at = "planning" /\ mover'[r].todo = {} /\ mover'[r].moved = 0
          /\ mover'[r].asked = batch /\ Cardinality({}) = 0 /\ reports'[r] = "none"
      BY <1>2, <1>4, <1>6, <2>1
    <2> QED
      BY <1>3, <1>6, <2>2 DEF Tells
  <1>8. Targets(r)'
    BY <1>4, <1>6 DEF Targets
  <1> QED
    BY <1>2, <1>6, <1>7, <1>8, DiskKeptKeeps DEF OthersRest, MoveShapes

LEMMA PlanMovesKeeps ==
  ASSUME MoveInv, NEW r \in Movers, PlanMoves(r)
  PROVE  MoveInv'
  <1> DEFINE todo == {i \in DOMAIN mover[r].asked : Movable(mover[r].asked[i])}
             o == [mover[r] EXCEPT !.at = "checking", !.todo = todo]
             now == IF job[r] = "PENDING" THEN "RUNNING" ELSE job[r]
  <1>1. /\ MoveShapes /\ Tells(r) /\ mover[r] \in MoverRecords /\ mover[r].at = "planning"
        /\ mover' = [mover EXCEPT ![r].at = "checking", ![r].todo = todo]
        /\ job' = [job EXCEPT ![r] = now] /\ job \in [Movers -> JobStates]
        /\ reports' = reports /\ moveFaults' = moveFaults /\ DiskKept
        /\ mover \in [Movers -> MoverRecords]
    BY DEF MoveInv, MoveShapes, PlanMoves, MoverAt
  <1>2. todo \subseteq DOMAIN mover[r].asked /\ todo \subseteq 1..Len(mover[r].asked)
        /\ todo \in SUBSET Nat
    BY <1>1, AskedTyped
  <1>3. /\ now \in JobStates /\ (now = "SUCCEEDED" => job[r] = "SUCCEEDED")
    BY <1>1 DEF JobStates
  <1> HIDE DEF todo, now
  <1>4. /\ o \in MoverRecords /\ o.at = "checking" /\ o.asked = mover[r].asked /\ o.todo = todo
        /\ o.moved = mover[r].moved
    BY <1>1, <1>2 DEF MoverRecords, MovePoints
  <1>5. mover' = [mover EXCEPT ![r] = o]
    BY <1>1
  <1> HIDE DEF o
  <1>6. /\ mover' \in [Movers -> MoverRecords] /\ mover'[r] = o
        /\ \A s \in Movers \ {r} : mover'[s] = mover[s]
        /\ job' \in [Movers -> JobStates] /\ job'[r] = now
        /\ \A s \in Movers \ {r} : job'[s] = job[s]
    BY <1>1, <1>3, <1>4, <1>5
  <1>7. Tells(r)'
    <2>1. Cardinality(todo) <= Len(mover[r].asked) /\ Cardinality(todo) \in Nat
      BY <1>1, <1>2, AskedTyped, PlacesAreCounted
    <2>2. mover[r].moved = 0 /\ reports[r] = "none"
      BY <1>1 DEF Tells
    <2> QED
      BY <1>1, <1>2, <1>3, <1>4, <1>6, <2>1, <2>2 DEF Tells
  <1>8. Targets(r)'
    BY <1>4, <1>6 DEF Targets
  <1> QED
    BY <1>1, <1>6, <1>7, <1>8, DiskKeptKeeps DEF OthersRest, MoveShapes

(* What the check leaves has free and different targets.                    *)
LEMMA CheckMovesKeeps ==
  ASSUME MoveInv, NEW r \in Movers, CheckMoves(r)
  PROVE  MoveInv'
  <1>1. /\ MoveShapes /\ Tells(r) /\ mover[r] \in MoverRecords /\ mover[r].at = "checking"
        /\ reports' = reports /\ job' = job /\ moveFaults' = moveFaults /\ DiskKept
        /\ mover \in [Movers -> MoverRecords]
    BY DEF MoveInv, MoveShapes, CheckMoves, MoverAt
  <1>2. CASE MoverGoes(r, "failing")
    BY <1>1, <1>2, PointKeeps DEF MoverGoes, Tells, MoveShapes
  <1>3. ASSUME NEW kept \in SUBSET mover[r].todo,
               \A i \in mover[r].todo :
                  i \in kept <=> Distinct(mover[r].asked, i, kept) /\ Movable(mover[r].asked[i]),
               mover' = [mover EXCEPT ![r].at = "renaming", ![r].todo = kept]
        PROVE  MoveInv'
    <2> DEFINE o == [mover[r] EXCEPT !.at = "renaming", !.todo = kept]
    <2>1. /\ o \in MoverRecords /\ o.at = "renaming" /\ o.asked = mover[r].asked /\ o.todo = kept
          /\ o.moved = mover[r].moved
      BY <1>1 DEF MoverRecords, MovePoints
    <2>2. mover' = [mover EXCEPT ![r] = o]
      BY <1>1, <1>3
    <2> HIDE DEF o
    <2>3. /\ mover' \in [Movers -> MoverRecords] /\ mover'[r] = o
          /\ \A s \in Movers \ {r} : mover'[s] = mover[s]
      BY <1>1, <2>1, <2>2
    <2>4. Tells(r)'
      <3>1. kept \subseteq DOMAIN mover[r].asked /\ kept \subseteq 1..Len(mover[r].asked)
        BY <1>1, AskedTyped DEF Tells
      <3>2. Cardinality(kept) <= Len(mover[r].asked) /\ Cardinality(kept) \in Nat
        BY <1>1, <3>1, AskedTyped, PlacesAreCounted
      <3> QED
        BY <1>1, <2>1, <2>3, <3>1, <3>2, AskedTyped DEF Tells
    <2>5. Targets(r)'
      <3> SUFFICES ASSUME NEW i \in kept
                   PROVE  LET m == mover[r].asked[i]
                          IN  /\ From(m) # To(m)
                              /\ OneSpellingEach =>
                                    /\ disk[To(m)] # NoPaper => putBy[To(m)] # r
                                    /\ \A j \in kept : i # j => To(mover[r].asked[j]) # To(m)
        BY <1>1, <2>1, <2>3 DEF Targets, DiskKept
      <3>1. Movable(mover[r].asked[i])
        BY <1>3
      <3>2. ASSUME OneSpellingEach, NEW j \in kept, i # j
            PROVE  To(mover[r].asked[j]) # To(mover[r].asked[i])
        <4>1. /\ mover[r].asked[i] \in Spellings \X Spellings
              /\ mover[r].asked[j] \in Spellings \X Spellings /\ i \in Nat /\ j \in Nat
          BY <1>1, AskedTyped DEF Tells
        <4>2. mover[r].asked[i][2] # mover[r].asked[j][2]
          BY <1>3, <3>2, <4>1 DEF Distinct
        <4> QED
          BY <3>2, <4>1, <4>2 DEF OneSpellingEach, To
      <3> QED
        BY <3>1, <3>2 DEF Movable
    <2> QED
      BY <1>1, <2>3, <2>4, <2>5, DiskKeptKeeps DEF OthersRest, MoveShapes
  <1> QED
    BY <1>2, <1>3 DEF CheckMoves

-----------------------------------------------------------------------------
(* A rename leaves its note at the target; what it finds there has come     *)
(* since the check.                                                         *)
LEMMA RenameKeeps ==
  ASSUME MoveInv, NEW r \in Movers, Rename(r)
  PROVE  MoveInv'
  <1>1. /\ MoveShapes /\ Tells(r) /\ Targets(r) /\ mover[r] \in MoverRecords
        /\ mover[r].at = "renaming" /\ OneFileEach /\ NoneIsLost
        /\ reports' = reports /\ job' = job /\ binned' = binned /\ meddling' = meddling
        /\ moveFaults' = moveFaults /\ mover \in [Movers -> MoverRecords]
    BY DEF MoveInv, MoveShapes, Rename, MoverAt
  <1>2. PICK i \in mover[r].todo :
          LET m == mover[r].asked[i]
          IN  IF disk[From(m)] = NoPaper
              THEN MoverGoes(r, "failing") /\ UNCHANGED <<disk, putBy, crossed>>
              ELSE /\ disk' = [disk EXCEPT ![To(m)] = disk[From(m)], ![From(m)] = NoPaper]
                   /\ putBy' = [putBy EXCEPT ![To(m)] = r]
                   /\ crossed' = IF disk[To(m)] # NoPaper /\ putBy[To(m)] # r
                                 THEN crossed \cup {disk[To(m)]} ELSE crossed
                   /\ mover' = [mover EXCEPT ![r].todo = @ \ {i}, ![r].moved = @ + 1]
    BY DEF Rename
  <1> DEFINE from == From(mover[r].asked[i])
             to == To(mover[r].asked[i])
  <1>3. /\ from \in Spots /\ to \in Spots /\ from # to
        /\ OneSpellingEach =>
              /\ disk[to] # NoPaper => putBy[to] # r
              /\ \A j \in mover[r].todo : i # j => To(mover[r].asked[j]) # to
    BY <1>1, AskedTyped, MovesHaveSpots DEF Targets, Tells
  <1>4. CASE disk[from] = NoPaper
    BY <1>1, <1>2, <1>4, PointKeeps DEF MoverGoes, Tells, MoveShapes, DiskKept
  <1>5. CASE disk[from] # NoPaper
    <2>1. /\ disk' = [disk EXCEPT ![to] = disk[from], ![from] = NoPaper]
          /\ putBy' = [putBy EXCEPT ![to] = r]
          /\ crossed' = IF disk[to] # NoPaper /\ putBy[to] # r
                        THEN crossed \cup {disk[to]} ELSE crossed
          /\ mover' = [mover EXCEPT ![r].todo = @ \ {i}, ![r].moved = @ + 1]
      BY <1>2, <1>5
    <2> HIDE DEF from, to
    <2> DEFINE rest == mover[r].todo \ {i}
               count == mover[r].moved + 1
               o == [mover[r] EXCEPT !.todo = rest, !.moved = count]
    <2>12. rest \in SUBSET Nat /\ count \in Nat
      BY <1>1 DEF MoverRecords
    <2>3. mover' = [mover EXCEPT ![r] = o]
      BY <1>1, <2>1
    <2> HIDE DEF rest, count
    <2>13. /\ o \in MoverRecords /\ o.at = "renaming" /\ o.asked = mover[r].asked
           /\ o.todo = rest /\ o.moved = count
      BY <1>1, <2>12 DEF MoverRecords, MovePoints
    <2>2. /\ o \in MoverRecords /\ o.at = "renaming" /\ o.asked = mover[r].asked
          /\ o.todo = mover[r].todo \ {i} /\ o.moved = mover[r].moved + 1
      BY <2>13 DEF rest, count
    <2> HIDE DEF o
    <2>4. /\ mover' \in [Movers -> MoverRecords] /\ mover'[r] = o
          /\ \A s \in Movers \ {r} : mover'[s] = mover[s]
      BY <1>1, <2>2, <2>3
    <2>5. \A x \in Spots : /\ disk'[x] = IF x = from THEN NoPaper ELSE IF x = to THEN disk[from]
                                         ELSE disk[x]
                           /\ putBy'[x] = IF x = to THEN r ELSE putBy[x]
      BY <1>1, <1>3, <2>1 DEF MoveShapes
    <2>6. MoveShapes'
      BY <1>1, <1>3, <2>1, <2>4 DEF MoveShapes
    <2>7. OneFileEach'
      BY <1>1, <1>3, <1>5, <2>5 DEF OneFileEach
    <2>8. NoneIsLost'
      <3>1. OnDisk \subseteq OnDisk' \cup {disk[to]}
        BY <1>3, <2>5 DEF OnDisk
      <3>2. OneSpellingEach => disk[to] \in crossed' \/ disk[to] = NoPaper
        BY <1>3, <2>1
      <3>3. crossed \subseteq crossed'
        BY <2>1
      <3> QED
        BY <1>1, <3>1, <3>2, <3>3, MoveAssumption DEF NoneIsLost
    <2>9. Tells(r)'
      <3>1. IsFiniteSet(mover[r].todo) /\ Cardinality(mover[r].todo) \in Nat
        BY <1>1, AskedTyped, PlacesAreCounted DEF Tells
      <3>2. Cardinality(mover[r].todo \ {i}) = Cardinality(mover[r].todo) - 1
        BY <3>1, FS_RemoveElement
      <3>3. reports[r] = "none"
        BY <1>1 DEF Tells
      <3>4. /\ mover'[r].at = "renaming" /\ mover'[r].asked = mover[r].asked
            /\ mover'[r].todo = mover[r].todo \ {i} /\ mover'[r].moved = mover[r].moved + 1
            /\ reports'[r] = "none" /\ job'[r] = job[r]
        BY <1>1, <2>2, <2>4, <3>3
      <3>5. mover'[r].moved + Cardinality(mover'[r].todo) <= Len(mover'[r].asked)
        BY <1>1, <3>1, <3>2, <3>4, AskedTyped DEF Tells
      <3>6. mover'[r].todo \subseteq DOMAIN mover'[r].asked
        BY <1>1, <3>4 DEF Tells
      <3>7. job'[r] # "SUCCEEDED"
        BY <1>1, <3>3, <3>4 DEF Tells
      <3> QED
        BY <3>4, <3>5, <3>6, <3>7 DEF Tells
    <2>10. OthersRest(r)
      BY <1>1, <2>4 DEF OthersRest
    <2>11. ASSUME NEW s \in Movers
           PROVE  Targets(s)'
      <3> SUFFICES ASSUME mover'[s].at = "renaming", NEW j \in mover'[s].todo
                   PROVE  LET m == mover'[s].asked[j]
                          IN  /\ From(m) # To(m)
                              /\ OneSpellingEach =>
                                    /\ disk'[To(m)] # NoPaper => putBy'[To(m)] # s
                                    /\ \A k \in mover'[s].todo :
                                          j # k => To(mover'[s].asked[k]) # To(m)
        BY DEF Targets
      <3>1. Tells(s) /\ Targets(s)
        BY DEF MoveInv
      <3>2. CASE s = r
        <4>1. /\ To(mover[r].asked[j]) \in Spots
              /\ OneSpellingEach => To(mover[r].asked[j]) # to
          BY <1>1, <1>3, <2>2, <2>4, <3>2, AskedTyped, MovesHaveSpots DEF Tells
        <4>2. OneSpellingEach => (disk'[To(mover[r].asked[j])] # NoPaper
                                      => disk[To(mover[r].asked[j])] # NoPaper)
          BY <2>5, <4>1
        <4> QED
          BY <1>1, <2>2, <2>4, <2>5, <3>2, <4>1, <4>2 DEF Targets
      <3>3. CASE s # r
        <4>1. To(mover[s].asked[j]) \in Spots /\ mover'[s] = mover[s]
          BY <1>1, <2>4, <3>1, <3>3, AskedTyped, MovesHaveSpots DEF Tells
        <4>2. disk'[To(mover[s].asked[j])] # NoPaper =>
                 disk[To(mover[s].asked[j])] # NoPaper \/ putBy'[To(mover[s].asked[j])] = r
          BY <2>5, <4>1
        <4> QED
          BY <2>5, <3>1, <3>3, <4>1, <4>2 DEF Targets
      <3> QED
        BY <3>2, <3>3
    <2> QED
      BY <2>6, <2>7, <2>8, <2>9, <2>10, <2>11, OthersTell DEF MoveInv
  <1> QED
    BY <1>4, <1>5

-----------------------------------------------------------------------------
LEMMA ReindexMovesKeeps ==
  ASSUME MoveInv, NEW r \in Movers, ReindexMoves(r)
  PROVE  MoveInv'
  BY PointKeeps DEF ReindexMoves, MoverGoes, MoverAt, MoveInv, MoveShapes, Tells

LEMMA ReportMovesKeeps ==
  ASSUME MoveInv, NEW r \in Movers, ReportMoves(r)
  PROVE  MoveInv'
  <1>1. /\ MoveShapes /\ Tells(r) /\ mover[r].at = "reporting" /\ job' = job
        /\ moveFaults' = moveFaults /\ DiskKept
    BY DEF MoveInv, ReportMoves, MoverAt
  <1>2. CASE MoverGoes(r, "failing") /\ UNCHANGED reports
    BY <1>1, <1>2, PointKeeps DEF MoverGoes, Tells, MoveShapes
  <1>3. ASSUME reports' = [reports EXCEPT ![r] =
                  IF mover[r].moved = 0 THEN "failed"
                  ELSE IF mover[r].moved = Len(mover[r].asked) THEN "succeeded" ELSE "partial"],
               MoverGoes(r, "committing")
        PROVE  MoveInv'
    <2>1. PICK report \in {"succeeded", "failed", "partial"} :
             /\ reports' = [reports EXCEPT ![r] = report]
             /\ report = "succeeded" => mover[r].moved = Len(mover[r].asked)
             /\ report = "failed" => mover[r].moved = 0
      BY <1>3
    <2>2. /\ reports' \in [Movers -> Reports] /\ reports'[r] = report
          /\ \A s \in Movers \ {r} : reports'[s] = reports[s]
      BY <1>1, <2>1 DEF MoveShapes, Reports
    <2> QED
      BY <1>1, <1>3, <2>1, <2>2, PointKeeps DEF MoverGoes, MoveShapes
  <1> QED
    BY <1>2, <1>3 DEF ReportMoves

(* A request that is over has nothing left to do.                           *)
LEMMA OverKeeps ==
  ASSUME MoveInv, NEW r \in Movers, NEW now \in JobStates,
         now = "SUCCEEDED" => reports[r] # "none",
         job' = [job EXCEPT ![r] = now], reports' = reports, DiskKept,
         mover' = [mover EXCEPT ![r].at = "over", ![r].todo = {}],
         moveFaults' \in 0..MaxMoveFaults
  PROVE  MoveInv'
  <1>1. MoveShapes /\ Tells(r) /\ mover \in [Movers -> MoverRecords]
    BY DEF MoveInv, MoveShapes
  <1>2. mover' = [mover EXCEPT ![r] = [mover[r] EXCEPT !.at = "over", !.todo = {}]]
    BY <1>1
  <1>3. /\ job' \in [Movers -> JobStates] /\ job'[r] = now
        /\ \A s \in Movers \ {r} : job'[s] = job[s]
    BY <1>1 DEF MoveShapes
  <1>4. reports \in [Movers -> Reports] /\ reports' = reports
        /\ (reports[r] = "succeeded" => mover[r].moved = Len(mover[r].asked))
        /\ (reports[r] = "failed" => mover[r].moved = 0)
    BY <1>1 DEF MoveShapes, Tells
  <1>5. PICK todo \in SUBSET mover[r].todo : todo = {}
    OBVIOUS
  <1>6. mover' = [mover EXCEPT ![r] = [mover[r] EXCEPT !.at = "over", !.todo = todo]]
    BY <1>2, <1>5
  <1> QED
    BY <1>3, <1>4, <1>6, MoverGoesKeeps

LEMMA EndMovesKeeps ==
  ASSUME MoveInv, NEW r \in Movers, EndMoves(r)
  PROVE  MoveInv'
  <1>1. /\ MoveShapes /\ Tells(r) /\ job[r] \in JobStates
        /\ reports' = reports /\ moveFaults' = moveFaults /\ DiskKept
        /\ mover' = [mover EXCEPT ![r].at = "over", ![r].todo = {}]
    BY DEF MoveInv, MoveShapes, EndMoves
  <1>2. PICK now \in JobStates :
           /\ job' = [job EXCEPT ![r] = now]
           /\ now = "SUCCEEDED" => reports[r] # "none"
    <2>1. CASE mover[r].at = "committing"
               /\ job' = [job EXCEPT ![r] = IF @ = "none" THEN @ ELSE "SUCCEEDED"]
      BY <1>1, <2>1 DEF Tells, JobStates
    <2>2. CASE job' = [job EXCEPT ![r] = IF @ = "none" THEN @ ELSE "FAILED"]
      BY <1>1, <2>2 DEF Tells, JobStates
    <2> QED
      BY <2>1, <2>2 DEF EndMoves, MoverAt
  <1> QED
    BY <1>1, <1>2, OverKeeps DEF MoveShapes

LEMMA MoverDiesKeeps ==
  ASSUME MoveInv, NEW r \in Movers, MoverDies(r)
  PROVE  MoveInv'
  <1>1. /\ job' = [job EXCEPT ![r] = "none"] /\ reports' = reports /\ DiskKept
        /\ mover' = [mover EXCEPT ![r].at = "over", ![r].todo = {}]
    BY DEF MoverDies
  <1>2. moveFaults' \in 0..MaxMoveFaults
    BY MoveAssumption DEF MoverDies, MoveInv, MoveShapes
  <1> QED
    BY <1>1, <1>2, OverKeeps DEF JobStates

-----------------------------------------------------------------------------
LEMMA MoveInitially == MoveInit => MoveInv
  <1> SUFFICES ASSUME MoveInit
               PROVE  MoveInv
    OBVIOUS
  <1>1. NoMover \in MoverRecords /\ NoMover.at = "idle" /\ NoMover.todo = {} /\ NoMover.moved = 0
        /\ Len(NoMover.asked) = 0 /\ Cardinality({}) = 0
    BY FS_EmptySet DEF NoMover, MoverRecords, MovePoints
  <1>2. MoveShapes
    BY <1>1, MoveAssumption DEF MoveInit, MoveShapes, Reports, JobStates
  <1>3. OneFileEach /\ NoneIsLost
    BY DEF MoveInit, OneFileEach, NoneIsLost
  <1>4. \A r \in Movers : mover[r] = NoMover /\ reports[r] = "none" /\ job[r] = "none"
    BY DEF MoveInit
  <1>5. \A r \in Movers : Tells(r) /\ Targets(r)
    <2> TAKE r \in Movers
    <2>1. /\ mover[r].at = "idle" /\ mover[r].todo = {} /\ mover[r].moved = 0
          /\ Len(mover[r].asked) = 0 /\ Cardinality(mover[r].todo) = 0
          /\ reports[r] = "none" /\ job[r] = "none"
      BY <1>1, <1>4
    <2> QED
      BY <2>1 DEF Tells, Targets
  <1> QED
    BY <1>2, <1>3, <1>5 DEF MoveInv

LEMMA MoverStep == MoveInv /\ [MoveNext]_moveVars => MoveInv'
  <1> SUFFICES ASSUME MoveInv, [MoveNext]_moveVars
               PROVE  MoveInv'
    OBVIOUS
  <1>1. CASE UNCHANGED moveVars
    BY <1>1 DEF moveVars, MoveInv, MoveShapes, OneFileEach, NoneIsLost, OnDisk, Tells, Targets
  <1>2. CASE \E p \in Spots : Meddle(p)
    BY <1>2, MeddleKeeps
  <1>3. CASE \E r \in Movers :
          \/ AskMoves(r) \/ PlanMoves(r) \/ CheckMoves(r) \/ Rename(r) \/ ReindexMoves(r)
          \/ ReportMoves(r) \/ EndMoves(r) \/ MoverDies(r)
    BY <1>3, AskMovesKeeps, PlanMovesKeeps, CheckMovesKeeps, RenameKeeps, ReindexMovesKeeps,
       ReportMovesKeeps, EndMovesKeeps, MoverDiesKeeps
  <1> QED
    BY <1>1, <1>2, <1>3 DEF MoveNext

(* However paths are spelt, a note has one file, no request counts more     *)
(* moves than its batch has, and the bounds hold.                           *)
THEOREM MoveTypes == MoveSpec => []MoveTypeOK
  <1>1. MoveInv => MoveTypeOK
    <2> SUFFICES ASSUME MoveInv
                 PROVE  MoveTypeOK
      OBVIOUS
    <2>1. ASSUME NEW r \in Movers
          PROVE  mover[r].moved <= Len(mover[r].asked)
      <3>1. MoveShapes /\ Tells(r)
        BY DEF MoveInv
      <3>2. Cardinality(mover[r].todo) \in Nat
        BY <3>1, AskedTyped, PlacesAreCounted DEF Tells
      <3> QED
        BY <3>1, <3>2, AskedTyped DEF Tells
    <2> QED
      BY <2>1 DEF MoveTypeOK, MoveInv, MoveShapes, OneFileEach
  <1> QED
    BY <1>1, MoveInitially, MoverStep, PTL DEF MoveSpec

(* Where every path is spelt in one way, a batch of moves loses no note,    *)
(* and its report and its job tell the truth (MovesLoseNothing).            *)
THEOREM NoNoteIsLost ==
  ASSUME OneSpellingEach
  PROVE  MoveSpec => []MovesLoseNothing
  <1>1. MoveInv => MovesLoseNothing
    BY DEF MoveInv, NoneIsLost, Tells, MovesLoseNothing
  <1>2. MoveInv /\ [MoveNext]_moveVars => MoveInv'
    BY MoverStep
  <1> QED
    BY <1>1, <1>2, MoveInitially, PTL DEF MoveSpec

-----------------------------------------------------------------------------
(***************************************************************************)
(* A project keeps at most one current compact, for any compacts and       *)
(* projects, whichever writes of whichever promotions take place.          *)
(***************************************************************************)

(* What a running promotion knows: every current note of its project is the *)
(* promoted one or is yet to be superseded, unless a person has made one    *)
(* current meanwhile, and then the project is counted as doubled.           *)
Surveyed ==
    promotion # NoPromotion =>
        IF promotion.alone
        THEN \A c \in CurrentOf(ProjectOf[promotion.for]) :
                 c = promotion.for \/ c \in promotion.prior
        ELSE ProjectOf[promotion.for] \in doubled

CompactsInv == CompactsTypeOK /\ Surveyed /\ OneCurrentCompact

LEMMA CompactsInitially == CompactsInit => CompactsInv
  BY DEF CompactsInit, CompactsInv, CompactsTypeOK, Surveyed, OneCurrentCompact

(* A note gets another status than "current" and no promotion changes.      *)
LEMMA StatusStep ==
  ASSUME CompactsInv, NEW c \in Compacts, NEW status \in (Statuses \cup {"absent"}) \ {"current"},
         WriteCompact(c, status), UNCHANGED <<promotion, doubled>>
  PROVE  CompactsInv'
  <1>1. CompactsTypeOK'
    BY DEF CompactsInv, CompactsTypeOK, WriteCompact, Statuses
  <1>2. \A d \in Compacts : compacts'[d] = "current" => compacts[d] = "current"
    BY DEF CompactsInv, CompactsTypeOK, WriteCompact, Statuses
  <1>3. Surveyed'
    BY <1>2 DEF CompactsInv, Surveyed, CurrentOf
  <1>4. OneCurrentCompact'
    BY <1>2 DEF CompactsInv, OneCurrentCompact
  <1> QED
    BY <1>1, <1>3, <1>4 DEF CompactsInv

(* A promotion that begins has read all notes of its project.               *)
LEMMA BeginStep ==
  ASSUME CompactsInv, NEW c \in Compacts, BeginPromotion(c)
  PROVE  CompactsInv'
  <1> DEFINE begun == [for |-> c, prior |-> CurrentOf(ProjectOf[c]) \ {c}, alone |-> TRUE]
  <1>a. CurrentOf(ProjectOf[c]) \ {c} \in SUBSET Compacts
    BY DEF CurrentOf
  <1>b. begun \in Promotions
    BY <1>a DEF Promotions
  <1>1. promotion' = begun /\ begun \in Promotions /\ begun # NoPromotion
    BY <1>b, CompactAssumption DEF BeginPromotion
  <1>2. CompactsTypeOK'
    BY <1>1 DEF CompactsInv, CompactsTypeOK, BeginPromotion
  <1>3. Surveyed'
    BY <1>1 DEF Surveyed, BeginPromotion, CurrentOf
  <1>4. OneCurrentCompact'
    BY DEF CompactsInv, OneCurrentCompact, BeginPromotion
  <1> QED
    BY <1>2, <1>3, <1>4 DEF CompactsInv

LEMMA SupersedeStep == CompactsInv /\ SupersedePrior => CompactsInv'
  <1> SUFFICES ASSUME CompactsInv, SupersedePrior
               PROVE  CompactsInv'
    OBVIOUS
  <1>1. promotion \in Promotions
    BY DEF CompactsInv, CompactsTypeOK, SupersedePrior, Quiet
  <1>2. PICK c \in promotion.prior :
            /\ WriteCompact(c, "superseded")
            /\ promotion' = [promotion EXCEPT !.prior = @ \ {c}]
            /\ UNCHANGED doubled
    BY DEF SupersedePrior
  <1>3. /\ promotion' \in Promotions /\ promotion' # NoPromotion
        /\ promotion'.for = promotion.for /\ promotion'.alone = promotion.alone
        /\ promotion'.prior = promotion.prior \ {c} /\ c \in Compacts
    BY <1>1, <1>2, CompactAssumption DEF Promotions
  <1>4. /\ compacts'[c] = "superseded"
        /\ \A d \in Compacts : compacts'[d] = "current" => compacts[d] = "current"
    BY <1>2, <1>3 DEF CompactsInv, CompactsTypeOK, WriteCompact
  <1>5. CompactsTypeOK'
    BY <1>2, <1>3 DEF CompactsInv, CompactsTypeOK, WriteCompact, Statuses
  <1>6. Surveyed'
    BY <1>1, <1>2, <1>3, <1>4, CompactAssumption DEF CompactsInv, Surveyed, CurrentOf
  <1>7. OneCurrentCompact'
    BY <1>2, <1>4 DEF CompactsInv, OneCurrentCompact
  <1> QED
    BY <1>5, <1>6, <1>7 DEF CompactsInv

LEMMA FinishStep == CompactsInv /\ FinishPromotion => CompactsInv'
  <1> SUFFICES ASSUME CompactsInv, FinishPromotion
               PROVE  CompactsInv'
    OBVIOUS
  <1> DEFINE p == ProjectOf[promotion.for]
  <1>1. /\ promotion \in Promotions /\ promotion # NoPromotion
        /\ promotion.prior = {} /\ promotion.for \in Compacts
    BY DEF CompactsInv, CompactsTypeOK, FinishPromotion, Quiet, MayPromote, Promotions
  <1>2. /\ compacts' = [compacts EXCEPT ![promotion.for] = "current"]
        /\ promotion' = NoPromotion
        /\ doubled' = IF promotion.alone THEN doubled \ {p} ELSE doubled
    BY DEF FinishPromotion, WriteCompact
  <1>3. CompactsTypeOK' /\ Surveyed'
    BY <1>1, <1>2 DEF CompactsInv, CompactsTypeOK, Statuses, Surveyed
  <1>4. \A d \in Compacts : (ProjectOf[d] = p /\ compacts'[d] = "current" /\ promotion.alone)
                                => d = promotion.for
    BY <1>1, <1>2 DEF CompactsInv, CompactsTypeOK, Surveyed, CurrentOf
  <1>5. ~promotion.alone => p \in doubled'
    BY <1>1, <1>2 DEF CompactsInv, Surveyed
  <1>6. \A d \in Compacts : ProjectOf[d] # p =>
            /\ compacts'[d] = compacts[d]
            /\ ProjectOf[d] \in doubled' <=> ProjectOf[d] \in doubled
    BY <1>1, <1>2 DEF CompactsInv, CompactsTypeOK
  <1>7. promotion.alone \in BOOLEAN
    BY <1>1 DEF Promotions
  <1>8. OneCurrentCompact'
    BY <1>4, <1>5, <1>6, <1>7 DEF CompactsInv, OneCurrentCompact
  <1> QED
    BY <1>3, <1>8 DEF CompactsInv

LEMMA EditStep ==
  ASSUME CompactsInv, NEW c \in Compacts, EditCompact(c)
  PROVE  CompactsInv'
  <1>1. PICK status \in Statuses \cup {"absent"} :
            /\ WriteCompact(c, status)
            /\ doubled' = IF status = "current" THEN doubled \cup {ProjectOf[c]} ELSE doubled
            /\ promotion' = IF /\ status = "current" /\ ~Quiet
                               /\ ProjectOf[promotion.for] = ProjectOf[c]
                            THEN [promotion EXCEPT !.alone = FALSE] ELSE promotion
    BY DEF EditCompact
  <1>2. CASE status # "current"
    BY <1>1, <1>2, StatusStep
  <1>3. CASE status = "current"
    <2>1. CompactsTypeOK'
      <3>1. promotion \in Promotions => [promotion EXCEPT !.alone = FALSE] \in Promotions
        BY DEF Promotions
      <3> QED
        BY <1>1, <1>3, <3>1 DEF CompactsInv, CompactsTypeOK, WriteCompact, Statuses, Quiet
    <2>2. /\ \A d \in Compacts : ProjectOf[d] # ProjectOf[c] => compacts'[d] = compacts[d]
          /\ doubled' = doubled \cup {ProjectOf[c]}
      BY <1>1, <1>3 DEF CompactsInv, CompactsTypeOK, WriteCompact
    <2>3. OneCurrentCompact'
      BY <2>2 DEF CompactsInv, OneCurrentCompact
    <2>4. Surveyed'
      <3>1. CASE promotion = NoPromotion
        BY <1>1, <3>1 DEF Quiet, Surveyed
      <3>2. CASE promotion # NoPromotion /\ ProjectOf[promotion.for] = ProjectOf[c]
        <4>1. promotion \in Promotions /\ promotion' = [promotion EXCEPT !.alone = FALSE]
          BY <1>1, <1>3, <3>2 DEF Quiet, CompactsInv, CompactsTypeOK
        <4>2. promotion'.alone = FALSE /\ promotion'.for = promotion.for
          BY <4>1 DEF Promotions
        <4> QED
          BY <4>2, <2>2, <3>2 DEF Surveyed
      <3>3. CASE promotion # NoPromotion /\ ProjectOf[promotion.for] # ProjectOf[c]
        <4>1. promotion' = promotion
          BY <1>1, <3>3
        <4>2. CurrentOf(ProjectOf[promotion.for])' = CurrentOf(ProjectOf[promotion.for])
          BY <4>1, <2>2, <3>3 DEF CurrentOf
        <4> QED
          BY <4>1, <4>2, <2>2 DEF CompactsInv, Surveyed
      <3> QED
        BY <3>1, <3>2, <3>3
    <2> QED
      BY <2>1, <2>3, <2>4 DEF CompactsInv
  <1> QED
    BY <1>2, <1>3

LEMMA CompactsStep == CompactsInv /\ [CompactsNext]_compactVars => CompactsInv'
  <1> SUFFICES ASSUME CompactsInv, [CompactsNext]_compactVars
               PROVE  CompactsInv'
    OBVIOUS
  <1>1. ASSUME NEW c \in Compacts, CreateCompact(c)
        PROVE  CompactsInv'
    <2>1. CASE BeginPromotion(c)
      BY <2>1, BeginStep
    <2>2. CASE \E status \in Statuses \ {"current"} :
                   WriteCompact(c, status) /\ UNCHANGED <<promotion, doubled>>
      BY <2>2, StatusStep
    <2> QED
      BY <1>1, <2>1, <2>2 DEF CreateCompact
  <1>2. ASSUME NEW c \in Compacts, MarkCurrent(c)
        PROVE  CompactsInv'
    BY <1>2, BeginStep DEF MarkCurrent
  <1>3. ASSUME NEW c \in Compacts, ArchiveCompact(c)
        PROVE  CompactsInv'
    BY <1>3, StatusStep DEF ArchiveCompact, Statuses
  <1>4. ASSUME NEW c \in Compacts, DeleteCompact(c)
        PROVE  CompactsInv'
    BY <1>4, StatusStep DEF DeleteCompact, Statuses
  <1>5. CASE StopPromotion
    BY <1>5 DEF StopPromotion, CompactsInv, CompactsTypeOK, Surveyed, OneCurrentCompact
  <1>6. CASE UNCHANGED compactVars
    BY <1>6 DEF compactVars, CompactsInv, CompactsTypeOK, Surveyed, CurrentOf,
                OneCurrentCompact
  <1> QED
    BY <1>1, <1>2, <1>3, <1>4, <1>5, <1>6, EditStep, SupersedeStep, FinishStep
       DEF CompactsNext

(* A project has at most one current compact, also between the writes of a  *)
(* promotion, after one that stopped, and after the next promotion of a     *)
(* project that a person gave two (memory_compact_repository.py:146-266).   *)
THEOREM OneCompactIsCurrent == CompactsSpec => []OneCurrentCompact
  <1>1. CompactsInv => OneCurrentCompact
    BY DEF CompactsInv
  <1> QED
    BY <1>1, CompactsInitially, CompactsStep, PTL DEF CompactsSpec

(* The notes that say "current" are as the types say.                       *)
THEOREM CompactTypes == CompactsSpec => []CompactsTypeOK
  <1>1. CompactsInv => CompactsTypeOK
    BY DEF CompactsInv
  <1> QED
    BY <1>1, CompactsInitially, CompactsStep, PTL DEF CompactsSpec

(* Chunks, picked chunks and unsaved rows keep their types.                 *)
THEOREM ChunkTypes == ChunksSpec => []ChunksTypeOK
  <1>1. ChunksInv => ChunksTypeOK
    BY DEF ChunksInv
  <1> QED
    BY <1>1, ChunksInitially, ChunksStep, PTL DEF ChunksSpec

-----------------------------------------------------------------------------
(***************************************************************************)
(* The parts side by side: each behaves as it does alone, so what is       *)
(* proved of it alone holds of it here.                                    *)
(***************************************************************************)
THEOREM PartsBehave == IndexSpec => Spec /\ ChunksSpec /\ MoveSpec /\ CompactsSpec
  <1>1. IndexInit => Init /\ ChunksInit /\ MoveInit /\ CompactsInit
    BY DEF IndexInit
  <1>2. ASSUME [IndexNext]_indexVars
        PROVE  /\ [Next]_vars /\ [ChunksNext]_chunkVars
               /\ [MoveNext]_moveVars /\ [CompactsNext]_compactVars
    <2>1. CASE IndexNext
      BY <2>1 DEF IndexNext
    <2>2. CASE UNCHANGED indexVars
      BY <2>2 DEF indexVars
    <2> QED
      BY <1>2, <2>1, <2>2
  <1> QED
    BY <1>1, <1>2, PTL DEF IndexSpec, Spec, ChunksSpec, MoveSpec, CompactsSpec

(* Every part of the composition keeps its types (IndexTypeOK).             *)
THEOREM IndexTypes == IndexSpec => []IndexTypeOK
  <1>1. TypeOK /\ ChunksTypeOK /\ MoveTypeOK /\ CompactsTypeOK => IndexTypeOK
    BY DEF IndexTypeOK
  <1> QED
    BY <1>1, PartsBehave, VaultTypes, ChunkTypes, MoveTypes, CompactTypes, PTL
=============================================================================
