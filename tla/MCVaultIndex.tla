--------------------------- MODULE MCVaultIndex ---------------------------
(***************************************************************************)
(* Small instances of what works on the vault and its index: notes and     *)
(* rows (VaultIndex), chunks and vectors (EmbeddingReindex), batches of    *)
(* moves (VaultMove) and Memory Compacts (CompactLifecycle).  The models   *)
(* keep no common state, so a behaviour drives one of them.                *)
(***************************************************************************)
EXTENDS VaultIndex, EmbeddingReindex, VaultMove, CompactLifecycle

CONSTANTS
    Parts,              \* the parts that a run drives
    r1, r2, r3, p1, p2, p3, p4, c1, c2, c3, c4

VARIABLE part           \* the part that a behaviour drives

Order == <<p1, p2>>

(* A save or a creation against a reindex and an explicit write or a        *)
(* lifecycle patch.                                                         *)
Writers ==
    [r \in Requests |-> CASE r = r1 -> {"save", "create"}
                          [] r = r2 -> {"upsert", "archive"}
                          [] r = r3 -> {"reindex"}]

(* Explicit, careful writes only.                                           *)
Explicit == [r \in Requests |-> {"update", "upsert"}]

(* A save or a patch against a reindex and two ways to embed.               *)
Embedders ==
    [r \in {r1, r2, r3} |-> CASE r = r1 -> {"save", "patch"}
                              [] r = r2 -> {"reindex", "recover"}
                              [] r = r3 -> {"embed", "recover"}]
OneReindex == [r \in Tasks |-> {"reindex", "save"}]

(* Every path is spelt in one way, or one of them in two.                   *)
OneSpelling == [p \in {p1, p2, p3} |-> p]
TwoSpellings == [p \in {p1, p2, p3, p4} |-> IF p = p4 THEN p3 ELSE p]

(* Two notes to one place; one note to two places.                          *)
Batches == {<< <<p1, p3>>, <<p2, p3>> >>, << <<p2, p3>>, <<p2, p1>> >>}
OneBatch == {<< <<p1, p3>>, <<p2, p4>> >>}

(* Three compacts of one project and one of another.                        *)
TwoProjects == [c \in {c1, c2, c3, c4} |-> IF c = c4 THEN p2 ELSE p1]

indexVars == <<vars, chunkVars, moveVars, compactVars, part>>

(* The notes say the same at first, and one of them has no vector.          *)
IndexInit ==
    /\ part \in Parts
    /\ Init /\ ChunksInit /\ MoveInit /\ CompactsInit
    /\ body = [n \in Chunked |-> 1] /\ chunks[p1].vector = NoVector
    /\ part # "vectors" => chunks[p2].vector = NoVector
    /\ part # "moves" => disk[p1] = c1 /\ disk[p2] = c2

IndexNext ==
    /\ UNCHANGED part
    /\ \/ part = "notes" /\ Next
       \/ part # "notes" /\ UNCHANGED vars
    /\ \/ part = "vectors" /\ ChunksNext
       \/ part # "vectors" /\ UNCHANGED chunkVars
    /\ \/ part = "moves" /\ MoveNext
       \/ part # "moves" /\ UNCHANGED moveVars
    /\ \/ part = "compacts" /\ CompactsNext
       \/ part # "compacts" /\ UNCHANGED compactVars

IndexSpec == IndexInit /\ [][IndexNext]_indexVars

(* Every part keeps its types, and a session that is over holds no row.     *)
IndexTypeOK == TypeOK /\ ChunksTypeOK /\ MoveTypeOK /\ CompactsTypeOK
===========================================================================
