--------------------------- MODULE CompactLifecycle ---------------------------
(***************************************************************************)
(* Memory Compacts are Markdown notes, of which each project shall have    *)
(* one that is current.  No database takes part: a promotion writes the    *)
(* notes one after another and may stop between two of them.  People edit  *)
(* the same notes in Obsidian.                                             *)
(***************************************************************************)

CONSTANTS
    Compacts,           \* what a compact covers and says
    ProjectOf,          \* the project of each
    NoPromotion

Promotions == [for : Compacts, prior : SUBSET Compacts, alone : BOOLEAN]

ASSUME CompactAssumption == NoPromotion \notin Promotions

VARIABLES
    compacts,           \* the status of each note
    promotion,          \* the notes a running promotion has still to write
    doubled             \* history: projects that a person gave a current note

compactVars == <<compacts, promotion, doubled>>

Statuses == {"draft", "current", "superseded", "archived"}
OnFile == {c \in Compacts : compacts[c] # "absent"}
CurrentOf(p) == {c \in Compacts : compacts[c] = "current" /\ ProjectOf[c] = p}

CompactsInit ==
    /\ compacts = [c \in Compacts |-> "absent"]
    /\ promotion = NoPromotion
    /\ doubled = {}

(* Nothing else runs in the process while notes are written.                *)
Quiet == promotion = NoPromotion
WriteCompact(c, status) == compacts' = [compacts EXCEPT ![c] = status]

(* All other current notes of the project are superseded first.             *)
BeginPromotion(c) ==
    /\ promotion' = [for |-> c, prior |-> CurrentOf(ProjectOf[c]) \ {c}, alone |-> TRUE]
    /\ UNCHANGED <<compacts, doubled>>

(* A compact that says what a stored one says is not created again.         *)
CreateCompact(c) ==
    /\ Quiet /\ c \notin OnFile
    /\ \/ BeginPromotion(c)
       \/ \E status \in Statuses \ {"current"} : WriteCompact(c, status)
          /\ UNCHANGED <<promotion, doubled>>

MarkCurrent(c) == Quiet /\ c \in OnFile /\ BeginPromotion(c)

SupersedePrior ==
    /\ ~Quiet
    /\ \E c \in promotion.prior :
          /\ WriteCompact(c, "superseded")
          /\ promotion' = [promotion EXCEPT !.prior = @ \ {c}]
    /\ UNCHANGED doubled

(* Mutant of MayPromote: the new note may be written before the prior ones. *)
MayPromoteFirst == TRUE

MayPromote == promotion.prior = {}

FinishPromotion ==
    /\ ~Quiet /\ MayPromote
    /\ WriteCompact(promotion.for, "current")
    /\ promotion' = NoPromotion
    /\ doubled' = IF promotion.alone THEN doubled \ {ProjectOf[promotion.for]} ELSE doubled

ArchiveCompact(c) ==
    /\ Quiet /\ c \in OnFile
    /\ WriteCompact(c, "archived") /\ UNCHANGED <<promotion, doubled>>

DeleteCompact(c) ==
    /\ Quiet /\ c \in OnFile
    /\ WriteCompact(c, "absent") /\ UNCHANGED <<promotion, doubled>>

(* A note cannot be written, or the process dies.                           *)
StopPromotion == ~Quiet /\ promotion' = NoPromotion /\ UNCHANGED <<compacts, doubled>>

(* A person changes a note's status, or removes the note.                   *)
EditCompact(c) ==
    /\ c \in OnFile
    /\ \E status \in Statuses \cup {"absent"} :
          /\ WriteCompact(c, status)
          /\ doubled' = IF status = "current" THEN doubled \cup {ProjectOf[c]} ELSE doubled
          /\ promotion' = IF status = "current" /\ ~Quiet /\ ProjectOf[promotion.for] = ProjectOf[c]
                          THEN [promotion EXCEPT !.alone = FALSE] ELSE promotion

CompactsNext ==
    \/ \E c \in Compacts :
          \/ CreateCompact(c) \/ MarkCurrent(c) \/ ArchiveCompact(c)
          \/ DeleteCompact(c) \/ EditCompact(c)
    \/ SupersedePrior \/ FinishPromotion \/ StopPromotion

CompactsSpec == CompactsInit /\ [][CompactsNext]_compactVars

-----------------------------------------------------------------------------
(* A project has at most one current compact, also between the writes of a  *)
(* promotion and after one that stopped, unless a person has made a note    *)
(* current since the last promotion of the project.                         *)
OneCurrentCompact ==
    \A c, d \in Compacts :
        /\ compacts[c] = "current" /\ compacts[d] = "current"
        /\ ProjectOf[c] = ProjectOf[d] /\ ProjectOf[c] \notin doubled
        => c = d

(* Notes are absent or in a status of their lifecycle.                      *)
CompactsTypeOK ==
    /\ compacts \in [Compacts -> Statuses \cup {"absent"}]
    /\ promotion \in Promotions \cup {NoPromotion}
=============================================================================
