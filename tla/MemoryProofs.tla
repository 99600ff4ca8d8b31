--------------------------- MODULE MemoryProofs ---------------------------
(***************************************************************************)
(* Proofs about Contexts that supersede each other, with the scan and the  *)
(* index behind them.                                                      *)
(***************************************************************************)
EXTENDS ContextLinks, TLAPS

(***************************************************************************)
(* What the validation of a scan accepts.                                  *)
(***************************************************************************)

(* Of two Contexts the scan finds one before the other, and none before     *)
(* itself.                                                                  *)
LEMMA ScanOrder ==
    /\ \A c, d \in Contexts : c # d => Before(c, d) \/ Before(d, c)
    /\ \A c \in Contexts : ~Before(c, c)
<1>1. \A j, k \in DOMAIN ContextOrder : j \in Nat /\ k \in Nat
  BY ManifestAssumption
<1>2. ASSUME NEW c \in Contexts, NEW d \in Contexts, c # d
      PROVE  Before(c, d) \/ Before(d, c)
  <2>1. PICK j \in DOMAIN ContextOrder : ContextOrder[j] = c
    BY DEF Contexts
  <2>2. PICK k \in DOMAIN ContextOrder : ContextOrder[k] = d
    BY DEF Contexts
  <2>3. j < k \/ k < j
    <3>1. j # k
      BY <2>1, <2>2, <1>2
    <3>2. QED
      BY <3>1, <1>1
  <2>4. QED
    BY <2>1, <2>2, <2>3 DEF Before
<1>3. ASSUME NEW c \in Contexts, Before(c, c)
      PROVE  FALSE
  <2>1. PICK j, k \in DOMAIN ContextOrder :
            j < k /\ ContextOrder[j] = c /\ ContextOrder[k] = c
    BY <1>3 DEF Before
  <2>2. j = k
    BY <2>1, ManifestAssumption
  <2>3. QED
    BY <2>1, <2>2, <1>1
<1>4. QED
  BY <1>2, <1>3

(* A target has one replacement.                                            *)
LEMMA OneReplacement ==
    ASSUME NEW s \in Scans, NEW c \in Found(s), NEW d \in Found(s),
           Replaces(s, c), Replaces(s, d), s[c].sup = s[d].sup
    PROVE  c = d
<1>1. c \in Contexts /\ d \in Contexts
  BY DEF Found
<1>2. ~Before(c, d) /\ ~Before(d, c)
  BY DEF Replaces
<1>3. QED
  BY <1>1, <1>2, ScanOrder

(* The accepted Contexts are the largest set of valid ones that holds its   *)
(* own targets.                                                             *)
LEMMA AcceptedIsLargest ==
    ASSUME NEW s \in Scans
    PROVE  /\ Accepted(s) \subseteq Found(s) \ Invalid(s)
           /\ TargetsIn(s, Accepted(s))
           /\ \A cs \in SUBSET (Found(s) \ Invalid(s)) :
                  TargetsIn(s, cs) => cs \subseteq Accepted(s)
<1>1. \A c \in Accepted(s) : \E cs \in SUBSET (Found(s) \ Invalid(s)) :
          TargetsIn(s, cs) /\ c \in cs
  BY DEF Accepted
<1>2. \A cs \in SUBSET (Found(s) \ Invalid(s)) :
          TargetsIn(s, cs) => cs \subseteq Accepted(s)
  BY DEF Accepted
<1>3. Accepted(s) \subseteq Found(s) \ Invalid(s)
  BY <1>1
<1>4. ASSUME NEW c \in Accepted(s), s[c].sup \in Found(s)
      PROVE  s[c].sup \in Accepted(s)
  <2>1. PICK cs \in SUBSET (Found(s) \ Invalid(s)) : TargetsIn(s, cs) /\ c \in cs
    BY <1>1
  <2>2. s[c].sup \in cs
    BY <2>1, <1>4 DEF TargetsIn
  <2>3. QED
    BY <2>1, <2>2, <1>2
<1>5. TargetsIn(s, Accepted(s))
  BY <1>4 DEF TargetsIn
<1>6. QED
  BY <1>2, <1>3, <1>5

(* The target of an accepted Context is accepted, and the Context is the    *)
(* one that replaces it.                                                    *)
LEMMA AcceptedTargets ==
    ASSUME NEW s \in Scans, NEW c \in Accepted(s), s[c].sup # NoContext
    PROVE  /\ c \in Contexts /\ s[c].sup \in Accepted(s) /\ Replaces(s, c)
           /\ s[s[c].sup].by \in {NoContext, c}
<1>1. c \in Found(s) /\ c \notin Invalid(s)
  BY AcceptedIsLargest
<1>2. Replaces(s, c)
  BY <1>1 DEF Invalid
<1>3. s[c].sup \in Found(s)
  BY <1>2 DEF Replaces
<1>4. s[c].sup \in Accepted(s)
  BY <1>3, AcceptedIsLargest DEF TargetsIn
<1>5. s[s[c].sup].by \in {NoContext, c}
  BY <1>2 DEF Replaces, Claims
<1>6. QED
  BY <1>1, <1>2, <1>4, <1>5 DEF Found

(* A Context on a sound chain is valid.                                     *)
LEMMA SoundIsValid ==
    ASSUME NEW s \in Scans, NEW cs \in SUBSET Found(s), Sound(s, cs), NEW c \in cs
    PROVE  c \notin Invalid(s)
<1>1. c \in Contexts /\ c # NoContext /\ c \in Found(s)
  BY ManifestAssumption DEF Found
<1>2. ~OnCycle(s, c)
  BY DEF Sound
<1>3. ASSUME s[c].by # NoContext
      PROVE  Reciprocal(s, c)
  BY <1>3 DEF Sound, Reciprocal
<1>4. ASSUME s[c].sup # NoContext
      PROVE  Replaces(s, c)
  <2>1. s[c].sup \in Found(s) /\ s[s[c].sup].by = c
    BY <1>4 DEF Sound
  <2>2. Claims(s, s[c].sup) = {c}
    BY <2>1, <1>1 DEF Claims
  <2>3. ~Before(c, c)
    BY <1>1, ScanOrder
  <2>4. QED
    BY <2>1, <2>2, <2>3 DEF Replaces
<1>5. QED
  BY <1>2, <1>3, <1>4 DEF Invalid

LEMMA ScanIsAccepted ==
    ASSUME scanned \in Scans
    PROVE  ChainsAreAccepted
<1> DEFINE accepted == Accepted(scanned)
<1>1. ASSUME NEW c \in accepted, scanned[c].sup # NoContext
      PROVE  scanned[c].sup \in accepted
  BY <1>1, AcceptedTargets
<1>2. ASSUME NEW c \in accepted, scanned[c].sup # NoContext,
             NEW d \in accepted \ {c}, scanned[d].sup = scanned[c].sup
      PROVE  FALSE
  <2>1. Replaces(scanned, c) /\ Replaces(scanned, d)
    BY <1>2, AcceptedTargets
  <2>2. c \in Found(scanned) /\ d \in Found(scanned)
    BY AcceptedIsLargest
  <2>3. c = d
    BY <2>1, <2>2, <1>2, OneReplacement
  <2>4. QED
    BY <2>3
<1>3. ASSUME NEW c \in accepted
      PROVE  ~OnCycle(scanned, c)
  <2>1. c \in Found(scanned) /\ c \notin Invalid(scanned)
    BY AcceptedIsLargest
  <2>2. QED
    BY <2>1 DEF Invalid
<1>4. ASSUME NEW cs \in SUBSET Found(scanned), Sound(scanned, cs)
      PROVE  cs \subseteq accepted
  <2>1. cs \in SUBSET (Found(scanned) \ Invalid(scanned))
    BY <1>4, SoundIsValid
  <2>2. NoContext \notin Found(scanned)
    BY ManifestAssumption DEF Found
  <2>3. TargetsIn(scanned, cs)
    BY <1>4, <2>2 DEF TargetsIn, Sound
  <2>4. QED
    BY <2>1, <2>3, AcceptedIsLargest
<1>5. QED
  BY <1>1, <1>2, <1>3, <1>4 DEF ChainsAreAccepted

(* Whatever a scan finds, what its validation accepts is a set of chains    *)
(* without forks and without circles, and every sound chain is among them   *)
(* (obsidian_context_reindex_manifest.py, the validation of links).          *)
THEOREM AcceptedAreChains == ManifestSpec => []ChainsAreAccepted
<1> DEFINE ScanTypes == scanned \in Scans
<1>1. ManifestInit => ScanTypes
  BY DEF ManifestInit, Scans
<1>2. ScanTypes /\ [ManifestNext]_scanned => ScanTypes'
  BY DEF ManifestNext
<1>3. ScanTypes => ChainsAreAccepted
  BY ScanIsAccepted
<1>4. QED
  BY <1>1, <1>2, <1>3, PTL DEF ManifestSpec

(* Writing the backlink an accepted Context's target lacks changes nothing  *)
(* in what is accepted.                                                     *)
LEMMA MarkingKeepsAccepted ==
    ASSUME NEW s \in Scans, NEW t \in Scans, NEW new \in Accepted(s), NEW old \in Contexts,
           s[new].sup = old, t = [s EXCEPT ![old].by = new]
    PROVE  Accepted(t) = Accepted(s)
<1>1. /\ old # NoContext /\ s[new].sup # NoContext
      /\ new \in Contexts /\ old \in Accepted(s) /\ Replaces(s, new)
      /\ s[old].by \in {NoContext, new}
  <2>1. old # NoContext
    BY ManifestAssumption
  <2>2. QED
    BY <2>1, AcceptedTargets
<1>2. new \in Found(s) /\ old \in Found(s)
  BY <1>1, AcceptedIsLargest
<1>3. s[old] \in Links /\ new # NoContext
  BY <1>2, <1>1, ManifestAssumption DEF Found, Scans
<1>4. t[old] = [s[old] EXCEPT !.by = new] /\ \A c \in Contexts : c # old => t[c] = s[c]
  BY DEF Scans
<1>5. t[old] \in Links /\ t[old].sup = s[old].sup /\ t[old].by = new
  BY <1>3, <1>4, <1>1 DEF Links
<1>6. Found(t) = Found(s)
  <2>1. t[old] # NoContext /\ s[old] # NoContext
    <3>1. s[old] # NoContext
      BY <1>2 DEF Found
    <3>2. t[old] # NoContext
      BY <1>5, ManifestAssumption
    <3>3. QED
      BY <3>1, <3>2
  <2>2. QED
    BY <2>1, <1>4 DEF Found
<1>7. \A c \in Contexts : t[c].sup = s[c].sup
  BY <1>4, <1>5
<1>8. \A c \in Found(s), cs \in SUBSET Found(s) :
          s[c].sup \in cs /\ TargetsIn(s, cs) <=> t[c].sup \in cs /\ TargetsIn(t, cs)
  BY <1>6, <1>7 DEF TargetsIn, Found
<1>9. \A c \in Found(s) : OnCycle(t, c) <=> OnCycle(s, c)
  BY <1>6, <1>7, <1>8 DEF OnCycle, Found
<1>10. \A c \in Found(s) : Replaces(t, c) <=> Replaces(s, c)
  <2> SUFFICES ASSUME NEW c \in Found(s)
               PROVE  Replaces(t, c) <=> Replaces(s, c)
    OBVIOUS
  <2>0. c \in Contexts
    BY DEF Found
  <2>1. CASE s[c].sup # old
    <3>1. CASE s[c].sup \in Contexts
      <4>1. Claims(t, s[c].sup) = Claims(s, s[c].sup)
        BY <2>1, <3>1, <1>4, <1>6, <1>7 DEF Claims, Found
      <4>2. QED
        BY <4>1, <1>6, <1>7, <2>0 DEF Replaces
    <3>2. CASE s[c].sup \notin Contexts
      BY <3>2, <1>6, <1>7, <2>0 DEF Replaces, Found
    <3>3. QED
      BY <3>1, <3>2
  <2>2. CASE s[c].sup = old
    <3>1. Claims(t, old) = {new}
      BY <1>1, <1>2, <1>5, <1>6, <1>7, <1>3 DEF Claims, Found
    <3>2. Replaces(t, c) <=> c = new
      <4>1. ~Before(new, new)
        BY <1>1, ScanOrder
      <4>2. t[c].sup = old
        BY <2>2, <1>7, <2>0
      <4>3. QED
        BY <3>1, <4>1, <4>2, <1>2, <1>6 DEF Replaces
    <3>3. Replaces(s, c) <=> c = new
      BY <1>1, <1>2, <2>2, OneReplacement
    <3>4. QED
      BY <3>2, <3>3
  <2>3. QED
    BY <2>1, <2>2
<1>11. \A c \in Found(s) : t[c].by # NoContext /\ ~Reciprocal(t, c)
                              <=> s[c].by # NoContext /\ ~Reciprocal(s, c)
  <2> SUFFICES ASSUME NEW c \in Found(s)
               PROVE  t[c].by # NoContext /\ ~Reciprocal(t, c)
                              <=> s[c].by # NoContext /\ ~Reciprocal(s, c)
    OBVIOUS
  <2>0. c \in Contexts
    BY DEF Found
  <2>1. CASE c # old
    <3>1. t[c] = s[c]
      BY <2>1, <2>0, <1>4
    <3>2. \A d \in Found(s) : t[d].sup = s[d].sup
      BY <1>7 DEF Found
    <3>3. QED
      BY <3>1, <3>2, <1>6 DEF Reciprocal
  <2>2. CASE c = old
    <3>1. Reciprocal(t, old)
      BY <1>1, <1>2, <1>5, <1>6, <1>7 DEF Reciprocal
    <3>2. s[old].by = NoContext \/ Reciprocal(s, old)
      BY <1>1, <1>2 DEF Reciprocal
    <3>3. QED
      BY <2>2, <3>1, <3>2
  <2>3. QED
    BY <2>1, <2>2
<1>12. Invalid(t) = Invalid(s)
  <2>1. \A c \in Found(s) : c \in Invalid(t) <=> c \in Invalid(s)
    <3> SUFFICES ASSUME NEW c \in Found(s)
                 PROVE  c \in Invalid(t) <=> c \in Invalid(s)
      OBVIOUS
    <3>1. t[c].sup = s[c].sup /\ c \in Found(t)
      BY <1>6, <1>7 DEF Found
    <3>2. QED
      BY <3>1, <1>9, <1>10, <1>11 DEF Invalid
  <2>2. Invalid(t) \subseteq Found(s) /\ Invalid(s) \subseteq Found(s)
    BY <1>6 DEF Invalid
  <2>3. QED
    BY <2>1, <2>2
<1>13. \A cs \in SUBSET (Found(s) \ Invalid(s)) : TargetsIn(t, cs) <=> TargetsIn(s, cs)
  BY <1>6, <1>7 DEF TargetsIn, Found
<1>14. QED
  BY <1>6, <1>12, <1>13 DEF Accepted

(***************************************************************************)
(* The inductive invariant of the calls on links: what a request has read, *)
(* what its session holds, and what a reindex that nobody has disturbed    *)
(* has repaired and has still to repair.                                   *)
(***************************************************************************)
Catalogues == [Contexts -> Notes \cup {NoContext}]
Rows == [Contexts -> Notes \cup {NoContext, Unwritten}]
MaybeContext == Contexts \cup {NoContext}

CallRecords ==
    [at : {"idle", "reading", "linking", "archiving", "saving", "marking", "indexing",
           "scanning", "cataloguing", "reconciling", "closing", "undoing", "over"},
     kind : {"save", "archive", "supersede", "reindex"},
     old : MaybeContext, new : MaybeContext, seen : Notes, to : MaybeContext,
     copy : Notes, next : {"closing", "marking", "reconciling"},
     scan : Catalogues \cup {<<>>}, todo : SUBSET Contexts, mark : MaybeContext,
     back : {"closing", "reading", "linking"}, tried : BOOLEAN, alone : BOOLEAN]

LinkShapes ==
    /\ note \in Catalogues /\ entry \in Catalogues
    /\ draft \in [Callers -> Rows] /\ call \in [Callers -> CallRecords]
    /\ linkFaults \in 0..MaxLinkFaults /\ settled \in BOOLEAN

(* A row that is written is the row of a file.                              *)
RowsOfFiles(row, notes) ==
    \A c \in Contexts : row[c] \notin {NoContext, Unwritten} => notes[c] # NoContext

(* What a request is at, and what that rests on.                            *)
InCall(o, row, notes) ==
    LET live == o.at \notin {"idle", "over"}
        marking == o.at = "marking" \/ (o.at = "indexing" /\ o.next = "marking")
    IN  /\ live /\ o.kind \in {"archive", "supersede"} => o.old \in Contexts
        /\ live /\ o.kind \in {"save", "supersede"} => o.new \in Contexts /\ o.old # o.new
        /\ o.at = "reading" \/ o.back = "reading" => o.kind \in {"archive", "supersede"}
        /\ o.at = "linking" \/ o.back = "linking" => o.kind = "supersede"
        /\ o.at = "archiving" => o.kind = "archive" /\ notes[o.old] # NoContext
        /\ o.at = "saving" => o.kind = "save"
        /\ marking /\ o.scan = <<>> =>
               o.kind \in {"save", "supersede"} /\ o.old \in Contexts /\ o.new \in Contexts
        /\ o.at = "indexing" => o.to \in Contexts /\ notes[o.to] # NoContext
                                /\ (o.scan # <<>> <=> o.next = "reconciling")
        /\ o.kind = "reindex" /\ o.at \in {"marking", "indexing"} => o.scan # <<>>
        /\ ~live => \A c \in Contexts : row[c] = Unwritten

(* A link the scan found.                                                   *)
LinkFound(o, c) ==
    c \in Contexts /\ o.scan[c] # NoContext /\ o.scan[c].sup \in Contexts

InReindex(o, notes) ==
    /\ o.scan # <<>> => o.at \in {"cataloguing", "reconciling", "marking", "indexing"}
    /\ o.at \in {"cataloguing", "reconciling"} => o.scan # <<>>
    /\ o.scan # <<>> =>
          /\ \A c \in Contexts : o.scan[c] # NoContext => notes[c] # NoContext
          /\ o.at # "cataloguing" => \A c \in o.todo : LinkFound(o, c)
          /\ o.at \in {"marking", "indexing"} => LinkFound(o, o.mark)

Mended(notes, c) ==
    notes[notes[c].sup].by = c /\ notes[notes[c].sup].status = "superseded"
Linked(notes) == {c \in Accepted(LinksOf(notes)) : notes[c].sup # NoContext}

(* A reindex that nobody has disturbed.                                     *)
Undisturbed(o) == o.kind = "reindex" /\ o.alone
Repairs(o, row, notes) ==
    /\ o.at = "cataloguing" => o.scan = notes
    /\ o.at \in {"reconciling", "marking", "indexing"} =>
          /\ \A c \in Contexts :
                /\ notes[c] # NoContext => o.scan[c] # NoContext
                /\ notes[c] # NoContext => o.scan[c].sup = notes[c].sup
          /\ o.todo \subseteq Accepted(LinksOf(notes))
    /\ o.at \in {"marking", "indexing"} => o.mark \in Accepted(LinksOf(notes))
    /\ o.at = "reconciling" => \A c \in Linked(notes) : c \in o.todo \/ Mended(notes, c)
    /\ o.at \in {"marking", "indexing"} =>
          \A c \in Linked(notes) : c \in o.todo \/ Mended(notes, c) \/ c = o.mark
    /\ o.at = "indexing" => /\ o.to = notes[o.mark].sup /\ o.copy = notes[o.to]
                            /\ Mended(notes, o.mark)
    /\ o.at = "closing" => \A c \in Linked(notes) : Mended(notes, c)
    /\ o.at \in {"reconciling", "marking", "closing"} =>
          \A c \in Accepted(LinksOf(notes)) : row[c] = notes[c]
    /\ o.at = "indexing" =>
          \A c \in Accepted(LinksOf(notes)) : c # o.to => row[c] = notes[c]

CallFits(o, row, notes) ==
    /\ RowsOfFiles(row, notes) /\ InCall(o, row, notes) /\ InReindex(o, notes)
    /\ Undisturbed(o) => Repairs(o, row, notes)

LinksInv ==
    /\ LinkShapes
    /\ RowsOfFiles(entry, note)
    /\ \A r \in Callers : CallFits(call[r], draft[r], note)
    /\ ReindexReconciles

-----------------------------------------------------------------------------
(* A scan is never empty, and validation is asked about real scans.         *)
LEMMA ScanNotEmpty == Contexts # {} /\ \A scan \in Catalogues : scan # <<>>
<1>1. Contexts # {}
  <2>1. 1 \in DOMAIN ContextOrder
    BY ManifestAssumption
  <2>2. QED
    BY <2>1 DEF Contexts
<1>2. ASSUME NEW scan \in Catalogues, scan = <<>>
      PROVE  FALSE
  <2>1. DOMAIN scan = Contexts
    BY DEF Catalogues
  <2>2. DOMAIN scan = {}
    BY <1>2
  <2>3. QED
    BY <2>1, <2>2, <1>1
<1>3. QED
  BY <1>1, <1>2

LEMMA LinksOfNotes ==
    ASSUME NEW notes \in Catalogues
    PROVE  /\ LinksOf(notes) \in Scans
           /\ Found(LinksOf(notes)) = {c \in Contexts : notes[c] # NoContext}
           /\ \A c \in Contexts : notes[c] # NoContext =>
                  LinksOf(notes)[c] = [sup |-> notes[c].sup, by |-> notes[c].by]
<1>1. ASSUME NEW c \in Contexts
      PROVE  /\ LinksOf(notes)[c] \in Links \cup {NoContext}
             /\ LinksOf(notes)[c] # NoContext <=> notes[c] # NoContext
             /\ notes[c] # NoContext =>
                    LinksOf(notes)[c] = [sup |-> notes[c].sup, by |-> notes[c].by]
  <2>1. CASE notes[c] = NoContext
    BY <2>1 DEF LinksOf
  <2>2. CASE notes[c] # NoContext
    <3>1. notes[c] \in Notes
      BY <2>2 DEF Catalogues
    <3>2. [sup |-> notes[c].sup, by |-> notes[c].by] \in Links
      BY <3>1 DEF Notes, Links
    <3>3. QED
      BY <2>2, <3>2, ManifestAssumption DEF LinksOf
  <2>3. QED
    BY <2>1, <2>2
<1>2. LinksOf(notes) = [c \in Contexts |-> LinksOf(notes)[c]]
  BY DEF LinksOf
<1>3. LinksOf(notes) \in Scans
  BY <1>1, <1>2 DEF Scans
<1>4. QED
  BY <1>1, <1>3 DEF Found

LEMMA AcceptedNotes ==
    ASSUME NEW notes \in Catalogues, NEW c \in Accepted(LinksOf(notes))
    PROVE  /\ c \in Contexts /\ notes[c] # NoContext /\ notes[c] \in Notes
           /\ notes[c].sup # NoContext =>
                  /\ notes[c].sup \in Contexts /\ notes[c].sup \in Accepted(LinksOf(notes))
                  /\ notes[notes[c].sup] \in Notes
                  /\ notes[notes[c].sup].by \in {NoContext, c}
<1>1. /\ LinksOf(notes) \in Scans
      /\ \A d \in Accepted(LinksOf(notes)) :
             d \in Contexts /\ notes[d] # NoContext /\ notes[d] \in Notes
  BY LinksOfNotes, AcceptedIsLargest DEF Catalogues
<1>2. ASSUME notes[c].sup # NoContext
      PROVE  /\ notes[c].sup \in Contexts /\ notes[c].sup \in Accepted(LinksOf(notes))
             /\ notes[notes[c].sup] \in Notes
             /\ notes[notes[c].sup].by \in {NoContext, c}
  <2>0. \A d \in Contexts : notes[d] # NoContext =>
            LinksOf(notes)[d] = [sup |-> notes[d].sup, by |-> notes[d].by]
    BY LinksOfNotes
  <2> DEFINE s == LinksOf(notes)
  <2>4. c \in Contexts /\ notes[c] # NoContext /\ s \in Scans /\ c \in Accepted(s)
    BY <1>1
  <2>5. \A d \in Contexts : notes[d] # NoContext =>
            s[d].sup = notes[d].sup /\ s[d].by = notes[d].by
    <3> SUFFICES ASSUME NEW d \in Contexts, notes[d] # NoContext
                 PROVE  s[d].sup = notes[d].sup /\ s[d].by = notes[d].by
      OBVIOUS
    <3>1. s[d] = [sup |-> notes[d].sup, by |-> notes[d].by]
      BY <2>0
    <3>2. QED
      BY <3>1
  <2>6. \A d \in Accepted(s) : d \in Contexts /\ notes[d] # NoContext
    BY <1>1
  <2> HIDE DEF s
  <2>1. s[c].sup = notes[c].sup
    BY <2>4, <2>5
  <2>2. notes[c].sup \in Accepted(s) /\ s[notes[c].sup].by \in {NoContext, c}
    BY <2>1, <2>4, <1>2, AcceptedTargets
  <2>3. s[notes[c].sup].by = notes[notes[c].sup].by
    BY <2>2, <2>5, <2>6
  <2>7. QED
    BY <2>2, <2>3, <1>1 DEF s
<1>3. QED
  BY <1>1, <1>2

(* A backlink written where it was missing leaves the accepted Contexts.    *)
LEMMA MarkingNotes ==
    ASSUME NEW notes \in Catalogues, NEW new \in Accepted(LinksOf(notes)),
           NEW old \in Contexts, notes[new].sup = old
    PROVE  LET marked == [notes EXCEPT ![old] = [notes[old] EXCEPT !.by = new,
                                                                  !.status = "superseded"]]
           IN  /\ marked \in Catalogues
               /\ Accepted(LinksOf(marked)) = Accepted(LinksOf(notes))
<1> DEFINE n == [notes[old] EXCEPT !.by = new, !.status = "superseded"]
           marked == [notes EXCEPT ![old] = n]
<1>1. old # NoContext
  BY ManifestAssumption
<1>2. /\ new \in Contexts /\ notes[new] \in Notes /\ notes[new] # NoContext
      /\ notes[old] \in Notes /\ notes[old] # NoContext
  BY <1>1, AcceptedNotes
<1>3. n \in Notes /\ n # NoContext /\ n.sup = notes[old].sup /\ n.by = new
  <2>1. n \in Notes /\ n.sup = notes[old].sup /\ n.by = new
    BY <1>2 DEF Notes
  <2>2. QED
    BY <2>1, LinksAssumption
<1> HIDE DEF n
<1>4. marked \in Catalogues
  BY <1>3 DEF Catalogues
<1>5. marked[old] = n /\ \A c \in Contexts : c # old => marked[c] = notes[c]
  BY DEF Catalogues
<1> HIDE DEF marked
<1> DEFINE s == LinksOf(notes)
           t == LinksOf(marked)
<1>6. s \in Scans /\ t \in Scans
  BY <1>4, LinksOfNotes
<1>7. s[old] = [sup |-> notes[old].sup, by |-> notes[old].by] /\ s[new].sup = old
  <2>1. \A d \in Contexts : notes[d] # NoContext =>
            s[d] = [sup |-> notes[d].sup, by |-> notes[d].by]
    BY LinksOfNotes
  <2>2. s[new] = [sup |-> notes[new].sup, by |-> notes[new].by]
    BY <2>1, <1>2
  <2>3. QED
    BY <2>1, <2>2, <1>2
<1>8. t[old] = [s[old] EXCEPT !.by = new]
  <2>1. t[old] = [sup |-> n.sup, by |-> n.by]
    BY <1>3, <1>4, <1>5, LinksOfNotes
  <2>2. QED
    BY <2>1, <1>3, <1>7
<1>9. \A c \in Contexts : c # old => t[c] = s[c]
  BY <1>5 DEF LinksOf
<1>10. t = [s EXCEPT ![old].by = new]
  <2>1. t = [s EXCEPT ![old] = t[old]]
    BY <1>6, <1>9 DEF Scans
  <2>2. QED
    BY <2>1, <1>8
<1>11. Accepted(t) = Accepted(s)
  <2> HIDE DEF s, t
  <2> SUFFICES new \in Accepted(s)
    BY <1>6, <1>7, <1>10, MarkingKeepsAccepted
  <2> QED
    BY DEF s
<1>12. QED
  BY <1>4, <1>11 DEF marked, n

-----------------------------------------------------------------------------
(* A step that writes no file.                                              *)
LEMMA StepFits ==
    ASSUME NEW r \in Callers, NEW o \in CallRecords, NEW row \in Rows, LinksInv,
           call' = [call EXCEPT ![r] = o], draft' = [draft EXCEPT ![r] = row],
           note' = note, entry' = entry, linkFaults' \in 0..MaxLinkFaults,
           settled' = settled, CallFits(o, row, note)
    PROVE  LinksInv'
<1>1. LinkShapes'
  BY DEF LinksInv, LinkShapes
<1>2. RowsOfFiles(entry', note')
  BY DEF LinksInv
<1>3. ASSUME NEW s \in Callers
      PROVE  CallFits(call'[s], draft'[s], note')
  <2>1. CASE s = r
    <3>1. call'[s] = o /\ draft'[s] = row
      BY <2>1 DEF LinksInv, LinkShapes
    <3>2. QED
      BY <3>1
  <2>2. CASE s # r
    <3>1. call'[s] = call[s] /\ draft'[s] = draft[s]
      BY <2>2 DEF LinksInv, LinkShapes
    <3>2. QED
      BY <3>1 DEF LinksInv
  <2>3. QED
    BY <2>1, <2>2
<1>4. ReindexReconciles'
  BY DEF LinksInv, ReindexReconciles
<1>5. QED
  BY <1>1, <1>2, <1>3, <1>4 DEF LinksInv

(* A file that changes disturbs every reindex but the one that writes it.   *)
LEMMA PatchFits ==
    ASSUME NEW r \in Callers, NEW c \in Contexts, NEW n \in Notes, NEW o \in CallRecords,
           LinksInv,
           call' = [s \in Callers |-> IF s = r THEN o ELSE [call[s] EXCEPT !.alone = FALSE]],
           note' = [note EXCEPT ![c] = n], draft' = draft, entry' = entry,
           linkFaults' = linkFaults, settled' = FALSE,
           CallFits(o, draft[r], [note EXCEPT ![c] = n])
    PROVE  LinksInv'
<1> DEFINE ns == [note EXCEPT ![c] = n]
<1>1. ns \in Catalogues /\ \A d \in Contexts : note[d] # NoContext => ns[d] # NoContext
  BY LinksAssumption DEF LinksInv, LinkShapes, Catalogues
<1>2. note' = ns
  OBVIOUS
<1> HIDE DEF ns
<1>3. ASSUME NEW s \in Callers
      PROVE  /\ [call[s] EXCEPT !.alone = FALSE] \in CallRecords
             /\ CallFits([call[s] EXCEPT !.alone = FALSE], draft[s], ns)
  <2>1. PICK q \in CallRecords : q = call[s]
    BY DEF LinksInv, LinkShapes
  <2>2. PICK p : p = [q EXCEPT !.alone = FALSE]
    OBVIOUS
  <2>3. /\ p \in CallRecords
        /\ p.at = q.at /\ p.kind = q.kind /\ p.old = q.old /\ p.new = q.new /\ p.to = q.to
        /\ p.next = q.next /\ p.scan = q.scan /\ p.todo = q.todo /\ p.mark = q.mark
        /\ p.back = q.back /\ p.alone = FALSE
    BY <2>2 DEF CallRecords
  <2>4. CallFits(q, draft[s], note)
    BY <2>1 DEF LinksInv
  <2>5. RowsOfFiles(draft[s], ns)
    BY <2>4, <1>1 DEF CallFits, RowsOfFiles
  <2>6. InCall(p, draft[s], ns)
    <3>1. InCall(q, draft[s], note)
      BY <2>4 DEF CallFits
    <3>2. q.at = "archiving" => q.old \in Contexts
      BY <3>1 DEF InCall
    <3>3. QED
      BY <3>1, <3>2, <2>3, <1>1 DEF InCall
  <2>7. InReindex(p, ns)
    BY <2>4, <2>3, <1>1 DEF CallFits, InReindex, LinkFound
  <2>8. QED
    BY <2>1, <2>2, <2>3, <2>5, <2>6, <2>7 DEF CallFits, Undisturbed
<1>4. LinkShapes'
  <2>1. call' \in [Callers -> CallRecords]
    BY <1>3
  <2>2. QED
    BY <2>1, <1>1, <1>2 DEF LinksInv, LinkShapes
<1>5. RowsOfFiles(entry', note')
  BY <1>1, <1>2 DEF LinksInv, RowsOfFiles
<1>6. ASSUME NEW s \in Callers
      PROVE  CallFits(call'[s], draft'[s], note')
  <2>1. CASE s = r
    <3>1. call'[s] = o
      BY <2>1
    <3>2. QED
      BY <3>1, <2>1 DEF ns
  <2>2. CASE s # r
    <3>1. call'[s] = [call[s] EXCEPT !.alone = FALSE]
      BY <2>2
    <3>2. QED
      BY <3>1, <1>2, <1>3
  <2>3. QED
    BY <2>1, <2>2
<1>7. ReindexReconciles'
  BY DEF ReindexReconciles
<1>8. QED
  BY <1>4, <1>5, <1>6, <1>7 DEF LinksInv

(* A step that writes neither a file nor a row.                             *)
LEMMA CallStepFits ==
    ASSUME NEW r \in Callers, NEW o \in CallRecords, LinksInv,
           call' = [call EXCEPT ![r] = o], draft' = draft, note' = note, entry' = entry,
           linkFaults' \in 0..MaxLinkFaults, settled' = settled,
           CallFits(o, draft[r], note)
    PROVE  LinksInv'
<1>1. PICK row \in Rows : row = draft[r]
  BY DEF LinksInv, LinkShapes
<1>2. draft' = [draft EXCEPT ![r] = row]
  BY <1>1 DEF LinksInv, LinkShapes
<1>3. CallFits(o, row, note)
  BY <1>1
<1>4. QED
  BY <1>1, <1>2, <1>3, StepFits

LEMMA CallsFit ==
    ASSUME NEW r \in Callers, LinksInv
    PROVE  /\ call[r] \in CallRecords /\ draft[r] \in Rows /\ CallFits(call[r], draft[r], note)
           /\ note \in Catalogues /\ entry \in Catalogues /\ linkFaults \in 0..MaxLinkFaults
BY DEF LinksInv, LinkShapes

LEMMA FreshRecord ==
    Plain \in Notes /\ Plain # NoContext /\ Fresh \in CallRecords
<1>1. Plain \in Notes
  BY DEF Plain, Notes
<1>2. QED
  BY <1>1, LinksAssumption DEF Fresh, CallRecords, MaybeContext

LEMMA GivesUpFits ==
    ASSUME NEW r \in Callers, LinksInv, Live(r), GivesUp(r),
           draft' = draft, note' = note, entry' = entry,
           linkFaults' \in 0..MaxLinkFaults, settled' = settled
    PROVE  LinksInv'
<1>1. PICK q \in CallRecords : q = call[r]
  BY CallsFit
<1>2. PICK o : o = [q EXCEPT !.at = "undoing", !.scan = <<>>]
  OBVIOUS
<1>3. /\ o \in CallRecords /\ o.at = "undoing" /\ o.scan = <<>>
      /\ o.kind = q.kind /\ o.old = q.old /\ o.new = q.new /\ o.back = q.back
  BY <1>2 DEF CallRecords
<1>4. call' = [call EXCEPT ![r] = o]
  BY <1>1, <1>2 DEF GivesUp, LinksInv, LinkShapes
<1>5. CallFits(q, draft[r], note) /\ q.at \notin {"idle", "over"}
  BY <1>1, CallsFit DEF Live, Over, At
<1>6. CallFits(o, draft[r], note)
  BY <1>3, <1>5 DEF CallFits, InCall, InReindex, Repairs
<1>7. QED
  BY <1>3, <1>4, <1>6, CallStepFits

(* An error row is written, and the reindex goes on.                        *)
LEMMA QuarantineFits ==
    ASSUME NEW r \in Callers, NEW cs, LinksInv, call[r].at \in {"marking", "indexing"},
           Reindexing(r), Quarantine(r, cs), note' = note, entry' = entry,
           linkFaults' \in 0..MaxLinkFaults, settled' = settled
    PROVE  LinksInv'
<1>1. PICK q \in CallRecords : q = call[r]
  BY CallsFit
<1>2. PICK row \in Rows : row = [c \in Contexts |-> IF c \in cs THEN NoContext ELSE draft[r][c]]
  <2>1. draft[r] \in Rows
    BY CallsFit
  <2>2. QED
    BY <2>1 DEF Rows
<1>3. PICK o : o = [q EXCEPT !.at = "reconciling", !.alone = FALSE]
  OBVIOUS
<1>4. /\ o \in CallRecords /\ o.at = "reconciling" /\ o.scan = q.scan /\ o.alone = FALSE
      /\ o.kind = q.kind /\ o.old = q.old /\ o.new = q.new /\ o.back = q.back
      /\ o.todo = q.todo
  BY <1>3 DEF CallRecords
<1>5. call' = [call EXCEPT ![r] = o] /\ draft' = [draft EXCEPT ![r] = row]
  BY <1>1, <1>2, <1>3 DEF Quarantine, LinksInv, LinkShapes
<1>6. CallFits(q, draft[r], note) /\ q.scan # <<>> /\ q.at \in {"marking", "indexing"}
  BY <1>1, CallsFit DEF Reindexing
<1>7. RowsOfFiles(row, note)
  BY <1>2, <1>6 DEF CallFits, RowsOfFiles
<1>8. InCall(o, row, note) /\ InReindex(o, note)
  BY <1>4, <1>6 DEF CallFits, InCall, InReindex, LinkFound
<1>9. CallFits(o, row, note)
  BY <1>4, <1>7, <1>8 DEF CallFits, Undisturbed
<1>10. QED
  BY <1>4, <1>5, <1>9, StepFits

(* A request that is over holds nothing.                                    *)
LEMMA EndsFits ==
    ASSUME NEW r \in Callers, LinksInv, Ends(r)
    PROVE  \E o \in CallRecords, row \in Rows :
               /\ call' = [call EXCEPT ![r] = o] /\ draft' = [draft EXCEPT ![r] = row]
               /\ CallFits(o, row, note)
<1>1. PICK q \in CallRecords : q = call[r]
  BY CallsFit
<1>2. PICK o : o = [Fresh EXCEPT !.at = "over", !.kind = q.kind]
  OBVIOUS
<1>3. /\ o \in CallRecords /\ o.at = "over" /\ o.scan = <<>> /\ o.alone = FALSE
      /\ o.back = "closing"
  BY <1>2, FreshRecord DEF CallRecords, Fresh
<1>4. PICK row \in Rows : row = [c \in Contexts |-> Unwritten]
  BY DEF Rows
<1>5. call' = [call EXCEPT ![r] = o] /\ draft' = [draft EXCEPT ![r] = row]
  BY <1>1, <1>2, <1>4 DEF Ends
<1>6. CallFits(o, row, note)
  BY <1>3, <1>4 DEF CallFits, RowsOfFiles, InCall, InReindex, Undisturbed
<1>7. QED
  BY <1>3, <1>5, <1>6

-----------------------------------------------------------------------------
LEMMA AskKeeps ==
    ASSUME NEW r \in Callers, LinksInv, Ask(r)
    PROVE  LinksInv'
<1>0. PICK kind \in CallsOf[r], old, new \in Contexts \cup {NoContext} :
          /\ old = new => old = NoContext
          /\ kind \in {"archive", "supersede"} => old # NoContext
          /\ kind \in {"save", "supersede"} <=> new # NoContext
          /\ call' = [call EXCEPT ![r] = [Fresh EXCEPT
                 !.kind = kind, !.old = old, !.new = new, !.at = Opening(kind)]]
  BY Zenon DEF Ask
<1>2. kind \in {"save", "archive", "supersede", "reindex"}
  BY LinksAssumption
<1>3. PICK at : at = Opening(kind)
  OBVIOUS
<1>4. /\ at \in {"saving", "scanning", "reading"}
      /\ at = "saving" => kind = "save"
      /\ at = "reading" => kind \in {"archive", "supersede"}
  BY <1>2, <1>3 DEF Opening
<1>1. PICK o : /\ o = [Fresh EXCEPT !.kind = kind, !.old = old, !.new = new, !.at = at]
               /\ call' = [call EXCEPT ![r] = o]
  BY <1>0, <1>3
<1>5. /\ o \in CallRecords /\ o.at = at /\ o.kind = kind /\ o.old = old /\ o.new = new
      /\ o.scan = <<>> /\ o.back = "closing" /\ o.alone = FALSE
  BY <1>1, <1>2, <1>4, FreshRecord DEF CallRecords, Fresh, MaybeContext
<1>6. CallFits(call[r], draft[r], note)
  BY CallsFit
<1>7. InCall(o, draft[r], note)
  <2>1. old \in Contexts <=> old # NoContext
    BY ManifestAssumption
  <2>2. new \in Contexts <=> new # NoContext
    BY ManifestAssumption
  <2>3. kind \in {"save", "supersede"} => old # new
    BY <1>0, <2>2
  <2>4. QED
    BY <1>0, <1>4, <1>5, <2>1, <2>2, <2>3 DEF InCall
<1>8. CallFits(o, draft[r], note)
  BY <1>4, <1>5, <1>6, <1>7 DEF CallFits, InReindex, Undisturbed
<1>9. linkFaults' \in 0..MaxLinkFaults
  BY CallsFit DEF Ask
<1>10. QED
  BY <1>1, <1>5, <1>8, <1>9, CallStepFits DEF Ask

(* A note that the index lacks sends the request to a reindex, or home.     *)
LEMMA SearchFirstFits ==
    ASSUME NEW r \in Callers, NEW c, LinksInv, call[r].at \in {"reading", "linking"},
           SearchFirst(r, c), UNCHANGED <<note, entry, draft, linkFaults, settled>>
    PROVE  LinksInv'
<1>1. CASE GivesUp(r)
  <2>1. Live(r)
    BY DEF Live, Over, At
  <2>2. linkFaults' \in 0..MaxLinkFaults
    BY CallsFit
  <2>3. QED
    BY <1>1, <2>1, <2>2, GivesUpFits
<1>2. CASE call' = [call EXCEPT ![r].at = "scanning", ![r].tried = TRUE,
                                ![r].back = call[r].at]
  <2>1. PICK q \in CallRecords : q = call[r]
    BY CallsFit
  <2>2. PICK o : o = [q EXCEPT !.at = "scanning", !.tried = TRUE, !.back = q.at]
    OBVIOUS
  <2>3. CallFits(q, draft[r], note) /\ q.at \in {"reading", "linking"}
    BY <2>1, CallsFit
  <2>4. /\ o \in CallRecords /\ o.at = "scanning" /\ o.back = q.at /\ o.scan = q.scan
        /\ o.kind = q.kind /\ o.old = q.old /\ o.new = q.new
    BY <2>2, <2>3 DEF CallRecords
  <2>5. call' = [call EXCEPT ![r] = o]
    BY <1>2, <2>1, <2>2 DEF LinksInv, LinkShapes
  <2>6. CallFits(o, draft[r], note)
    BY <2>3, <2>4 DEF CallFits, InCall, InReindex, Repairs
  <2>7. linkFaults' \in 0..MaxLinkFaults
    BY CallsFit
  <2>8. QED
    BY <2>4, <2>5, <2>6, <2>7, CallStepFits
<1>3. QED
  BY <1>1, <1>2 DEF SearchFirst

LEMMA ReadOldKeeps ==
    ASSUME NEW r \in Callers, LinksInv, ReadOld(r)
    PROVE  LinksInv'
<1>1. call[r].at = "reading" /\ UNCHANGED <<note, entry, draft, linkFaults, settled>>
  BY DEF ReadOld, At
<1>2. CASE SearchFirst(r, call[r].old)
  <2>1. PICK c : c = call[r].old
    OBVIOUS
  <2>2. SearchFirst(r, c)
    BY <1>2, <2>1
  <2>3. QED
    BY <1>1, <2>2, SearchFirstFits
<1>3. CASE /\ ~Absent(r, call[r].old)
           /\ call' = [call EXCEPT ![r].seen = note[call[r].old], ![r].tried = FALSE,
                  ![r].at = IF call[r].kind = "archive" THEN "archiving" ELSE "linking"]
  <2>1. PICK q \in CallRecords : q = call[r]
    BY CallsFit
  <2>2. CallFits(q, draft[r], note) /\ q.at = "reading"
    BY <1>1, <2>1, CallsFit
  <2>3. q.old \in Contexts /\ q.kind \in {"archive", "supersede"} /\ q.scan = <<>>
    BY <2>2 DEF CallFits, InCall, InReindex
  <2>4. PICK seen \in Notes : seen = note[q.old] /\ seen # NoContext
    BY <1>3, <2>1, <2>3, CallsFit DEF Absent, Catalogues
  <2>5. PICK at : at = IF q.kind = "archive" THEN "archiving" ELSE "linking"
    OBVIOUS
  <2>6. /\ at \in {"archiving", "linking"}
        /\ at = "archiving" => q.kind = "archive"
        /\ at = "linking" => q.kind = "supersede"
    BY <2>3, <2>5
  <2>7. PICK o : o = [q EXCEPT !.seen = seen, !.tried = FALSE, !.at = at]
    OBVIOUS
  <2>8. /\ o \in CallRecords /\ o.at = at /\ o.back = q.back /\ o.scan = q.scan
        /\ o.kind = q.kind /\ o.old = q.old /\ o.new = q.new
    BY <2>6, <2>7 DEF CallRecords
  <2>9. call' = [call EXCEPT ![r] = o]
    BY <1>3, <2>1, <2>4, <2>5, <2>7 DEF LinksInv, LinkShapes
  <2>10. CallFits(o, draft[r], note)
    BY <2>2, <2>3, <2>4, <2>6, <2>8 DEF CallFits, InCall, InReindex, Undisturbed
  <2>11. linkFaults' \in 0..MaxLinkFaults
    BY <1>1, CallsFit
  <2>12. QED
    BY <1>1, <2>8, <2>9, <2>10, <2>11, CallStepFits
<1>4. QED
  BY <1>2, <1>3 DEF ReadOld

(* What a request that patches a file is in next, when it is no reindex's   *)
(* turn that the patch is part of.                                          *)
LEMMA PatchOfRequest ==
    ASSUME NEW r \in Callers, NEW c \in Contexts, NEW n \in Notes,
           NEW next \in {"closing", "marking"}, LinksInv, Live(r),
           Patch(r, c, n, next), UNCHANGED <<entry, draft, linkFaults>>,
           ~Reindexing(r), call[r].kind # "reindex",
           next = "marking" => /\ call[r].kind \in {"save", "supersede"}
                               /\ call[r].old \in Contexts /\ call[r].new \in Contexts
    PROVE  LinksInv'
<1>1. PICK q \in CallRecords : q = call[r]
  BY CallsFit
<1>2. PICK o : o = [q EXCEPT !.at = "indexing", !.next = next, !.to = c, !.copy = n]
  OBVIOUS
<1>3. /\ o \in CallRecords /\ o.at = "indexing" /\ o.next = next /\ o.to = c
      /\ o.kind = q.kind /\ o.old = q.old /\ o.new = q.new /\ o.back = q.back
      /\ o.scan = q.scan
  BY <1>2 DEF CallRecords, MaybeContext
<1>4. /\ CallFits(q, draft[r], note) /\ q.at \notin {"idle", "over"} /\ q.scan = <<>>
      /\ q.kind # "reindex"
      /\ next = "marking" => /\ q.kind \in {"save", "supersede"}
                             /\ q.old \in Contexts /\ q.new \in Contexts
  BY <1>1, CallsFit DEF Live, Over, At, Reindexing
<1>5. call' = [s \in Callers |-> IF s = r THEN o ELSE [call[s] EXCEPT !.alone = FALSE]]
  BY <1>1, <1>2 DEF Patch
<1> DEFINE ns == [note EXCEPT ![c] = n]
<1>6. \A d \in Contexts : note[d] # NoContext => ns[d] # NoContext
  BY CallsFit, LinksAssumption DEF Catalogues
<1>7. ns[c] # NoContext
  BY CallsFit, LinksAssumption DEF Catalogues
<1> HIDE DEF ns
<1>8. RowsOfFiles(draft[r], ns)
  BY <1>4, <1>6 DEF CallFits, RowsOfFiles
<1>9. InCall(o, draft[r], ns)
  BY <1>3, <1>4, <1>7 DEF CallFits, InCall
<1>10. InReindex(o, ns)
  BY <1>3, <1>4 DEF InReindex
<1>11. CallFits(o, draft[r], [note EXCEPT ![c] = n])
  BY <1>3, <1>4, <1>8, <1>9, <1>10 DEF CallFits, Undisturbed, ns
<1>12. /\ note' = [note EXCEPT ![c] = n] /\ draft' = draft /\ entry' = entry
       /\ linkFaults' = linkFaults /\ settled' = FALSE
  BY DEF Patch
<1>13. QED
  BY <1>3, <1>5, <1>11, <1>12, PatchFits

LEMMA ArchiveKeeps ==
    ASSUME NEW r \in Callers, LinksInv, Archive(r)
    PROVE  LinksInv'
<1>1. PICK q \in CallRecords : q = call[r]
  BY CallsFit
<1>2. CallFits(q, draft[r], note) /\ q.at = "archiving"
  BY <1>1, CallsFit DEF Archive, At
<1>3. q.kind = "archive" /\ q.old \in Contexts /\ note[q.old] # NoContext /\ q.scan = <<>>
  BY <1>2 DEF CallFits, InCall, InReindex
<1>4. PICK c \in Contexts : c = q.old
  BY <1>3
<1>5. PICK n : n = [note[c] EXCEPT !.status = "archived"]
  OBVIOUS
<1>6. n \in Notes
  BY <1>3, <1>4, <1>5, CallsFit DEF Catalogues, Notes
<1>7. Patch(r, c, n, "closing")
  BY <1>1, <1>4, <1>5 DEF Archive
<1>8. Live(r) /\ ~Reindexing(r) /\ call[r].kind # "reindex"
  BY <1>1, <1>2, <1>3 DEF Live, Over, At, Reindexing
<1>9. UNCHANGED <<entry, draft, linkFaults>>
  BY DEF Archive
<1>10. QED
  BY <1>6, <1>7, <1>8, <1>9, PatchOfRequest

LEMMA LinkForwardKeeps ==
    ASSUME NEW r \in Callers, LinksInv, LinkForward(r)
    PROVE  LinksInv'
<1>1. PICK q \in CallRecords : q = call[r]
  BY CallsFit
<1>2. CallFits(q, draft[r], note) /\ q.at = "linking"
  BY <1>1, CallsFit DEF LinkForward, At
<1>3. /\ q.kind = "supersede" /\ q.old \in Contexts /\ q.new \in Contexts /\ q.old # q.new
      /\ q.scan = <<>>
  BY <1>2 DEF CallFits, InCall, InReindex
<1>4. PICK new \in Contexts, old \in Contexts : new = q.new /\ old = q.old
  BY <1>3
<1>5. Live(r) /\ ~Reindexing(r) /\ call[r].kind # "reindex" /\ call[r].at = "linking"
  BY <1>1, <1>2, <1>3 DEF Live, Over, At, Reindexing
<1>6. UNCHANGED <<entry, draft, linkFaults>> /\ linkFaults' \in 0..MaxLinkFaults
  BY CallsFit DEF LinkForward
<1>7. \/ SearchFirst(r, new) /\ UNCHANGED <<note, settled>>
      \/ GivesUp(r) /\ UNCHANGED <<note, settled>>
      \/ /\ Goes(r, IF q.seen.by = new /\ q.seen.status = "superseded"
                    THEN "closing" ELSE "marking")
         /\ UNCHANGED <<note, settled>>
      \/ /\ ~Absent(r, new)
         /\ Patch(r, new, [note[new] EXCEPT !.sup = old,
                !.status = IF note[new].by = NoContext THEN "current" ELSE @], "marking")
  BY <1>1, <1>4 DEF LinkForward
<1>8. CASE SearchFirst(r, new) /\ UNCHANGED <<note, settled>>
  BY <1>5, <1>6, <1>8, SearchFirstFits
<1>9. CASE GivesUp(r) /\ UNCHANGED <<note, settled>>
  BY <1>5, <1>6, <1>9, GivesUpFits
<1>10. CASE /\ Goes(r, IF q.seen.by = new /\ q.seen.status = "superseded"
                       THEN "closing" ELSE "marking")
            /\ UNCHANGED <<note, settled>>
  <2>1. PICK at : at = IF q.seen.by = new /\ q.seen.status = "superseded"
                       THEN "closing" ELSE "marking"
    OBVIOUS
  <2>2. at \in {"closing", "marking"}
    BY <2>1
  <2>3. PICK o : o = [q EXCEPT !.at = at]
    OBVIOUS
  <2>4. /\ o \in CallRecords /\ o.at = at /\ o.kind = q.kind /\ o.old = q.old
        /\ o.new = q.new /\ o.back = q.back /\ o.scan = q.scan
    BY <2>2, <2>3 DEF CallRecords
  <2>5. call' = [call EXCEPT ![r] = o]
    BY <1>1, <1>10, <2>1, <2>3 DEF Goes, LinksInv, LinkShapes
  <2>6. CallFits(o, draft[r], note)
    BY <1>2, <1>3, <2>2, <2>4 DEF CallFits, InCall, InReindex, Undisturbed
  <2>7. QED
    BY <1>6, <1>10, <2>4, <2>5, <2>6, CallStepFits
<1>11. CASE /\ ~Absent(r, new)
            /\ Patch(r, new, [note[new] EXCEPT !.sup = old,
                   !.status = IF note[new].by = NoContext THEN "current" ELSE @], "marking")
  <2>1. PICK m \in Notes : m = note[new]
    BY <1>11, CallsFit DEF Absent, Catalogues
  <2>2. PICK status : status = IF m.by = NoContext THEN "current" ELSE m.status
    OBVIOUS
  <2>3. PICK n : n = [m EXCEPT !.sup = old, !.status = status]
    OBVIOUS
  <2>4. n \in Notes
    BY <2>2, <2>3 DEF Notes
  <2>5. Patch(r, new, n, "marking")
    BY <1>11, <2>1, <2>2, <2>3
  <2>6. QED
    BY <1>1, <1>3, <1>5, <1>6, <2>4, <2>5, PatchOfRequest
<1>12. QED
  BY <1>7, <1>8, <1>9, <1>10, <1>11

LEMMA SaveFits ==
    ASSUME NEW r \in Callers, LinksInv, Save(r)
    PROVE  LinksInv'
<1>1. PICK q \in CallRecords : q = call[r]
  BY CallsFit
<1>2. CallFits(q, draft[r], note) /\ q.at = "saving"
  BY <1>1, CallsFit DEF Save, At
<1>3. q.kind = "save" /\ q.new \in Contexts /\ q.scan = <<>> /\ q.old \in MaybeContext
  BY <1>2 DEF CallFits, InCall, InReindex, CallRecords
<1>4. Live(r) /\ ~Reindexing(r) /\ call[r].kind # "reindex"
  BY <1>1, <1>2, <1>3 DEF Live, Over, At, Reindexing
<1>5. UNCHANGED <<entry, draft, linkFaults>> /\ linkFaults' \in 0..MaxLinkFaults
  BY CallsFit DEF Save
<1>6. PICK by \in MaybeContext :
          \/ GivesUp(r) /\ UNCHANGED <<note, settled>>
          \/ Patch(r, q.new,
                [sup |-> q.old, by |-> by,
                 status |-> IF by = NoContext THEN "active" ELSE "superseded"],
                IF q.old = NoContext THEN "closing" ELSE "marking")
  BY <1>1, Zenon DEF Save, MaybeContext
<1>7. CASE GivesUp(r) /\ UNCHANGED <<note, settled>>
  BY <1>4, <1>5, <1>7, GivesUpFits
<1>8. CASE Patch(r, q.new,
                [sup |-> q.old, by |-> by,
                 status |-> IF by = NoContext THEN "active" ELSE "superseded"],
                IF q.old = NoContext THEN "closing" ELSE "marking")
  <2>1. PICK status : status = IF by = NoContext THEN "active" ELSE "superseded"
    OBVIOUS
  <2>2. PICK n : n = [sup |-> q.old, by |-> by, status |-> status]
    OBVIOUS
  <2>3. n \in Notes
    BY <1>3, <2>1, <2>2 DEF Notes, MaybeContext
  <2>4. PICK next : next = IF q.old = NoContext THEN "closing" ELSE "marking"
    OBVIOUS
  <2>5. next \in {"closing", "marking"} /\ (next = "marking" => q.old \in Contexts)
    BY <1>3, <2>4 DEF MaybeContext
  <2>6. PICK new \in Contexts : new = q.new
    BY <1>3
  <2>7. Patch(r, new, n, next)
    BY <1>8, <2>1, <2>2, <2>4, <2>6
  <2>8. QED
    BY <1>1, <1>3, <1>4, <1>5, <2>3, <2>5, <2>7, PatchOfRequest
<1>9. QED
  BY <1>6, <1>7, <1>8

(* The pair a backlink is written for.                                      *)
LEMMA MarkingPair ==
    ASSUME NEW r \in Callers, LinksInv, At(r, "marking") \/ At(r, "indexing"),
           Reindexing(r) \/ At(r, "marking")
    PROVE  Target(r) \in Contexts /\ Replacement(r) \in Contexts
<1>1. PICK q \in CallRecords : q = call[r]
  BY CallsFit
<1>2. CallFits(q, draft[r], note) /\ q.at \in {"marking", "indexing"}
  BY <1>1, CallsFit DEF At
<1>3. CASE q.scan = <<>>
  <2>1. q.at = "marking"
    BY <1>1, <1>2, <1>3 DEF At, Reindexing
  <2>2. q.old \in Contexts /\ q.new \in Contexts
    BY <1>2, <1>3, <2>1 DEF CallFits, InCall
  <2>3. QED
    BY <1>1, <1>3, <2>2 DEF Target, Replacement, Reindexing
<1>4. CASE q.scan # <<>>
  <2>1. LinkFound(q, q.mark)
    BY <1>2, <1>4 DEF CallFits, InReindex
  <2>2. QED
    BY <1>1, <1>4, <2>1 DEF Target, Replacement, Reindexing, LinkFound
<1>5. QED
  BY <1>3, <1>4

(* Where an undisturbed reindex is: its pair is an accepted link, and the   *)
(* rows it decides by are the files.                                        *)
LEMMA RepairingPair ==
    ASSUME NEW q \in CallRecords, NEW row \in Rows, NEW notes \in Catalogues,
           CallFits(q, row, notes), Undisturbed(q), q.at \in {"marking", "indexing"}
    PROVE  /\ q.scan # <<>> /\ q.mark \in Accepted(LinksOf(notes)) /\ q.mark \in Contexts
           /\ q.scan[q.mark].sup = notes[q.mark].sup /\ notes[q.mark].sup \in Contexts
           /\ notes[q.mark].sup \in Accepted(LinksOf(notes))
           /\ notes[q.mark].sup # NoContext
           /\ notes[notes[q.mark].sup] \in Notes
           /\ notes[notes[q.mark].sup].by \in {NoContext, q.mark}
           /\ q.at = "marking" => row[notes[q.mark].sup] = notes[notes[q.mark].sup]
<1>1. q.scan # <<>> /\ Repairs(q, row, notes)
  BY DEF CallFits, InCall, Undisturbed
<1>2. q.mark \in Accepted(LinksOf(notes)) /\ LinkFound(q, q.mark)
  BY <1>1 DEF Repairs, CallFits, InReindex
<1>3. q.mark \in Contexts /\ notes[q.mark] # NoContext
  BY <1>2, AcceptedNotes
<1>4. q.scan[q.mark].sup = notes[q.mark].sup
  BY <1>1, <1>3 DEF Repairs
<1>5. notes[q.mark].sup \in Contexts /\ notes[q.mark].sup # NoContext
  BY <1>2, <1>4, ManifestAssumption DEF LinkFound
<1>6. /\ notes[q.mark].sup \in Accepted(LinksOf(notes))
      /\ notes[notes[q.mark].sup] \in Notes
      /\ notes[notes[q.mark].sup].by \in {NoContext, q.mark}
  BY <1>2, <1>5, AcceptedNotes
<1>7. q.at = "marking" => row[notes[q.mark].sup] = notes[notes[q.mark].sup]
  BY <1>1, <1>6 DEF Repairs
<1>8. QED
  BY <1>1, <1>2, <1>3, <1>4, <1>5, <1>6, <1>7

(* A link whose backlink is there needs no more work.                       *)
LEMMA MarkedKeeps ==
    ASSUME NEW r \in Callers, LinksInv, At(r, "marking"), Goes(r, Following(r)),
           Marked(Row(r, Target(r)), Replacement(r)),
           UNCHANGED <<note, entry, draft, linkFaults, settled>>
    PROVE  LinksInv'
<1>1. PICK q \in CallRecords : q = call[r]
  BY CallsFit
<1>2. PICK row \in Rows : row = draft[r]
  BY CallsFit
<1>3. CallFits(q, row, note) /\ q.at = "marking" /\ note \in Catalogues
  BY <1>1, <1>2, CallsFit DEF At
<1>4. PICK at : at = IF q.scan # <<>> THEN "reconciling" ELSE "closing"
  OBVIOUS
<1>5. PICK o : o = [q EXCEPT !.at = at]
  OBVIOUS
<1>6. /\ at \in {"reconciling", "closing"} /\ (q.scan # <<>> <=> at = "reconciling")
      /\ o \in CallRecords /\ o.at = at /\ o.kind = q.kind /\ o.old = q.old
      /\ o.new = q.new /\ o.back = q.back /\ o.scan = q.scan /\ o.todo = q.todo
      /\ o.alone = q.alone
  BY <1>4, <1>5 DEF CallRecords
<1>7. call' = [call EXCEPT ![r] = o]
  BY <1>1, <1>4, <1>5 DEF Goes, Following, Reindexing, LinksInv, LinkShapes
<1>8. InCall(o, row, note) /\ InReindex(o, note)
  BY <1>3, <1>6 DEF CallFits, InCall, InReindex, LinkFound
<1>9. ASSUME Undisturbed(q)
      PROVE  Repairs(o, row, note)
  <2>1. Repairs(q, row, note)
    BY <1>3, <1>9 DEF CallFits
  <2>2. /\ q.scan # <<>> /\ q.scan[q.mark].sup = note[q.mark].sup
        /\ row[note[q.mark].sup] = note[note[q.mark].sup]
        /\ note[note[q.mark].sup] \in Notes /\ note[q.mark].sup \in Contexts
    BY <1>3, <1>9, RepairingPair
  <2>3. Row(r, note[q.mark].sup) = note[note[q.mark].sup]
    BY <1>2, <2>2, LinksAssumption DEF Row
  <2>4. Mended(note, q.mark)
    BY <1>1, <2>2, <2>3 DEF Marked, Target, Replacement, Reindexing, Mended
  <2>5. QED
    BY <1>3, <1>6, <2>1, <2>2, <2>4 DEF Repairs
<1>10. CallFits(o, row, note)
  BY <1>3, <1>6, <1>8, <1>9 DEF CallFits, Undisturbed
<1>11. linkFaults' \in 0..MaxLinkFaults
  BY CallsFit
<1>12. QED
  BY <1>2, <1>6, <1>7, <1>10, <1>11, CallStepFits

(* A reindex writes a backlink.                                             *)
LEMMA ReindexMarks ==
    ASSUME NEW r \in Callers, NEW old \in Contexts, NEW new \in Contexts,
           LinksInv, At(r, "marking"), Reindexing(r),
           old = Target(r), new = Replacement(r), note[old] \in Notes,
           Patch(r, old, [note[old] EXCEPT !.by = new, !.status = "superseded"],
                 "reconciling"),
           UNCHANGED <<entry, draft, linkFaults>>
    PROVE  LinksInv'
<1>1. PICK q \in CallRecords : q = call[r]
  BY CallsFit
<1>2. PICK row \in Rows : row = draft[r]
  BY CallsFit
<1>3. CallFits(q, row, note) /\ q.at = "marking" /\ note \in Catalogues /\ q.scan # <<>>
  BY <1>1, <1>2, CallsFit DEF At, Reindexing
<1>4. old = q.scan[q.mark].sup /\ new = q.mark
  BY <1>1, <1>3 DEF Target, Replacement, Reindexing
<1>5. PICK n : n = [note[old] EXCEPT !.by = new, !.status = "superseded"]
  OBVIOUS
<1>6. n \in Notes /\ n.sup = note[old].sup /\ n.by = new /\ n.status = "superseded"
      /\ n # NoContext
  BY <1>5, LinksAssumption DEF Notes
<1>7. PICK ms \in Catalogues : ms = [note EXCEPT ![old] = n]
  BY <1>3, <1>6 DEF Catalogues
<1>8. /\ ms[old] = n /\ \A c \in Contexts : c # old => ms[c] = note[c]
      /\ \A c \in Contexts : note[c] # NoContext => ms[c] # NoContext
      /\ \A c \in Contexts : (ms[c] # NoContext) <=> (note[c] # NoContext)
      /\ \A c \in Contexts : ms[c] # NoContext => ms[c].sup = note[c].sup
  BY <1>3, <1>6, <1>7, LinksAssumption DEF Catalogues
<1>9. PICK o : o = [q EXCEPT !.at = "indexing", !.next = "reconciling", !.to = old, !.copy = n]
  OBVIOUS
<1>10. /\ o \in CallRecords /\ o.at = "indexing" /\ o.next = "reconciling" /\ o.to = old
       /\ o.copy = n /\ o.kind = q.kind /\ o.old = q.old /\ o.new = q.new
       /\ o.back = q.back /\ o.scan = q.scan /\ o.todo = q.todo /\ o.mark = q.mark
       /\ o.alone = q.alone
  BY <1>6, <1>9 DEF CallRecords, MaybeContext
<1>11. RowsOfFiles(row, ms)
  BY <1>3, <1>8 DEF CallFits, RowsOfFiles
<1>12. InCall(o, row, ms)
  BY <1>3, <1>6, <1>8, <1>10 DEF CallFits, InCall
<1>13. InReindex(o, ms)
  BY <1>3, <1>8, <1>10 DEF CallFits, InReindex, LinkFound
<1>14. ASSUME Undisturbed(q)
       PROVE  Repairs(o, row, ms)
  <2>1. Repairs(q, row, note)
    BY <1>3, <1>14 DEF CallFits
  <2>2. /\ new \in Accepted(LinksOf(note)) /\ note[new].sup = old
        /\ note[old].by \in {NoContext, new} /\ note[new].sup # NoContext
        /\ \A c \in Contexts : note[c] = NoContext \/ note[c] \in Notes
    BY <1>3, <1>4, <1>14, RepairingPair DEF Catalogues
  <2>3. Accepted(LinksOf(ms)) = Accepted(LinksOf(note))
    BY <1>3, <1>5, <1>7, <2>2, MarkingNotes
  <2>4. \A c \in Accepted(LinksOf(note)) : c \in Contexts /\ note[c] # NoContext
    BY <1>3, AcceptedNotes
  <2>5. Linked(ms) = Linked(note)
    BY <1>8, <2>3, <2>4 DEF Linked
  <2>6. \A c \in Linked(note) : note[c].sup \in Contexts
    BY <1>3, AcceptedNotes DEF Linked
  <2>7. Mended(ms, new)
    BY <1>6, <1>8, <2>2, <2>4 DEF Mended
  <2>8. ASSUME NEW c \in Linked(note), Mended(note, c)
        PROVE  c = new \/ Mended(ms, c)
    <3>1. CASE note[c].sup = old
      <4>1. note[old].by = c /\ c # NoContext
        BY <2>8, <3>1, <2>4, ManifestAssumption DEF Mended, Linked
      <4>2. QED
        BY <4>1, <2>2
    <3>2. CASE note[c].sup # old
      <4>1. ms[c].sup = note[c].sup /\ ms[note[c].sup] = note[note[c].sup]
        BY <1>8, <2>4, <2>6, <3>2 DEF Linked
      <4>2. QED
        BY <2>8, <4>1 DEF Mended
    <3>3. QED
      BY <3>1, <3>2
  <2>9. \A c \in Linked(ms) : c \in o.todo \/ Mended(ms, c) \/ c = o.mark
    BY <2>1, <2>5, <2>8, <1>3, <1>4, <1>10 DEF Repairs
  <2>10. o.to = ms[o.mark].sup /\ o.copy = ms[o.to]
    BY <1>4, <1>8, <1>10, <2>2, <2>4
  <2>11. \A c \in Accepted(LinksOf(ms)) : c # o.to => row[c] = ms[c]
    BY <1>3, <1>8, <1>10, <2>1, <2>3, <2>4 DEF Repairs
  <2>12. /\ \A c \in Contexts :
                /\ ms[c] # NoContext => o.scan[c] # NoContext
                /\ ms[c] # NoContext => o.scan[c].sup = ms[c].sup
         /\ o.todo \subseteq Accepted(LinksOf(ms)) /\ o.mark \in Accepted(LinksOf(ms))
    BY <1>3, <1>4, <1>8, <1>10, <2>1, <2>2, <2>3 DEF Repairs
  <2>13. QED
    BY <1>4, <1>10, <2>7, <2>9, <2>10, <2>11, <2>12 DEF Repairs
<1>15. CallFits(o, draft[r], [note EXCEPT ![old] = n])
  BY <1>2, <1>7, <1>10, <1>11, <1>12, <1>13, <1>14 DEF CallFits, Undisturbed
<1>16. call' = [s \in Callers |-> IF s = r THEN o ELSE [call[s] EXCEPT !.alone = FALSE]]
  BY <1>1, <1>5, <1>9 DEF Patch
<1>17. note' = [note EXCEPT ![old] = n] /\ settled' = FALSE
  BY <1>5 DEF Patch
<1>18. QED
  BY <1>6, <1>10, <1>15, <1>16, <1>17, PatchFits

LEMMA MarkSupersededKeeps ==
    ASSUME NEW r \in Callers, LinksInv, MarkSuperseded(r)
    PROVE  LinksInv'
<1>1. At(r, "marking") /\ UNCHANGED <<entry, linkFaults>>
  BY DEF MarkSuperseded
<1>2. PICK old \in Contexts, new \in Contexts : old = Target(r) /\ new = Replacement(r)
  BY <1>1, MarkingPair
<1>3. Live(r) /\ linkFaults' \in 0..MaxLinkFaults
  BY <1>1, CallsFit DEF Live, Over, At
<1>4. CASE /\ ~Markable(Row(r, old), new)
           /\ IF Reindexing(r) THEN Quarantine(r, {new})
              ELSE GivesUp(r) /\ UNCHANGED draft
           /\ UNCHANGED <<note, settled>>
  <2>1. CASE Reindexing(r)
    <3>1. Quarantine(r, {new}) /\ call[r].at \in {"marking", "indexing"}
      BY <1>1, <1>4, <2>1 DEF At
    <3>2. QED
      BY <1>1, <1>3, <1>4, <2>1, <3>1, QuarantineFits
  <2>2. CASE ~Reindexing(r)
    BY <1>1, <1>3, <1>4, <2>2, GivesUpFits
  <2>3. QED
    BY <2>1, <2>2
<1>5. CASE /\ Marked(Row(r, old), new)
           /\ Goes(r, Following(r)) /\ UNCHANGED <<note, draft, settled>>
  BY <1>1, <1>2, <1>5, MarkedKeeps
<1>6. CASE /\ Markable(Row(r, old), new)
           /\ Patch(r, old, [note[old] EXCEPT !.by = new, !.status = "superseded"],
                    Following(r))
           /\ UNCHANGED draft
  <2>1. note[old] \in Notes
    <3>1. draft[r] \in Rows /\ RowsOfFiles(draft[r], note) /\ RowsOfFiles(entry, note)
      BY CallsFit DEF CallFits, LinksInv
    <3>2. Row(r, old) # NoContext
      BY <1>6 DEF Markable
    <3>3. Row(r, old) = draft[r][old] \/ Row(r, old) = entry[old]
      BY DEF Row
    <3>4. Row(r, old) # Unwritten
      BY CallsFit, LinksAssumption DEF Row, Catalogues
    <3>5. note[old] # NoContext
      BY <3>1, <3>2, <3>3, <3>4 DEF RowsOfFiles
    <3>6. QED
      BY <3>5, CallsFit DEF Catalogues
  <2>2. CASE Reindexing(r)
    <3>1. Following(r) = "reconciling"
      BY <2>2 DEF Following
    <3>2. QED
      BY <1>1, <1>2, <1>6, <2>1, <2>2, <3>1, ReindexMarks
  <2>3. CASE ~Reindexing(r)
    <3>1. Following(r) = "closing"
      BY <2>3 DEF Following
    <3>2. PICK n : n = [note[old] EXCEPT !.by = new, !.status = "superseded"]
      OBVIOUS
    <3>3. n \in Notes
      BY <2>1, <3>2 DEF Notes
    <3>4. call[r].kind # "reindex"
      BY <1>1, <2>3, CallsFit DEF CallFits, InCall, Reindexing, At
    <3>5. Patch(r, old, n, "closing")
      BY <1>6, <3>1, <3>2
    <3>6. QED
      BY <1>1, <1>3, <1>6, <2>3, <3>3, <3>4, <3>5, PatchOfRequest
  <2>4. QED
    BY <2>2, <2>3
<1>7. QED
  BY <1>2, <1>4, <1>5, <1>6, Zenon DEF MarkSuperseded

LEMMA IndexCopyKeeps ==
    ASSUME NEW r \in Callers, LinksInv, IndexCopy(r)
    PROVE  LinksInv'
<1>1. PICK q \in CallRecords : q = call[r]
  BY CallsFit
<1>2. PICK row \in Rows : row = draft[r]
  BY CallsFit
<1>3. CallFits(q, row, note) /\ q.at = "indexing" /\ note \in Catalogues
  BY <1>1, <1>2, CallsFit DEF IndexCopy, At
<1>4. PICK next : next = q.next
  OBVIOUS
<1>5. PICK o : o = [q EXCEPT !.at = next]
  OBVIOUS
<1>6. /\ next \in {"closing", "marking", "reconciling"}
      /\ q.copy \in Notes /\ q.to \in Contexts /\ note[q.to] # NoContext
      /\ q.scan # <<>> <=> next = "reconciling"
      /\ q.kind = "reindex" => q.scan # <<>>
      /\ q.scan # <<>> => LinkFound(q, q.mark)
  BY <1>3, <1>4 DEF CallRecords, CallFits, InCall, InReindex
<1>7. /\ o \in CallRecords /\ o.at = next /\ o.kind = q.kind /\ o.old = q.old
      /\ o.new = q.new /\ o.back = q.back /\ o.scan = q.scan /\ o.todo = q.todo
      /\ o.mark = q.mark /\ o.alone = q.alone
  BY <1>5, <1>6 DEF CallRecords
<1>8. PICK written \in Rows : written = [row EXCEPT ![q.to] = q.copy]
  BY <1>6 DEF Rows
<1>9. written[q.to] = q.copy /\ \A c \in Contexts : c # q.to => written[c] = row[c]
  BY <1>6, <1>8 DEF Rows
<1>10. call' = [call EXCEPT ![r] = o] /\ draft' = [draft EXCEPT ![r] = written]
  BY <1>1, <1>2, <1>4, <1>5, <1>8 DEF IndexCopy, Goes, LinksInv, LinkShapes
<1>11. RowsOfFiles(written, note)
  BY <1>3, <1>6, <1>9 DEF CallFits, RowsOfFiles
<1>12. InCall(o, written, note)
  BY <1>3, <1>4, <1>6, <1>7 DEF CallFits, InCall
<1>13. InReindex(o, note)
  BY <1>3, <1>6, <1>7 DEF CallFits, InReindex, LinkFound
<1>14. ASSUME Undisturbed(q)
       PROVE  Repairs(o, written, note)
  <2>1. Repairs(q, row, note) /\ next = "reconciling"
    BY <1>3, <1>6, <1>14 DEF CallFits, Undisturbed
  <2>2. q.copy = note[q.to] /\ Mended(note, q.mark)
    BY <1>3, <2>1 DEF Repairs
  <2>3. \A c \in Accepted(LinksOf(note)) : c \in Contexts
    BY <1>3, AcceptedNotes
  <2>4. \A c \in Accepted(LinksOf(note)) : written[c] = note[c]
    BY <1>3, <1>9, <2>1, <2>2, <2>3 DEF Repairs
  <2>5. QED
    BY <1>3, <1>7, <2>1, <2>2, <2>4 DEF Repairs
<1>15. CallFits(o, written, note)
  BY <1>7, <1>11, <1>12, <1>13, <1>14 DEF CallFits, Undisturbed
<1>16. linkFaults' \in 0..MaxLinkFaults /\ UNCHANGED <<note, entry, settled>>
  BY CallsFit DEF IndexCopy
<1>17. QED
  BY <1>7, <1>8, <1>10, <1>15, <1>16, StepFits

LEMMA IndexFailsKeeps ==
    ASSUME NEW r \in Callers, LinksInv, IndexFails(r)
    PROVE  LinksInv'
<1>1. call[r].at \in {"marking", "indexing"} /\ Live(r)
  BY DEF IndexFails, At, Live, Over
<1>2. linkFaults' \in 0..MaxLinkFaults /\ UNCHANGED <<note, entry, settled>>
  BY CallsFit, LinksAssumption DEF IndexFails
<1>3. CASE Reindexing(r)
  <2>1. PICK cs : cs = {Target(r), Replacement(r)}
    OBVIOUS
  <2>2. Quarantine(r, cs)
    BY <1>3, <2>1 DEF IndexFails
  <2>3. QED
    BY <1>1, <1>2, <1>3, <2>2, QuarantineFits
<1>4. CASE ~Reindexing(r)
  BY <1>1, <1>2, <1>4, GivesUpFits DEF IndexFails
<1>5. QED
  BY <1>3, <1>4

LEMMA ScanKeeps ==
    ASSUME NEW r \in Callers, LinksInv, Scan(r)
    PROVE  LinksInv'
<1>1. /\ At(r, "scanning") /\ UNCHANGED <<note, entry, draft, linkFaults, settled>>
      /\ linkFaults' \in 0..MaxLinkFaults
  BY CallsFit DEF Scan
<1>2. CASE GivesUp(r)
  <2>1. Live(r)
    BY <1>1 DEF Live, Over, At
  <2>2. QED
    BY <1>1, <1>2, <2>1, GivesUpFits
<1>3. CASE call' = [call EXCEPT ![r].at = "cataloguing", ![r].scan = note,
                                ![r].alone = Alone(r)]
  <2>1. PICK q \in CallRecords : q = call[r]
    BY CallsFit
  <2>2. PICK scan \in Catalogues : scan = note
    BY CallsFit
  <2>3. PICK alone \in BOOLEAN : alone = Alone(r)
    BY DEF Alone
  <2>4. PICK o : o = [q EXCEPT !.at = "cataloguing", !.scan = scan, !.alone = alone]
    OBVIOUS
  <2>5. /\ o \in CallRecords /\ o.at = "cataloguing" /\ o.kind = q.kind /\ o.old = q.old
        /\ o.new = q.new /\ o.back = q.back /\ o.scan = scan /\ scan # <<>>
    BY <2>4, ScanNotEmpty DEF CallRecords
  <2>6. call' = [call EXCEPT ![r] = o]
    BY <1>3, <2>1, <2>2, <2>3, <2>4 DEF LinksInv, LinkShapes
  <2>7. CallFits(q, draft[r], note) /\ q.at = "scanning"
    BY <1>1, <2>1, CallsFit DEF At
  <2>8. InCall(o, draft[r], note) /\ InReindex(o, note)
    BY <2>2, <2>5, <2>7 DEF CallFits, InCall, InReindex
  <2>9. Repairs(o, draft[r], note)
    BY <2>2, <2>5 DEF Repairs
  <2>10. CallFits(o, draft[r], note)
    BY <2>7, <2>8, <2>9 DEF CallFits
  <2>11. QED
    BY <1>1, <2>5, <2>6, <2>10, CallStepFits
<1>4. QED
  BY <1>2, <1>3 DEF Scan

LEMMA CatalogueKeeps ==
    ASSUME NEW r \in Callers, LinksInv, Catalogue(r)
    PROVE  LinksInv'
<1>1. PICK q \in CallRecords : q = call[r]
  BY CallsFit
<1>2. CallFits(q, draft[r], note) /\ q.at = "cataloguing" /\ note \in Catalogues
  BY <1>1, CallsFit DEF Catalogue, At
<1>3. q.scan \in Catalogues /\ q.scan # <<>>
      /\ \A c \in Contexts : q.scan[c] # NoContext => note[c] # NoContext
  BY <1>2 DEF CallFits, InReindex, CallRecords
<1>4. PICK accepted : accepted = Accepted(LinksOf(q.scan))
  OBVIOUS
<1>5. \A c \in accepted : c \in Contexts /\ q.scan[c] # NoContext /\ q.scan[c] \in Notes
  BY <1>3, <1>4, AcceptedNotes
<1>6. \A c \in accepted : q.scan[c].sup # NoContext => q.scan[c].sup \in Contexts
  BY <1>3, <1>4, AcceptedNotes
<1>7. PICK row \in Rows : row = [c \in Contexts |-> IF c \in accepted THEN q.scan[c]
                                                     ELSE NoContext]
  BY <1>5 DEF Rows
<1>8. PICK todo \in SUBSET Contexts : todo = {c \in accepted : q.scan[c].sup # NoContext}
  BY <1>5
<1>9. PICK o : o = [q EXCEPT !.at = "reconciling", !.todo = todo]
  OBVIOUS
<1>10. /\ o \in CallRecords /\ o.at = "reconciling" /\ o.kind = q.kind /\ o.old = q.old
       /\ o.new = q.new /\ o.back = q.back /\ o.scan = q.scan /\ o.todo = todo
       /\ o.alone = q.alone
  BY <1>9 DEF CallRecords
<1>11. call' = [call EXCEPT ![r] = o] /\ draft' = [draft EXCEPT ![r] = row]
  BY <1>1, <1>4, <1>7, <1>8, <1>9 DEF Catalogue, LinksInv, LinkShapes
<1>12. RowsOfFiles(row, note)
  BY <1>3, <1>5, <1>7 DEF RowsOfFiles
<1>13. InCall(o, row, note)
  BY <1>2, <1>10 DEF CallFits, InCall
<1>14. InReindex(o, note)
  BY <1>3, <1>5, <1>6, <1>8, <1>10 DEF InReindex, LinkFound
<1>15. ASSUME Undisturbed(q)
       PROVE  Repairs(o, row, note)
  <2>1. q.scan = note
    BY <1>2, <1>15 DEF CallFits, Repairs
  <2>2. todo = Linked(note) /\ accepted = Accepted(LinksOf(note))
    BY <1>4, <1>8, <2>1 DEF Linked
  <2>3. QED
    BY <1>5, <1>7, <1>8, <1>10, <2>1, <2>2 DEF Repairs
<1>16. CallFits(o, row, note)
  BY <1>10, <1>12, <1>13, <1>14, <1>15 DEF CallFits, Undisturbed
<1>17. linkFaults' \in 0..MaxLinkFaults /\ UNCHANGED <<note, entry, settled>>
  BY CallsFit DEF Catalogue
<1>18. QED
  BY <1>7, <1>10, <1>11, <1>16, <1>17, StepFits

LEMMA ReconcileKeeps ==
    ASSUME NEW r \in Callers, LinksInv, Reconcile(r)
    PROVE  LinksInv'
<1>1. PICK q \in CallRecords : q = call[r]
  BY CallsFit
<1>2. /\ CallFits(q, draft[r], note) /\ q.at = "reconciling" /\ note \in Catalogues
      /\ UNCHANGED <<note, entry, draft, linkFaults, settled>>
      /\ linkFaults' \in 0..MaxLinkFaults
  BY <1>1, CallsFit DEF Reconcile, At
<1>3. /\ q.scan # <<>> /\ \A c \in q.todo : LinkFound(q, c)
      /\ q.todo \in SUBSET Contexts /\ q.back \in {"closing", "reading", "linking"}
  BY <1>2 DEF CallFits, InReindex, CallRecords
<1>4. CASE q.todo = {} /\ call' = [call EXCEPT ![r].scan = <<>>, ![r].at = call[r].back,
                                               ![r].mark = NoContext]
  <2>1. PICK back : back = q.back
    OBVIOUS
  <2>2. PICK o : o = [q EXCEPT !.scan = <<>>, !.at = back, !.mark = NoContext]
    OBVIOUS
  <2>3. /\ o \in CallRecords /\ o.at = back /\ o.kind = q.kind /\ o.old = q.old
        /\ o.new = q.new /\ o.back = q.back /\ o.scan = <<>> /\ o.alone = q.alone
    BY <1>3, <2>1, <2>2 DEF CallRecords, MaybeContext
  <2>4. call' = [call EXCEPT ![r] = o]
    BY <1>1, <1>4, <2>1, <2>2 DEF LinksInv, LinkShapes
  <2>5. InCall(o, draft[r], note) /\ InReindex(o, note)
    BY <1>2, <1>3, <2>1, <2>3 DEF CallFits, InCall, InReindex
  <2>6. ASSUME Undisturbed(q)
        PROVE  Repairs(o, draft[r], note)
    <3>1. Repairs(q, draft[r], note) /\ back = "closing"
      BY <1>2, <1>3, <2>1, <2>6 DEF CallFits, InCall, Undisturbed
    <3>2. QED
      BY <1>2, <1>4, <2>3, <3>1 DEF Repairs
  <2>7. CallFits(o, draft[r], note)
    BY <1>2, <2>3, <2>5, <2>6 DEF CallFits, Undisturbed
  <2>8. QED
    BY <1>2, <2>3, <2>4, <2>7, CallStepFits
<1>5. ASSUME NEW c \in q.todo,
             call' = [call EXCEPT ![r].at = "marking", ![r].mark = c,
                                  ![r].todo = q.todo \ {c}]
      PROVE  LinksInv'
  <2>1. PICK todo \in SUBSET Contexts : todo = q.todo \ {c}
    BY <1>3
  <2>2. PICK o : o = [q EXCEPT !.at = "marking", !.mark = c, !.todo = todo]
    OBVIOUS
  <2>3. /\ o \in CallRecords /\ o.at = "marking" /\ o.kind = q.kind /\ o.old = q.old
        /\ o.new = q.new /\ o.back = q.back /\ o.scan = q.scan /\ o.alone = q.alone
        /\ o.mark = c /\ o.todo = todo
    BY <1>3, <2>1, <2>2 DEF CallRecords, MaybeContext
  <2>4. call' = [call EXCEPT ![r] = o]
    BY <1>1, <1>5, <2>1, <2>2 DEF LinksInv, LinkShapes
  <2>5. InCall(o, draft[r], note)
    BY <1>2, <1>3, <2>3 DEF CallFits, InCall
  <2>6. InReindex(o, note)
    BY <1>2, <1>3, <2>1, <2>3 DEF CallFits, InReindex, LinkFound
  <2>7. ASSUME Undisturbed(q)
        PROVE  Repairs(o, draft[r], note)
    <3>1. Repairs(q, draft[r], note)
      BY <1>2, <2>7 DEF CallFits
    <3>2. \A d \in Linked(note) : d \in todo \/ Mended(note, d) \/ d = c
      BY <1>2, <2>1, <3>1 DEF Repairs
    <3>3. QED
      BY <1>2, <2>1, <2>3, <3>1, <3>2 DEF Repairs
  <2>8. CallFits(o, draft[r], note)
    BY <1>2, <2>3, <2>5, <2>6, <2>7 DEF CallFits, Undisturbed
  <2>9. QED
    BY <1>2, <2>3, <2>4, <2>8, CallStepFits
<1>6. QED
  BY <1>1, <1>4, <1>5 DEF Reconcile

LEMMA UndoKeeps ==
    ASSUME NEW r \in Callers, LinksInv, Undo(r)
    PROVE  LinksInv'
<1>1. PICK o \in CallRecords, row \in Rows :
          /\ call' = [call EXCEPT ![r] = o] /\ draft' = [draft EXCEPT ![r] = row]
          /\ CallFits(o, row, note)
  BY EndsFits DEF Undo
<1>2. linkFaults' \in 0..MaxLinkFaults /\ UNCHANGED <<note, entry, settled>>
  BY CallsFit DEF Undo
<1>3. QED
  BY <1>1, <1>2, StepFits

LEMMA DieKeeps ==
    ASSUME NEW r \in Callers, LinksInv, Die(r)
    PROVE  LinksInv'
<1>1. PICK o \in CallRecords, row \in Rows :
          /\ call' = [call EXCEPT ![r] = o] /\ draft' = [draft EXCEPT ![r] = row]
          /\ CallFits(o, row, note)
  BY EndsFits DEF Die
<1>2. linkFaults' \in 0..MaxLinkFaults /\ UNCHANGED <<note, entry, settled>>
  BY CallsFit, LinksAssumption DEF Die
<1>3. QED
  BY <1>1, <1>2, StepFits

(* The rows a reindex wrote become the index's.                             *)
LEMMA CommitKeeps ==
    ASSUME NEW r \in Callers, LinksInv, Commit(r)
    PROVE  LinksInv'
<1>1. PICK q \in CallRecords : q = call[r]
  BY CallsFit
<1>2. PICK row \in Rows : row = draft[r]
  BY CallsFit
<1>3. /\ CallFits(q, row, note) /\ q.at = "closing"
      /\ note \in Catalogues /\ entry \in Catalogues
  BY <1>1, <1>2, CallsFit DEF Commit, At
<1>4. PICK o \in CallRecords, empty \in Rows :
          /\ call' = [call EXCEPT ![r] = o] /\ draft' = [draft EXCEPT ![r] = empty]
          /\ CallFits(o, empty, note)
  BY EndsFits DEF Commit
<1>5. PICK entered : entered = [c \in Contexts |-> IF row[c] = Unwritten THEN entry[c]
                                                   ELSE row[c]]
  OBVIOUS
<1>6. entered \in Catalogues
  BY <1>3, <1>5 DEF Catalogues, Rows
<1>7. RowsOfFiles(entered, note)
  BY <1>3, <1>5 DEF RowsOfFiles, CallFits, LinksInv
<1>8. entry' = entered /\ UNCHANGED <<note, linkFaults>>
  BY <1>2, <1>5 DEF Commit, Row
<1>9. LinkShapes'
  <2>1. settled' \in BOOLEAN
    BY DEF Commit
  <2>2. QED
    BY <1>4, <1>6, <1>8, <2>1 DEF LinksInv, LinkShapes
<1>10. RowsOfFiles(entry', note')
  BY <1>7, <1>8
<1>11. ASSUME NEW s \in Callers
       PROVE  CallFits(call'[s], draft'[s], note')
  <2>1. CASE s = r
    <3>1. call'[s] = o /\ draft'[s] = empty
      BY <1>4, <2>1 DEF LinksInv, LinkShapes
    <3>2. QED
      BY <1>4, <1>8, <3>1
  <2>2. CASE s # r
    <3>1. call'[s] = call[s] /\ draft'[s] = draft[s]
      BY <1>4, <2>2 DEF LinksInv, LinkShapes
    <3>2. QED
      BY <1>8, <3>1 DEF LinksInv
  <2>3. QED
    BY <2>1, <2>2
<1>12. ReindexReconciles'
  <2>1. CASE ~(q.kind = "reindex" /\ q.alone)
    <3>1. settled' = FALSE
      BY <1>1, <2>1 DEF Commit
    <3>2. QED
      BY <3>1 DEF ReindexReconciles
  <2>2. CASE q.kind = "reindex" /\ q.alone
    <3>1. Repairs(q, row, note)
      BY <1>3, <2>2 DEF CallFits, Undisturbed
    <3>2. \A c \in Accepted(LinksOf(note)) :
              c \in Contexts /\ note[c] \in Notes /\ row[c] = note[c]
      BY <1>3, <3>1, AcceptedNotes DEF Repairs
    <3>3. \A c \in Accepted(LinksOf(note)) : entered[c] = note[c]
      BY <1>5, <3>2, LinksAssumption
    <3>4. \A c \in Accepted(LinksOf(note)) : note[c].sup # NoContext => Mended(note, c)
      BY <1>3, <3>1 DEF Repairs, Linked
    <3>5. \A c \in Accepted(LinksOf(note)) :
              /\ entered[c] = note[c]
              /\ note[c].sup # NoContext =>
                    note[note[c].sup].by = c /\ note[note[c].sup].status = "superseded"
      BY <3>3, <3>4 DEF Mended
    <3>6. QED
      BY <1>8, <3>5 DEF ReindexReconciles
  <2>3. QED
    BY <2>1, <2>2
<1>13. QED
  BY <1>9, <1>10, <1>11, <1>12 DEF LinksInv

-----------------------------------------------------------------------------
LEMMA StartsLinked == LinksInit => LinksInv
<1> SUFFICES ASSUME LinksInit
             PROVE  LinksInv
  OBVIOUS
<1>1. PICK row \in Rows : row = [c \in Contexts |-> Unwritten]
  BY DEF Rows
<1>2. note \in Catalogues /\ entry = note
  BY FreshRecord DEF LinksInit, Catalogues
<1>3. LinkShapes
  <2>1. draft = [r \in Callers |-> row] /\ call = [r \in Callers |-> Fresh]
    BY <1>1 DEF LinksInit
  <2>2. linkFaults \in 0..MaxLinkFaults /\ settled \in BOOLEAN
    <3>1. linkFaults = 0 /\ settled = FALSE
      BY DEF LinksInit
    <3>2. 0 \in 0..MaxLinkFaults
      BY LinksAssumption
    <3>3. QED
      BY <3>1, <3>2
  <2>3. QED
    BY <1>2, <2>1, <2>2, FreshRecord DEF LinkShapes
<1>4. RowsOfFiles(entry, note)
  BY <1>2 DEF RowsOfFiles
<1>5. ASSUME NEW r \in Callers
      PROVE  CallFits(call[r], draft[r], note)
  <2>1. call[r] = Fresh /\ draft[r] = row
    BY <1>1 DEF LinksInit
  <2>2. CallFits(Fresh, row, note)
    BY <1>1 DEF CallFits, RowsOfFiles, InCall, InReindex, Undisturbed, Fresh
  <2>3. QED
    BY <2>1, <2>2
<1>6. ReindexReconciles
  BY DEF LinksInit, ReindexReconciles
<1>7. QED
  BY <1>3, <1>4, <1>5, <1>6 DEF LinksInv

LEMMA StaysLinked == LinksInv /\ [LinksNext]_linkVars => LinksInv'
<1> SUFFICES ASSUME LinksInv, [LinksNext]_linkVars
             PROVE  LinksInv'
  OBVIOUS
<1>1. CASE UNCHANGED linkVars
  BY <1>1 DEF linkVars, LinksInv, LinkShapes, RowsOfFiles, ReindexReconciles
<1>2. ASSUME NEW r \in Callers,
             \/ Ask(r) \/ ReadOld(r) \/ Archive(r) \/ LinkForward(r) \/ Save(r)
             \/ MarkSuperseded(r) \/ IndexCopy(r) \/ IndexFails(r)
             \/ Scan(r) \/ Catalogue(r) \/ Reconcile(r)
             \/ Undo(r) \/ Commit(r) \/ Die(r)
      PROVE  LinksInv'
  BY <1>2, AskKeeps, ReadOldKeeps, ArchiveKeeps, LinkForwardKeeps, SaveFits,
     MarkSupersededKeeps, IndexCopyKeeps, IndexFailsKeeps, ScanKeeps, CatalogueKeeps,
     ReconcileKeeps, UndoKeeps, CommitKeeps, DieKeeps
<1>3. QED
  BY <1>1, <1>2 DEF LinksNext

LEMMA AlwaysLinked == LinksSpec => []LinksInv
BY StartsLinked, StaysLinked, PTL DEF LinksSpec

(***************************************************************************)
(* Where forward links are known: in rows, sessions, scans and requests.   *)
(* Of a Context no save has replaced, each of them agrees with the file.   *)
(***************************************************************************)

(* A forward link once read is the one the file still has.                  *)
AgreesWith(n, m) ==
    n \notin {NoContext, Unwritten} /\ n.sup # NoContext => m # NoContext /\ m.sup = n.sup

ToMark(o) == o.at = "marking" \/ (o.at = "indexing" /\ o.next = "marking")

(* What a request and its session know of a Context, against its file.      *)
Knows(o, row, c, m) ==
    /\ AgreesWith(row[c], m)
    /\ o.scan # <<>> => AgreesWith(o.scan[c], m)
    /\ o.at = "indexing" /\ o.to = c => AgreesWith(o.copy, m)
    /\ ToMark(o) /\ o.scan = <<>> /\ o.new = c
           => o.old # NoContext /\ m # NoContext /\ m.sup = o.old

Forward(row, notes, again) == \A c \in Contexts \ again : AgreesWith(row[c], notes[c])
Grounded(o, row, notes, again) == \A c \in Contexts \ again : Knows(o, row, c, notes[c])

ClaimsInv ==
    /\ LinksInv
    /\ resaved \subseteq Contexts
    /\ \A c \in Contexts : note[c] # NoContext => note[c].sup # c
    /\ Forward(entry, note, resaved)
    /\ \A r \in Callers : Grounded(call[r], draft[r], note, resaved)
    /\ BacklinksAreClaimed

(* A step that writes no file.                                              *)
LEMMA CallClaims ==
    ASSUME NEW r \in Callers, NEW o, NEW row, ClaimsInv, LinksInv',
           call' = [call EXCEPT ![r] = o], draft' = [draft EXCEPT ![r] = row],
           note' = note, resaved' = resaved, Forward(entry', note, resaved),
           Grounded(o, row, note, resaved)
    PROVE  ClaimsInv'
<1>1. ASSUME NEW s \in Callers
      PROVE  Grounded(call'[s], draft'[s], note', resaved')
  <2>1. CASE s = r
    <3>1. call'[s] = o /\ draft'[s] = row
      BY <2>1 DEF ClaimsInv, LinksInv, LinkShapes
    <3>2. QED
      BY <3>1
  <2>2. CASE s # r
    <3>1. call'[s] = call[s] /\ draft'[s] = draft[s]
      BY <2>2 DEF ClaimsInv, LinksInv, LinkShapes
    <3>2. QED
      BY <3>1 DEF ClaimsInv
  <2>3. QED
    BY <2>1, <2>2
<1>2. BacklinksAreClaimed'
  BY DEF ClaimsInv, BacklinksAreClaimed
<1>3. QED
  BY <1>1, <1>2 DEF ClaimsInv

(* A file that is written keeps the forward link it has, or is one that a   *)
(* save replaces.                                                           *)
LEMMA PatchClaims ==
    ASSUME NEW r \in Callers, NEW c \in Contexts, NEW n \in Notes, NEW next,
           NEW again \in SUBSET Contexts, ClaimsInv, LinksInv', Patch(r, c, n, next),
           entry' = entry, draft' = draft, resaved' = again, resaved \subseteq again,
           n.sup # c,
           c \notin again /\ note[c] # NoContext /\ note[c].sup # NoContext
               => n.sup = note[c].sup,
           next = "marking" /\ call[r].scan = <<>>
               => call[r].new = c /\ n.sup = call[r].old /\ call[r].old # NoContext,
           c \notin again /\ n.by \notin again \cup {NoContext}
               => n.by # c /\ note[n.by] # NoContext /\ note[n.by].sup = c
    PROVE  ClaimsInv'
<1> DEFINE ns == [note EXCEPT ![c] = n]
<1>1. /\ ns[c] = n /\ n # NoContext /\ \A d \in Contexts : d # c => ns[d] = note[d]
      /\ note' = ns
  BY LinksAssumption DEF ClaimsInv, LinksInv, LinkShapes, Catalogues, Patch
<1> HIDE DEF ns
<1>2. ASSUME NEW d \in Contexts \ again, note[d] # NoContext, note[d].sup # NoContext
      PROVE  ns[d] # NoContext /\ ns[d].sup = note[d].sup
  BY <1>1, <1>2
<1>3. ASSUME NEW d \in Contexts \ again, NEW m, AgreesWith(m, note[d])
      PROVE  AgreesWith(m, ns[d])
  BY <1>2, <1>3 DEF AgreesWith
<1>4. Forward(entry', note', resaved')
  <2>1. Forward(entry, ns, again)
    BY <1>3 DEF ClaimsInv, Forward
  <2>2. QED
    BY <1>1, <2>1
<1>5. ASSUME NEW s \in Callers
      PROVE  Grounded(call'[s], draft'[s], note', resaved')
  <2>1. PICK q \in CallRecords : q = call[s]
    BY DEF ClaimsInv, LinksInv, LinkShapes
  <2>2. PICK row : row = draft[s]
    OBVIOUS
  <2>3. Grounded(q, row, note, resaved)
    BY <2>1, <2>2 DEF ClaimsInv
  <2>4. CASE s # r
    <3>1. PICK p : p = [q EXCEPT !.alone = FALSE]
      OBVIOUS
    <3>2. /\ p.at = q.at /\ p.old = q.old /\ p.new = q.new /\ p.to = q.to
          /\ p.next = q.next /\ p.scan = q.scan /\ p.copy = q.copy
      BY <3>1 DEF CallRecords
    <3>3. call'[s] = p
      BY <2>1, <2>4, <3>1 DEF Patch
    <3>4. ASSUME NEW d \in Contexts \ again
          PROVE  Knows(p, row, d, ns[d])
      <4>1. Knows(q, row, d, note[d])
        BY <2>3 DEF Grounded
      <4>2. AgreesWith(row[d], ns[d]) /\ (q.scan # <<>> => AgreesWith(q.scan[d], ns[d]))
            /\ (q.at = "indexing" /\ q.to = d => AgreesWith(q.copy, ns[d]))
        BY <4>1, <1>3 DEF Knows
      <4>3. ToMark(q) /\ q.scan = <<>> /\ q.new = d
                => q.old # NoContext /\ ns[d] # NoContext /\ ns[d].sup = q.old
        BY <4>1, <1>2 DEF Knows
      <4>4. QED
        BY <3>2, <4>2, <4>3 DEF Knows, ToMark
    <3>5. Grounded(p, row, ns, again)
      BY <3>4 DEF Grounded
    <3>6. QED
      BY <1>1, <2>2, <3>3, <3>5
  <2>5. CASE s = r
    <3>1. PICK p : p = [q EXCEPT !.at = "indexing", !.next = next, !.to = c, !.copy = n]
      OBVIOUS
    <3>2. /\ p.at = "indexing" /\ p.old = q.old /\ p.new = q.new /\ p.to = c
          /\ p.next = next /\ p.scan = q.scan /\ p.copy = n
      BY <3>1 DEF CallRecords
    <3>3. call'[s] = p
      BY <2>1, <2>5, <3>1 DEF Patch
    <3>4. ASSUME NEW d \in Contexts \ again
          PROVE  Knows(p, row, d, ns[d])
      <4>1. Knows(q, row, d, note[d])
        BY <2>3 DEF Grounded
      <4>2. AgreesWith(row[d], ns[d]) /\ (q.scan # <<>> => AgreesWith(q.scan[d], ns[d]))
        BY <4>1, <1>3 DEF Knows
      <4>3. d = c => AgreesWith(n, ns[d])
        BY <1>1 DEF AgreesWith
      <4>4. next = "marking" /\ q.scan = <<>> /\ q.new = d
                => q.old # NoContext /\ ns[d] # NoContext /\ ns[d].sup = q.old
        BY <1>1, <2>1, <2>5
      <4>5. QED
        BY <3>2, <4>2, <4>3, <4>4 DEF Knows, ToMark
    <3>5. Grounded(p, row, ns, again)
      BY <3>4 DEF Grounded
    <3>6. QED
      BY <1>1, <2>2, <3>3, <3>5
  <2>6. QED
    BY <2>4, <2>5
<1>6. \A d \in Contexts : note'[d] # NoContext => note'[d].sup # d
  BY <1>1 DEF ClaimsInv
<1>7. BacklinksAreClaimed'
  <2> SUFFICES ASSUME NEW d \in Contexts \ again, ns[d] # NoContext,
                      ns[d].by \notin again \cup {NoContext}
               PROVE  ns[d].by # d /\ ns[ns[d].by] # NoContext /\ ns[ns[d].by].sup = d
    BY <1>1 DEF BacklinksAreClaimed
  <2>0. d # NoContext /\ ns[d].by \in Contexts
    <3>1. ns[d] \in Notes
      BY <1>1 DEF ClaimsInv, LinksInv, LinkShapes, Catalogues
    <3>2. QED
      BY <3>1, ManifestAssumption DEF Notes
  <2>1. CASE d = c
    BY <1>1, <2>0, <2>1
  <2>2. CASE d # c
    <3>1. ns[d] = note[d] /\ note[d] # NoContext
      BY <1>1, <2>2
    <3>2. note[d].by # d /\ note[note[d].by] # NoContext /\ note[note[d].by].sup = d
      BY <3>1 DEF ClaimsInv, BacklinksAreClaimed
    <3>3. ns[note[d].by] # NoContext /\ ns[note[d].by].sup = note[note[d].by].sup
      BY <2>0, <3>1, <3>2, <1>2
    <3>4. QED
      BY <3>1, <3>2, <3>3
  <2>3. QED
    BY <2>1, <2>2
<1>8. QED
  BY <1>1, <1>4, <1>5, <1>6, <1>7 DEF ClaimsInv

(* What a step that moves only the request on keeps.                        *)
LEMMA GoesClaims ==
    ASSUME NEW r \in Callers, NEW o, ClaimsInv, LinksInv',
           call' = [call EXCEPT ![r] = o], draft' = draft, note' = note, entry' = entry,
           resaved' = resaved,
           o.scan \in {<<>>, call[r].scan}, ~ToMark(o), o.at # "indexing"
    PROVE  ClaimsInv'
<1>1. PICK row \in Rows : row = draft[r]
  BY CallsFit DEF ClaimsInv
<1>2. draft' = [draft EXCEPT ![r] = row]
  BY <1>1 DEF ClaimsInv, LinksInv, LinkShapes
<1>3. Grounded(call[r], row, note, resaved) /\ Forward(entry', note, resaved)
  BY <1>1 DEF ClaimsInv
<1>4. Grounded(o, row, note, resaved)
  BY <1>3 DEF Grounded, Knows
<1>5. QED
  BY <1>2, <1>3, <1>4, CallClaims

LEMMA EndsClaims ==
    ASSUME NEW r \in Callers, ClaimsInv, LinksInv', Ends(r), note' = note,
           resaved' = resaved, Forward(entry', note, resaved)
    PROVE  ClaimsInv'
<1>1. PICK q \in CallRecords : q = call[r]
  BY CallsFit DEF ClaimsInv
<1>2. PICK o : o = [Fresh EXCEPT !.at = "over", !.kind = q.kind]
  OBVIOUS
<1>3. o.at = "over" /\ o.scan = <<>>
  BY <1>2 DEF Fresh
<1>4. PICK row \in Rows : row = [c \in Contexts |-> Unwritten]
  BY DEF Rows
<1>5. call' = [call EXCEPT ![r] = o] /\ draft' = [draft EXCEPT ![r] = row]
  BY <1>1, <1>2, <1>4 DEF Ends
<1>6. Grounded(o, row, note, resaved)
  BY <1>3, <1>4 DEF Grounded, Knows, AgreesWith, ToMark
<1>7. QED
  BY <1>5, <1>6, CallClaims

LEMMA GivesUpClaims ==
    ASSUME NEW r \in Callers, ClaimsInv, LinksInv', GivesUp(r),
           UNCHANGED <<note, entry, draft, resaved>>
    PROVE  ClaimsInv'
<1>1. PICK q \in CallRecords : q = call[r]
  BY CallsFit DEF ClaimsInv
<1>2. PICK o : o = [q EXCEPT !.at = "undoing", !.scan = <<>>]
  OBVIOUS
<1>3. o.at = "undoing" /\ o.scan = <<>>
  BY <1>2 DEF CallRecords
<1>4. call' = [call EXCEPT ![r] = o]
  BY <1>1, <1>2 DEF GivesUp, ClaimsInv, LinksInv, LinkShapes
<1>5. QED
  BY <1>3, <1>4, GoesClaims DEF ToMark

LEMMA SearchFirstClaims ==
    ASSUME NEW r \in Callers, NEW c, ClaimsInv, LinksInv', SearchFirst(r, c),
           UNCHANGED <<note, entry, draft, resaved>>
    PROVE  ClaimsInv'
<1>1. CASE GivesUp(r)
  BY <1>1, GivesUpClaims
<1>2. CASE call' = [call EXCEPT ![r].at = "scanning", ![r].tried = TRUE,
                                ![r].back = call[r].at]
  <2>1. PICK q \in CallRecords : q = call[r]
    BY CallsFit DEF ClaimsInv
  <2>2. PICK o : o = [q EXCEPT !.at = "scanning", !.tried = TRUE, !.back = q.at]
    OBVIOUS
  <2>3. o.at = "scanning" /\ o.scan = q.scan
    BY <2>2 DEF CallRecords
  <2>4. call' = [call EXCEPT ![r] = o]
    BY <1>2, <2>1, <2>2 DEF ClaimsInv, LinksInv, LinkShapes
  <2>5. QED
    BY <2>1, <2>3, <2>4, GoesClaims DEF ToMark
<1>3. QED
  BY <1>1, <1>2 DEF SearchFirst

LEMMA AskClaims ==
    ASSUME NEW r \in Callers, ClaimsInv, LinksInv', Ask(r)
    PROVE  ClaimsInv'
<1>1. PICK kind \in CallsOf[r], old, new \in Contexts \cup {NoContext} :
          call' = [call EXCEPT ![r] = [Fresh EXCEPT
                 !.kind = kind, !.old = old, !.new = new, !.at = Opening(kind)]]
  BY Zenon DEF Ask
<1>2. PICK at : at = Opening(kind)
  OBVIOUS
<1>3. at \in {"saving", "scanning", "reading"}
  BY <1>2 DEF Opening
<1>4. PICK o : /\ o = [Fresh EXCEPT !.kind = kind, !.old = old, !.new = new, !.at = at]
               /\ call' = [call EXCEPT ![r] = o]
  BY <1>1, <1>2
<1>5. o.at = at /\ o.scan = <<>>
  BY <1>4 DEF Fresh
<1>6. QED
  BY <1>3, <1>4, <1>5, GoesClaims DEF ToMark, Ask

LEMMA ReadOldClaims ==
    ASSUME NEW r \in Callers, ClaimsInv, LinksInv', ReadOld(r)
    PROVE  ClaimsInv'
<1>1. UNCHANGED <<note, entry, draft, resaved>>
  BY DEF ReadOld
<1>2. CASE SearchFirst(r, call[r].old)
  <2>1. PICK c : c = call[r].old
    OBVIOUS
  <2>2. QED
    BY <1>1, <1>2, <2>1, SearchFirstClaims
<1>3. CASE call' = [call EXCEPT ![r].seen = note[call[r].old], ![r].tried = FALSE,
                  ![r].at = IF call[r].kind = "archive" THEN "archiving" ELSE "linking"]
  <2>1. PICK q \in CallRecords : q = call[r]
    BY CallsFit DEF ClaimsInv
  <2>2. PICK at : at = IF q.kind = "archive" THEN "archiving" ELSE "linking"
    OBVIOUS
  <2>3. PICK seen : seen = note[q.old]
    OBVIOUS
  <2>4. PICK o : o = [q EXCEPT !.seen = seen, !.tried = FALSE, !.at = at]
    OBVIOUS
  <2>5. o.at \in {"archiving", "linking"} /\ o.scan = q.scan
    BY <2>2, <2>4 DEF CallRecords
  <2>6. call' = [call EXCEPT ![r] = o]
    BY <1>3, <2>1, <2>2, <2>3, <2>4 DEF ClaimsInv, LinksInv, LinkShapes
  <2>7. QED
    BY <1>1, <2>1, <2>5, <2>6, GoesClaims DEF ToMark
<1>4. QED
  BY <1>2, <1>3 DEF ReadOld

LEMMA ArchiveClaims ==
    ASSUME NEW r \in Callers, ClaimsInv, LinksInv', Archive(r)
    PROVE  ClaimsInv'
<1>1. PICK q \in CallRecords : q = call[r]
  BY CallsFit DEF ClaimsInv
<1>2. CallFits(q, draft[r], note) /\ q.at = "archiving"
  BY <1>1, CallsFit DEF Archive, At, ClaimsInv
<1>3. PICK c \in Contexts : c = q.old /\ note[c] # NoContext
  BY <1>2 DEF CallFits, InCall
<1>4. PICK m \in Notes : m = note[c]
  BY <1>3, CallsFit DEF Catalogues, ClaimsInv
<1>5. PICK n : n = [m EXCEPT !.status = "archived"]
  OBVIOUS
<1>6. n \in Notes /\ n.sup = m.sup /\ n.by = m.by
  BY <1>5 DEF Notes
<1>7. Patch(r, c, n, "closing") /\ UNCHANGED <<entry, draft, resaved>>
  BY <1>1, <1>3, <1>4, <1>5 DEF Archive
<1>8. PICK again \in SUBSET Contexts : again = resaved
  BY DEF ClaimsInv
<1>9. c \notin again /\ n.by \notin again \cup {NoContext}
          => n.by # c /\ note[n.by] # NoContext /\ note[n.by].sup = c
  BY <1>3, <1>4, <1>6, <1>8 DEF ClaimsInv, BacklinksAreClaimed
<1>10. n.sup # c
  BY <1>3, <1>4, <1>6 DEF ClaimsInv
<1>11. QED
  BY <1>4, <1>6, <1>7, <1>8, <1>9, <1>10, PatchClaims

LEMMA LinkForwardClaims ==
    ASSUME NEW r \in Callers, ClaimsInv, LinksInv', LinkForward(r)
    PROVE  ClaimsInv'
<1>1. PICK q \in CallRecords : q = call[r]
  BY CallsFit DEF ClaimsInv
<1>2. CallFits(q, draft[r], note) /\ q.at = "linking"
  BY <1>1, CallsFit DEF LinkForward, At, ClaimsInv
<1>3. /\ q.kind = "supersede" /\ q.old \in Contexts /\ q.new \in Contexts /\ q.old # q.new
      /\ q.scan = <<>>
  BY <1>2 DEF CallFits, InCall, InReindex
<1>4. PICK new \in Contexts, old \in Contexts : new = q.new /\ old = q.old
  BY <1>3
<1>5. old # NoContext /\ UNCHANGED <<entry, draft, resaved>>
  BY ManifestAssumption DEF LinkForward
<1>6. \/ SearchFirst(r, new) /\ note' = note
      \/ GivesUp(r) /\ note' = note
      \/ /\ ~Absent(r, new) /\ note[new].sup = old /\ note' = note
         /\ Goes(r, IF q.seen.by = new /\ q.seen.status = "superseded"
                    THEN "closing" ELSE "marking")
      \/ /\ ~Absent(r, new) /\ note[new].sup \in {NoContext, old}
         /\ Patch(r, new, [note[new] EXCEPT !.sup = old,
                !.status = IF note[new].by = NoContext THEN "current" ELSE @], "marking")
  BY <1>1, <1>4 DEF LinkForward, Conflict
<1>7. CASE SearchFirst(r, new) /\ note' = note
  BY <1>5, <1>7, SearchFirstClaims
<1>8. CASE GivesUp(r) /\ note' = note
  BY <1>5, <1>8, GivesUpClaims
<1>9. CASE /\ ~Absent(r, new) /\ note[new].sup = old /\ note' = note
           /\ Goes(r, IF q.seen.by = new /\ q.seen.status = "superseded"
                      THEN "closing" ELSE "marking")
  <2>1. PICK at : at = IF q.seen.by = new /\ q.seen.status = "superseded"
                       THEN "closing" ELSE "marking"
    OBVIOUS
  <2>2. PICK o : o = [q EXCEPT !.at = at]
    OBVIOUS
  <2>3. /\ o.at = at /\ at \in {"closing", "marking"}
        /\ o.scan = <<>> /\ o.new = new /\ o.old = old
    BY <1>3, <1>4, <2>1, <2>2 DEF CallRecords
  <2>4. call' = [call EXCEPT ![r] = o]
    BY <1>1, <1>9, <2>1, <2>2 DEF Goes, ClaimsInv, LinksInv, LinkShapes
  <2>5. PICK row \in Rows : row = draft[r]
    BY CallsFit DEF ClaimsInv
  <2>6. draft' = [draft EXCEPT ![r] = row]
    BY <1>5, <2>5 DEF ClaimsInv, LinksInv, LinkShapes
  <2>7. Grounded(q, row, note, resaved) /\ Forward(entry', note, resaved)
    BY <1>1, <1>5, <2>5 DEF ClaimsInv
  <2>8. note[new] # NoContext
    BY <1>9 DEF Absent
  <2>9. Grounded(o, row, note, resaved)
    BY <1>5, <1>9, <2>3, <2>7, <2>8 DEF Grounded, Knows, ToMark
  <2>10. QED
    BY <1>5, <1>9, <2>4, <2>6, <2>7, <2>9, CallClaims
<1>10. CASE /\ ~Absent(r, new) /\ note[new].sup \in {NoContext, old}
            /\ Patch(r, new, [note[new] EXCEPT !.sup = old,
                   !.status = IF note[new].by = NoContext THEN "current" ELSE @], "marking")
  <2>1. PICK m \in Notes : m = note[new] /\ m # NoContext
    BY <1>10, CallsFit DEF Absent, Catalogues, ClaimsInv
  <2>2. PICK status : status = IF m.by = NoContext THEN "current" ELSE m.status
    OBVIOUS
  <2>3. PICK n : n = [m EXCEPT !.sup = old, !.status = status]
    OBVIOUS
  <2>4. n \in Notes /\ n.sup = old /\ n.by = m.by
    BY <2>2, <2>3 DEF Notes
  <2>5. Patch(r, new, n, "marking")
    BY <1>10, <2>1, <2>2, <2>3
  <2>6. PICK again \in SUBSET Contexts : again = resaved
    BY DEF ClaimsInv
  <2>7. new \notin again /\ n.by \notin again \cup {NoContext}
            => n.by # new /\ note[n.by] # NoContext /\ note[n.by].sup = new
    BY <2>1, <2>4, <2>6 DEF ClaimsInv, BacklinksAreClaimed
  <2>8. n.sup # new /\ (note[new].sup # NoContext => n.sup = note[new].sup)
    BY <1>3, <1>4, <1>10, <2>4
  <2>9. call[r].new = new /\ n.sup = call[r].old /\ call[r].old # NoContext
    BY <1>1, <1>4, <1>5, <2>4
  <2>10. QED
    BY <1>5, <2>4, <2>5, <2>6, <2>7, <2>8, <2>9, PatchClaims
<1>11. QED
  BY <1>6, <1>7, <1>8, <1>9, <1>10

(* A row the session sees keeps what the file has.                          *)
LEMMA RowIsKept ==
    ASSUME NEW r \in Callers, NEW c \in Contexts \ resaved, ClaimsInv
    PROVE  AgreesWith(Row(r, c), note[c])
BY DEF ClaimsInv, Forward, Grounded, Knows, Row

LEMMA SaveClaims ==
    ASSUME NEW r \in Callers, ClaimsInv, LinksInv', Save(r)
    PROVE  ClaimsInv'
<1>1. PICK q \in CallRecords : q = call[r]
  BY CallsFit DEF ClaimsInv
<1>2. CallFits(q, draft[r], note) /\ q.at = "saving"
  BY <1>1, CallsFit DEF Save, At, ClaimsInv
<1>3. /\ q.kind = "save" /\ q.new \in Contexts /\ q.old # q.new /\ q.scan = <<>>
      /\ q.old \in MaybeContext
  BY <1>2 DEF CallFits, InCall, InReindex, CallRecords
<1>4. PICK new \in Contexts, old \in MaybeContext : new = q.new /\ old = q.old
  BY <1>3
<1>5. UNCHANGED <<entry, draft>>
  BY DEF Save
<1>6. PICK by \in MaybeContext :
          \/ GivesUp(r) /\ UNCHANGED <<note, resaved>>
          \/ /\ SoundLinks(r, by)
             /\ resaved' = IF note[new] = NoContext THEN resaved
                           ELSE resaved \cup {new}
             /\ Patch(r, new,
                    [sup |-> old, by |-> by,
                     status |-> IF by = NoContext THEN "active" ELSE "superseded"],
                    IF old = NoContext THEN "closing" ELSE "marking")
  BY <1>1, <1>4, Zenon DEF Save, MaybeContext
<1>7. CASE GivesUp(r) /\ UNCHANGED <<note, resaved>>
  BY <1>5, <1>7, GivesUpClaims
<1>8. CASE /\ SoundLinks(r, by)
           /\ resaved' = IF note[new] = NoContext THEN resaved
                         ELSE resaved \cup {new}
           /\ Patch(r, new,
                  [sup |-> old, by |-> by,
                   status |-> IF by = NoContext THEN "active" ELSE "superseded"],
                  IF old = NoContext THEN "closing" ELSE "marking")
  <2>1. PICK status : status = IF by = NoContext THEN "active" ELSE "superseded"
    OBVIOUS
  <2>2. PICK n : n = [sup |-> old, by |-> by, status |-> status]
    OBVIOUS
  <2>3. n \in Notes /\ n.sup = old /\ n.by = by
    BY <2>1, <2>2 DEF Notes, MaybeContext
  <2>4. PICK next : next = IF old = NoContext THEN "closing" ELSE "marking"
    OBVIOUS
  <2>5. Patch(r, new, n, next)
    BY <1>8, <2>1, <2>2, <2>4
  <2>6. PICK again \in SUBSET Contexts :
            /\ again = resaved' /\ resaved \subseteq again
            /\ note[new] # NoContext => new \in again
    BY <1>8 DEF ClaimsInv
  <2>7. by # NoContext => by # new /\ Row(r, by) # NoContext /\ Row(r, by).sup = new
    BY <1>1, <1>4, <1>8 DEF SoundLinks
  <2>8. ASSUME by \notin again \cup {NoContext}
        PROVE  by # new /\ note[by] # NoContext /\ note[by].sup = new
    <3>1. by \in Contexts \ resaved
      BY <2>6, <2>8 DEF MaybeContext
    <3>2. AgreesWith(Row(r, by), note[by])
      BY <3>1, RowIsKept
    <3>3. Row(r, by) # Unwritten
      BY <3>1, CallsFit, LinksAssumption DEF Row, ClaimsInv, Catalogues
    <3>4. new # NoContext
      BY ManifestAssumption
    <3>5. QED
      BY <2>7, <2>8, <3>2, <3>3, <3>4 DEF AgreesWith
  <2>9. n.sup # new /\ (new \notin again => note[new] = NoContext)
    BY <1>3, <1>4, <2>3, <2>6
  <2>10. next = "marking" => call[r].new = new /\ n.sup = call[r].old /\ call[r].old # NoContext
    BY <1>1, <1>4, <2>3, <2>4
  <2>11. QED
    BY <1>5, <2>3, <2>5, <2>6, <2>8, <2>9, <2>10, PatchClaims
<1>9. QED
  BY <1>6, <1>7, <1>8

(* An error row claims nothing.                                             *)
LEMMA QuarantineClaims ==
    ASSUME NEW r \in Callers, NEW cs, ClaimsInv, LinksInv', Quarantine(r, cs),
           UNCHANGED <<note, entry, resaved>>
    PROVE  ClaimsInv'
<1>1. PICK q \in CallRecords : q = call[r]
  BY CallsFit DEF ClaimsInv
<1>2. PICK row : row = [c \in Contexts |-> IF c \in cs THEN NoContext ELSE draft[r][c]]
  OBVIOUS
<1>3. PICK o : o = [q EXCEPT !.at = "reconciling", !.alone = FALSE]
  OBVIOUS
<1>4. o.at = "reconciling" /\ o.scan = q.scan
  BY <1>3 DEF CallRecords
<1>5. call' = [call EXCEPT ![r] = o] /\ draft' = [draft EXCEPT ![r] = row]
  BY <1>1, <1>2, <1>3 DEF Quarantine, ClaimsInv, LinksInv, LinkShapes
<1>6. Grounded(q, draft[r], note, resaved) /\ Forward(entry', note, resaved)
  BY <1>1 DEF ClaimsInv
<1>7. \A c \in Contexts \ resaved : AgreesWith(row[c], note[c])
  BY <1>2, <1>6 DEF Grounded, Knows, AgreesWith
<1>8. Grounded(o, row, note, resaved)
  BY <1>4, <1>6, <1>7 DEF Grounded, Knows, ToMark
<1>9. QED
  BY <1>5, <1>6, <1>8, CallClaims

LEMMA MarkSupersededClaims ==
    ASSUME NEW r \in Callers, ClaimsInv, LinksInv', MarkSuperseded(r)
    PROVE  ClaimsInv'
<1>1. PICK q \in CallRecords : q = call[r]
  BY CallsFit DEF ClaimsInv
<1>2. /\ CallFits(q, draft[r], note) /\ q.at = "marking" /\ At(r, "marking")
      /\ Grounded(q, draft[r], note, resaved)
  BY <1>1, CallsFit DEF MarkSuperseded, At, ClaimsInv
<1>3. PICK old \in Contexts, new \in Contexts : old = Target(r) /\ new = Replacement(r)
  BY <1>2, MarkingPair DEF ClaimsInv
<1>4. old # NoContext /\ UNCHANGED <<entry, resaved>>
  BY ManifestAssumption DEF MarkSuperseded
<1>5. Row(r, old) # NoContext => note[old] # NoContext
  BY <1>2, LinksAssumption
  DEF Row, ClaimsInv, LinksInv, CallFits, RowsOfFiles, LinkShapes, Catalogues
<1>6. new \notin resaved => note[new] # NoContext /\ note[new].sup = old
  <2>1. CASE q.scan = <<>>
    BY <1>1, <1>2, <1>3, <2>1 DEF Grounded, Knows, ToMark, Target, Replacement, Reindexing
  <2>2. CASE q.scan # <<>>
    <3>1. new = q.mark /\ old = q.scan[new].sup /\ q.scan[new] # NoContext
      BY <1>1, <1>2, <1>3, <2>2
      DEF Target, Replacement, Reindexing, CallFits, InReindex, LinkFound
    <3>2. q.scan[new] # Unwritten
      BY <2>2, LinksAssumption DEF CallRecords, Catalogues
    <3>3. QED
      BY <1>2, <1>4, <2>2, <3>1, <3>2 DEF Grounded, Knows, AgreesWith
  <2>3. QED
    BY <2>1, <2>2
<1>7. \/ Quarantine(r, {new}) /\ note' = note
      \/ GivesUp(r) /\ draft' = draft /\ note' = note
      \/ Goes(r, Following(r)) /\ draft' = draft /\ note' = note
      \/ /\ Row(r, old) # NoContext /\ draft' = draft
         /\ Patch(r, old, [note[old] EXCEPT !.by = new, !.status = "superseded"], Following(r))
  BY <1>3 DEF MarkSuperseded, Markable
<1>8. CASE Quarantine(r, {new}) /\ note' = note
  <2>1. PICK cs : cs = {new}
    OBVIOUS
  <2>2. QED
    BY <1>4, <1>8, <2>1, QuarantineClaims
<1>9. CASE GivesUp(r) /\ draft' = draft /\ note' = note
  BY <1>4, <1>9, GivesUpClaims
<1>10. CASE Goes(r, Following(r)) /\ draft' = draft /\ note' = note
  <2>1. PICK at : at = Following(r) /\ at \in {"reconciling", "closing"}
    BY DEF Following
  <2>2. PICK o : o = [q EXCEPT !.at = at]
    OBVIOUS
  <2>3. o.at \in {"reconciling", "closing"} /\ o.scan = q.scan
    BY <2>1, <2>2 DEF CallRecords
  <2>4. call' = [call EXCEPT ![r] = o]
    BY <1>1, <1>10, <2>1, <2>2 DEF Goes, ClaimsInv, LinksInv, LinkShapes
  <2>5. QED
    BY <1>1, <1>4, <1>10, <2>3, <2>4, GoesClaims DEF ToMark
<1>11. CASE /\ Row(r, old) # NoContext /\ draft' = draft
            /\ Patch(r, old, [note[old] EXCEPT !.by = new, !.status = "superseded"],
                     Following(r))
  <2>1. PICK m \in Notes : m = note[old] /\ m # NoContext
    BY <1>5, <1>11, CallsFit DEF Catalogues, ClaimsInv
  <2>2. PICK n : n = [m EXCEPT !.by = new, !.status = "superseded"]
    OBVIOUS
  <2>3. n \in Notes /\ n.sup = m.sup /\ n.by = new
    BY <2>2 DEF Notes
  <2>4. PICK next : next = Following(r) /\ next # "marking"
    BY DEF Following
  <2>5. Patch(r, old, n, next)
    BY <1>11, <2>1, <2>2, <2>4
  <2>6. PICK again \in SUBSET Contexts : again = resaved
    BY DEF ClaimsInv
  <2>7. n.sup # old
    BY <2>1, <2>3 DEF ClaimsInv
  <2>8. n.by \notin again => n.by # old /\ note[n.by] # NoContext /\ note[n.by].sup = old
    BY <1>6, <2>3, <2>6 DEF ClaimsInv
  <2>9. QED
    BY <1>4, <1>11, <2>1, <2>3, <2>4, <2>5, <2>6, <2>7, <2>8, PatchClaims
<1>12. QED
  BY <1>7, <1>8, <1>9, <1>10, <1>11

LEMMA IndexCopyClaims ==
    ASSUME NEW r \in Callers, ClaimsInv, LinksInv', IndexCopy(r)
    PROVE  ClaimsInv'
<1>1. PICK q \in CallRecords : q = call[r]
  BY CallsFit DEF ClaimsInv
<1>2. PICK row \in Rows : row = draft[r]
  BY CallsFit DEF ClaimsInv
<1>3. /\ CallFits(q, row, note) /\ q.at = "indexing" /\ Grounded(q, row, note, resaved)
      /\ Forward(entry', note, resaved)
  BY <1>1, <1>2, CallsFit DEF IndexCopy, At, ClaimsInv
<1>4. PICK written : written = [row EXCEPT ![q.to] = q.copy]
  OBVIOUS
<1>5. PICK o : o = [q EXCEPT !.at = q.next]
  OBVIOUS
<1>6. /\ o.at = q.next /\ q.next \in {"closing", "marking", "reconciling"}
      /\ o.scan = q.scan /\ o.new = q.new /\ o.old = q.old
  BY <1>5 DEF CallRecords
<1>7. call' = [call EXCEPT ![r] = o] /\ draft' = [draft EXCEPT ![r] = written]
  BY <1>1, <1>2, <1>4, <1>5 DEF IndexCopy, Goes, ClaimsInv, LinksInv, LinkShapes
<1>8. \A c \in Contexts : written[c] \in {row[c], q.copy} /\ (c # q.to => written[c] = row[c])
  BY <1>4 DEF Rows
<1>9. Grounded(o, written, note, resaved)
  <2> SUFFICES ASSUME NEW c \in Contexts \ resaved
               PROVE  Knows(o, written, c, note[c])
    BY DEF Grounded
  <2>1. Knows(q, row, c, note[c])
    BY <1>3 DEF Grounded
  <2>2. AgreesWith(written[c], note[c])
    BY <1>3, <1>8, <2>1 DEF Knows
  <2>3. QED
    BY <1>3, <1>6, <2>1, <2>2 DEF Knows, ToMark
<1>10. QED
  BY <1>3, <1>7, <1>9, CallClaims DEF IndexCopy

LEMMA IndexFailsClaims ==
    ASSUME NEW r \in Callers, ClaimsInv, LinksInv', IndexFails(r)
    PROVE  ClaimsInv'
<1>1. CASE Reindexing(r)
  <2>1. PICK cs : cs = {Target(r), Replacement(r)}
    OBVIOUS
  <2>2. Quarantine(r, cs) /\ UNCHANGED <<note, entry, resaved>>
    BY <1>1, <2>1 DEF IndexFails
  <2>3. QED
    BY <2>2, QuarantineClaims
<1>2. CASE ~Reindexing(r)
  BY <1>2, GivesUpClaims DEF IndexFails
<1>3. QED
  BY <1>1, <1>2

LEMMA ScanClaims ==
    ASSUME NEW r \in Callers, ClaimsInv, LinksInv', Scan(r)
    PROVE  ClaimsInv'
<1>1. UNCHANGED <<note, entry, draft, resaved>>
  BY DEF Scan
<1>2. CASE GivesUp(r)
  BY <1>1, <1>2, GivesUpClaims
<1>3. CASE call' = [call EXCEPT ![r].at = "cataloguing", ![r].scan = note,
                                ![r].alone = Alone(r)]
  <2>1. PICK q \in CallRecords : q = call[r]
    BY CallsFit DEF ClaimsInv
  <2>2. PICK scan, alone : scan = note /\ alone = Alone(r)
    OBVIOUS
  <2>3. PICK o : o = [q EXCEPT !.at = "cataloguing", !.scan = scan, !.alone = alone]
    OBVIOUS
  <2>4. o.at = "cataloguing" /\ o.scan = note
    BY <2>2, <2>3 DEF CallRecords
  <2>5. call' = [call EXCEPT ![r] = o]
    BY <1>3, <2>1, <2>2, <2>3 DEF ClaimsInv, LinksInv, LinkShapes
  <2>6. PICK row \in Rows : row = draft[r]
    BY CallsFit DEF ClaimsInv
  <2>7. draft' = [draft EXCEPT ![r] = row]
    BY <1>1, <2>6 DEF ClaimsInv, LinksInv, LinkShapes
  <2>8. Grounded(q, row, note, resaved) /\ Forward(entry', note, resaved)
    BY <1>1, <2>1, <2>6 DEF ClaimsInv
  <2>9. Grounded(o, row, note, resaved)
    BY <2>4, <2>8 DEF Grounded, Knows, ToMark, AgreesWith
  <2>10. QED
    BY <1>1, <2>5, <2>7, <2>8, <2>9, CallClaims
<1>4. QED
  BY <1>2, <1>3 DEF Scan

LEMMA CatalogueClaims ==
    ASSUME NEW r \in Callers, ClaimsInv, LinksInv', Catalogue(r)
    PROVE  ClaimsInv'
<1>1. PICK q \in CallRecords : q = call[r]
  BY CallsFit DEF ClaimsInv
<1>2. /\ CallFits(q, draft[r], note) /\ q.at = "cataloguing"
      /\ Grounded(q, draft[r], note, resaved) /\ Forward(entry', note, resaved)
  BY <1>1, CallsFit DEF Catalogue, At, ClaimsInv
<1>3. q.scan # <<>>
  BY <1>2 DEF CallFits, InReindex
<1>4. PICK accepted : accepted = Accepted(LinksOf(q.scan))
  OBVIOUS
<1>5. PICK row : row = [c \in Contexts |-> IF c \in accepted THEN q.scan[c] ELSE NoContext]
  OBVIOUS
<1>6. PICK todo : todo = {c \in accepted : q.scan[c].sup # NoContext}
  OBVIOUS
<1>7. PICK o : o = [q EXCEPT !.at = "reconciling", !.todo = todo]
  OBVIOUS
<1>8. o.at = "reconciling" /\ o.scan = q.scan
  BY <1>7 DEF CallRecords
<1>9. call' = [call EXCEPT ![r] = o] /\ draft' = [draft EXCEPT ![r] = row]
  <2>1. draft' = [draft EXCEPT ![r] = row]
    BY <1>1, <1>4, <1>5 DEF Catalogue
  <2>2. call' = [call EXCEPT ![r].at = "reconciling", ![r].todo = todo]
    BY <1>1, <1>4, <1>6 DEF Catalogue
  <2>3. QED
    BY <1>1, <1>7, <2>1, <2>2 DEF ClaimsInv, LinksInv, LinkShapes
<1>10. \A c \in Contexts \ resaved : AgreesWith(row[c], note[c])
  BY <1>2, <1>3, <1>5 DEF Grounded, Knows, AgreesWith
<1>11. Grounded(o, row, note, resaved)
  BY <1>2, <1>8, <1>10 DEF Grounded, Knows, ToMark
<1>12. QED
  BY <1>2, <1>9, <1>11, CallClaims DEF Catalogue

LEMMA ReconcileClaims ==
    ASSUME NEW r \in Callers, ClaimsInv, LinksInv', Reconcile(r)
    PROVE  ClaimsInv'
<1>1. PICK q \in CallRecords : q = call[r]
  BY CallsFit DEF ClaimsInv
<1>0. LinksInv /\ At(r, "reconciling") /\ UNCHANGED <<note, entry, draft, resaved>>
  BY Zenon DEF ClaimsInv, Reconcile
<1>2. /\ CallFits(q, draft[r], note) /\ q.at = "reconciling"
      /\ UNCHANGED <<note, entry, draft, resaved>>
  BY <1>0, <1>1, CallsFit DEF At
<1>3. CASE call' = [call EXCEPT ![r].scan = <<>>, ![r].at = call[r].back,
                                ![r].mark = NoContext]
  <2>1. PICK back \in {"closing", "reading", "linking"} : back = q.back
    BY DEF CallRecords
  <2>2. PICK o : o = [q EXCEPT !.scan = <<>>, !.at = back, !.mark = NoContext]
    OBVIOUS
  <2>3. o.at = back /\ o.scan = <<>>
    BY <2>2 DEF CallRecords
  <2>4. call' = [call EXCEPT ![r] = o]
    BY <1>1, <1>3, <2>1, <2>2 DEF ClaimsInv, LinksInv, LinkShapes
  <2>5. QED
    BY <1>2, <2>1, <2>3, <2>4, GoesClaims DEF ToMark
<1>4. ASSUME NEW c \in q.todo,
             call' = [call EXCEPT ![r].at = "marking", ![r].mark = c,
                                  ![r].todo = q.todo \ {c}]
      PROVE  ClaimsInv'
  <2>1. PICK todo : todo = q.todo \ {c}
    OBVIOUS
  <2>2. PICK o : o = [q EXCEPT !.at = "marking", !.mark = c, !.todo = todo]
    OBVIOUS
  <2>3. o.at = "marking" /\ o.scan = q.scan /\ q.scan # <<>>
    BY <1>2, <2>2 DEF CallRecords, CallFits, InReindex
  <2>4. call' = [call EXCEPT ![r] = o]
    BY <1>1, <1>4, <2>1, <2>2 DEF ClaimsInv, LinksInv, LinkShapes
  <2>5. PICK row \in Rows : row = draft[r]
    BY CallsFit DEF ClaimsInv
  <2>6. draft' = [draft EXCEPT ![r] = row]
    BY <1>2, <2>5 DEF ClaimsInv, LinksInv, LinkShapes
  <2>7. Grounded(q, row, note, resaved) /\ Forward(entry', note, resaved)
    BY <1>1, <1>2, <2>5 DEF ClaimsInv
  <2>8. Grounded(o, row, note, resaved)
    BY <2>3, <2>7 DEF Grounded, Knows
  <2>9. QED
    BY <1>2, <2>4, <2>6, <2>7, <2>8, CallClaims
<1>5. \/ call' = [call EXCEPT ![r].scan = <<>>, ![r].at = call[r].back,
                                ![r].mark = NoContext]
      \/ \E c \in q.todo : call' = [call EXCEPT ![r].at = "marking", ![r].mark = c,
                                                ![r].todo = q.todo \ {c}]
  BY <1>1, Zenon DEF Reconcile
<1>6. QED
  BY <1>3, <1>4, <1>5, Zenon

LEMMA UndoClaims ==
    ASSUME NEW r \in Callers, ClaimsInv, LinksInv', Undo(r) \/ Die(r)
    PROVE  ClaimsInv'
<1>1. Ends(r) /\ UNCHANGED <<note, entry, resaved>>
  BY DEF Undo, Die
<1>2. Forward(entry', note, resaved)
  BY <1>1 DEF ClaimsInv
<1>3. QED
  BY <1>1, <1>2, EndsClaims

LEMMA CommitClaims ==
    ASSUME NEW r \in Callers, ClaimsInv, LinksInv', Commit(r)
    PROVE  ClaimsInv'
<1>1. Ends(r) /\ UNCHANGED <<note, resaved>> /\ entry' = [c \in Contexts |-> Row(r, c)]
  BY DEF Commit
<1>2. Forward(entry', note, resaved)
  BY <1>1, RowIsKept DEF Forward
<1>3. QED
  BY <1>1, <1>2, EndsClaims

LEMMA StartsClaimed == LinksInit => ClaimsInv
<1> SUFFICES ASSUME LinksInit
             PROVE  ClaimsInv
  OBVIOUS
<1>1. LinksInv
  BY StartsLinked
<1>2. /\ resaved = {} /\ entry = note /\ Plain.sup = NoContext /\ Plain.by = NoContext
      /\ \A c \in Contexts : note[c] \in {NoContext, Plain} /\ c # NoContext
  BY ManifestAssumption DEF LinksInit, Plain
<1>3. ASSUME NEW r \in Callers
      PROVE  Grounded(call[r], draft[r], note, resaved)
  <2>1. call[r] = Fresh /\ Fresh.at = "idle" /\ Fresh.scan = <<>>
        /\ \A c \in Contexts : draft[r][c] = Unwritten
    BY DEF LinksInit, Fresh
  <2>2. QED
    BY <2>1 DEF Grounded, Knows, AgreesWith, ToMark
<1>4. Forward(entry, note, resaved)
  BY <1>2 DEF Forward, AgreesWith
<1>5. BacklinksAreClaimed
  BY <1>2 DEF BacklinksAreClaimed
<1>6. QED
  BY <1>1, <1>2, <1>3, <1>4, <1>5 DEF ClaimsInv

LEMMA StaysClaimed == ClaimsInv /\ [LinksNext]_linkVars => ClaimsInv'
<1> SUFFICES ASSUME ClaimsInv, [LinksNext]_linkVars
             PROVE  ClaimsInv'
  OBVIOUS
<1>1. LinksInv'
  BY StaysLinked DEF ClaimsInv
<1>2. CASE UNCHANGED linkVars
  BY <1>1, <1>2 DEF linkVars, ClaimsInv, BacklinksAreClaimed
<1>3. ASSUME NEW r \in Callers,
             \/ Ask(r) \/ ReadOld(r) \/ Archive(r) \/ LinkForward(r) \/ Save(r)
             \/ MarkSuperseded(r) \/ IndexCopy(r) \/ IndexFails(r)
             \/ Scan(r) \/ Catalogue(r) \/ Reconcile(r)
             \/ Undo(r) \/ Commit(r) \/ Die(r)
      PROVE  ClaimsInv'
  BY <1>1, <1>3, AskClaims, ReadOldClaims, ArchiveClaims, LinkForwardClaims, SaveClaims,
     MarkSupersededClaims, IndexCopyClaims, IndexFailsClaims, ScanClaims, CatalogueClaims,
     ReconcileClaims, UndoClaims, CommitClaims
<1>4. QED
  BY <1>2, <1>3 DEF LinksNext

LEMMA AlwaysClaimed == LinksSpec => []ClaimsInv
BY StartsClaimed, StaysClaimed, PTL DEF LinksSpec

(* No backlink names a Context whose own file does not claim the place: the *)
(* forward link is written first, and nothing but a save takes it back      *)
(* (memory/infrastructure/obsidian/obsidian_context_lifecycle.py:97-150).   *)
THEOREM BacklinksStayClaimed == LinksSpec => []BacklinksAreClaimed
<1>1. ClaimsInv => BacklinksAreClaimed
  BY DEF ClaimsInv
<1>2. QED
  BY <1>1, AlwaysClaimed, PTL

(* Files, rows, sessions and requests keep their shapes, and a request that *)
(* is over has no row left in its session (memory/application               *)
(* context_service.py and the vault repositories it calls).                 *)
THEOREM LinksTypes == LinksSpec => []LinksTypeOK
<1>1. ClaimsInv => LinksTypeOK
  <2> SUFFICES ASSUME ClaimsInv
               PROVE  LinksTypeOK
    OBVIOUS
  <2>1. /\ note \in [Contexts -> Notes \cup {NoContext}]
        /\ entry \in [Contexts -> Notes \cup {NoContext}]
        /\ linkFaults \in 0..MaxLinkFaults /\ settled \in BOOLEAN
        /\ resaved \subseteq Contexts
    BY DEF ClaimsInv, LinksInv, LinkShapes, Catalogues
  <2>2. ASSUME NEW r \in Callers, NEW c \in Contexts
        PROVE  /\ draft[r][c] \in Notes \cup {NoContext, Unwritten}
               /\ ~Live(r) => draft[r][c] = Unwritten
    BY CallsFit DEF Rows, CallFits, InCall, Live, Over, At, ClaimsInv
  <2>3. QED
    BY <2>1, <2>2 DEF LinksTypeOK
<1>2. QED
  BY <1>1, AlwaysClaimed, PTL

(* A reindex that ran alone leaves every accepted forward link with its     *)
(* backlink, in the file and in the index, and the index equal to the       *)
(* accepted files, for any number of Contexts and requests (memory          *)
(* infrastructure/obsidian, reindex and reconcile of supersede links).      *)
THEOREM LoneReindexReconciles == LinksSpec => []ReindexReconciles
<1>1. LinksInv => ReindexReconciles
  BY DEF LinksInv
<1>2. QED
  BY <1>1, AlwaysLinked, PTL
=============================================================================
