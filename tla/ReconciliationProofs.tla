----------------------- MODULE ReconciliationProofs -----------------------
(***************************************************************************)
(* Proofs about the plans of a reconciliation: what an APPLIED plan has    *)
(* left behind, for any plans, requests and faults; the promise that holds *)
(* however requests overlap, and the one that holds while they come one    *)
(* after the other.                                                        *)
(***************************************************************************)
EXTENDS ReconciliationApply, TLAPS

Contents == {NoRow} \cup Words \cup Plans \cup Candidates \cup Overlays
Outcomes == {"APPLIED", "FAILED", "PARTIAL_APPLY"}

ApplyRecords ==
    [plan : Plans, at : {"idle", "working", "undoing", "closing", "over"}, step : Nat,
     part : {"begin", "index", "mark", "flag"}, created : Candidates,
     selected : BOOLEAN, seen : Contents, evidence : SUBSET Candidates,
     named : Candidates \cup {"unmarked"}, changed : BOOLEAN, status : Outcomes]

(* A candidate has a plan whose text is p's.                                *)
Fits(c, p) == \E q \in Plans : CandidateOf[q] = c /\ TextOf[q] = TextOf[p]
Replacer(v) == v \in Plans /\ Replacing(v)

(* Rows of the database or of a session; a note with a row has a file.      *)
RowsFit(f) ==
    /\ f[StateRow] \in {NoRow} \cup Overlays
    /\ f[MarkRow] \in {NoRow, "error", "unmarked"} \cup Candidates
    /\ \A p \in Plans : f[ResultRow(p)] \in {NoRow} \cup Outcomes
    /\ \A c \in Candidates : /\ f[NoteRow(c)] \in {NoRow, "error"} \cup Plans
                             /\ f[NoteRow(c)] \in Plans => Fits(c, f[NoteRow(c)])
Filed(f) == \A c \in Candidates : f[NoteRow(c)] # NoRow => made[c] # NoRow

Shapes ==
    /\ made \in [Candidates -> Plans \cup {NoRow}]
    /\ \A c \in Candidates : made[c] # NoRow => Fits(c, made[c])
    /\ merged \subseteq Candidates /\ markedBy \in Candidates \cup {"unmarked"}
    /\ reading \subseteq ConflictKeys
    /\ applyFaults \in 0..MaxApplyFaults /\ overlap \in BOOLEAN
    /\ rows \in [Keys -> Contents] /\ RowsFit(rows) /\ Filed(rows) /\ rows[MarkRow] # NoRow
    /\ pending \in [Applies -> [Keys -> Contents]]
    /\ apply \in [Applies -> ApplyRecords]

Script(r) == StepsOf[RelationOf[apply[r].plan]]
Working(r) == apply[r].at \in {"working", "closing"}

(* The request has met no trouble and is past the step.                     *)
Done(r, step) ==
    /\ apply[r].status = "APPLIED"
    /\ \E j \in 1..Len(Script(r)) : j < apply[r].step /\ Script(r)[j] = step

(* A request works within its script, at whose end a failed one is; when it *)
(* is about to commit it has written its result; and it is in the middle of *)
(* a step only where notes are saved.                                       *)
OnScript(r) ==
    /\ Underway(r) => apply[r].step \in 1..Len(Script(r))
    /\ (Underway(r) /\ apply[r].status # "APPLIED") => apply[r].step = Len(Script(r))
    /\ apply[r].at = "closing" =>
           apply[r].step = Len(Script(r)) /\ pending[r][ResultRow(apply[r].plan)] = apply[r].status
    /\ (OnStep(r, "state") /\ apply[r].selected) => apply[r].seen \in {NoRow} \cup Overlays
    /\ apply[r].part # "begin" =>
           OnStep(r, "create") \/ OnStep(r, "supersede")
           \/ (apply[r].part = "flag" /\ OnStep(r, "merge"))

(* A session holds no conflict and no result but its plan's.                *)
OwnRows(r) ==
    /\ ~Underway(r) => pending[r] = Untouched
    /\ RowsFit(pending[r]) /\ Filed(pending[r])
    /\ \A k \in ConflictKeys : pending[r][k] # NoRow => k = ConflictRow(apply[r].plan)
    /\ \A p \in Plans : pending[r][ResultRow(p)] # NoRow => p = apply[r].plan

(* What the steps that a request is past have left.                         *)
Does(r) ==
    LET p == apply[r].plan
        c == apply[r].created
    IN  /\ Fits(c, p)
        /\ OnStep(r, "create") => c = CandidateOf[p]
        /\ apply[r].part = "index" => made[c] # NoRow
        /\ (OnStep(r, "create") /\ apply[r].part \in {"mark", "flag"})
               => pending[r][NoteRow(c)] = p
        /\ Done(r, "create") => Seen(r, NoteRow(c)) # NoRow
        /\ Done(r, "relation") => pending[r][RelationRow(c, p)] # NoRow
        /\ Done(r, "conflict") => pending[r][ConflictRow(p)] # NoRow
        /\ Done(r, "own") => pending[r][<<"own", c>>] # NoRow

(* Of an APPLIED plan.                                                      *)
LeftRows(p, c) ==
    /\ Fits(c, p)
    /\ Takes(p, "create") => rows[NoteRow(c)] # NoRow /\ rows[<<"own", c>>] # NoRow
    /\ Takes(p, "relation") => rows[RelationRow(c, p)] # NoRow
    /\ Takes(p, "conflict") => rows[ConflictRow(p)] # NoRow
    /\ (Takes(p, "supersede") /\ ~overlap) => markedBy = c /\ rows[MarkRow] # "unmarked"
PlanLeft(p) == \E c \in Candidates : LeftRows(p, c)

Closed(row) == row # NoRow /\ row.closed

(* Of a request that is alone: what it has read of the existing Context is  *)
(* still there, and its evidence is merged once it has saved.               *)
Evident(r) ==
    /\ OnPart(r, "merge", "begin") => apply[r].evidence = merged /\ apply[r].named = markedBy
    /\ OnPart(r, "merge", "flag") =>
           /\ Seen(r, MarkRow) # "error" /\ CandidateOf[apply[r].plan] \in merged
           /\ apply[r].named = markedBy
    /\ Done(r, "merge") => CandidateOf[apply[r].plan] \in merged

(* The existing Context's row names the replacement that its file names;    *)
(* no replacement's row is there while the existing Context's is unmarked.  *)
MarkSound(r) == pending[r][MarkRow] \in {NoRow, "error", markedBy}
NotesSound(r, d) == Replacer(Seen(r, NoteRow(d))) => Seen(r, MarkRow) # "unmarked"

(* The same, in the middle of a step too, and what the steps have left.     *)
MarkFits(r) ==
    LET p == apply[r].plan
        c == apply[r].created
        inSave == OnStep(r, "create") /\ apply[r].part \in {"mark", "flag"}
    IN  /\ (apply[r].part = "flag" /\ ~OnStep(r, "merge")) =>
               apply[r].named = c /\ markedBy = c
        /\ MarkSound(r) \/ (pending[r][MarkRow] = "unmarked" /\ apply[r].part = "flag"
                            /\ ~OnStep(r, "merge"))
        /\ \A d \in Candidates : NotesSound(r, d) \/ (d = c /\ inSave)
        /\ Done(r, "create") => /\ Seen(r, NoteRow(c)) \in Plans
                                /\ Replacing(p) => /\ Replacing(Seen(r, NoteRow(c)))
                                                   /\ Seen(r, MarkRow) # "error"
        /\ Done(r, "supersede") => markedBy = c /\ Seen(r, MarkRow) = c

(* The overlay that it has read is the present one, and stays closed.       *)
Stated(r) ==
    /\ (OnStep(r, "state") /\ apply[r].selected) => apply[r].seen = Seen(r, StateRow)
    /\ (Done(r, "state") /\ Replacing(apply[r].plan)) => Closed(pending[r][StateRow])
    /\ Closed(rows[StateRow]) => Closed(Seen(r, StateRow))

AloneDoes(r) == ~Applied(apply[r].plan) /\ Evident(r) /\ MarkFits(r) /\ Stated(r)

(* While requests come one after the other.                                 *)
InTurn ==
    /\ \A r, s \in Applies : Underway(r) /\ Underway(s) => r = s
    /\ \A r \in Applies : Working(r) => AloneDoes(r)
    /\ rows[MarkRow] \in Candidates => markedBy = rows[MarkRow]
    /\ \A d \in Candidates : Replacer(rows[NoteRow(d)]) => rows[MarkRow] # "unmarked"
    /\ \A p \in Plans : Applied(p) => /\ Takes(p, "merge") => CandidateOf[p] \in merged
                                      /\ Takes(p, "supersede") => Closed(rows[StateRow])

ApplyInv ==
    /\ Shapes
    /\ \A r \in Applies : OnScript(r) /\ OwnRows(r) /\ (Working(r) => Does(r))
    /\ \A p \in Plans : Applied(p) => PlanLeft(p)
    /\ ~overlap => InTurn

-----------------------------------------------------------------------------
(* What the proofs need to know of a script.                                *)
WellScripted(S) ==
    /\ Len(S) \in Nat \ {0} /\ DOMAIN S = 1..Len(S)
    /\ S[Len(S)] = "result"
    /\ \A i, j \in 1..Len(S) : S[i] = S[j] => i = j
    /\ \A i \in 1..Len(S) : S[i] = "create" => i = 1 /\ \E j \in 1..Len(S) : S[j] = "own"
    /\ \A i \in 1..Len(S) : S[i] = "merge" => i > 1 /\ S[i - 1] = "read"
    /\ \A i \in 1..Len(S) : S[i] = "read" =>
           \A j \in 1..Len(S) : S[j] \notin {"create", "supersede"}
    /\ \A i \in 1..Len(S) : S[i] = "supersede" => i > 1 /\ S[1] = "create"

LEMMA Scripts ==
  ASSUME NEW relation \in DOMAIN StepsOf
  PROVE  /\ WellScripted(StepsOf[relation])
         /\ (\E k \in DOMAIN StepsOf[relation] : StepsOf[relation][k] = "supersede")
               => relation = "supersedes"
         /\ relation = "supersedes" =>
               \E i, j \in DOMAIN StepsOf[relation] :
                  StepsOf[relation][i] = "create" /\ StepsOf[relation][j] = "state"
  <1>1. relation \in {"none", "unrelated", "duplicate", "supports", "extends",
                      "contradicts", "supersedes"}
    BY DEF StepsOf
  <1>2. CASE relation = "none"
    <2> DEFINE S == <<"create", "verify", "own", "result">>
    <2>1. StepsOf[relation] = S
      BY <1>2 DEF StepsOf
    <2>2. WellScripted(S) /\ ~\E k \in DOMAIN S : S[k] = "supersede"
      BY DEF WellScripted
    <2> QED
      BY <1>2, <2>1, <2>2
  <1>3. CASE relation = "unrelated"
    <2> DEFINE S == <<"create", "verify", "own", "state", "result">>
    <2>1. StepsOf[relation] = S
      BY <1>3 DEF StepsOf
    <2>2. WellScripted(S) /\ ~\E k \in DOMAIN S : S[k] = "supersede"
      BY DEF WellScripted
    <2> QED
      BY <1>3, <2>1, <2>2
  <1>4. CASE relation = "duplicate"
    <2> DEFINE S == <<"read", "merge", "verify", "state", "result">>
    <2>1. StepsOf[relation] = S
      BY <1>4 DEF StepsOf
    <2>2. WellScripted(S) /\ ~\E k \in DOMAIN S : S[k] = "supersede"
      BY DEF WellScripted
    <2> QED
      BY <1>4, <2>1, <2>2
  <1>5. CASE relation = "supports"
    <2> DEFINE S == <<"read", "merge", "verify", "relation", "state", "result">>
    <2>1. StepsOf[relation] = S
      BY <1>5 DEF StepsOf
    <2>2. WellScripted(S) /\ ~\E k \in DOMAIN S : S[k] = "supersede"
      BY DEF WellScripted
    <2> QED
      BY <1>5, <2>1, <2>2
  <1>6. CASE relation = "extends"
    <2> DEFINE S == <<"create", "verify", "relation", "own", "state", "result">>
    <2>1. StepsOf[relation] = S
      BY <1>6 DEF StepsOf
    <2>2. WellScripted(S) /\ ~\E k \in DOMAIN S : S[k] = "supersede"
      BY DEF WellScripted
    <2> QED
      BY <1>6, <2>1, <2>2
  <1>7. CASE relation = "contradicts"
    <2> DEFINE S == <<"create", "verify", "relation", "conflict", "own", "state", "result">>
    <2>1. StepsOf[relation] = S
      BY <1>7 DEF StepsOf
    <2>2. WellScripted(S) /\ ~\E k \in DOMAIN S : S[k] = "supersede"
      BY DEF WellScripted
    <2> QED
      BY <1>7, <2>1, <2>2
  <1>8. CASE relation = "supersedes"
    <2> DEFINE S == <<"create", "verify", "relation", "supersede", "own", "state", "result">>
    <2>1. StepsOf[relation] = S
      BY <1>8 DEF StepsOf
    <2>2. WellScripted(S) /\ S[1] = "create" /\ S[6] = "state" /\ 1 \in DOMAIN S /\ 6 \in DOMAIN S
      BY DEF WellScripted
    <2> QED
      BY <1>8, <2>1, <2>2
  <1> QED
    BY <1>1, <1>2, <1>3, <1>4, <1>5, <1>6, <1>7, <1>8

(* The same of a plan.                                                      *)
LEMMA PlanScripts ==
  ASSUME NEW p \in Plans
  PROVE  /\ WellScripted(StepsOf[RelationOf[p]])
         /\ Takes(p, "supersede") => Replacing(p)
         /\ Replacing(p) => Takes(p, "create") /\ Takes(p, "state") /\ Relates(p)
  <1>1. RelationOf[p] \in DOMAIN StepsOf
    BY ApplyAssumption
  <1> QED
    BY <1>1, Scripts DEF Takes, Replacing, Relates

(* Rows of different kinds have different keys.                             *)
LEMMA KeyKinds ==
  /\ MarkRow \in NoteKeys /\ StateRow \in Keys \ NoteKeys /\ NoteKeys \subseteq Keys
  /\ ConflictKeys \subseteq Keys \ NoteKeys
  /\ StateRow[1] = "state" /\ MarkRow[1] = "mark"
  /\ \A p \in Plans : /\ ConflictRow(p) \in ConflictKeys /\ ConflictRow(p)[1] = "conflict"
                       /\ ResultRow(p) \in Keys \ NoteKeys /\ ResultRow(p)[1] = "result"
                       /\ CandidateOf[p] \in Candidates
  /\ \A p, q \in Plans : ResultRow(p) = ResultRow(q) => p = q
  /\ \A c \in Candidates : /\ NoteRow(c) \in NoteKeys /\ NoteRow(c) # MarkRow
                            /\ NoteRow(c)[1] = "note" /\ NoteRow(c)[2] = c
                            /\ <<"own", c>> \in Keys \ NoteKeys /\ <<"own", c>>[1] = "own"
  /\ \A c \in Candidates, p \in Plans : /\ RelationRow(c, p) \in Keys \ NoteKeys
                                         /\ RelationRow(c, p)[1] = "relation"
  /\ \A k \in ConflictKeys : k[1] = "conflict"
  /\ \A k \in NoteKeys : k = MarkRow \/ (k[2] \in Candidates /\ k = NoteRow(k[2]))
  BY DEF MarkRow, StateRow, NoteKeys, Keys, ConflictKeys, ConflictRow, ResultRow, NoteRow,
         RelationRow, Candidates

LEMMA NoteKeysDiffer ==
  \A c, d \in Candidates : NoteRow(c) \in Keys /\ (c # d => NoteRow(c) # NoteRow(d))
  BY DEF NoteRow, Keys, NoteKeys

LEMMA Values ==
  /\ NoRow \notin Plans \cup Candidates \cup Words \cup Overlays
  /\ "error" \notin Plans \cup Candidates /\ "unmarked" \notin Plans \cup Candidates
  /\ NoRow # "error" /\ NoRow # "unmarked"
  /\ \A v \in Outcomes : v # NoRow
  BY ApplyAssumption DEF Words, Outcomes

-----------------------------------------------------------------------------
Others(r) == \A s \in Applies \ {r} : apply'[s] = apply[s]

(* A request's next state: one step on, at the end after a failure, or at   *)
(* another part of its step.                                                *)
NextStep(r) ==
    /\ apply' \in [Applies -> ApplyRecords] /\ Others(r)
    /\ apply'[r].plan = apply[r].plan /\ apply'[r].at = apply[r].at
    /\ apply'[r].status = apply[r].status /\ apply'[r].step = apply[r].step + 1
    /\ apply'[r].selected = FALSE /\ apply'[r].part = "begin"
Stops(r) ==
    /\ apply' \in [Applies -> ApplyRecords] /\ Others(r)
    /\ apply'[r].plan = apply[r].plan /\ apply'[r].at = apply[r].at
    /\ apply'[r].status \in {"FAILED", "PARTIAL_APPLY"} /\ apply'[r].step = Len(Script(r))
    /\ apply'[r].selected = FALSE /\ apply'[r].part = "begin"
    /\ apply'[r].created = apply[r].created
SameStep(r) ==
    /\ apply' \in [Applies -> ApplyRecords] /\ Others(r)
    /\ apply'[r].plan = apply[r].plan /\ apply'[r].at = apply[r].at
    /\ apply'[r].status = apply[r].status /\ apply'[r].step = apply[r].step
    /\ apply'[r].selected = apply[r].selected /\ apply'[r].created = apply[r].created
    /\ apply'[r].evidence = apply[r].evidence

LEMMA RecordOf ==
  ASSUME Shapes, NEW r \in Applies
  PROVE  /\ apply[r] \in ApplyRecords /\ apply[r].plan \in Plans /\ apply[r].created \in Candidates
         /\ apply[r].named \in Candidates \cup {"unmarked"} /\ apply[r].evidence \subseteq Candidates
         /\ apply[r].step \in Nat /\ apply[r].status \in Outcomes
         /\ WellScripted(Script(r))
  <1>1. apply[r] \in ApplyRecords
    BY DEF Shapes
  <1>2. apply[r].plan \in Plans
    BY <1>1 DEF ApplyRecords
  <1> QED
    BY <1>1, <1>2, PlanScripts DEF ApplyRecords, Script

LEMMA Puttable ==
  ASSUME Shapes, NEW r \in Applies, NEW o \in ApplyRecords, apply' = [apply EXCEPT ![r] = o]
  PROVE  apply' \in [Applies -> ApplyRecords] /\ Others(r) /\ apply'[r] = o
  BY DEF Shapes, Others

LEMMA SeenShapes ==
  ASSUME Shapes, NEW r \in Applies, NEW k \in Keys
  PROVE  Seen(r, k) \in Contents
  BY DEF Shapes, Seen

LEMMA Continued ==
  ASSUME Shapes, NEW r \in Applies
  PROVE  /\ Continue(r) \in ApplyRecords /\ Continue(r).plan = apply[r].plan
         /\ Continue(r).at = apply[r].at /\ Continue(r).status = apply[r].status
         /\ Continue(r).step = apply[r].step + 1 /\ Continue(r).selected = FALSE
         /\ Continue(r).part = "begin" /\ Continue(r).created = apply[r].created
         /\ Continue(r).evidence = apply[r].evidence /\ Continue(r).named = apply[r].named
         /\ Continue(r).changed = apply[r].changed
  <1>1. apply[r] \in ApplyRecords /\ apply[r].step + 1 \in Nat
    BY RecordOf
  <1>2. NoRow \in Contents
    BY DEF Contents
  <1> QED
    BY <1>1, <1>2 DEF Continue, ApplyRecords

LEMMA GoesAhead ==
  ASSUME Shapes, NEW r \in Applies, Proceed(r)
  PROVE  NextStep(r) /\ apply'[r].created = apply[r].created
  BY Continued, Puttable DEF Proceed, NextStep

LEMMA ChangesOn ==
  ASSUME Shapes, NEW r \in Applies, NEW c \in Candidates, ChangesWith(r, c)
  PROVE  NextStep(r) /\ apply'[r].created = c
  <1> DEFINE o == [Continue(r) EXCEPT !.changed = TRUE, !.created = c, !.evidence = {},
                                      !.named = "unmarked"]
  <1>1. /\ o \in ApplyRecords /\ o.plan = apply[r].plan /\ o.at = apply[r].at
        /\ o.status = apply[r].status /\ o.step = apply[r].step + 1
        /\ o.selected = FALSE /\ o.part = "begin" /\ o.created = c
    <2> DEFINE n == Continue(r)
    <2>1. n \in ApplyRecords /\ {} \in SUBSET Candidates
      BY Continued
    <2>2. /\ n.plan = apply[r].plan /\ n.at = apply[r].at /\ n.status = apply[r].status
          /\ n.step = apply[r].step + 1 /\ n.selected = FALSE /\ n.part = "begin"
      BY Continued
    <2> HIDE DEF n
    <2>3. o \in ApplyRecords
      BY <2>1 DEF ApplyRecords, n
    <2>4. /\ o.plan = n.plan /\ o.at = n.at /\ o.status = n.status /\ o.step = n.step
          /\ o.selected = n.selected /\ o.part = n.part /\ o.created = c
      BY <2>1 DEF ApplyRecords, n
    <2> QED
      BY <2>2, <2>3, <2>4
  <1>2. apply' = [apply EXCEPT ![r] = o]
    BY DEF ChangesWith
  <1> HIDE DEF o
  <1> QED
    BY <1>1, <1>2, Puttable DEF NextStep

LEMMA ReadsOn ==
  ASSUME Shapes, NEW r \in Applies,
         apply' = [apply EXCEPT ![r] = [Continue(r) EXCEPT !.evidence = merged, !.named = markedBy]]
  PROVE  /\ NextStep(r) /\ apply'[r].created = apply[r].created
         /\ apply'[r].evidence = merged /\ apply'[r].named = markedBy
  <1> DEFINE o == [Continue(r) EXCEPT !.evidence = merged, !.named = markedBy]
  <1>1. merged \in SUBSET Candidates /\ markedBy \in Candidates \cup {"unmarked"}
    BY DEF Shapes
  <1>2. /\ o \in ApplyRecords /\ o.plan = apply[r].plan /\ o.at = apply[r].at
        /\ o.status = apply[r].status /\ o.step = apply[r].step + 1
        /\ o.selected = FALSE /\ o.part = "begin" /\ o.created = apply[r].created
        /\ o.evidence = merged /\ o.named = markedBy
    BY <1>1, Continued DEF ApplyRecords
  <1>3. apply' = [apply EXCEPT ![r] = o]
    OBVIOUS
  <1> HIDE DEF o
  <1> QED
    BY <1>2, <1>3, Puttable DEF NextStep

LEMMA FailsStop ==
  ASSUME Shapes, NEW r \in Applies, Fails(r)
  PROVE  Stops(r)
  <1> DEFINE o == [Continue(r) EXCEPT !.step = Len(Script(r)), !.evidence = {}, !.named = "unmarked",
                      !.status = IF apply[r].changed THEN "PARTIAL_APPLY" ELSE "FAILED"]
  <1>1. Len(Script(r)) \in Nat
    BY RecordOf DEF WellScripted
  <1>2. /\ o \in ApplyRecords /\ o.plan = apply[r].plan /\ o.at = apply[r].at
        /\ o.status \in {"FAILED", "PARTIAL_APPLY"} /\ o.step = Len(Script(r))
        /\ o.selected = FALSE /\ o.part = "begin" /\ o.created = apply[r].created
    <2> DEFINE n == Continue(r)
    <2>1. n \in ApplyRecords /\ {} \in SUBSET Candidates
      BY Continued
    <2>2. /\ n.plan = apply[r].plan /\ n.at = apply[r].at /\ n.created = apply[r].created
          /\ n.selected = FALSE /\ n.part = "begin"
      BY Continued
    <2> HIDE DEF n
    <2>3. o \in ApplyRecords
      BY <1>1, <2>1 DEF ApplyRecords, Outcomes, n
    <2>4. /\ o.plan = n.plan /\ o.at = n.at /\ o.created = n.created /\ o.step = Len(Script(r))
          /\ o.status \in {"FAILED", "PARTIAL_APPLY"}
          /\ o.selected = n.selected /\ o.part = n.part
      BY <1>1, <2>1 DEF ApplyRecords, n
    <2> QED
      BY <2>2, <2>3, <2>4
  <1>3. apply' = [apply EXCEPT ![r] = o]
    BY DEF Fails, Script
  <1> HIDE DEF o
  <1> QED
    BY <1>2, <1>3, Puttable DEF Stops

LEMMA GoesTo ==
  ASSUME Shapes, NEW r \in Applies, NEW part \in {"begin", "index", "mark", "flag"}, Goto(r, part)
  PROVE  SameStep(r) /\ apply'[r].part = part /\ apply'[r].named = apply[r].named
  <1> DEFINE o == [apply[r] EXCEPT !.part = part]
  <1>1. apply[r] \in ApplyRecords
    BY RecordOf
  <1>2. /\ o \in ApplyRecords /\ o.plan = apply[r].plan /\ o.at = apply[r].at
        /\ o.status = apply[r].status /\ o.step = apply[r].step /\ o.named = apply[r].named
        /\ o.selected = apply[r].selected /\ o.part = part /\ o.created = apply[r].created
        /\ o.evidence = apply[r].evidence
    BY <1>1 DEF ApplyRecords
  <1>3. apply' = [apply EXCEPT ![r] = o]
    BY <1>1 DEF Goto, Shapes, ApplyRecords
  <1> HIDE DEF o
  <1> QED
    BY <1>2, <1>3, Puttable DEF SameStep

LEMMA GoesToIndex ==
  ASSUME Shapes, NEW r \in Applies, NEW k \in Keys,
         apply' = [apply EXCEPT ![r].part = "index", ![r].seen = Seen(r, k)]
  PROVE  SameStep(r) /\ apply'[r].part = "index"
  <1> DEFINE seen == Seen(r, k)
             o == [apply[r] EXCEPT !.part = "index", !.seen = seen]
  <1>1. apply[r] \in ApplyRecords /\ seen \in Contents
    BY RecordOf, SeenShapes
  <1> HIDE DEF seen
  <1>2. /\ o \in ApplyRecords /\ o.plan = apply[r].plan /\ o.at = apply[r].at
        /\ o.status = apply[r].status /\ o.step = apply[r].step
        /\ o.selected = apply[r].selected /\ o.part = "index" /\ o.created = apply[r].created
        /\ o.evidence = apply[r].evidence
    BY <1>1 DEF ApplyRecords
  <1>3. apply' = [apply EXCEPT ![r] = o]
    BY <1>1 DEF Shapes, ApplyRecords, seen
  <1> HIDE DEF o
  <1> QED
    BY <1>2, <1>3, Puttable DEF SameStep

LEMMA GoesToFlag ==
  ASSUME Shapes, NEW r \in Applies, NEW c \in Candidates,
         apply' = [apply EXCEPT ![r].part = "flag", ![r].named = c]
  PROVE  SameStep(r) /\ apply'[r].part = "flag" /\ apply'[r].named = c
  <1> DEFINE o == [apply[r] EXCEPT !.part = "flag", !.named = c]
  <1>1. apply[r] \in ApplyRecords
    BY RecordOf
  <1>2. /\ o \in ApplyRecords /\ o.plan = apply[r].plan /\ o.at = apply[r].at
        /\ o.status = apply[r].status /\ o.step = apply[r].step /\ o.named = c
        /\ o.selected = apply[r].selected /\ o.part = "flag" /\ o.created = apply[r].created
        /\ o.evidence = apply[r].evidence
    BY <1>1 DEF ApplyRecords
  <1>3. apply' = [apply EXCEPT ![r] = o]
    BY <1>1 DEF Shapes, ApplyRecords
  <1> HIDE DEF o
  <1> QED
    BY <1>2, <1>3, Puttable DEF SameStep

-----------------------------------------------------------------------------
(* A request that is at a step has met no trouble, and not done the step.   *)
LEMMA AtStep ==
  ASSUME Shapes, NEW r \in Applies, OnScript(r), NEW step, OnStep(r, step), step # "result"
  PROVE  /\ Working(r) /\ Underway(r) /\ apply[r].status = "APPLIED" /\ apply[r].at = "working"
         /\ apply[r].step \in 1..Len(Script(r)) /\ apply[r].step # Len(Script(r))
         /\ Script(r)[apply[r].step] = step /\ ~Done(r, step)
         /\ step = "create" => \A other : ~Done(r, other)
         /\ step = "supersede" => Done(r, "create")
         /\ step \in {"read", "merge"} => ~Done(r, "create") /\ ~Done(r, "supersede")
  <1>1. WellScripted(Script(r)) /\ apply[r].step \in Nat
    BY RecordOf
  <1>2. apply[r].at = "working" /\ Script(r)[apply[r].step] = step
    BY DEF OnStep, Script
  <1>3. Working(r) /\ Underway(r)
    BY <1>2 DEF Working, Underway
  <1>4. apply[r].step \in 1..Len(Script(r)) /\ apply[r].step # Len(Script(r))
    BY <1>1, <1>2, <1>3 DEF OnScript, WellScripted
  <1>5. apply[r].status = "APPLIED"
    BY <1>3, <1>4 DEF OnScript
  <1>6. ~Done(r, step)
    BY <1>1, <1>2, <1>4 DEF Done, WellScripted
  <1>7. step = "create" => \A other : ~Done(r, other)
    BY <1>1, <1>2, <1>4 DEF Done, WellScripted
  <1>8. step = "supersede" => Done(r, "create")
    <2> HAVE step = "supersede"
    <2>1. apply[r].step > 1 /\ Script(r)[1] = "create" /\ 1 \in 1..Len(Script(r)) /\ 1 < apply[r].step
      BY <1>1, <1>2, <1>4 DEF WellScripted
    <2> QED
      BY <1>5, <2>1 DEF Done
  <1>9. step \in {"read", "merge"} => ~Done(r, "create") /\ ~Done(r, "supersede")
    <2> HAVE step \in {"read", "merge"}
    <2>1. PICK i \in 1..Len(Script(r)) : Script(r)[i] = "read"
      <3>1. CASE step = "read"
        BY <1>2, <1>4, <3>1
      <3>2. CASE step = "merge"
        <4>1. Script(r)[apply[r].step - 1] = "read" /\ apply[r].step - 1 \in 1..Len(Script(r))
          BY <1>1, <1>2, <1>4, <3>2 DEF WellScripted
        <4> QED
          BY <4>1
      <3> QED
        BY <3>1, <3>2
    <2> QED
      BY <1>1, <2>1 DEF WellScripted, Done
  <1> QED
    BY <1>2, <1>3, <1>4, <1>5, <1>6, <1>7, <1>8, <1>9

(* The step is past when the next one is due.                               *)
LEMMA NextDone ==
  ASSUME Shapes, NEW r \in Applies, OnScript(r), NEW step, OnStep(r, step), step # "result",
         NextStep(r)
  PROVE  /\ \A other : Done(r, other)' <=> (Done(r, other) \/ other = step)
         /\ Script(r)' = Script(r) /\ apply'[r].step \in 1..Len(Script(r))
         /\ apply'[r].at = "working" /\ Underway(r)' /\ Working(r)'
         /\ apply'[r].status = "APPLIED" /\ ~OnStep(r, "create")'
         /\ OnStep(r, "merge")' => step = "read"
  <1>1. /\ WellScripted(Script(r)) /\ apply[r].step \in 1..Len(Script(r))
        /\ apply[r].step # Len(Script(r)) /\ apply[r].at = "working"
        /\ Script(r)[apply[r].step] = step /\ apply[r].status = "APPLIED"
    BY AtStep, RecordOf
  <1>2. Script(r)' = Script(r) /\ apply'[r].at = "working" /\ apply'[r].status = "APPLIED"
    BY <1>1 DEF NextStep, Script
  <1>3. apply'[r].step \in 1..Len(Script(r)) /\ apply'[r].step = apply[r].step + 1
    BY <1>1 DEF NextStep, WellScripted
  <1>4. \A other : Done(r, other)' <=> (Done(r, other) \/ other = step)
    <2> TAKE other
    <2>1. Done(r, other)' <=> \E j \in 1..Len(Script(r)) :
                                  j < apply[r].step + 1 /\ Script(r)[j] = other
      BY <1>2, <1>3 DEF Done
    <2>2. Done(r, other) <=> \E j \in 1..Len(Script(r)) : j < apply[r].step /\ Script(r)[j] = other
      BY <1>1 DEF Done
    <2> QED
      BY <1>1, <2>1, <2>2 DEF WellScripted
  <1>5. \A other : OnStep(r, other)' => Script(r)[apply[r].step + 1] = other
    BY <1>2, <1>3 DEF OnStep, Script
  <1>6. ~OnStep(r, "create")'
    BY <1>1, <1>3, <1>5 DEF WellScripted
  <1>7. OnStep(r, "merge")' => step = "read"
    BY <1>1, <1>3, <1>5 DEF WellScripted
  <1> QED
    BY <1>2, <1>3, <1>4, <1>6, <1>7 DEF Underway, Working

LEMMA StopsDone ==
  ASSUME Shapes, NEW r \in Applies, NEW step, OnStep(r, step), Stops(r)
  PROVE  /\ \A other : ~Done(r, other)'
         /\ Script(r)' = Script(r) /\ apply'[r].step \in 1..Len(Script(r))
         /\ apply'[r].at = "working" /\ Underway(r)' /\ Working(r)'
         /\ \A other : OnStep(r, other)' => other = "result"
  <1>1. WellScripted(Script(r)) /\ apply[r].at = "working"
    BY RecordOf DEF OnStep
  <1>2. Script(r)' = Script(r) /\ apply'[r].at = "working"
    BY <1>1 DEF Stops, Script
  <1>3. apply'[r].step \in 1..Len(Script(r)) /\ Script(r)[apply'[r].step] = "result"
    BY <1>1 DEF Stops, WellScripted
  <1> QED
    BY <1>2, <1>3 DEF Stops, Done, Underway, Working, OnStep, Script

LEMMA SameDone ==
  ASSUME Shapes, NEW r \in Applies, SameStep(r)
  PROVE  /\ \A other : Done(r, other)' <=> Done(r, other)
         /\ Script(r)' = Script(r) /\ \A other : OnStep(r, other)' <=> OnStep(r, other)
         /\ (Underway(r)' <=> Underway(r)) /\ (Working(r)' <=> Working(r))
  BY DEF SameStep, Script, Done, Underway, Working, OnStep

-----------------------------------------------------------------------------
OthersStay(r) ==
    \A s \in Applies \ {r} : apply'[s] = apply[s] /\ pending'[s] = pending[s]

(* What the steps of a working request have in common.                      *)
Work(r) ==
    /\ rows' = rows /\ overlap' = overlap /\ reading' = reading
    /\ OthersStay(r)
    /\ Underway(r) /\ apply'[r].plan = apply[r].plan
    /\ \A c \in Candidates : made[c] # NoRow => made'[c] # NoRow
    /\ ~overlap => /\ merged \subseteq merged'
                   /\ \/ markedBy' = markedBy
                      \/ rows[MarkRow] = "unmarked" \/ markedBy = "unmarked"
                   /\ rows[MarkRow] \in Candidates => markedBy' = markedBy

(* The other requests see none of it.                                       *)
LEMMA OthersKeep ==
  ASSUME NEW r \in Applies, Work(r), NEW s \in Applies, s # r,
         OnScript(s), OwnRows(s), Working(s) => Does(s)
  PROVE  OnScript(s)' /\ OwnRows(s)' /\ (Working(s)' => Does(s)') /\ (Underway(s)' <=> Underway(s))
  <1>1. apply'[s] = apply[s] /\ pending'[s] = pending[s]
    BY DEF Work, OthersStay
  <1>2. OnScript(s)'
    BY <1>1 DEF OnScript, OnStep, Underway, Script
  <1>3. OwnRows(s)'
    BY <1>1 DEF OwnRows, Underway, RowsFit, Filed, Work
  <1>4. Working(s)' => Does(s)'
    <2>1. (Working(s)' <=> Working(s)) /\ (\A step : Done(s, step)' <=> Done(s, step))
          /\ \A k \in Keys : Seen(s, k)' = Seen(s, k)
      BY <1>1 DEF Working, Done, Script, Seen, Work
    <2> SUFFICES ASSUME Working(s)
                 PROVE  Does(s)'
      BY <2>1
    <2>2. apply[s].created \in Candidates
          => NoteRow(apply[s].created) \in Keys
      BY KeyKinds
    <2>3. OnStep(s, "create")' <=> OnStep(s, "create")
      BY <1>1 DEF OnStep
    <2>4. Seen(s, NoteRow(apply[s].created))' = Seen(s, NoteRow(apply[s].created))
      BY <1>1 DEF Seen, Work
    <2>5. Does(s)
      OBVIOUS
    <2>6. apply[s].part = "index" => made'[apply[s].created] # NoRow
      BY <2>5 DEF Does, Work, Fits, Candidates
    <2> QED
      BY <1>1, <2>1, <2>3, <2>4, <2>5, <2>6 DEF Does
  <1> QED
    BY <1>1, <1>2, <1>3, <1>4 DEF Underway

LEMMA LeftStays ==
  ASSUME NEW r \in Applies, Work(r), NEW p \in Plans, Applied(p) => PlanLeft(p)
  PROVE  Applied(p)' => PlanLeft(p)'
  <1> SUFFICES ASSUME Applied(p)'
               PROVE  PlanLeft(p)'
    OBVIOUS
  <1>1. Applied(p)
    BY DEF Applied, Work
  <1>2. PICK c \in Candidates : LeftRows(p, c)
    BY <1>1 DEF PlanLeft
  <1>3. c # "unmarked"
    BY Values
  <1>4. LeftRows(p, c)'
    BY <1>2, <1>3 DEF LeftRows, Work, Takes
  <1> QED
    BY <1>4 DEF PlanLeft

LEMMA InTurnStays ==
  ASSUME NEW r \in Applies, Work(r), ~overlap, InTurn, Working(r)' => AloneDoes(r)'
  PROVE  InTurn'
  <1>1. \A s \in Applies : s # r => ~Underway(s)
    BY DEF InTurn, Work
  <1>2. \A s \in Applies : s # r => ~Underway(s)' /\ ~Working(s)'
    BY <1>1 DEF Work, OthersStay, Underway, Working
  <1>3. \A p \in Plans : (Applied(p) => /\ Takes(p, "merge") => CandidateOf[p] \in merged
                                        /\ Takes(p, "supersede") => Closed(rows[StateRow]))'
    BY DEF InTurn, Work, Applied, Takes
  <1>4. (rows[MarkRow] \in Candidates => markedBy = rows[MarkRow])'
    BY DEF InTurn, Work
  <1>5. (\A d \in Candidates : Replacer(rows[NoteRow(d)]) => rows[MarkRow] # "unmarked")'
    BY DEF InTurn, Work
  <1> QED
    BY <1>2, <1>3, <1>4, <1>5 DEF InTurn

(* A step of a working request keeps the invariant, if it keeps what is     *)
(* about that request.                                                      *)
LEMMA WorkKeeps ==
  ASSUME ApplyInv, NEW r \in Applies, Work(r), Shapes',
         OnScript(r)', OwnRows(r)', Working(r)' => Does(r)',
         ~overlap => (Working(r)' => AloneDoes(r)')
  PROVE  ApplyInv'
  <1>2. \A s \in Applies : OnScript(s)' /\ OwnRows(s)' /\ (Working(s)' => Does(s)')
    BY OthersKeep DEF ApplyInv, Work
  <1>3. \A p \in Plans : Applied(p)' => PlanLeft(p)'
    BY LeftStays DEF ApplyInv
  <1>4. ~overlap' => InTurn'
    BY InTurnStays DEF ApplyInv, Work
  <1> QED
    BY <1>2, <1>3, <1>4 DEF ApplyInv

-----------------------------------------------------------------------------
SaveSteps == {"create", "read", "merge", "verify", "supersede"}

(* What the steps about notes do to files and rows.                         *)
NoteWork(r) ==
    /\ rows' = rows /\ overlap' = overlap /\ reading' = reading
    /\ \A s \in Applies \ {r} : pending'[s] = pending[s]
    /\ pending' \in [Applies -> [Keys -> Contents]]
    /\ \A k \in Keys \ NoteKeys : pending'[r][k] = pending[r][k]
    /\ \A k \in NoteKeys : pending[r][k] # NoRow => pending'[r][k] # NoRow
    /\ made' \in [Candidates -> Plans \cup {NoRow}]
    /\ \A c \in Candidates : /\ made'[c] # NoRow => Fits(c, made'[c])
                             /\ made[c] # NoRow => made'[c] # NoRow
    /\ merged' \subseteq Candidates /\ markedBy' \in Candidates \cup {"unmarked"}
    /\ applyFaults' \in 0..MaxApplyFaults
    /\ pending'[r][MarkRow] \in {NoRow, "error", "unmarked"} \cup Candidates
    /\ \A c \in Candidates :
          /\ pending'[r][NoteRow(c)] \in {NoRow, "error"} \cup Plans
          /\ pending'[r][NoteRow(c)] \in Plans => Fits(c, pending'[r][NoteRow(c)])
          /\ pending'[r][NoteRow(c)] # NoRow => made'[c] # NoRow
    /\ ~overlap => /\ merged \subseteq merged'
                   /\ \/ markedBy' = markedBy
                      \/ rows[MarkRow] = "unmarked" \/ markedBy = "unmarked"
                   /\ rows[MarkRow] \in Candidates => markedBy' = markedBy

LEMMA NoteWorks ==
  ASSUME ApplyInv, NEW r \in Applies, Underway(r), NoteWork(r), Others(r),
         apply' \in [Applies -> ApplyRecords], apply'[r].plan = apply[r].plan,
         apply'[r].at = apply[r].at
  PROVE  Work(r) /\ Shapes' /\ OwnRows(r)' /\ Seen(r, StateRow)' = Seen(r, StateRow)
  <1>1. Work(r)
    BY DEF Work, NoteWork, OthersStay, Others
  <1>2. Shapes'
    <2>1. Filed(rows)'
      BY DEF ApplyInv, Shapes, Filed, NoteWork
    <2> QED
      BY <2>1 DEF ApplyInv, Shapes, NoteWork, RowsFit, Fits
  <1>3. RowsFit(pending'[r])
    <2>1. pending'[r][StateRow] = pending[r][StateRow]
          /\ \A p \in Plans : pending'[r][ResultRow(p)] = pending[r][ResultRow(p)]
      BY KeyKinds DEF NoteWork
    <2> QED
      BY <2>1 DEF ApplyInv, OwnRows, RowsFit, NoteWork
  <1>4. OwnRows(r)'
    <2>1. Underway(r)'
      BY DEF Underway
    <2>2. \A k \in ConflictKeys : pending'[r][k] = pending[r][k]
      BY KeyKinds DEF NoteWork
    <2>3. \A p \in Plans : pending'[r][ResultRow(p)] = pending[r][ResultRow(p)]
      BY KeyKinds DEF NoteWork
    <2>4. Filed(pending[r])'
      BY DEF Filed, NoteWork
    <2>5. RowsFit(pending[r])'
      BY <1>3 DEF RowsFit, Fits
    <2>6. /\ \A k \in ConflictKeys : pending[r][k] # NoRow => k = ConflictRow(apply[r].plan)
          /\ \A p \in Plans : pending[r][ResultRow(p)] # NoRow => p = apply[r].plan
      BY DEF ApplyInv, OwnRows
    <2>7. (\A k \in ConflictKeys : pending[r][k] # NoRow => k = ConflictRow(apply[r].plan))'
      BY <2>2, <2>6
    <2>8. (\A p \in Plans : pending[r][ResultRow(p)] # NoRow => p = apply[r].plan)'
      BY <2>3, <2>6
    <2> QED
      BY <2>1, <2>4, <2>5, <2>7, <2>8 DEF OwnRows
  <1>5. Seen(r, StateRow)' = Seen(r, StateRow)
    BY KeyKinds DEF NoteWork, Seen
  <1> QED
    BY <1>1, <1>2, <1>4, <1>5

LEMMA NoteFails ==
  ASSUME ApplyInv, NEW r \in Applies, NEW step \in SaveSteps, OnStep(r, step),
         Stops(r), NoteWork(r),
         ~overlap => MarkSound(r)' /\ \A d \in Candidates : NotesSound(r, d)'
  PROVE  ApplyInv'
  <1>1. step # "result" /\ Shapes /\ OnScript(r) /\ Working(r) /\ Underway(r)
    BY AtStep DEF SaveSteps, ApplyInv
  <1>2. Work(r) /\ Shapes' /\ OwnRows(r)' /\ Seen(r, StateRow)' = Seen(r, StateRow)
    BY <1>1, NoteWorks DEF Stops
  <1>3. /\ \A other : ~Done(r, other)'
        /\ Script(r)' = Script(r) /\ apply'[r].step \in 1..Len(Script(r))
        /\ apply'[r].at = "working" /\ Underway(r)' /\ Working(r)'
        /\ \A other : OnStep(r, other)' => other = "result"
    BY <1>1, StopsDone
  <1>4. apply'[r].selected = FALSE /\ apply'[r].part = "begin"
        /\ apply'[r].step = Len(Script(r)) /\ apply'[r].created = apply[r].created
        /\ apply'[r].plan = apply[r].plan
    BY DEF Stops
  <1>5. OnScript(r)'
    BY <1>3, <1>4 DEF OnScript
  <1>6. Does(r)'
    <2>1. Fits(apply[r].created, apply[r].plan)
      BY <1>1 DEF ApplyInv, Does
    <2> QED
      BY <1>3, <1>4, <2>1 DEF Does, Fits
  <1>7. ASSUME ~overlap
        PROVE  AloneDoes(r)'
    <2>1. AloneDoes(r)
      BY <1>1, <1>7 DEF ApplyInv, InTurn
    <2>2. (~Applied(apply[r].plan))'
      BY <1>2, <1>4, <2>1 DEF AloneDoes, Work, Applied
    <2>3. Evident(r)'
      BY <1>3 DEF Evident, OnPart
    <2>4. MarkFits(r)'
      BY <1>3, <1>4, <1>7 DEF MarkFits
    <2>5. Stated(r)'
      BY <1>2, <1>3, <1>4, <2>1 DEF AloneDoes, Stated, Work
    <2> QED
      BY <2>2, <2>3, <2>4, <2>5 DEF AloneDoes
  <1> QED
    BY <1>2, <1>5, <1>6, <1>7, WorkKeeps

LEMMA NoteNext ==
  ASSUME ApplyInv, NEW r \in Applies, NEW step \in SaveSteps, OnStep(r, step),
         NextStep(r), NoteWork(r), NEW c \in Candidates, apply'[r].created = c,
         Fits(c, apply[r].plan),
         step # "create" => c = apply[r].created,
         step = "create" => Seen(r, NoteRow(c))' # NoRow,
         ~overlap => Evident(r)' /\ MarkFits(r)'
  PROVE  ApplyInv'
  <1>1. /\ step \notin {"result", "relation", "conflict", "own", "state"} /\ Shapes /\ OnScript(r)
        /\ Working(r) /\ Underway(r) /\ (step = "create" => \A other : ~Done(r, other))
    BY AtStep DEF SaveSteps, ApplyInv
  <1>2. Work(r) /\ Shapes' /\ OwnRows(r)' /\ Seen(r, StateRow)' = Seen(r, StateRow)
    BY <1>1, NoteWorks DEF NextStep
  <1>3. /\ \A other : Done(r, other)' <=> (Done(r, other) \/ other = step)
        /\ Script(r)' = Script(r) /\ apply'[r].step \in 1..Len(Script(r))
        /\ apply'[r].at = "working" /\ Underway(r)' /\ Working(r)'
        /\ apply'[r].status = "APPLIED" /\ ~OnStep(r, "create")'
    BY <1>1, NextDone
  <1>4. apply'[r].selected = FALSE /\ apply'[r].part = "begin" /\ apply'[r].plan = apply[r].plan
    BY DEF NextStep
  <1>5. OnScript(r)'
    BY <1>3, <1>4 DEF OnScript
  <1>6. Does(r)'
    <2>1. Does(r) /\ apply[r].plan \in Plans
      BY <1>1, RecordOf DEF ApplyInv
    <2>2. Done(r, "create")' => Seen(r, NoteRow(c))' # NoRow
      <3>1. CASE step = "create"
        BY <3>1
      <3>2. CASE step # "create"
        <4>1. Done(r, "create")' => Seen(r, NoteRow(c)) # NoRow
          BY <1>3, <2>1, <3>2 DEF Does
        <4>2. pending[r][NoteRow(c)] # NoRow => pending'[r][NoteRow(c)] # NoRow
          BY KeyKinds DEF NoteWork
        <4> QED
          BY <4>1, <4>2 DEF Seen, NoteWork
      <3> QED
        BY <3>1, <3>2
    <2>3. Done(r, "relation")' => pending'[r][RelationRow(c, apply[r].plan)] # NoRow
      BY <1>1, <1>3, <2>1, KeyKinds DEF Does, NoteWork
    <2>4. Done(r, "conflict")' => pending'[r][ConflictRow(apply[r].plan)] # NoRow
      BY <1>1, <1>3, <2>1, KeyKinds DEF Does, NoteWork
    <2>5. Done(r, "own")' => pending'[r][<<"own", c>>] # NoRow
      BY <1>1, <1>3, <2>1, KeyKinds DEF Does, NoteWork
    <2> QED
      BY <1>3, <1>4, <2>2, <2>3, <2>4, <2>5 DEF Does, Fits
  <1>7. ASSUME ~overlap
        PROVE  AloneDoes(r)'
    <2>1. AloneDoes(r)
      BY <1>1, <1>7 DEF ApplyInv, InTurn
    <2>2. (~Applied(apply[r].plan))'
      BY <1>2, <1>4, <2>1 DEF AloneDoes, Work, Applied
    <2>3. pending'[r][StateRow] = pending[r][StateRow]
      BY KeyKinds DEF NoteWork
    <2>4. Stated(r)'
      BY <1>1, <1>2, <1>3, <1>4, <2>1, <2>3 DEF AloneDoes, Stated, Work
    <2> QED
      BY <1>7, <2>2, <2>4 DEF AloneDoes
  <1> QED
    BY <1>2, <1>5, <1>6, <1>7, WorkKeeps

LEMMA NoteSame ==
  ASSUME ApplyInv, NEW r \in Applies, NEW step \in SaveSteps, OnStep(r, step),
         SameStep(r), NoteWork(r), NEW c \in Candidates, apply[r].created = c,
         apply'[r].part # "begin" =>
             step \in {"create", "supersede"} \/ (step = "merge" /\ apply'[r].part = "flag"),
         apply'[r].part = "index" => made'[c] # NoRow,
         (step = "create" /\ apply'[r].part \in {"mark", "flag"})
             => pending'[r][NoteRow(c)] = apply[r].plan,
         ~overlap => Evident(r)' /\ MarkFits(r)'
  PROVE  ApplyInv'
  <1>1. /\ step \notin {"result", "state"} /\ Shapes /\ OnScript(r)
        /\ Working(r) /\ Underway(r) /\ apply[r].at = "working" /\ apply[r].status = "APPLIED"
        /\ Script(r)[apply[r].step] = step
    BY AtStep DEF SaveSteps, ApplyInv
  <1>2. Work(r) /\ Shapes' /\ OwnRows(r)' /\ Seen(r, StateRow)' = Seen(r, StateRow)
    BY <1>1, NoteWorks DEF SameStep
  <1>3. /\ \A other : Done(r, other)' <=> Done(r, other)
        /\ Script(r)' = Script(r) /\ \A other : OnStep(r, other)' <=> OnStep(r, other)
        /\ (Underway(r)' <=> Underway(r)) /\ (Working(r)' <=> Working(r))
    BY <1>1, SameDone
  <1>4. \A other : OnStep(r, other) => other = step
    BY DEF OnStep
  <1>5. OnScript(r)'
    BY <1>1, <1>3, <1>4 DEF OnScript, SameStep
  <1>6. Does(r)'
    <2>1. Does(r) /\ apply[r].plan \in Plans
      BY <1>1, RecordOf DEF ApplyInv
    <2>2. Done(r, "create")' => Seen(r, NoteRow(c))' # NoRow
      <3>1. Done(r, "create")' => Seen(r, NoteRow(c)) # NoRow
        BY <1>3, <2>1 DEF Does
      <3>2. pending[r][NoteRow(c)] # NoRow => pending'[r][NoteRow(c)] # NoRow
        BY KeyKinds DEF NoteWork
      <3> QED
        BY <3>1, <3>2 DEF Seen, NoteWork
    <2>3. Done(r, "relation")' => pending'[r][RelationRow(c, apply[r].plan)] # NoRow
      BY <1>3, <2>1, KeyKinds DEF Does, NoteWork
    <2>4. Done(r, "conflict")' => pending'[r][ConflictRow(apply[r].plan)] # NoRow
      BY <1>3, <2>1, KeyKinds DEF Does, NoteWork
    <2>5. Done(r, "own")' => pending'[r][<<"own", c>>] # NoRow
      BY <1>3, <2>1, KeyKinds DEF Does, NoteWork
    <2>6. OnStep(r, "create")' => step = "create"
      BY <1>3, <1>4
    <2>7. OnStep(r, "create")' => c = CandidateOf[apply[r].plan]
      BY <1>3, <2>1 DEF Does
    <2> QED
      BY <2>1, <2>2, <2>3, <2>4, <2>5, <2>6, <2>7 DEF Does, Fits, SameStep
  <1>7. ASSUME ~overlap
        PROVE  AloneDoes(r)'
    <2>1. AloneDoes(r)
      BY <1>1, <1>7 DEF ApplyInv, InTurn
    <2>2. (~Applied(apply[r].plan))'
      BY <1>2, <2>1 DEF AloneDoes, Work, Applied
    <2>3. pending'[r][StateRow] = pending[r][StateRow]
      BY KeyKinds DEF NoteWork
    <2>4. Stated(r)'
      BY <1>1, <1>2, <1>3, <1>4, <2>1, <2>3 DEF AloneDoes, Stated, Work
    <2> QED
      BY <1>7, <2>2, <2>4 DEF AloneDoes
  <1> QED
    BY <1>2, <1>5, <1>6, <1>7, WorkKeeps

-----------------------------------------------------------------------------
LEMMA FaultTyped ==
  ASSUME Shapes, Fault \/ UNCHANGED applyFaults
  PROVE  applyFaults' \in 0..MaxApplyFaults
  BY ApplyAssumption DEF Shapes, Fault

(* A step that touches no row.                                              *)
LEMMA QuietNote ==
  ASSUME ApplyInv, NEW r \in Applies, rows' = rows, pending' = pending, overlap' = overlap,
         reading' = reading, Fault \/ UNCHANGED applyFaults,
         made' \in [Candidates -> Plans \cup {NoRow}],
         \A c \in Candidates : /\ made'[c] # NoRow => Fits(c, made'[c])
                               /\ made[c] # NoRow => made'[c] # NoRow,
         merged' \subseteq Candidates, markedBy' \in Candidates \cup {"unmarked"},
         ~overlap => /\ merged \subseteq merged'
                     /\ \/ markedBy' = markedBy
                        \/ rows[MarkRow] = "unmarked" \/ markedBy = "unmarked"
                     /\ rows[MarkRow] \in Candidates => markedBy' = markedBy
  PROVE  NoteWork(r)
  <1>1. Shapes /\ RowsFit(pending[r]) /\ Filed(pending[r])
    BY DEF ApplyInv, OwnRows
  <1>2. pending' \in [Applies -> [Keys -> Contents]]
    BY <1>1 DEF Shapes
  <1>3. applyFaults' \in 0..MaxApplyFaults
    BY <1>1, FaultTyped
  <1>4. pending'[r][MarkRow] \in {NoRow, "error", "unmarked"} \cup Candidates
    BY <1>1 DEF RowsFit
  <1>5. \A c \in Candidates :
          /\ pending'[r][NoteRow(c)] \in {NoRow, "error"} \cup Plans
          /\ pending'[r][NoteRow(c)] \in Plans => Fits(c, pending'[r][NoteRow(c)])
          /\ pending'[r][NoteRow(c)] # NoRow => made'[c] # NoRow
    BY <1>1 DEF RowsFit, Filed
  <1> QED
    BY <1>2, <1>3, <1>4, <1>5 DEF NoteWork

(* The files stay too.                                                      *)
LEMMA StillNote ==
  ASSUME ApplyInv, NEW r \in Applies, rows' = rows, pending' = pending, overlap' = overlap,
         reading' = reading, Fault \/ UNCHANGED applyFaults,
         made' = made, merged' = merged, markedBy' = markedBy
  PROVE  NoteWork(r)
  BY QuietNote DEF ApplyInv, Shapes

LEMMA AloneAt ==
  ASSUME ApplyInv, NEW r \in Applies, NEW step \in SaveSteps, OnStep(r, step)
  PROVE  /\ step \in {"read", "verify"} => apply[r].part = "begin"
         /\ step = "merge" => apply[r].part \in {"begin", "flag"}
         /\ Does(r) /\ Shapes /\ OnScript(r) /\ step # "result"
         /\ Working(r) /\ Underway(r) /\ apply[r].status = "APPLIED"
         /\ \A other : OnStep(r, other) <=> other = step
         /\ ~overlap => AloneDoes(r)
         /\ (~overlap /\ apply[r].part \in {"begin", "index"}) =>
               MarkSound(r) /\ \A d \in Candidates : NotesSound(r, d)
  <1>1. Shapes /\ OnScript(r) /\ step # "result" /\ apply[r] \in ApplyRecords
    BY RecordOf DEF ApplyInv, SaveSteps
  <1>2. Working(r) /\ Underway(r) /\ apply[r].status = "APPLIED"
    BY <1>1, AtStep
  <1>3. \A other : OnStep(r, other) <=> other = step
    BY DEF OnStep
  <1>4. apply[r].part \in {"begin", "index", "mark", "flag"}
    BY <1>1 DEF ApplyRecords
  <1>5. ~overlap => AloneDoes(r)
    BY <1>2 DEF ApplyInv, InTurn
  <1>6. apply[r].part # "begin" => step \in {"create", "supersede"}
                                     \/ (apply[r].part = "flag" /\ step = "merge")
    BY <1>1, <1>3 DEF OnScript
  <1>7. (~overlap /\ apply[r].part \in {"begin", "index"}) =>
               MarkSound(r) /\ \A d \in Candidates : NotesSound(r, d)
    BY <1>5 DEF AloneDoes, MarkFits
  <1> QED
    BY <1>1, <1>2, <1>3, <1>4, <1>5, <1>6, <1>7 DEF ApplyInv

(* Rows and files are as they were.                                         *)
Still(r) == rows' = rows /\ pending' = pending /\ made' = made /\ merged' = merged
            /\ markedBy' = markedBy /\ overlap' = overlap /\ reading' = reading
            /\ (Fault \/ UNCHANGED applyFaults)

LEMMA StillFails ==
  ASSUME ApplyInv, NEW r \in Applies, NEW step \in SaveSteps, OnStep(r, step),
         apply[r].part \in {"begin", "index"}, Still(r), Fails(r)
  PROVE  ApplyInv'
  <1>1. NoteWork(r)
    BY StillNote DEF Still
  <1>2. Stops(r)
    BY FailsStop DEF ApplyInv
  <1>3. ~overlap => MarkSound(r)' /\ \A d \in Candidates : NotesSound(r, d)'
    BY AloneAt DEF Still, MarkSound, NotesSound, Seen
  <1> QED
    BY <1>1, <1>2, <1>3, NoteFails

LEMMA VerifyKeeps ==
  ASSUME ApplyInv, NEW r \in Applies, Verify(r)
  PROVE  ApplyInv'
  <1>1. OnStep(r, "verify") /\ Still(r) /\ "verify" \in SaveSteps
    BY DEF Verify, Still, SaveSteps, fileVars
  <1>2. apply[r].part = "begin"
    BY <1>1, AloneAt
  <1>3. CASE Fails(r)
    BY <1>1, <1>2, <1>3, StillFails
  <1>4. CASE Proceed(r)
    <2>1. NoteWork(r)
      BY <1>1, StillNote DEF Still
    <2>2. NextStep(r) /\ apply'[r].created = apply[r].created /\ apply[r].created \in Candidates
          /\ apply'[r].plan = apply[r].plan /\ apply'[r].part = "begin"
      BY <1>4, GoesAhead, RecordOf DEF ApplyInv, NextStep
    <2>3. Fits(apply[r].created, apply[r].plan)
      BY <1>1, AloneAt DEF Does
    <2>4. ASSUME ~overlap
          PROVE  Evident(r)' /\ MarkFits(r)'
      <3>1. AloneDoes(r) /\ MarkSound(r) /\ \A d \in Candidates : NotesSound(r, d)
        BY <1>1, <1>2, <2>4, AloneAt
      <3>2. /\ \A other : Done(r, other)' <=> (Done(r, other) \/ other = "verify")
            /\ ~OnStep(r, "merge")'
        BY <1>1, <2>2, NextDone DEF ApplyInv
      <3>3. \A k : Seen(r, k)' = Seen(r, k)
        BY <1>1 DEF Still, Seen
      <3>4. Evident(r)'
        BY <1>1, <2>2, <3>1, <3>2 DEF AloneDoes, Evident, Still, OnPart
      <3>5. MarkFits(r)'
        BY <1>1, <2>2, <3>1, <3>2, <3>3 DEF AloneDoes, MarkFits, Still, MarkSound, NotesSound
      <3> QED
        BY <3>4, <3>5
    <2> QED
      BY <1>1, <2>1, <2>2, <2>3, <2>4, NoteNext
  <1> QED
    BY <1>3, <1>4 DEF Verify

LEMMA ReadKeeps ==
  ASSUME ApplyInv, NEW r \in Applies, ReadEvidence(r)
  PROVE  ApplyInv'
  <1>1. OnStep(r, "read") /\ Still(r) /\ "read" \in SaveSteps
    BY DEF ReadEvidence, Still, SaveSteps, fileVars
  <1>2. apply[r].part = "begin"
    BY <1>1, AloneAt
  <1>3. NoteWork(r)
    BY <1>1, StillNote DEF Still
  <1>4. /\ NextStep(r) /\ apply'[r].created = apply[r].created /\ apply[r].created \in Candidates
        /\ apply'[r].plan = apply[r].plan /\ apply'[r].part = "begin"
        /\ apply'[r].evidence = merged /\ apply'[r].named = markedBy
    BY ReadsOn, RecordOf DEF ApplyInv, NextStep, ReadEvidence
  <1>5. Fits(apply[r].created, apply[r].plan)
    BY <1>1, AloneAt DEF Does
  <1>6. ASSUME ~overlap
        PROVE  Evident(r)' /\ MarkFits(r)'
    <2>1. AloneDoes(r) /\ MarkSound(r) /\ \A d \in Candidates : NotesSound(r, d)
      BY <1>1, <1>2, <1>6, AloneAt
    <2>2. \A other : Done(r, other)' <=> (Done(r, other) \/ other = "read")
      BY <1>1, <1>4, NextDone DEF ApplyInv
    <2>3. \A k : Seen(r, k)' = Seen(r, k)
      BY <1>1 DEF Still, Seen
    <2>4. Evident(r)'
      BY <1>1, <1>4, <2>1, <2>2 DEF AloneDoes, Evident, Still, OnPart
    <2>5. MarkFits(r)'
      BY <1>1, <1>4, <2>1, <2>2, <2>3 DEF AloneDoes, MarkFits, Still, MarkSound, NotesSound
    <2> QED
      BY <2>4, <2>5
  <1> QED
    BY <1>1, <1>3, <1>4, <1>5, <1>6, NoteNext

LEMMA MergeKeeps ==
  ASSUME ApplyInv, NEW r \in Applies, MergeEvidence(r)
  PROVE  ApplyInv'
  <1> DEFINE p == apply[r].plan
             named == apply[r].named
  <1>1. /\ OnPart(r, "merge", "begin") /\ OnStep(r, "merge") /\ "merge" \in SaveSteps
        /\ made' = made /\ rows' = rows /\ pending' = pending /\ reading' = reading
        /\ applyFaults' = applyFaults /\ overlap' = overlap
    BY DEF MergeEvidence, OnPart, SaveSteps
  <1>2. apply[r].part = "begin" /\ Shapes /\ p \in Plans
    BY <1>1, RecordOf DEF OnPart, ApplyInv
  <1>3. CASE Fails(r) /\ UNCHANGED <<merged, markedBy>>
    BY <1>1, <1>2, <1>3, StillFails DEF Still
  <1>4. CASE /\ Seen(r, MarkRow) # "error" /\ Goto(r, "flag")
             /\ merged' = apply[r].evidence \cup {CandidateOf[p]}
             /\ markedBy' = named
    <2>1. /\ SameStep(r) /\ apply'[r].part = "flag" /\ apply'[r].named = named
          /\ apply'[r].plan = p /\ apply'[r].created = apply[r].created
          /\ apply[r].created \in Candidates /\ apply[r].evidence \subseteq Candidates
          /\ named \in Candidates \cup {"unmarked"} /\ CandidateOf[p] \in Candidates
      BY <1>2, <1>4, GoesTo, RecordOf, KeyKinds DEF SameStep
    <2>2. ~overlap => apply[r].evidence = merged /\ named = markedBy /\ AloneDoes(r)
                      /\ MarkSound(r) /\ \A d \in Candidates : NotesSound(r, d)
      BY <1>1, <1>2, AloneAt DEF AloneDoes, Evident
    <2>3. NoteWork(r)
      BY <1>1, <1>2, <1>4, <2>1, <2>2, QuietNote DEF Shapes
    <2>4. ASSUME ~overlap
          PROVE  Evident(r)' /\ MarkFits(r)'
      <3>1. /\ \A other : Done(r, other)' <=> Done(r, other)
            /\ \A other : OnStep(r, other)' <=> OnStep(r, other)
        BY <1>2, <2>1, SameDone
      <3>2. \A k : Seen(r, k)' = Seen(r, k)
        BY <1>1 DEF Seen
      <3>3. ~Done(r, "merge") /\ ~Done(r, "supersede") /\ ~Done(r, "create")
        BY <1>1, <1>2, AtStep DEF ApplyInv
      <3>4. Evident(r)'
        BY <1>1, <1>4, <2>1, <2>2, <2>4, <3>1, <3>2, <3>3 DEF Evident, OnPart
      <3>5. MarkFits(r)'
        BY <1>1, <1>4, <2>1, <2>2, <2>4, <3>1, <3>2, <3>3 DEF MarkFits, MarkSound, NotesSound
      <3> QED
        BY <3>4, <3>5
    <2> QED
      BY <1>1, <2>1, <2>3, <2>4, NoteSame
  <1> QED
    BY <1>3, <1>4 DEF MergeEvidence

-----------------------------------------------------------------------------
(* A note with the same text is a note of the plan's kind.                  *)
LEMMA TwinFits ==
  ASSUME ApplyInv, NEW r \in Applies, NEW d \in Twins(r), apply[r].plan \in Plans
  PROVE  /\ d \in Candidates /\ Seen(r, NoteRow(d)) \in Plans
         /\ Fits(d, apply[r].plan)
         /\ Replacing(apply[r].plan) => Replacing(Seen(r, NoteRow(d)))
  <1>1. d \in Candidates /\ Seen(r, NoteRow(d)) \in Plans
        /\ TextOf[Seen(r, NoteRow(d))] = TextOf[apply[r].plan]
    BY DEF Twins
  <1>2. Fits(d, Seen(r, NoteRow(d)))
    BY <1>1 DEF ApplyInv, Shapes, OwnRows, RowsFit, Seen
  <1>3. Fits(d, apply[r].plan)
    BY <1>1, <1>2 DEF Fits
  <1> QED
    BY <1>1, <1>3, ApplyAssumption

LEMMA SaveKeeps ==
  ASSUME ApplyInv, NEW r \in Applies, SaveContext(r)
  PROVE  ApplyInv'
  <1> DEFINE p == apply[r].plan
             c == CandidateOf[p]
  <1>1. /\ OnPart(r, "create", "begin") /\ OnStep(r, "create") /\ "create" \in SaveSteps
        /\ ~Lost(r) /\ merged' = merged /\ markedBy' = markedBy
        /\ rows' = rows /\ pending' = pending /\ reading' = reading
        /\ applyFaults' = applyFaults /\ overlap' = overlap
    BY DEF SaveContext, OnPart, SaveSteps
  <1>2. /\ apply[r].part = "begin" /\ Shapes /\ p \in Plans /\ c \in Candidates
        /\ apply[r].created = c /\ OnScript(r)
    BY <1>1, RecordOf, KeyKinds, AloneAt DEF OnPart, ApplyInv, Does
  <1>3. CASE Fails(r) /\ made' = made
    BY <1>1, <1>2, <1>3, StillFails DEF Still
  <1>4. CASE made' = made /\ \E d \in Twins(r) : ChangesWith(r, d)
    <2>1. PICK d \in Twins(r) : ChangesWith(r, d)
      BY <1>4
    <2>2. /\ d \in Candidates /\ Seen(r, NoteRow(d)) \in Plans /\ Fits(d, p)
          /\ Replacing(p) => Replacing(Seen(r, NoteRow(d)))
      BY <1>2, TwinFits
    <2>3. NextStep(r) /\ apply'[r].created = d /\ apply'[r].plan = p /\ apply'[r].part = "begin"
      BY <1>2, <2>1, <2>2, ChangesOn DEF NextStep
    <2>4. NoteWork(r)
      BY <1>1, <1>4, StillNote
    <2>5. \A k : Seen(r, k)' = Seen(r, k)
      BY <1>1 DEF Seen
    <2>6. Seen(r, NoteRow(d))' # NoRow
      BY <2>2, <2>5, Values
    <2>7. ASSUME ~overlap
          PROVE  Evident(r)' /\ MarkFits(r)'
      <3>1. AloneDoes(r) /\ MarkSound(r) /\ \A e \in Candidates : NotesSound(r, e)
        BY <1>1, <1>2, <2>7, AloneAt
      <3>2. /\ \A other : Done(r, other)' <=> (Done(r, other) \/ other = "create")
            /\ ~OnStep(r, "merge")' /\ \A other : ~Done(r, other)
        BY <1>1, <1>2, <2>3, NextDone, AtStep
      <3>3. Replacing(p) => Seen(r, MarkRow) # "error"
        <4>1. Replacing(p) => Lost(r) \/ Seen(r, MarkRow) # "error"
          BY <1>1, <1>2, PlanScripts DEF Lost, Reads
        <4> QED
          BY <1>1, <4>1
      <3>4. Evident(r)'
        BY <3>2 DEF Evident, OnPart
      <3>5. MarkFits(r)'
        BY <1>1, <2>2, <2>3, <2>5, <3>1, <3>2, <3>3 DEF MarkFits, MarkSound, NotesSound
      <3> QED
        BY <3>4, <3>5
    <2> QED
      BY <1>1, <2>2, <2>3, <2>4, <2>6, <2>7, NoteNext
  <1>5. CASE /\ made' = [made EXCEPT ![c] = p]
             /\ apply' = [apply EXCEPT ![r].part = "index", ![r].seen = Seen(r, NoteRow(c))]
    <2>1. SameStep(r) /\ apply'[r].part = "index" /\ apply'[r].plan = p /\ apply'[r].created = c
      BY <1>2, <1>5, GoesToIndex, KeyKinds DEF SameStep
    <2>2. made' \in [Candidates -> Plans \cup {NoRow}] /\ made'[c] = p
          /\ \A d \in Candidates : d # c => made'[d] = made[d]
      BY <1>2, <1>5 DEF Shapes
    <2>3. \A d \in Candidates : /\ made'[d] # NoRow => Fits(d, made'[d])
                                /\ made[d] # NoRow => made'[d] # NoRow
      BY <1>2, <2>2, Values DEF Shapes, Fits
    <2>4. NoteWork(r)
      BY <1>1, <1>2, <2>2, <2>3, QuietNote DEF Shapes
    <2>5. made'[c] # NoRow
      BY <1>2, <2>2, Values
    <2>6. ASSUME ~overlap
          PROVE  Evident(r)' /\ MarkFits(r)'
      <3>1. AloneDoes(r) /\ MarkSound(r) /\ \A d \in Candidates : NotesSound(r, d)
        BY <1>1, <1>2, <2>6, AloneAt
      <3>2. /\ \A other : Done(r, other)' <=> Done(r, other)
            /\ \A other : OnStep(r, other)' <=> OnStep(r, other)
            /\ \A other : ~Done(r, other)
        BY <1>1, <1>2, <2>1, SameDone, AtStep
      <3>3. \A k : Seen(r, k)' = Seen(r, k)
        BY <1>1 DEF Seen
      <3>4. Evident(r)'
        BY <2>1, <3>2 DEF Evident, OnPart
      <3>5. MarkFits(r)'
        BY <1>1, <2>1, <3>1, <3>2, <3>3 DEF MarkFits, MarkSound, NotesSound
      <3> QED
        BY <3>4, <3>5
    <2> QED
      BY <1>1, <1>2, <2>1, <2>4, <2>5, <2>6, NoteSame
  <1> QED
    BY <1>3, <1>4, <1>5 DEF SaveContext

-----------------------------------------------------------------------------
LEMMA PutsDoes ==
  ASSUME Shapes, NEW r \in Applies, NEW k \in Keys, NEW v \in Contents, Puts(r, k, v)
  PROVE  /\ pending' \in [Applies -> [Keys -> Contents]]
         /\ \A s \in Applies \ {r} : pending'[s] = pending[s]
         /\ pending'[r][k] = v /\ \A j \in Keys \ {k} : pending'[r][j] = pending[r][j]
  BY DEF Shapes, Puts

(* A step that writes one row of a note.                                    *)
LEMMA PutNote ==
  ASSUME ApplyInv, NEW r \in Applies, NEW k \in NoteKeys, NEW v \in Contents \ {NoRow}, Puts(r, k, v),
         rows' = rows, overlap' = overlap, reading' = reading, made' = made, merged' = merged,
         markedBy' = markedBy, Fault \/ UNCHANGED applyFaults,
         k = MarkRow => v \in {"error", "unmarked"} \cup Candidates,
         k # MarkRow => /\ v \in {"error"} \cup Plans
                        /\ v \in Plans => Fits(k[2], v)
                        /\ made[k[2]] # NoRow
  PROVE  NoteWork(r)
  <1>1. Shapes /\ RowsFit(pending[r]) /\ Filed(pending[r]) /\ k \in Keys
    BY KeyKinds DEF ApplyInv, OwnRows
  <1>2. /\ pending' \in [Applies -> [Keys -> Contents]]
        /\ \A s \in Applies \ {r} : pending'[s] = pending[s]
        /\ pending'[r][k] = v /\ \A j \in Keys \ {k} : pending'[r][j] = pending[r][j]
    BY <1>1, PutsDoes
  <1>3. applyFaults' \in 0..MaxApplyFaults
    BY <1>1, FaultTyped
  <1>4. pending'[r][MarkRow] \in {NoRow, "error", "unmarked"} \cup Candidates
    BY <1>1, <1>2, KeyKinds DEF RowsFit
  <1>5. \A c \in Candidates :
          /\ pending'[r][NoteRow(c)] \in {NoRow, "error"} \cup Plans
          /\ pending'[r][NoteRow(c)] \in Plans => Fits(c, pending'[r][NoteRow(c)])
          /\ pending'[r][NoteRow(c)] # NoRow => made'[c] # NoRow
    <2> TAKE c \in Candidates
    <2>1. CASE k = NoteRow(c)
      BY <1>2, <2>1, KeyKinds
    <2>2. CASE k # NoteRow(c)
      <3>1. pending'[r][NoteRow(c)] = pending[r][NoteRow(c)]
        BY <1>2, <2>2, KeyKinds
      <3> QED
        BY <1>1, <3>1 DEF RowsFit, Filed
    <2> QED
      BY <2>1, <2>2
  <1>6. \A j \in Keys \ NoteKeys : pending'[r][j] = pending[r][j]
    BY <1>2
  <1>7. \A j \in NoteKeys : pending[r][j] # NoRow => pending'[r][j] # NoRow
    BY <1>2, KeyKinds
  <1> QED
    BY <1>1, <1>2, <1>3, <1>4, <1>5, <1>6, <1>7 DEF NoteWork, Shapes

LEMMA IndexContextKeeps ==
  ASSUME ApplyInv, NEW r \in Applies, IndexContext(r)
  PROVE  ApplyInv'
  <1>0. Shapes /\ apply[r].plan \in Plans /\ apply[r].created \in Candidates
    BY RecordOf DEF ApplyInv
  <1>p. PICK p \in Plans : p = apply[r].plan
    BY <1>0
  <1>c. PICK c \in Candidates : c = apply[r].created
    BY <1>0
  <1> DEFINE own == NoteRow(c)
  <1>1. PICK step \in {"create", "supersede"} : OnPart(r, step, "index")
    BY DEF IndexContext
  <1>2. /\ OnStep(r, step) /\ step \in SaveSteps /\ apply[r].part = "index"
        /\ made' = made /\ merged' = merged /\ markedBy' = markedBy
        /\ rows' = rows /\ reading' = reading /\ overlap' = overlap
    BY <1>1 DEF IndexContext, OnPart, SaveSteps, fileVars
  <1>3. /\ Shapes /\ OnScript(r) /\ p \in Plans /\ c \in Candidates /\ Fits(c, p)
        /\ made[c] # NoRow /\ own \in NoteKeys /\ own # MarkRow /\ own[2] = c /\ own \in Keys
        /\ p \in Contents \ {NoRow} /\ "error" \in Contents \ {NoRow} /\ MarkRow \in Keys
    <2>1. Does(r) /\ Shapes /\ OnScript(r)
      BY <1>2, AloneAt
    <2> QED
      BY <1>2, <1>p, <1>c, <2>1, KeyKinds, Values DEF Does, Contents, Words
  <1>4. CASE Puts(r, own, "error") /\ Fails(r) /\ (Fault \/ UNCHANGED applyFaults)
    <2>1. NoteWork(r)
      BY <1>2, <1>3, <1>4, PutNote, Values
    <2>2. Stops(r)
      BY <1>3, <1>4, FailsStop
    <2>3. ASSUME ~overlap
          PROVE  MarkSound(r)' /\ \A d \in Candidates : NotesSound(r, d)'
      <3>1. MarkSound(r) /\ \A d \in Candidates : NotesSound(r, d)
        BY <1>2, <2>3, AloneAt
      <3>2. pending'[r][own] = "error" /\ \A j \in Keys \ {own} : pending'[r][j] = pending[r][j]
        BY <1>3, <1>4, PutsDoes
      <3>3. MarkSound(r)'
        BY <1>2, <1>3, <3>1, <3>2 DEF MarkSound
      <3>4. \A d \in Candidates : NotesSound(r, d)'
        <4> TAKE d \in Candidates
        <4>1. Seen(r, MarkRow)' = Seen(r, MarkRow)
          BY <1>2, <1>3, <3>2 DEF Seen
        <4>2. CASE d = c
          BY <1>3, <3>2, <4>2, Values DEF NotesSound, Seen, Replacer
        <4>3. CASE d # c
          <5>1. NoteRow(d) # own /\ NoteRow(d) \in Keys
            BY <1>3, <4>3, NoteKeysDiffer
          <5>2. Seen(r, NoteRow(d))' = Seen(r, NoteRow(d))
            BY <1>2, <3>2, <5>1 DEF Seen
          <5> QED
            BY <3>1, <4>1, <5>2 DEF NotesSound
        <4> QED
          BY <4>2, <4>3
      <3> QED
        BY <3>3, <3>4
    <2> QED
      BY <1>2, <2>1, <2>2, <2>3, NoteFails
  <1>5. CASE /\ Puts(r, own, p) /\ UNCHANGED applyFaults
             /\ IF Replacing(p) THEN Goto(r, "mark") ELSE ChangesWith(r, c)
    <2>1. NoteWork(r)
      BY <1>2, <1>3, <1>5, PutNote
    <2>2. pending'[r][own] = p /\ \A j \in Keys \ {own} : pending'[r][j] = pending[r][j]
      BY <1>3, <1>5, PutsDoes
    <2>3. Seen(r, MarkRow)' = Seen(r, MarkRow) /\ Seen(r, own)' = p
      BY <1>2, <1>3, <2>2 DEF Seen
    <2>4. \A d \in Candidates \ {c} : Seen(r, NoteRow(d))' = Seen(r, NoteRow(d))
      <3> TAKE d \in Candidates \ {c}
      <3>1. NoteRow(d) # own /\ NoteRow(d) \in Keys
        BY <1>3, NoteKeysDiffer
      <3> QED
        BY <1>2, <2>2, <3>1 DEF Seen
    <2>5. ~overlap => /\ AloneDoes(r) /\ MarkSound(r)' /\ MarkFits(r)
                      /\ \A d \in Candidates : NotesSound(r, d)
                      /\ \A d \in Candidates \ {c} : NotesSound(r, d)'
      <3> HAVE ~overlap
      <3>1. AloneDoes(r) /\ MarkSound(r) /\ \A d \in Candidates : NotesSound(r, d)
        BY <1>2, AloneAt
      <3>2. MarkSound(r)'
        BY <1>2, <1>3, <2>2, <3>1 DEF MarkSound
      <3> QED
        BY <2>3, <2>4, <3>1, <3>2 DEF NotesSound, AloneDoes
    <2>6. CASE Replacing(p)
      <3>1. SameStep(r) /\ apply'[r].part = "mark" /\ apply'[r].plan = p /\ apply'[r].created = c
        BY <1>3, <1>5, <1>p, <1>c, <2>6, GoesTo DEF SameStep
      <3>2. ASSUME ~overlap
            PROVE  Evident(r)' /\ MarkFits(r)'
        <4>1. /\ \A other : Done(r, other)' <=> Done(r, other)
              /\ \A other : OnStep(r, other)' <=> OnStep(r, other)
          BY <1>3, <3>1, SameDone
        <4>2. ~OnStep(r, "merge")
          BY <1>2, AloneAt
        <4>3. Evident(r)'
          BY <1>p, <1>2, <2>5, <3>1, <3>2, <4>1, <4>2 DEF Evident, OnPart, AloneDoes
        <4>4. NotesSound(r, c)' \/ (OnStep(r, "create") /\ apply'[r].part \in {"mark", "flag"})
          <5>1. CASE step = "create"
            BY <1>2, <3>1, <5>1
          <5>2. CASE step = "supersede"
            <6>1. Done(r, "create")
              BY <1>2, <1>3, <5>2, AtStep
            <6>2. Replacer(Seen(r, own))
              BY <1>p, <1>c, <2>5, <2>6, <3>2, <6>1 DEF MarkFits, Replacer
            <6> QED
              BY <1>3, <2>3, <2>5, <3>2, <6>2 DEF NotesSound
          <5> QED
            BY <5>1, <5>2
        <4>5. MarkFits(r)'
          <5>1. Done(r, "create")' => Seen(r, own)' \in Plans /\ Replacing(Seen(r, own)')
                                       /\ Seen(r, MarkRow)' # "error"
            BY <1>p, <1>c, <1>3, <2>3, <2>5, <2>6, <3>2, <4>1 DEF MarkFits
          <5>2. Done(r, "supersede")' => markedBy' = c /\ Seen(r, MarkRow)' = c
            BY <1>c, <1>2, <2>3, <2>5, <3>2, <4>1 DEF MarkFits
          <5> QED
            BY <1>2, <2>5, <3>1, <3>2, <4>1, <4>4, <5>1, <5>2 DEF MarkFits
        <4> QED
          BY <4>3, <4>5
      <3>3. (step = "create" /\ apply'[r].part \in {"mark", "flag"}) => pending'[r][NoteRow(c)] = p
        BY <2>2
      <3> QED
        BY <1>p, <1>c, <1>2, <1>3, <2>1, <3>1, <3>2, <3>3, NoteSame
    <2>7. CASE ~Replacing(p)
      <3>1. NextStep(r) /\ apply'[r].plan = p /\ apply'[r].created = c /\ apply'[r].part = "begin"
        BY <1>3, <1>5, <1>p, <2>7, ChangesOn DEF NextStep
      <3>2. ASSUME ~overlap
            PROVE  Evident(r)' /\ MarkFits(r)'
        <4>1. /\ \A other : Done(r, other)' <=> (Done(r, other) \/ other = step)
              /\ ~OnStep(r, "merge")'
          BY <1>2, <1>3, <3>1, NextDone, AloneAt
        <4>2. Evident(r)'
          BY <1>p, <1>2, <2>5, <3>1, <3>2, <4>1 DEF Evident, OnPart, AloneDoes
        <4>3. NotesSound(r, c)'
          BY <2>3, <2>7 DEF NotesSound, Replacer
        <4>4. step = "create"
          <5>1. step = "supersede" => Takes(p, "supersede")
            <6>1. Script(r)[apply[r].step] = step /\ apply[r].step \in 1..Len(Script(r))
                  /\ DOMAIN Script(r) = 1..Len(Script(r))
              BY <1>2, <1>3, AtStep, RecordOf DEF WellScripted
            <6> QED
              BY <1>p, <6>1 DEF Takes, Script
          <5> QED
            BY <1>3, <2>7, <5>1, PlanScripts
        <4>5. ~Done(r, "supersede")
          BY <1>2, <1>3, <4>4, AtStep
        <4>6. MarkFits(r)'
          BY <1>c, <1>2, <1>3, <2>3, <2>5, <2>7, <3>1, <3>2, <4>1, <4>3, <4>4, <4>5 DEF MarkFits
        <4> QED
          BY <4>2, <4>6
      <3>3. Seen(r, own)' # NoRow
        BY <1>3, <2>3
      <3>4. step # "create" => c = apply[r].created
        BY <1>c
      <3> QED
        BY <1>p, <1>c, <1>2, <1>3, <2>1, <3>1, <3>2, <3>3, <3>4, NoteNext
    <2> QED
      BY <2>6, <2>7
  <1> QED
    BY <1>p, <1>c, <1>4, <1>5 DEF IndexContext, Changes

-----------------------------------------------------------------------------
(* What a failing mark leaves.                                              *)
LEMMA MarkFailsKeeps ==
  ASSUME ApplyInv, NEW r \in Applies, NEW step \in SaveSteps, OnStep(r, step),
         NEW others \in SUBSET {MarkRow}, MarkFails(r, others),
         rows' = rows, overlap' = overlap, reading' = reading, made' = made, merged' = merged,
         markedBy' = markedBy, Fault \/ UNCHANGED applyFaults,
         apply[r].part = "mark" \/ (others = {MarkRow} /\ apply[r].part = "flag")
  PROVE  ApplyInv'
  <1>0. Shapes /\ apply[r].plan \in Plans /\ apply[r].created \in Candidates
    BY RecordOf DEF ApplyInv
  <1>p. PICK p \in Plans : p = apply[r].plan
    BY <1>0
  <1>c. PICK c \in Candidates : c = apply[r].created
    BY <1>0
  <1> DEFINE Bad(k) == k \in others \/ (OnStep(r, "create") /\ k = NoteRow(c))
  <1>1. /\ pending \in [Applies -> [Keys -> Contents]] /\ "error" \in Contents
        /\ RowsFit(pending[r]) /\ Filed(pending[r]) /\ MarkRow \in NoteKeys
        /\ NoteRow(c) \in NoteKeys /\ NoteRow(c) # MarkRow /\ NoteKeys \subseteq Keys
    BY <1>0, KeyKinds DEF Shapes, Contents, Words, ApplyInv, OwnRows
  <1>2. pending' = [pending EXCEPT ![r] = [k \in Keys |-> IF Bad(k) THEN "error" ELSE pending[r][k]]]
    BY <1>c DEF MarkFails
  <1>3. /\ pending' \in [Applies -> [Keys -> Contents]]
        /\ \A s \in Applies \ {r} : pending'[s] = pending[s]
        /\ \A k \in Keys : pending'[r][k] = IF Bad(k) THEN "error" ELSE pending[r][k]
    <2> DEFINE f == [k \in Keys |-> IF Bad(k) THEN "error" ELSE pending[r][k]]
    <2>1. f \in [Keys -> Contents]
      BY <1>1
    <2>2. \A k \in Keys : f[k] = IF Bad(k) THEN "error" ELSE pending[r][k]
      OBVIOUS
    <2>3. pending' = [pending EXCEPT ![r] = f]
      BY <1>2
    <2> HIDE DEF f, Bad
    <2> QED
      BY <1>1, <2>1, <2>2, <2>3
  <1>4. Stops(r)
    BY <1>0, FailsStop DEF MarkFails
  <1>5. Does(r) /\ (OnStep(r, "create") => pending[r][NoteRow(c)] = p) /\ p # NoRow
    <2>1. Does(r)
      BY AloneAt
    <2> QED
      BY <1>p, <1>c, <2>1, Values DEF Does
  <1>6. NoteWork(r)
    <2>1. \A k \in Keys \ NoteKeys : pending'[r][k] = pending[r][k]
      BY <1>1, <1>3
    <2>2. \A k \in NoteKeys : pending[r][k] # NoRow => pending'[r][k] # NoRow
      BY <1>1, <1>3, Values
    <2>3. pending'[r][MarkRow] \in {NoRow, "error", "unmarked"} \cup Candidates
      BY <1>1, <1>3 DEF RowsFit
    <2>4. \A d \in Candidates :
            /\ pending'[r][NoteRow(d)] \in {NoRow, "error"} \cup Plans
            /\ pending'[r][NoteRow(d)] \in Plans => Fits(d, pending'[r][NoteRow(d)])
            /\ pending'[r][NoteRow(d)] # NoRow => made'[d] # NoRow
      <3> TAKE d \in Candidates
      <3>1. NoteRow(d) \in Keys /\ NoteRow(d) # MarkRow
        BY KeyKinds
      <3>2. CASE pending'[r][NoteRow(d)] = pending[r][NoteRow(d)]
        BY <1>1, <3>2 DEF RowsFit, Filed
      <3>3. CASE pending'[r][NoteRow(d)] = "error" /\ OnStep(r, "create") /\ d = c
        BY <1>1, <1>5, <3>3, Values DEF Filed
      <3>4. Bad(NoteRow(d)) => OnStep(r, "create") /\ d = c
        BY <3>1, NoteKeysDiffer
      <3> QED
        BY <1>3, <3>1, <3>2, <3>3, <3>4
    <2>5. applyFaults' \in 0..MaxApplyFaults
      BY <1>0, FaultTyped
    <2> QED
      BY <1>0, <1>3, <2>1, <2>2, <2>3, <2>4, <2>5 DEF NoteWork, Shapes
  <1>7. ASSUME ~overlap
        PROVE  MarkSound(r)' /\ \A d \in Candidates : NotesSound(r, d)'
    <2>1. AloneDoes(r)
      BY <1>7, AloneAt
    <2>2. CASE MarkRow \in others
      <3>1. pending'[r][MarkRow] = "error" /\ Seen(r, MarkRow)' = "error"
        BY <1>1, <1>3, <2>2, Values DEF Seen
      <3> QED
        BY <3>1 DEF MarkSound, NotesSound
    <2>3. CASE MarkRow \notin others
      <3>1. apply[r].part = "mark" /\ MarkSound(r)
        BY <2>1, <2>3 DEF AloneDoes, MarkFits
      <3>2. pending'[r][MarkRow] = pending[r][MarkRow] /\ Seen(r, MarkRow)' = Seen(r, MarkRow)
        BY <1>1, <1>3, <2>3 DEF Seen
      <3>3. \A d \in Candidates : NotesSound(r, d)'
        <4> TAKE d \in Candidates
        <4>1. NoteRow(d) \in Keys /\ NoteRow(d) # MarkRow /\ NoteRow(d) \notin others
          BY KeyKinds
        <4>2. CASE d = c /\ OnStep(r, "create")
          <5>1. pending'[r][NoteRow(d)] = "error"
            BY <1>3, <4>1, <4>2
          <5> QED
            BY <5>1, Values DEF NotesSound, Seen, Replacer
        <4>3. CASE ~(d = c /\ OnStep(r, "create"))
          <5>1. ~Bad(NoteRow(d))
            BY <4>1, <4>3, NoteKeysDiffer
          <5>2. Seen(r, NoteRow(d))' = Seen(r, NoteRow(d))
            BY <1>3, <4>1, <5>1 DEF Seen
          <5>3. NotesSound(r, d)
            BY <1>c, <2>1, <4>3 DEF AloneDoes, MarkFits
          <5> QED
            BY <3>2, <5>2, <5>3 DEF NotesSound
        <4> QED
          BY <4>2, <4>3
      <3> QED
        BY <3>1, <3>2, <3>3 DEF MarkSound
    <2> QED
      BY <2>2, <2>3
  <1> QED
    BY <1>4, <1>6, <1>7, NoteFails

(* The row and the file agree on who has replaced the existing Context.     *)
LEMMA MarkAgrees ==
  ASSUME ApplyInv, ~overlap, NEW r \in Applies, MarkSound(r), NEW c \in Candidates,
         Seen(r, MarkRow) = c
  PROVE  markedBy = c
  BY Values DEF ApplyInv, InTurn, MarkSound, Seen

LEMMA MarkTargetKeeps ==
  ASSUME ApplyInv, NEW r \in Applies, MarkTarget(r)
  PROVE  ApplyInv'
  <1>0. Shapes /\ apply[r].plan \in Plans /\ apply[r].created \in Candidates
    BY RecordOf DEF ApplyInv
  <1>p. PICK p \in Plans : p = apply[r].plan
    BY <1>0
  <1>c. PICK c \in Candidates : c = apply[r].created
    BY <1>0
  <1>1. PICK step \in {"create", "supersede"} : OnPart(r, step, "mark")
    BY DEF MarkTarget
  <1>2. /\ OnStep(r, step) /\ step \in SaveSteps /\ apply[r].part = "mark"
        /\ made' = made /\ merged' = merged /\ applyFaults' = applyFaults
        /\ rows' = rows /\ reading' = reading /\ overlap' = overlap
    BY <1>1 DEF MarkTarget, OnPart, SaveSteps
  <1>3. /\ OnScript(r) /\ Fits(c, p) /\ step # "result" /\ Does(r)
        /\ step = "create" => pending[r][NoteRow(c)] = p
        /\ c # "unmarked" /\ p # NoRow
    <2>1. Does(r) /\ OnScript(r)
      BY <1>2, AloneAt
    <2> QED
      BY <1>2, <1>p, <1>c, <2>1, Values DEF Does
  <1>4. ~overlap => /\ AloneDoes(r) /\ MarkSound(r) /\ MarkFits(r)
                    /\ \A d \in Candidates : NotesSound(r, d) \/ (d = c /\ step = "create")
    <2> HAVE ~overlap
    <2>1. AloneDoes(r) /\ (OnStep(r, "create") => step = "create")
      BY <1>2, AloneAt
    <2> QED
      BY <1>2, <1>c, <2>1 DEF AloneDoes, MarkFits
  <1>5. CASE MarkFails(r, {}) /\ UNCHANGED markedBy
    BY <1>2, <1>5, MarkFailsKeeps
  <1>6. CASE Seen(r, MarkRow) = c /\ ChangesWith(r, c) /\ UNCHANGED <<markedBy, pending>>
    <2>1. NoteWork(r)
      BY <1>2, <1>6, StillNote
    <2>2. NextStep(r) /\ apply'[r].plan = p /\ apply'[r].created = c /\ apply'[r].part = "begin"
      BY <1>0, <1>p, <1>6, ChangesOn DEF NextStep
    <2>3. \A k : Seen(r, k)' = Seen(r, k)
      BY <1>2, <1>6 DEF Seen
    <2>4. /\ \A other : Done(r, other)' <=> (Done(r, other) \/ other = step)
          /\ ~OnStep(r, "merge")'
      BY <1>0, <1>2, <1>3, <2>2, NextDone
    <2>5. step = "create" => Seen(r, NoteRow(c)) = p
      BY <1>3 DEF Seen
    <2>6. ASSUME ~overlap
          PROVE  Evident(r)' /\ MarkFits(r)'
      <3>1. Evident(r)'
        BY <1>p, <1>2, <1>4, <2>2, <2>4, <2>6 DEF Evident, OnPart, AloneDoes
      <3>2. markedBy = c
        BY <1>4, <1>6, <2>6, MarkAgrees
      <3>3. \A d \in Candidates : NotesSound(r, d)'
        BY <1>3, <1>6, <2>3 DEF NotesSound
      <3>4. Seen(r, MarkRow) # "error"
        BY <1>6, Values
      <3>5. MarkSound(r)'
        BY <1>4, <1>6, <2>6 DEF MarkSound
      <3>6. Done(r, "create")' => Seen(r, NoteRow(c)) \in Plans
                /\ (Replacing(p) => Replacing(Seen(r, NoteRow(c))) /\ Seen(r, MarkRow) # "error")
        BY <1>p, <1>c, <1>4, <2>4, <2>5, <2>6, <3>4 DEF MarkFits
      <3>7. MarkFits(r)'
        BY <1>6, <2>2, <2>3, <3>2, <3>3, <3>5, <3>6 DEF MarkFits
      <3> QED
        BY <3>1, <3>7
    <2>7. step = "create" => Seen(r, NoteRow(c))' # NoRow
      BY <1>3, <2>3, <2>5
    <2> QED
      BY <1>p, <1>c, <1>2, <1>3, <2>1, <2>2, <2>6, <2>7, NoteNext
  <1>7. CASE /\ Seen(r, MarkRow) = "unmarked" /\ markedBy' = c /\ UNCHANGED pending
             /\ apply' = [apply EXCEPT ![r].part = "flag", ![r].named = c]
    <2>1. /\ SameStep(r) /\ apply'[r].part = "flag" /\ apply'[r].plan = p /\ apply'[r].created = c
          /\ apply'[r].named = c
      BY <1>0, <1>p, <1>c, <1>7, GoesToFlag DEF SameStep
    <2>2. ~overlap => \/ pending[r][MarkRow] = NoRow /\ rows[MarkRow] = "unmarked"
                      \/ markedBy = "unmarked" /\ pending[r][MarkRow] = "unmarked"
      BY <1>4, <1>7 DEF MarkSound, Seen
    <2>3. rows[MarkRow] \in Candidates /\ ~overlap => markedBy # "unmarked"
      BY Values DEF ApplyInv, InTurn
    <2>4. rows[MarkRow] = "unmarked" => rows[MarkRow] \notin Candidates
      BY Values
    <2>5. NoteWork(r)
      BY <1>0, <1>2, <1>7, <2>2, <2>3, <2>4, QuietNote DEF Shapes
    <2>6. ASSUME ~overlap
          PROVE  Evident(r)' /\ MarkFits(r)'
      <3>1. /\ \A other : Done(r, other)' <=> Done(r, other)
            /\ \A other : OnStep(r, other)' <=> OnStep(r, other)
        BY <1>0, <2>1, SameDone
      <3>2. ~OnStep(r, "merge") /\ (OnStep(r, "create") <=> step = "create")
        BY <1>2, AloneAt
      <3>3. \A k : Seen(r, k)' = Seen(r, k)
        BY <1>2, <1>7 DEF Seen
      <3>4. Evident(r)'
        BY <1>p, <1>2, <1>4, <2>1, <2>6, <3>1, <3>2 DEF Evident, OnPart, AloneDoes
      <3>5. ~Done(r, "supersede")
        BY <1>c, <1>3, <1>4, <1>7, <2>6 DEF MarkFits
      <3>6. (MarkSound(r) \/ (pending[r][MarkRow] = "unmarked" /\ apply[r].part = "flag"
                              /\ ~OnStep(r, "merge")))'
        BY <1>7, <2>1, <2>2, <2>6, <3>1, <3>2 DEF MarkSound
      <3>7. \A d \in Candidates : NotesSound(r, d)' \/ (d = c /\ step = "create")
        BY <1>4, <2>6, <3>3 DEF NotesSound
      <3>8. Done(r, "create") => Seen(r, NoteRow(c)) \in Plans
                /\ (Replacing(p) => Replacing(Seen(r, NoteRow(c))) /\ Seen(r, MarkRow) # "error")
        BY <1>p, <1>c, <1>4, <2>6 DEF MarkFits
      <3>9. MarkFits(r)'
        BY <1>7, <2>1, <3>1, <3>2, <3>3, <3>5, <3>6, <3>7, <3>8 DEF MarkFits
      <3> QED
        BY <3>4, <3>9
    <2>7. (step = "create" /\ apply'[r].part \in {"mark", "flag"}) => pending'[r][NoteRow(c)] = apply[r].plan
      BY <1>p, <1>3, <1>7
    <2> QED
      BY <1>c, <1>2, <2>1, <2>5, <2>6, <2>7, NoteSame
  <1> QED
    BY <1>c, <1>5, <1>6, <1>7 DEF MarkTarget, Changes

LEMMA IndexTargetKeeps ==
  ASSUME ApplyInv, NEW r \in Applies, IndexTarget(r)
  PROVE  ApplyInv'
  <1>0. /\ Shapes /\ apply[r].plan \in Plans /\ apply[r].created \in Candidates
        /\ apply[r].named \in Candidates \cup {"unmarked"}
    BY RecordOf DEF ApplyInv
  <1>p. PICK p \in Plans : p = apply[r].plan
    BY <1>0
  <1>c. PICK c \in Candidates : c = apply[r].created
    BY <1>0
  <1>n. PICK named \in Candidates \cup {"unmarked"} : named = apply[r].named
    BY <1>0
  <1>1. PICK step \in {"create", "supersede", "merge"} : OnStep(r, step)
    BY DEF IndexTarget, ApplyInv, OnScript
  <1>2. /\ step \in SaveSteps /\ apply[r].part = "flag"
        /\ made' = made /\ merged' = merged /\ markedBy' = markedBy
        /\ rows' = rows /\ reading' = reading /\ overlap' = overlap
    BY DEF IndexTarget, SaveSteps, fileVars
  <1>3. /\ OnScript(r) /\ Fits(c, p) /\ step # "result" /\ Does(r)
        /\ step = "create" => pending[r][NoteRow(c)] = p
        /\ p # NoRow /\ MarkRow \in Keys /\ named \in Contents \ {NoRow} /\ named # "error"
    <2>1. Does(r) /\ OnScript(r)
      BY <1>1, <1>2, AloneAt
    <2> QED
      BY <1>1, <1>2, <1>p, <1>c, <2>1, Values, KeyKinds DEF Does, Contents, Words
  <1>4. ~overlap => /\ AloneDoes(r) /\ MarkFits(r) /\ Evident(r)
                    /\ step # "merge" => named = c /\ markedBy = c
                    /\ step = "merge" => /\ named = markedBy /\ Seen(r, MarkRow) # "error"
                                         /\ CandidateOf[p] \in merged /\ MarkSound(r)
                                         /\ \A d \in Candidates : NotesSound(r, d)
    <2> HAVE ~overlap
    <2>1. AloneDoes(r) /\ (OnStep(r, "create") <=> step = "create")
          /\ (OnStep(r, "merge") <=> step = "merge")
      BY <1>1, <1>2, AloneAt
    <2>2. MarkFits(r) /\ Evident(r)
      BY <2>1 DEF AloneDoes
    <2>3. step # "merge" => named = c /\ markedBy = c
      BY <1>2, <1>c, <1>n, <2>1, <2>2 DEF MarkFits
    <2>4. step = "merge" => /\ named = markedBy /\ Seen(r, MarkRow) # "error"
                            /\ CandidateOf[p] \in merged
      BY <1>2, <1>p, <1>n, <2>1, <2>2 DEF Evident, OnPart
    <2>5. step = "merge" => MarkSound(r) /\ \A d \in Candidates : NotesSound(r, d)
      BY <2>1, <2>2 DEF MarkFits
    <2> QED
      BY <2>1, <2>2, <2>3, <2>4, <2>5
  <1>5. CASE MarkFails(r, {MarkRow}) /\ (Fault \/ UNCHANGED applyFaults)
    BY <1>1, <1>2, <1>5, MarkFailsKeeps
  <1>6. CASE Puts(r, MarkRow, named) /\ ChangesWith(r, c) /\ UNCHANGED applyFaults
    <2>1. NoteWork(r)
      BY <1>2, <1>3, <1>6, PutNote, KeyKinds
    <2>2. NextStep(r) /\ apply'[r].plan = p /\ apply'[r].created = c /\ apply'[r].part = "begin"
      BY <1>0, <1>p, <1>6, ChangesOn DEF NextStep
    <2>3. pending'[r][MarkRow] = named /\ \A j \in Keys \ {MarkRow} : pending'[r][j] = pending[r][j]
      BY <1>0, <1>3, <1>6, PutsDoes
    <2>4. Seen(r, MarkRow)' = named
      BY <1>3, <2>3 DEF Seen
    <2>5. \A d \in Candidates : Seen(r, NoteRow(d))' = Seen(r, NoteRow(d))
      <3> TAKE d \in Candidates
      <3>1. NoteRow(d) \in Keys \ {MarkRow}
        BY KeyKinds
      <3> QED
        BY <1>2, <2>3, <3>1 DEF Seen
    <2>6. /\ \A other : Done(r, other)' <=> (Done(r, other) \/ other = step)
          /\ ~OnStep(r, "merge")'
      BY <1>0, <1>1, <1>3, <2>2, NextDone
    <2>7. step = "create" => Seen(r, NoteRow(c)) = p
      BY <1>3 DEF Seen
    <2>8. ASSUME ~overlap
          PROVE  Evident(r)' /\ MarkFits(r)'
      <3>1. Evident(r)'
        BY <1>p, <1>2, <1>4, <2>2, <2>6, <2>8 DEF Evident, OnPart
      <3>2. named = markedBy
        BY <1>4, <2>8
      <3>3. \A d \in Candidates : NotesSound(r, d)'
        <4>1. CASE step # "merge"
          BY <1>4, <2>4, <2>8, <4>1, Values DEF NotesSound
        <4>2. CASE step = "merge"
          <5>1. named = "unmarked" => Seen(r, MarkRow) = "unmarked"
            BY <1>0, <1>4, <2>8, <4>2, Values DEF MarkSound, Seen, ApplyInv, InTurn, Shapes, RowsFit
          <5> QED
            BY <1>4, <2>4, <2>5, <2>8, <4>2, <5>1 DEF NotesSound
        <4> QED
          BY <4>1, <4>2
      <3>4. MarkSound(r)'
        BY <1>2, <2>3, <3>2 DEF MarkSound
      <3>5. Done(r, "create")' => Seen(r, NoteRow(c)) \in Plans
                /\ (Replacing(p) => Replacing(Seen(r, NoteRow(c))))
        BY <1>p, <1>c, <1>4, <2>6, <2>7, <2>8 DEF MarkFits
      <3>6. Done(r, "supersede")' => markedBy = c /\ named = c
        <4>1. step = "merge" => ~Done(r, "supersede")
          BY <1>0, <1>1, <1>3, AtStep
        <4> QED
          BY <1>c, <1>4, <2>6, <2>8, <4>1 DEF MarkFits
      <3>7. MarkFits(r)'
        BY <1>2, <1>3, <2>2, <2>4, <2>5, <3>3, <3>4, <3>5, <3>6 DEF MarkFits
      <3> QED
        BY <3>1, <3>7
    <2>9. step = "create" => Seen(r, NoteRow(c))' # NoRow
      BY <1>3, <2>5, <2>7
    <2> QED
      BY <1>p, <1>c, <1>1, <1>2, <1>3, <2>1, <2>2, <2>8, <2>9, NoteNext
  <1> QED
    BY <1>c, <1>n, <1>5, <1>6 DEF IndexTarget, Changes

LEMMA SupersedeKeeps ==
  ASSUME ApplyInv, NEW r \in Applies, Supersede(r)
  PROVE  ApplyInv'
  <1>0. Shapes /\ apply[r].plan \in Plans /\ apply[r].created \in Candidates
    BY RecordOf DEF ApplyInv
  <1>p. PICK p \in Plans : p = apply[r].plan
    BY <1>0
  <1>c. PICK c \in Candidates : c = apply[r].created
    BY <1>0
  <1>1. /\ OnStep(r, "supersede") /\ "supersede" \in SaveSteps /\ apply[r].part = "begin"
        /\ merged' = merged /\ markedBy' = markedBy /\ pending' = pending
        /\ applyFaults' = applyFaults
        /\ rows' = rows /\ reading' = reading /\ overlap' = overlap
    BY DEF Supersede, OnPart, SaveSteps
  <1>2. OnScript(r) /\ Fits(c, p) /\ Does(r) /\ Done(r, "create") /\ c # "unmarked"
    <2>1. Does(r) /\ OnScript(r)
      BY <1>1, AloneAt
    <2> QED
      BY <1>0, <1>1, <1>p, <1>c, <2>1, AtStep, Values DEF Does
  <1>3. Replacing(p)
    <2>1. Script(r)[apply[r].step] = "supersede" /\ apply[r].step \in 1..Len(Script(r))
          /\ DOMAIN Script(r) = 1..Len(Script(r))
      BY <1>0, <1>1, <1>2, AtStep, RecordOf DEF WellScripted
    <2>2. Takes(p, "supersede")
      BY <1>p, <2>1 DEF Takes, Script
    <2> QED
      BY <2>2, PlanScripts
  <1>4. ~overlap => /\ AloneDoes(r) /\ MarkSound(r) /\ MarkFits(r) /\ Evident(r)
                    /\ \A d \in Candidates : NotesSound(r, d)
                    /\ Seen(r, NoteRow(c)) \in Plans /\ Replacing(Seen(r, NoteRow(c)))
                    /\ Seen(r, MarkRow) \notin {"error", "unmarked"}
    <2> HAVE ~overlap
    <2>1. AloneDoes(r) /\ MarkSound(r) /\ \A d \in Candidates : NotesSound(r, d)
      BY <1>1, AloneAt
    <2> QED
      BY <1>p, <1>c, <1>2, <1>3, <2>1 DEF AloneDoes, MarkFits, NotesSound, Replacer
  <1>5. \A k : Seen(r, k)' = Seen(r, k)
    BY <1>1 DEF Seen
  <1>6. CASE markedBy = c /\ ChangesWith(r, c) /\ made' = made
    <2>1. NoteWork(r)
      BY <1>1, <1>6, StillNote
    <2>2. NextStep(r) /\ apply'[r].plan = p /\ apply'[r].created = c /\ apply'[r].part = "begin"
      BY <1>0, <1>p, <1>6, ChangesOn DEF NextStep
    <2>3. ASSUME ~overlap
          PROVE  Evident(r)' /\ MarkFits(r)'
      <3>1. /\ \A other : Done(r, other)' <=> (Done(r, other) \/ other = "supersede")
            /\ ~OnStep(r, "merge")'
        BY <1>0, <1>1, <1>2, <2>2, NextDone
      <3>2. Evident(r)'
        BY <1>p, <1>1, <1>4, <2>2, <2>3, <3>1 DEF Evident, OnPart
      <3>3. Seen(r, MarkRow) = c
        <4>1. Seen(r, MarkRow) \in Candidates
          BY <1>0, <1>4, <2>3 DEF Seen, Shapes, RowsFit, ApplyInv, OwnRows
        <4>2. PICK d \in Candidates : Seen(r, MarkRow) = d
          BY <4>1
        <4> QED
          BY <1>4, <1>6, <2>3, <4>2, MarkAgrees
      <3>4. MarkFits(r)'
        BY <1>1, <1>4, <1>5, <1>6, <2>2, <2>3, <3>1, <3>3 DEF MarkFits, MarkSound, NotesSound
      <3> QED
        BY <3>2, <3>4
    <2> QED
      BY <1>p, <1>c, <1>1, <1>2, <2>1, <2>2, <2>3, NoteNext
  <1>7. CASE Fails(r) /\ made' = made
    BY <1>1, <1>7, StillFails DEF Still
  <1>8. ASSUME SameStep(r), NoteWork(r), apply'[r].part \in {"mark", "index"},
               apply'[r].part = "index" => made'[c] # NoRow
        PROVE  ApplyInv'
    <2>1. apply'[r].plan = p /\ apply'[r].created = c
      BY <1>p, <1>c, <1>8 DEF SameStep
    <2>2. ASSUME ~overlap
          PROVE  Evident(r)' /\ MarkFits(r)'
      <3>1. /\ \A other : Done(r, other)' <=> Done(r, other)
            /\ \A other : OnStep(r, other)' <=> OnStep(r, other)
        BY <1>0, <1>8, SameDone
      <3>2. ~OnStep(r, "merge")
        BY <1>1, AloneAt
      <3>3. ~Done(r, "supersede")
        BY <1>0, <1>1, <1>2, AtStep
      <3>4. Evident(r)'
        BY <1>p, <1>1, <1>4, <2>1, <2>2, <3>1, <3>2 DEF Evident, OnPart
      <3>5. MarkFits(r)'
        BY <1>1, <1>4, <1>5, <1>8, <2>1, <2>2, <3>1, <3>3 DEF MarkFits, MarkSound, NotesSound
      <3> QED
        BY <3>4, <3>5
    <2> QED
      BY <1>c, <1>1, <1>8, <2>2, NoteSame
  <1>9. CASE Goto(r, "mark") /\ made' = made
    <2>1. SameStep(r) /\ apply'[r].part = "mark"
      BY <1>0, <1>9, GoesTo
    <2>2. NoteWork(r)
      BY <1>1, <1>9, StillNote
    <2> QED
      BY <1>8, <2>1, <2>2
  <1>10. CASE /\ made' = [made EXCEPT ![c] = p]
              /\ apply' = [apply EXCEPT ![r].part = "index", ![r].seen = Seen(r, NoteRow(c))]
    <2>1. SameStep(r) /\ apply'[r].part = "index"
      BY <1>0, <1>10, GoesToIndex, NoteKeysDiffer
    <2>2. made' \in [Candidates -> Plans \cup {NoRow}] /\ made'[c] = p
          /\ \A d \in Candidates : d # c => made'[d] = made[d]
      BY <1>0, <1>10 DEF Shapes
    <2>3. \A d \in Candidates : /\ made'[d] # NoRow => Fits(d, made'[d])
                                /\ made[d] # NoRow => made'[d] # NoRow
      BY <1>0, <1>2, <2>2, Values DEF Shapes
    <2>4. NoteWork(r)
      BY <1>0, <1>1, <2>2, <2>3, QuietNote DEF Shapes
    <2>5. made'[c] # NoRow
      BY <2>2, Values
    <2> QED
      BY <1>8, <2>1, <2>4, <2>5
  <1> QED
    BY <1>p, <1>c, <1>6, <1>7, <1>9, <1>10 DEF Supersede, Changes

-----------------------------------------------------------------------------
LEMMA LostAt ==
  ASSUME ApplyInv, NEW r \in Applies, Lost(r)
  PROVE  \E step \in SaveSteps : OnStep(r, step) /\ apply[r].part = "begin" /\ step # "merge"
  <1>1. CASE OnStep(r, "read")
    BY <1>1, AloneAt DEF SaveSteps
  <1>2. CASE OnStep(r, "verify")
    BY <1>2, AloneAt DEF SaveSteps
  <1>3. CASE OnPart(r, "create", "begin") \/ OnPart(r, "supersede", "begin")
    BY <1>3 DEF OnPart, SaveSteps
  <1> QED
    BY <1>1, <1>2, <1>3 DEF Lost, Reads

(* A request that is alone loses sight of a note only before it has created *)
(* or superseded any.                                                       *)
LEMMA LostEarly ==
  ASSUME ApplyInv, ~overlap, NEW r \in Applies, Lost(r)
  PROVE  ~Done(r, "create") /\ ~Done(r, "supersede")
  <1>1. PICK step \in SaveSteps : OnStep(r, step) /\ apply[r].part = "begin" /\ step # "merge"
    BY LostAt
  <1>2. /\ Shapes /\ OnScript(r) /\ step # "result" /\ AloneDoes(r) /\ MarkFits(r)
        /\ \A other : OnStep(r, other) <=> other = step
    BY <1>1, AloneAt DEF AloneDoes
  <1>3. /\ apply[r].plan \in Plans /\ WellScripted(Script(r)) /\ apply[r].status = "APPLIED"
        /\ apply[r].step \in 1..Len(Script(r)) /\ Script(r)[apply[r].step] = step
    BY <1>1, <1>2, RecordOf, AtStep
  <1>4. CASE step \in {"create", "read"}
    BY <1>1, <1>2, <1>4, AtStep
  <1>5. CASE step = "verify"
    <2>1. ~Done(r, "create")
      <3> SUFFICES ASSUME Done(r, "create")
                   PROVE  FALSE
        OBVIOUS
      <3>1. Takes(apply[r].plan, "create")
        BY <1>3 DEF Done, Takes, Script, WellScripted
      <3>2. Seen(r, NoteRow(apply[r].created)) = "error"
        BY <1>2, <1>5, <3>1 DEF Lost, Reads, OnPart
      <3> QED
        BY <1>2, <3>2, Values DEF MarkFits
    <2>2. Done(r, "supersede") => Done(r, "create")
      BY <1>3 DEF Done, WellScripted
    <2> QED
      BY <2>1, <2>2
  <1>6. CASE step = "supersede"
    <2>1. Takes(apply[r].plan, "supersede")
      BY <1>3, <1>6 DEF Takes, Script, WellScripted
    <2>2. Replacing(apply[r].plan) /\ Done(r, "create")
      BY <1>1, <1>2, <1>3, <1>6, <2>1, PlanScripts, AtStep
    <2>3. Seen(r, NoteRow(apply[r].created)) # "error" /\ Seen(r, MarkRow) # "error"
      BY <1>2, <2>2, Values DEF MarkFits
    <2>4. Reads(r) = {MarkRow, NoteRow(apply[r].created)}
      BY <1>1, <1>2, <1>6 DEF Reads, OnPart
    <2> QED
      BY <2>3, <2>4 DEF Lost
  <1> QED
    BY <1>1, <1>4, <1>5, <1>6 DEF SaveSteps

LEMMA ScannedRows ==
  ASSUME ApplyInv, NEW r \in Applies, NEW w \in Candidates \cup {"unmarked", "error"}
  PROVE  /\ Scanned(r, w) \in [Keys -> Contents] /\ Scanned(r, w)[MarkRow] = w
         /\ \A k \in Keys \ NoteKeys : Scanned(r, w)[k] = pending[r][k]
         /\ \A c \in Candidates :
               /\ made[c] # NoRow => /\ Scanned(r, w)[NoteRow(c)] \in {"error", made[c]}
                                     /\ Replacer(Scanned(r, w)[NoteRow(c)]) => c = w
               /\ made[c] = NoRow => /\ Scanned(r, w)[NoteRow(c)] = NoRow
                                     /\ pending[r][NoteRow(c)] = NoRow
                                     /\ rows[NoteRow(c)] = NoRow
  <1>1. Shapes /\ Filed(pending[r]) /\ Filed(rows)
    BY DEF ApplyInv, OwnRows, Shapes
  <1>2. \A k \in Keys : Scanned(r, w)[k] =
           (IF k = MarkRow THEN w
            ELSE IF k \in NoteKeys /\ made[k[2]] # NoRow THEN NoteScanned(k[2], w)
            ELSE pending[r][k])
    BY DEF Scanned
  <1>3. Scanned(r, w)[MarkRow] = w
    BY <1>2, KeyKinds
  <1>4. \A k \in Keys \ NoteKeys : Scanned(r, w)[k] = pending[r][k]
    BY <1>2, KeyKinds
  <1>5. \A c \in Candidates : made[c] # NoRow =>
           /\ NoteScanned(c, w) \in {"error", made[c]}
           /\ Replacer(NoteScanned(c, w)) => c = w
    BY Values DEF NoteScanned, Claiming, Replacer
  <1>6. \A c \in Candidates : /\ NoteRow(c) # MarkRow /\ NoteRow(c) \in NoteKeys
                              /\ NoteRow(c) \in Keys /\ NoteRow(c)[2] = c
    BY KeyKinds
  <1>7. \A c \in Candidates : Scanned(r, w)[NoteRow(c)] =
           (IF made[c] # NoRow THEN NoteScanned(c, w) ELSE pending[r][NoteRow(c)])
    BY <1>2, <1>6
  <1>8. \A c \in Candidates : made[c] = NoRow => pending[r][NoteRow(c)] = NoRow
                                                 /\ rows[NoteRow(c)] = NoRow
    BY <1>1 DEF Filed
  <1>9. Scanned(r, w) \in [Keys -> Contents]
    <2>1. \A k \in Keys : Scanned(r, w)[k] \in Contents
      <3> TAKE k \in Keys
      <3>1. CASE k = MarkRow
        BY <1>3, <3>1 DEF Contents, Words
      <3>2. CASE k \in NoteKeys /\ k # MarkRow
        <4>1. k[2] \in Candidates /\ k = NoteRow(k[2])
          BY <3>2, KeyKinds
        <4>2. made[k[2]] \in Contents /\ "error" \in Contents /\ NoRow \in Contents
          BY <1>1, <4>1 DEF Shapes, Contents, Words
        <4> QED
          BY <1>5, <1>7, <1>8, <4>1, <4>2
      <3>3. CASE k \notin NoteKeys
        BY <1>1, <1>4, <3>3 DEF Shapes
      <3> QED
        BY <3>1, <3>2, <3>3
    <2>2. Scanned(r, w) = [k \in Keys |-> Scanned(r, w)[k]]
      BY DEF Scanned
    <2> QED
      BY <2>1, <2>2
  <1> QED
    BY <1>3, <1>4, <1>5, <1>7, <1>8, <1>9

LEMMA ReindexKeeps ==
  ASSUME ApplyInv, NEW r \in Applies, Reindex(r)
  PROVE  ApplyInv'
  <1>1. Lost(r) /\ Shapes
    BY DEF Reindex, ApplyInv
  <1>2. PICK step \in SaveSteps : OnStep(r, step) /\ apply[r].part = "begin" /\ step # "merge"
    BY <1>1, LostAt
  <1>3. /\ made' = made /\ merged' = merged /\ rows' = rows /\ reading' = reading
        /\ applyFaults' = applyFaults /\ overlap' = overlap
    BY DEF Reindex
  <1>4. CASE Fails(r) /\ UNCHANGED <<markedBy, pending>>
    BY <1>2, <1>3, <1>4, StillFails DEF Still
  <1>5. CASE \E w \in Replacements :
               /\ pending' = [pending EXCEPT ![r] = Scanned(r, w)]
               /\ markedBy' = IF w \in Candidates THEN w ELSE markedBy
               /\ Fails(r) \/ UNCHANGED apply
    <2>1. PICK w \in Replacements :
               /\ pending' = [pending EXCEPT ![r] = Scanned(r, w)]
               /\ markedBy' = IF w \in Candidates THEN w ELSE markedBy
               /\ Fails(r) \/ UNCHANGED apply
      BY <1>5
    <2>2. /\ w \in Candidates \cup {"unmarked", "error"}
          /\ w \in Candidates => markedBy \in {"unmarked", w}
          /\ w = "unmarked" => markedBy = "unmarked"
      BY Values DEF Replacements, Claiming
    <2>3. /\ Scanned(r, w) \in [Keys -> Contents] /\ Scanned(r, w)[MarkRow] = w
          /\ \A k \in Keys \ NoteKeys : Scanned(r, w)[k] = pending[r][k]
          /\ \A c \in Candidates :
                /\ made[c] # NoRow => /\ Scanned(r, w)[NoteRow(c)] \in {"error", made[c]}
                                      /\ Replacer(Scanned(r, w)[NoteRow(c)]) => c = w
                /\ made[c] = NoRow => /\ Scanned(r, w)[NoteRow(c)] = NoRow
                                      /\ pending[r][NoteRow(c)] = NoRow
                                      /\ rows[NoteRow(c)] = NoRow
      BY <2>2, ScannedRows
    <2>4. /\ pending' \in [Applies -> [Keys -> Contents]] /\ pending'[r] = Scanned(r, w)
          /\ \A s \in Applies \ {r} : pending'[s] = pending[s]
      BY <1>1, <2>1, <2>3 DEF Shapes
    <2>5. w # NoRow /\ (w = "unmarked" => w \notin Candidates) /\ "error" # NoRow
      BY <2>2, Values
    <2>6. markedBy' \in Candidates \cup {"unmarked"}
          /\ (markedBy' = markedBy \/ markedBy = "unmarked")
      BY <1>1, <2>1, <2>2 DEF Shapes
    <2>7. \A c \in Candidates : Fits(c, made[c]) \/ made[c] = NoRow
      BY <1>1 DEF Shapes
    <2>8. NoteWork(r)
      <3>1. \A k \in NoteKeys : pending[r][k] # NoRow => pending'[r][k] # NoRow
        <4> TAKE k \in NoteKeys
        <4>1. k = MarkRow \/ (k[2] \in Candidates /\ k = NoteRow(k[2]))
          BY KeyKinds
        <4> QED
          BY <2>3, <2>4, <2>5, <4>1
      <3>2. \A c \in Candidates :
              /\ pending'[r][NoteRow(c)] \in {NoRow, "error"} \cup Plans
              /\ pending'[r][NoteRow(c)] \in Plans => Fits(c, pending'[r][NoteRow(c)])
              /\ pending'[r][NoteRow(c)] # NoRow => made'[c] # NoRow
        BY <1>1, <1>3, <2>3, <2>4, <2>7, Values DEF Shapes
      <3>3. (~overlap /\ rows[MarkRow] \in Candidates) => markedBy' = markedBy
        BY <2>6, Values DEF ApplyInv, InTurn
      <3> QED
        BY <1>1, <1>3, <2>2, <2>3, <2>4, <2>6, <3>1, <3>2, <3>3 DEF NoteWork, Shapes
    <2>9. Seen(r, MarkRow)' = w
      BY <2>3, <2>4, <2>5 DEF Seen
    <2>10. MarkSound(r)'
      BY <2>1, <2>2, <2>3, <2>4 DEF MarkSound
    <2>11. \A d \in Candidates : NotesSound(r, d)'
      <3> TAKE d \in Candidates
      <3>1. Seen(r, NoteRow(d))' = IF made[d] = NoRow THEN NoRow ELSE Scanned(r, w)[NoteRow(d)]
        BY <1>1, <1>3, <2>3, <2>4, Values DEF Seen, Shapes
      <3>2. Replacer(Seen(r, NoteRow(d)))' => d = w
        BY <2>3, <3>1, Values DEF Replacer
      <3> QED
        BY <2>5, <2>9, <3>2 DEF NotesSound
    <2>12. CASE Fails(r)
      BY <1>1, <1>2, <2>8, <2>10, <2>11, <2>12, FailsStop, NoteFails
    <2>13. CASE UNCHANGED apply
      <3>1. SameStep(r) /\ apply'[r].part = "begin"
        BY <1>1, <1>2, <2>13 DEF SameStep, Others, Shapes
      <3>2. ASSUME ~overlap
            PROVE  Evident(r)' /\ MarkFits(r)'
        <4>1. ~Done(r, "create") /\ ~Done(r, "supersede")
          BY <1>1, <3>2, LostEarly
        <4>2. \A other : (Done(r, other)' <=> Done(r, other)) /\ (OnStep(r, other)' <=> OnStep(r, other))
          BY <1>1, <3>1, SameDone
        <4>3. ~OnStep(r, "merge") /\ AloneDoes(r)
          BY <1>2, <3>2, AloneAt
        <4>4. Evident(r)'
          BY <1>3, <2>13, <4>2, <4>3 DEF AloneDoes, Evident, OnPart
        <4>5. MarkFits(r)'
          BY <2>10, <2>11, <3>1, <4>1, <4>2 DEF MarkFits
        <4> QED
          BY <4>4, <4>5
      <3>3. PICK c \in Candidates : c = apply[r].created
        BY <1>1, RecordOf
      <3> QED
        BY <1>2, <2>8, <3>1, <3>2, <3>3, NoteSame
    <2> QED
      BY <2>1, <2>12, <2>13
  <1> QED
    BY <1>4, <1>5 DEF Reindex

-----------------------------------------------------------------------------
(* The row that a store writes.                                             *)
LEMMA StoreRows ==
  ASSUME Shapes, NEW r \in Applies, NEW step \in Stores
  PROVE  /\ RowOf(r, step) \in Keys \ NoteKeys /\ RowOf(r, step)[1] = step
         /\ step = "relation" => RowOf(r, step) = RelationRow(apply[r].created, apply[r].plan)
         /\ step = "conflict" => RowOf(r, step) = ConflictRow(apply[r].plan)
         /\ step = "own" => RowOf(r, step) = <<"own", apply[r].created>>
         /\ step = "state" => RowOf(r, step) = StateRow
         /\ step = "result" => RowOf(r, step) = ResultRow(apply[r].plan)
  <1>1. apply[r].plan \in Plans /\ apply[r].created \in Candidates
    BY RecordOf
  <1>2. CASE step = "relation"
    BY <1>1, <1>2, KeyKinds DEF RowOf
  <1>3. CASE step = "conflict"
    BY <1>1, <1>3, KeyKinds DEF RowOf
  <1>4. CASE step = "own"
    BY <1>1, <1>4, KeyKinds DEF RowOf
  <1>5. CASE step = "state"
    BY <1>1, <1>5, KeyKinds DEF RowOf
  <1>6. CASE step = "result"
    BY <1>1, <1>6, KeyKinds DEF RowOf
  <1> QED
    BY <1>2, <1>3, <1>4, <1>5, <1>6 DEF Stores

LEMMA AtStore ==
  ASSUME ApplyInv, NEW r \in Applies, NEW step \in Stores, OnStep(r, step)
  PROVE  /\ Shapes /\ OnScript(r) /\ OwnRows(r) /\ Does(r) /\ apply[r].part = "begin"
         /\ apply[r].at = "working" /\ Working(r) /\ Underway(r)
         /\ WellScripted(Script(r)) /\ Script(r)[apply[r].step] = step
         /\ apply[r].step \in 1..Len(Script(r))
         /\ step = "result" => apply[r].step = Len(Script(r))
         /\ step # "result" => apply[r].status = "APPLIED" /\ apply[r].step # Len(Script(r))
         /\ ~OnStep(r, "create") /\ ~OnStep(r, "merge")
         /\ ~overlap => /\ AloneDoes(r) /\ MarkSound(r)
                        /\ \A d \in Candidates : NotesSound(r, d)
  <1>1. Shapes /\ OnScript(r) /\ OwnRows(r) /\ apply[r].at = "working"
    BY DEF ApplyInv, OnStep
  <1>2. Working(r) /\ Underway(r) /\ Script(r)[apply[r].step] = step /\ WellScripted(Script(r))
    BY <1>1, RecordOf DEF Working, Underway, OnStep, Script
  <1>3. apply[r].step \in 1..Len(Script(r))
        /\ (apply[r].status # "APPLIED" => apply[r].step = Len(Script(r)))
    BY <1>1, <1>2 DEF OnScript
  <1>4. \A other : OnStep(r, other) => other = step
    BY DEF OnStep
  <1>5. step \notin {"create", "supersede", "merge"}
    BY DEF Stores
  <1>6. apply[r].part = "begin"
    BY <1>1, <1>4, <1>5 DEF OnScript
  <1>7. step = "result" => apply[r].step = Len(Script(r))
    BY <1>2, <1>3 DEF WellScripted
  <1>8. step # "result" => apply[r].status = "APPLIED" /\ apply[r].step # Len(Script(r))
    BY <1>2, <1>3 DEF WellScripted
  <1>9. ~overlap => AloneDoes(r)
    BY <1>2 DEF ApplyInv, InTurn
  <1>10. ~overlap => MarkSound(r) /\ \A d \in Candidates : NotesSound(r, d)
    BY <1>6, <1>9 DEF AloneDoes, MarkFits
  <1> QED
    BY <1>1, <1>2, <1>3, <1>4, <1>5, <1>6, <1>7, <1>8, <1>9, <1>10 DEF ApplyInv

LEMMA SelectKeeps ==
  ASSUME ApplyInv, NEW r \in Applies, Select(r)
  PROVE  ApplyInv'
  <1>1. PICK step \in Stores :
           /\ OnStep(r, step) /\ ~apply[r].selected
           /\ apply' = [apply EXCEPT ![r].selected = TRUE, ![r].seen = Seen(r, RowOf(r, step))]
    BY DEF Select
  <1>2. /\ Shapes /\ apply[r] \in ApplyRecords /\ apply[r].plan \in Plans
        /\ made' = made /\ merged' = merged /\ markedBy' = markedBy /\ rows' = rows
        /\ pending' = pending /\ reading' = reading /\ applyFaults' = applyFaults
        /\ overlap' = overlap
    BY RecordOf DEF ApplyInv, Select, fileVars
  <1>3. RowOf(r, step) \in Keys /\ (step = "state" => RowOf(r, step) = StateRow)
    BY <1>2, StoreRows
  <1> DEFINE seen == Seen(r, RowOf(r, step))
             o == [apply[r] EXCEPT !.selected = TRUE, !.seen = seen]
  <1>4. /\ seen \in Contents
        /\ step = "state" => seen = Seen(r, StateRow) /\ seen \in {NoRow} \cup Overlays
    BY <1>2, <1>3 DEF Seen, Shapes, RowsFit, ApplyInv, OwnRows
  <1>5. apply' = [apply EXCEPT ![r] = o]
    BY <1>1, <1>2 DEF ApplyRecords, Shapes
  <1> HIDE DEF seen
  <1>6. /\ o \in ApplyRecords /\ o.plan = apply[r].plan /\ o.at = apply[r].at
        /\ o.step = apply[r].step /\ o.status = apply[r].status /\ o.evidence = apply[r].evidence
        /\ o.seen = seen /\ o.part = apply[r].part /\ o.created = apply[r].created
        /\ o.named = apply[r].named
    BY <1>2, <1>4 DEF ApplyRecords
  <1> HIDE DEF o
  <1>7. /\ apply' \in [Applies -> ApplyRecords] /\ apply'[r] = o
        /\ \A s \in Applies \ {r} : apply'[s] = apply[s]
    BY <1>2, <1>5, <1>6, Puttable DEF Others
  <1>8. /\ OnScript(r) /\ OwnRows(r) /\ Does(r) /\ apply[r].part = "begin"
        /\ apply[r].at = "working" /\ Working(r) /\ Underway(r)
        /\ ~OnStep(r, "create") /\ ~OnStep(r, "merge") /\ Script(r)[apply[r].step] = step
        /\ ~overlap => /\ AloneDoes(r) /\ MarkSound(r)
                       /\ \A d \in Candidates : NotesSound(r, d)
    BY <1>1, AtStore
  <1>9. Script(r)' = Script(r) /\ Underway(r)' /\ \A other : OnStep(r, other)' <=> OnStep(r, other)
    BY <1>6, <1>7, <1>8 DEF Script, Underway, OnStep
  <1>10. \A other : Done(r, other)' <=> Done(r, other)
    BY <1>6, <1>7, <1>9 DEF Done
  <1>11. Work(r)
    BY <1>2, <1>6, <1>7, <1>8 DEF Work, OthersStay
  <1>12. Shapes'
    BY <1>2, <1>7 DEF Shapes, RowsFit, Filed
  <1>13. \A k : Seen(r, k)' = Seen(r, k)
    BY <1>2 DEF Seen
  <1>14. OnStep(r, "state")' => apply'[r].seen = Seen(r, StateRow)' /\ apply'[r].seen \in {NoRow} \cup Overlays
    <2>1. OnStep(r, "state")' => step = "state"
      BY <1>1, <1>9 DEF OnStep
    <2> QED
      BY <1>4, <1>6, <1>7, <1>13, <2>1
  <1>15. OnScript(r)'
    BY <1>6, <1>7, <1>8, <1>9, <1>14 DEF OnScript
  <1>16. OwnRows(r)'
    BY <1>2, <1>6, <1>7, <1>8, <1>9 DEF OwnRows, RowsFit, Filed
  <1>17. Does(r)'
    BY <1>2, <1>6, <1>7, <1>8, <1>9, <1>10, <1>13 DEF Does
  <1>18. ASSUME ~overlap
         PROVE  AloneDoes(r)'
    <2>1. (~Applied(apply[r].plan))'
      BY <1>2, <1>6, <1>7, <1>8, <1>18 DEF AloneDoes, Applied
    <2>2. Evident(r)'
      BY <1>2, <1>6, <1>7, <1>8, <1>9, <1>10, <1>18 DEF AloneDoes, Evident, OnPart
    <2>3. MarkFits(r)'
      BY <1>2, <1>6, <1>7, <1>8, <1>9, <1>10, <1>13, <1>18 DEF AloneDoes, MarkFits, MarkSound, NotesSound
    <2>4. Stated(r)'
      BY <1>2, <1>6, <1>7, <1>8, <1>9, <1>10, <1>13, <1>14, <1>18 DEF AloneDoes, Stated, Closed
    <2> QED
      BY <2>1, <2>2, <2>3, <2>4 DEF AloneDoes
  <1> QED
    BY <1>11, <1>12, <1>15, <1>16, <1>17, <1>18, WorkKeeps

-----------------------------------------------------------------------------
LEMMA OverlayKept ==
  ASSUME NEW p \in Plans, NEW c \in Candidates, NEW base \in Overlays
  PROVE  /\ Overlay(p, c, base) \in Overlays
         /\ base.closed => Overlay(p, c, base).closed
         /\ Replacing(p) => Overlay(p, c, base).closed
  BY DEF Overlay, Overlays

LEMMA ValuesTyped ==
  ASSUME Shapes, NEW r \in Applies, NEW step \in Stores,
         step = "state" => apply[r].seen \in {NoRow} \cup Overlays
  PROVE  /\ ValueOf(r, step) \in Contents \ {NoRow}
         /\ step = "result" => ValueOf(r, step) = apply[r].status /\ apply[r].status \in Outcomes
         /\ step = "state" =>
               /\ ValueOf(r, step) \in Overlays
               /\ Replacing(apply[r].plan) => ValueOf(r, step).closed
               /\ Closed(apply[r].seen) => ValueOf(r, step).closed
  <1>1. apply[r].plan \in Plans /\ apply[r].status \in Outcomes /\ apply[r].created \in Candidates
    BY RecordOf
  <1>2. OpenState \in Overlays
    BY DEF OpenState, Overlays
  <1>3. CASE step = "state"
    <2>1. PICK base \in Overlays :
             /\ ValueOf(r, step) = Overlay(apply[r].plan, apply[r].created, base)
             /\ Closed(apply[r].seen) => base.closed
      BY <1>2, <1>3 DEF ValueOf, Closed
    <2> QED
      BY <1>1, <1>3, <2>1, OverlayKept, ApplyAssumption DEF Contents
  <1>4. CASE step # "state"
    <2>1. ValueOf(r, step) \in Words /\ (step = "result" => ValueOf(r, step) = apply[r].status)
      BY <1>1, <1>4 DEF ValueOf, Stores, Words, Outcomes
    <2> QED
      BY <1>1, <1>4, <2>1, ApplyAssumption DEF Contents
  <1> QED
    BY <1>3, <1>4
(* A session that is undone has nothing to keep any more.                   *)
LEMMA DuplicateKeeps ==
  ASSUME ApplyInv, NEW r \in Applies, NEW step \in Stores, OnStep(r, step),
         rows' = rows, pending' = pending, made' = made, merged' = merged, reading' = reading,
         markedBy' = markedBy, applyFaults' = applyFaults, overlap' = overlap,
         apply' \in [Applies -> ApplyRecords],
         \A s \in Applies \ {r} : apply'[s] = apply[s],
         apply'[r].plan = apply[r].plan, apply'[r].at = "undoing",
         apply'[r].status = apply[r].status, apply'[r].part = apply[r].part,
         apply'[r].step = IF step = "result" THEN apply[r].step ELSE apply[r].step + 1
  PROVE  ApplyInv'
  <1>1. Underway(r) /\ ~Working(r)' /\ Underway(r)' /\ Script(r)' = Script(r)
        /\ \A other : ~OnStep(r, other)'
    BY DEF OnStep, Underway, Working, Script
  <1>2. Work(r)
    BY <1>1 DEF Work, OthersStay
  <1>3. Shapes' /\ OwnRows(r)'
    BY <1>1 DEF ApplyInv, Shapes, OwnRows, RowsFit, Filed
  <1>4. OnScript(r)'
    <2>1. /\ WellScripted(Script(r)) /\ apply[r].step \in 1..Len(Script(r))
          /\ step = "result" => apply[r].step = Len(Script(r))
          /\ step # "result" => apply[r].status = "APPLIED" /\ apply[r].step # Len(Script(r))
          /\ apply[r].part = "begin"
      BY AtStore
    <2>2. apply'[r].step \in 1..Len(Script(r))
          /\ (apply[r].status # "APPLIED" => apply'[r].step = Len(Script(r)))
      BY <2>1 DEF WellScripted
    <2> QED
      BY <1>1, <2>1, <2>2 DEF OnScript
  <1> QED
    BY <1>1, <1>2, <1>3, <1>4, WorkKeeps

(* Which steps are past once the row is written.                            *)
LEMMA StoredDone ==
  ASSUME ApplyInv, NEW r \in Applies, NEW step \in Stores, OnStep(r, step),
         apply'[r].plan = apply[r].plan,
         apply'[r].at = (IF step = "result" THEN "closing" ELSE "working"),
         apply'[r].status = apply[r].status,
         apply'[r].step = (IF step = "result" THEN apply[r].step ELSE apply[r].step + 1)
  PROVE  /\ Underway(r)' /\ Working(r)' /\ Script(r)' = Script(r)
         /\ apply'[r].step \in 1..Len(Script(r))
         /\ apply'[r].status # "APPLIED" => apply'[r].step = Len(Script(r))
         /\ step = "result" => apply'[r].step = Len(Script(r))
         /\ \A other : Done(r, other)' <=> (Done(r, other) \/ (step # "result" /\ other = step))
         /\ ~OnStep(r, "create")' /\ ~OnStep(r, "merge")'
  <1>1. /\ WellScripted(Script(r)) /\ Script(r)[apply[r].step] = step
        /\ apply[r].step \in 1..Len(Script(r)) /\ apply[r].at = "working"
        /\ step = "result" => apply[r].step = Len(Script(r))
        /\ step # "result" => apply[r].status = "APPLIED" /\ apply[r].step # Len(Script(r))
    BY AtStore
  <1>2. Script(r)' = Script(r) /\ Underway(r)' /\ Working(r)'
    BY <1>1 DEF Script, Underway, Working
  <1>3. /\ apply'[r].step \in 1..Len(Script(r))
        /\ apply'[r].status # "APPLIED" => apply'[r].step = Len(Script(r))
        /\ step = "result" => apply'[r].step = Len(Script(r))
    BY <1>1 DEF WellScripted
  <1>4. \A other : Done(r, other)' <=> (Done(r, other) \/ (step # "result" /\ other = step))
    <2> TAKE other
    <2>1. Done(r, other)' <=>
             /\ apply[r].status = "APPLIED"
             /\ \E j \in 1..Len(Script(r)) : j < apply'[r].step /\ Script(r)[j] = other
      BY <1>2 DEF Done
    <2> QED
      BY <1>1, <2>1 DEF Done, WellScripted
  <1>5. step # "result" => apply'[r].step = apply[r].step + 1
    OBVIOUS
  <1>6. \A other : OnStep(r, other)' =>
           step # "result" /\ Script(r)[apply[r].step + 1] = other
    BY <1>2 DEF OnStep, Script
  <1>7. ~OnStep(r, "create")'
    BY <1>1, <1>3, <1>5, <1>6 DEF WellScripted
  <1>8. ~OnStep(r, "merge")'
    <2>1. step # "result" /\ Script(r)[apply[r].step + 1] = "merge" => Script(r)[apply[r].step] = "read"
      BY <1>1, <1>3, <1>5 DEF WellScripted
    <2> QED
      BY <1>1, <1>6, <2>1 DEF Stores
  <1> QED
    BY <1>2, <1>3, <1>4, <1>7, <1>8

LEMMA StoreKeeps ==
  ASSUME ApplyInv, NEW r \in Applies, NEW step \in Stores, OnStep(r, step), apply[r].selected,
         NEW k \in Keys, k = RowOf(r, step),
         pending' = [pending EXCEPT ![r][k] = ValueOf(r, step)],
         rows' = rows, made' = made, merged' = merged, reading' = reading,
         markedBy' = markedBy, applyFaults' = applyFaults, overlap' = overlap,
         apply' \in [Applies -> ApplyRecords],
         \A s \in Applies \ {r} : apply'[s] = apply[s],
         apply'[r].plan = apply[r].plan, apply'[r].created = apply[r].created,
         apply'[r].part = apply[r].part,
         apply'[r].at = (IF step = "result" THEN "closing" ELSE "working"),
         apply'[r].status = apply[r].status,
         apply'[r].step = (IF step = "result" THEN apply[r].step ELSE apply[r].step + 1),
         apply'[r].selected = FALSE
  PROVE  ApplyInv'
  <1> DEFINE value == ValueOf(r, step)
  <1>0. PICK p \in Plans, c \in Candidates : p = apply[r].plan /\ c = apply[r].created
    BY RecordOf DEF ApplyInv
  <1>1. /\ Shapes /\ OnScript(r) /\ OwnRows(r) /\ Does(r) /\ apply[r].part = "begin"
        /\ apply[r].at = "working" /\ Working(r) /\ Underway(r)
        /\ ~overlap => /\ AloneDoes(r) /\ MarkSound(r)
                       /\ \A d \in Candidates : NotesSound(r, d)
    BY AtStore
  <1>2. /\ value \in Contents \ {NoRow}
        /\ step = "result" => value = apply[r].status /\ apply[r].status \in Outcomes
        /\ step = "state" =>
              /\ value \in Overlays
              /\ Replacing(p) => value.closed
              /\ Closed(apply[r].seen) => value.closed
    BY <1>0, <1>1, ValuesTyped DEF OnScript
  <1>3. /\ k \in Keys \ NoteKeys /\ k[1] = step
        /\ step = "relation" => k = RelationRow(c, p)
        /\ step = "conflict" => k = ConflictRow(p)
        /\ step = "own" => k = <<"own", c>>
        /\ step = "state" => k = StateRow
        /\ step = "result" => k = ResultRow(p)
    BY <1>0, <1>1, StoreRows
  <1> HIDE DEF value
  <1>4. /\ pending' \in [Applies -> [Keys -> Contents]]
        /\ \A s \in Applies \ {r} : pending'[s] = pending[s]
        /\ \A l \in Keys \ {k} : pending'[r][l] = pending[r][l]
        /\ pending'[r][k] = value
    BY <1>1, <1>2 DEF Shapes, value
  <1>5. /\ \A l \in NoteKeys : pending'[r][l] = pending[r][l]
        /\ \A l \in Keys : pending[r][l] # NoRow => pending'[r][l] # NoRow
        /\ \A l \in Keys : l[1] # step => pending'[r][l] = pending[r][l]
    BY <1>2, <1>3, <1>4, KeyKinds
  <1>6. Work(r)
    BY <1>1, <1>4 DEF Work, OthersStay
  <1>7. Shapes'
    BY <1>1, <1>4 DEF Shapes, RowsFit, Filed
  <1>8. /\ Underway(r)' /\ Working(r)' /\ Script(r)' = Script(r)
        /\ apply'[r].step \in 1..Len(Script(r))
        /\ apply'[r].status # "APPLIED" => apply'[r].step = Len(Script(r))
        /\ step = "result" => apply'[r].step = Len(Script(r))
        /\ \A other : Done(r, other)' <=> (Done(r, other) \/ (step # "result" /\ other = step))
        /\ ~OnStep(r, "create")' /\ ~OnStep(r, "merge")'
    BY StoredDone
  <1>9. OnScript(r)'
    <2>1. apply'[r].at = "closing" => step = "result"
      OBVIOUS
    <2>2. step = "result" => pending'[r][ResultRow(p)] = apply[r].status
      BY <1>2, <1>3, <1>4
    <2> QED
      BY <1>0, <1>1, <1>8, <2>1, <2>2 DEF OnScript
  <1>10. OwnRows(r)'
    <2>1. pending'[r][StateRow] \in {NoRow} \cup Overlays
      BY <1>1, <1>2, <1>3, <1>4, KeyKinds DEF OwnRows, RowsFit
    <2>2. \A q \in Plans : /\ pending'[r][ResultRow(q)] \in {NoRow} \cup Outcomes
                           /\ pending'[r][ResultRow(q)] # NoRow => q = p
      <3> TAKE q \in Plans
      <3>1. pending[r][ResultRow(q)] \in {NoRow} \cup Outcomes
            /\ (pending[r][ResultRow(q)] # NoRow => q = p)
        BY <1>0, <1>1 DEF OwnRows, RowsFit
      <3>2. CASE step = "result" /\ q = p
        BY <1>2, <1>3, <1>4, <3>2
      <3>3. CASE ~(step = "result" /\ q = p)
        <4>1. ResultRow(q) # k /\ ResultRow(q) \in Keys
          BY <1>3, <3>3, KeyKinds
        <4> QED
          BY <1>4, <3>1, <4>1
      <3> QED
        BY <3>2, <3>3
    <2>3. \A d \in Candidates : pending'[r][NoteRow(d)] = pending[r][NoteRow(d)]
      <3>1. \A d \in Candidates : NoteRow(d) \in NoteKeys
        BY KeyKinds
      <3> QED
        BY <1>5, <3>1
    <2>4. pending'[r][MarkRow] = pending[r][MarkRow]
      BY <1>5, KeyKinds
    <2>5. RowsFit(pending[r])' /\ Filed(pending[r])'
      BY <1>1, <2>1, <2>2, <2>3, <2>4 DEF OwnRows, RowsFit, Filed, Fits
    <2>6. \A l \in ConflictKeys : pending'[r][l] # NoRow => l = ConflictRow(p)
      <3> TAKE l \in ConflictKeys
      <3>1. l \in Keys /\ l[1] = "conflict"
        BY KeyKinds
      <3>2. CASE step = "conflict" /\ l = k
        BY <1>3, <3>2
      <3>3. CASE ~(step = "conflict" /\ l = k)
        <4>1. pending'[r][l] = pending[r][l]
          BY <1>3, <1>4, <3>1, <3>3
        <4> QED
          BY <1>0, <1>1, <4>1 DEF OwnRows
      <3> QED
        BY <3>2, <3>3
    <2>7. (\A l \in ConflictKeys : pending[r][l] # NoRow => l = ConflictRow(apply[r].plan))'
      BY <1>0, <2>6
    <2>8. (\A q \in Plans : pending[r][ResultRow(q)] # NoRow => q = apply[r].plan)'
      BY <1>0, <2>2
    <2> QED
      BY <1>8, <2>5, <2>7, <2>8 DEF OwnRows
  <1>11. /\ \A d \in Candidates : Seen(r, NoteRow(d))' = Seen(r, NoteRow(d))
         /\ Seen(r, MarkRow)' = Seen(r, MarkRow)
    <2>1. MarkRow \in NoteKeys /\ \A d \in Candidates : NoteRow(d) \in NoteKeys
      BY KeyKinds
    <2> QED
      BY <1>5, <2>1 DEF Seen
  <1>12. Does(r)'
    <2>1. Done(r, "create")' => Done(r, "create")
      BY <1>8 DEF Stores
    <2>2. Done(r, "create")' => Seen(r, NoteRow(c))' # NoRow
      BY <1>0, <1>1, <1>11, <2>1 DEF Does
    <2>3. Done(r, "relation")' => pending'[r][RelationRow(c, p)] # NoRow
      <3>1. RelationRow(c, p) \in Keys
        BY KeyKinds
      <3> QED
        BY <1>0, <1>1, <1>2, <1>3, <1>4, <1>5, <1>8, <3>1 DEF Does
    <2>4. Done(r, "conflict")' => pending'[r][ConflictRow(p)] # NoRow
      <3>1. ConflictRow(p) \in Keys
        BY KeyKinds
      <3> QED
        BY <1>0, <1>1, <1>2, <1>3, <1>4, <1>5, <1>8, <3>1 DEF Does
    <2>5. Done(r, "own")' => pending'[r][<<"own", c>>] # NoRow
      <3>1. <<"own", c>> \in Keys
        BY KeyKinds
      <3> QED
        BY <1>0, <1>1, <1>2, <1>3, <1>4, <1>5, <1>8, <3>1 DEF Does
    <2>6. Fits(c, p)
      BY <1>0, <1>1 DEF Does
    <2> QED
      BY <1>0, <1>1, <1>8, <2>2, <2>3, <2>4, <2>5, <2>6 DEF Does, Fits
  <1>13. ASSUME ~overlap
         PROVE  AloneDoes(r)'
    <2>1. AloneDoes(r) /\ MarkSound(r) /\ \A d \in Candidates : NotesSound(r, d)
      BY <1>1, <1>13
    <2>2. (~Applied(apply[r].plan))'
      BY <2>1 DEF AloneDoes, Applied
    <2>3. \A other \in {"merge", "create", "supersede"} : Done(r, other)' <=> Done(r, other)
      BY <1>8 DEF Stores
    <2>4. Evident(r)'
      BY <1>0, <1>8, <2>1, <2>3 DEF AloneDoes, Evident, OnPart
    <2>5. MarkSound(r)' /\ \A d \in Candidates : NotesSound(r, d)'
      BY <1>5, <1>11, <2>1, KeyKinds DEF MarkSound, NotesSound
    <2>6. MarkFits(r)'
      BY <1>0, <1>1, <1>8, <1>11, <2>1, <2>3, <2>5 DEF AloneDoes, MarkFits
    <2>7. Stated(r)'
      <3>1. step = "state" => apply[r].seen = Seen(r, StateRow)
        BY <2>1 DEF AloneDoes, Stated
      <3>2. pending'[r][StateRow] = IF step = "state" THEN value ELSE pending[r][StateRow]
        BY <1>3, <1>4, KeyKinds
      <3>3. Closed(rows[StateRow]) => Closed(Seen(r, StateRow))
        BY <2>1 DEF AloneDoes, Stated
      <3>4. step = "state" => (Closed(rows[StateRow]) => Closed(value))
        BY <1>2, <3>1, <3>3 DEF Closed
      <3>5. Closed(rows[StateRow])' => Closed(Seen(r, StateRow))'
        BY <1>2, <3>2, <3>3, <3>4 DEF Seen, Closed
      <3>6. (Done(r, "state")' /\ Replacing(p)) => Closed(pending'[r][StateRow])
        BY <1>0, <1>2, <1>8, <2>1, <3>2 DEF AloneDoes, Stated, Closed
      <3> QED
        BY <1>0, <3>5, <3>6 DEF Stated, Closed
    <2> QED
      BY <2>2, <2>4, <2>6, <2>7 DEF AloneDoes
  <1> QED
    BY <1>6, <1>7, <1>9, <1>10, <1>12, <1>13, WorkKeeps

LEMMA StoredTyped ==
  ASSUME NEW r \in Applies, apply[r] \in ApplyRecords, apply[r].at = "working",
         NEW step \in Stores, NEW duplicate \in BOOLEAN
  PROVE  LET o == AfterStep(r, step, duplicate)
         IN  /\ o \in ApplyRecords /\ o.plan = apply[r].plan /\ o.status = apply[r].status
             /\ o.at = (IF duplicate THEN "undoing" ELSE IF step = "result" THEN "closing" ELSE "working")
             /\ o.step = (IF step = "result" THEN apply[r].step ELSE apply[r].step + 1)
             /\ o.selected = FALSE /\ o.part = apply[r].part /\ o.created = apply[r].created
  <1> DEFINE at == IF duplicate THEN "undoing" ELSE IF step = "result" THEN "closing" ELSE apply[r].at
             changed == apply[r].changed \/ step \in {"relation", "conflict"}
             next == IF step = "result" THEN apply[r].step ELSE apply[r].step + 1
             o == [apply[r] EXCEPT !.at = at, !.step = next, !.changed = changed,
                                   !.selected = FALSE, !.seen = NoRow]
  <1>1. at \in {"working", "undoing", "closing"} /\ changed \in BOOLEAN /\ next \in Nat
    BY DEF ApplyRecords
  <1>2. AfterStep(r, step, duplicate) = o
    BY Zenon DEF AfterStep
  <1> HIDE DEF at, changed, next
  <1>3. /\ o \in ApplyRecords /\ o.plan = apply[r].plan /\ o.status = apply[r].status
        /\ o.at = at /\ o.step = next /\ o.selected = FALSE
        /\ o.part = apply[r].part /\ o.created = apply[r].created
    BY <1>1 DEF ApplyRecords, Contents
  <1> QED
    BY <1>2, <1>3 DEF at, next

LEMMA FlushKeeps ==
  ASSUME ApplyInv, NEW r \in Applies, Flush(r)
  PROVE  ApplyInv'
  <1>1. PICK step \in Stores :
          LET k == RowOf(r, step)
              duplicate == apply[r].seen = NoRow /\ Seen(r, k) # NoRow
          IN  /\ OnStep(r, step) /\ apply[r].selected
              /\ UnlockedKey(r, k)
              /\ IF duplicate THEN UNCHANGED pending ELSE Puts(r, k, ValueOf(r, step))
              /\ apply' = [apply EXCEPT ![r] = AfterStep(r, step, duplicate)]
    BY DEF Flush
  <1> DEFINE k == RowOf(r, step)
             duplicate == apply[r].seen = NoRow /\ Seen(r, k) # NoRow
             o == AfterStep(r, step, duplicate)
  <1>2. /\ Shapes /\ apply[r] \in ApplyRecords /\ apply[r].at = "working"
        /\ made' = made /\ merged' = merged /\ markedBy' = markedBy /\ rows' = rows
        /\ reading' = reading /\ applyFaults' = applyFaults /\ overlap' = overlap
    BY <1>1, RecordOf DEF ApplyInv, Flush, OnStep, fileVars
  <1>3. k \in Keys
    BY <1>2, StoreRows
  <1> HIDE DEF duplicate, k
  <1>4. /\ o \in ApplyRecords /\ o.plan = apply[r].plan /\ o.status = apply[r].status
        /\ o.at = (IF duplicate THEN "undoing" ELSE IF step = "result" THEN "closing" ELSE "working")
        /\ o.step = (IF step = "result" THEN apply[r].step ELSE apply[r].step + 1)
        /\ o.selected = FALSE /\ o.part = apply[r].part /\ o.created = apply[r].created
    BY <1>2, StoredTyped DEF duplicate
  <1>5. apply' = [apply EXCEPT ![r] = o]
    BY <1>1 DEF duplicate, k
  <1> HIDE DEF o
  <1>6. /\ apply' \in [Applies -> ApplyRecords] /\ apply'[r] = o
        /\ \A s \in Applies \ {r} : apply'[s] = apply[s]
    BY <1>2, <1>4, <1>5, Puttable DEF Others
  <1>7. CASE duplicate
    <2>1. pending' = pending /\ OnStep(r, step)
      BY <1>1, <1>7 DEF duplicate, k
    <2> QED
      BY <1>2, <1>4, <1>6, <1>7, <2>1, DuplicateKeeps
  <1>8. CASE ~duplicate
    <2>1. /\ pending' = [pending EXCEPT ![r][k] = ValueOf(r, step)]
          /\ OnStep(r, step) /\ apply[r].selected
      BY <1>1, <1>8 DEF duplicate, k, Puts
    <2> QED
      BY <1>2, <1>3, <1>4, <1>6, <1>8, <2>1, StoreKeeps DEF k
  <1> QED
    BY <1>7, <1>8

-----------------------------------------------------------------------------
(* A request keeps what it relies on while rows are added or replaced.      *)
LEMMA BystanderKeeps ==
  ASSUME Shapes, NEW s \in Applies, apply'[s] = apply[s], pending'[s] = pending[s], made' = made,
         \A k \in Keys : rows[k] # NoRow => rows'[k] # NoRow,
         OnScript(s), OwnRows(s), Working(s) => Does(s)
  PROVE  /\ OnScript(s)' /\ OwnRows(s)' /\ (Working(s)' => Does(s)')
         /\ Underway(s)' <=> Underway(s)
         /\ \A step : (Done(s, step)' <=> Done(s, step)) /\ (OnStep(s, step)' <=> OnStep(s, step))
  <1>1. /\ (Underway(s)' <=> Underway(s)) /\ (Working(s)' <=> Working(s))
        /\ \A step : (Done(s, step)' <=> Done(s, step)) /\ (OnStep(s, step)' <=> OnStep(s, step))
    BY DEF Underway, Working, Done, Script, OnStep
  <1>2. OnScript(s)'
    BY <1>1 DEF OnScript, Script
  <1>3. OwnRows(s)'
    BY <1>1 DEF OwnRows, RowsFit, Filed
  <1>4. Seen(s, NoteRow(apply[s].created)) # NoRow => Seen(s, NoteRow(apply[s].created))' # NoRow
    BY RecordOf, NoteKeysDiffer DEF Seen
  <1>5. Working(s)' => Does(s)'
    BY <1>1, <1>4 DEF Does
  <1> QED
    BY <1>1, <1>2, <1>3, <1>5

LEMMA StartedTyped ==
  ASSUME NEW p \in Plans
  PROVE  /\ Started(p) \in ApplyRecords /\ Started(p).plan = p /\ Started(p).at = "working"
         /\ Started(p).step = 1 /\ Started(p).part = "begin" /\ Started(p).selected = FALSE
         /\ Started(p).created = CandidateOf[p] /\ Started(p).status = "APPLIED"
  BY DEF Started, ApplyRecords, Contents, Outcomes, Candidates

LEMMA NoApplyTyped ==
  ASSUME NEW at \in {"idle", "over"}
  PROVE  LET o == [NoApply EXCEPT !.at = at]
         IN  /\ o \in ApplyRecords /\ o.at = at /\ o.part = "begin" /\ o.status = "APPLIED"
             /\ NoApply \in ApplyRecords /\ NoApply.at = "idle" /\ NoApply.part = "begin"
  <1>1. PICK p \in Plans : p = CHOOSE q \in Plans : TRUE
    BY ApplyAssumption
  <1> DEFINE started == Started(p)
             none == [started EXCEPT !.at = "idle"]
             o == [none EXCEPT !.at = at]
  <1>2. started \in ApplyRecords /\ started.part = "begin" /\ started.status = "APPLIED"
    BY StartedTyped
  <1>3. NoApply = none
    BY <1>1 DEF NoApply
  <1> HIDE DEF started
  <1>4. none \in ApplyRecords /\ none.at = "idle" /\ none.part = "begin" /\ none.status = "APPLIED"
    BY <1>2 DEF ApplyRecords
  <1> HIDE DEF none
  <1>5. o \in ApplyRecords /\ o.at = at /\ o.part = "begin" /\ o.status = "APPLIED"
    BY <1>4 DEF ApplyRecords
  <1> QED
    BY <1>3, <1>4, <1>5

LEMMA ApplyKeeps ==
  ASSUME ApplyInv, NEW r \in Applies, Apply(r)
  PROVE  ApplyInv'
  <1>1. PICK p \in Plans, retry \in BOOLEAN :
          apply' = [apply EXCEPT ![r] = IF Reused(rows[ResultRow(p)], retry)
                                        THEN [NoApply EXCEPT !.at = "over"] ELSE Started(p)]
    BY DEF Apply
  <1> DEFINE o == IF Reused(rows[ResultRow(p)], retry)
                  THEN [NoApply EXCEPT !.at = "over"] ELSE Started(p)
  <1>2. /\ o \in ApplyRecords /\ o.part = "begin" /\ o.status = "APPLIED"
        /\ \/ o.at = "over"
           \/ /\ o.at = "working" /\ o.plan = p /\ o.step = 1 /\ o.created = CandidateOf[p]
              /\ o.selected = FALSE /\ ~Applied(p)
    <2>1. CASE Reused(rows[ResultRow(p)], retry)
      BY <2>1, NoApplyTyped
    <2>2. CASE ~Reused(rows[ResultRow(p)], retry)
      <3>1. ~Applied(p)
        BY <2>2, Values DEF Reused, Applied, Outcomes
      <3> QED
        BY <2>2, <3>1, StartedTyped
    <2> QED
      BY <2>1, <2>2
  <1>3. apply' = [apply EXCEPT ![r] = o]
    BY <1>1
  <1> HIDE DEF o
  <1>4. /\ Shapes /\ made' = made /\ merged' = merged /\ markedBy' = markedBy /\ rows' = rows
        /\ pending' = pending /\ reading' = reading /\ applyFaults' = applyFaults
        /\ overlap' = (overlap \/ \E s \in Applies \ {r} : Underway(s))
        /\ ~Underway(r)
    BY DEF ApplyInv, Apply, Underway, fileVars
  <1>5. /\ apply' \in [Applies -> ApplyRecords] /\ apply'[r] = o
        /\ \A s \in Applies \ {r} : apply'[s] = apply[s]
    BY <1>2, <1>3, <1>4, Puttable DEF Others
  <1>6. pending[r] = Untouched /\ \A k \in Keys : pending[r][k] = NoRow
    BY <1>4 DEF ApplyInv, OwnRows, Untouched
  <1>7. Shapes'
    BY <1>4, <1>5 DEF Shapes, RowsFit, Filed
  <1>8. o.at = "working" =>
           /\ WellScripted(Script(r)') /\ \A step : ~Done(r, step)'
           /\ ~OnStep(r, "merge")'
    <2> HAVE o.at = "working"
    <2>1. WellScripted(Script(r)') /\ apply'[r].step = 1
      BY <1>2, <1>5, PlanScripts DEF Script
    <2>2. \A step : ~Done(r, step)'
      BY <2>1 DEF Done, WellScripted
    <2>3. ~OnStep(r, "merge")'
      BY <2>1 DEF OnStep, Script, WellScripted
    <2> QED
      BY <2>1, <2>2, <2>3
  <1>9. OnScript(r)'
    BY <1>2, <1>5, <1>8 DEF OnScript, Underway, OnStep, WellScripted
  <1>10. OwnRows(r)'
    <2>1. RowsFit(pending[r])' /\ Filed(pending[r])'
      BY <1>4 DEF ApplyInv, OwnRows, RowsFit, Filed, Fits
    <2>2. /\ \A k \in ConflictKeys : pending'[r][k] = NoRow
          /\ \A q \in Plans : pending'[r][ResultRow(q)] = NoRow
      BY <1>4, <1>6, KeyKinds
    <2> QED
      BY <1>4, <1>6, <2>1, <2>2 DEF OwnRows
  <1>11. Working(r)' => Does(r)'
    <2> HAVE Working(r)'
    <2>1. o.at = "working" /\ apply'[r].plan = p /\ apply'[r].created = CandidateOf[p]
          /\ apply'[r].part = "begin"
      BY <1>2, <1>5 DEF Working
    <2>2. Fits(CandidateOf[p], p)
      BY DEF Fits
    <2> QED
      BY <1>8, <2>1, <2>2 DEF Does, Fits
  <1>12. \A s \in Applies : OnScript(s)' /\ OwnRows(s)' /\ (Working(s)' => Does(s)')
    <2> TAKE s \in Applies
    <2>1. CASE s = r
      BY <1>9, <1>10, <1>11, <2>1
    <2>2. CASE s # r
      BY <1>4, <1>5, <2>2, BystanderKeeps DEF ApplyInv
    <2> QED
      BY <2>1, <2>2
  <1>13. \A q \in Plans : Applied(q)' => PlanLeft(q)'
    <2> TAKE q \in Plans
    <2>1. \A c \in Candidates : LeftRows(q, c) => LeftRows(q, c)'
      BY <1>4 DEF LeftRows, Takes, Fits
    <2> QED
      BY <1>4, <2>1 DEF ApplyInv, Applied, PlanLeft
  <1>14. ASSUME ~overlap'
         PROVE  InTurn'
    <2>1. InTurn /\ \A s \in Applies \ {r} : ~Underway(s) /\ ~Underway(s)' /\ ~Working(s)'
      BY <1>4, <1>5, <1>14 DEF ApplyInv, Underway, Working
    <2>2. ASSUME Working(r)'
          PROVE  AloneDoes(r)'
      <3>1. ~Applied(p) /\ apply'[r].plan = p /\ o.at = "working" /\ apply'[r].part = "begin"
            /\ apply'[r].selected = FALSE
        BY <1>2, <1>5, <2>2 DEF Working
      <3>2. ~Applied(apply[r].plan)'
        BY <1>4, <3>1 DEF Applied
      <3>3. Evident(r)'
        BY <1>8, <3>1 DEF Evident, OnPart
      <3>4. /\ Seen(r, MarkRow)' = rows[MarkRow] /\ Seen(r, StateRow)' = rows[StateRow]
            /\ pending'[r][MarkRow] = NoRow
            /\ \A d \in Candidates : Seen(r, NoteRow(d))' = rows[NoteRow(d)]
        <4>1. MarkRow \in Keys /\ StateRow \in Keys /\ \A d \in Candidates : NoteRow(d) \in Keys
          BY KeyKinds
        <4> QED
          BY <1>4, <1>6, <4>1 DEF Seen
      <3>5. MarkSound(r)' /\ \A d \in Candidates : NotesSound(r, d)'
        BY <2>1, <3>4 DEF InTurn, MarkSound, NotesSound
      <3>6. MarkFits(r)'
        BY <1>8, <3>1, <3>5 DEF MarkFits
      <3>7. Stated(r)'
        BY <1>4, <1>8, <3>1, <3>4 DEF Stated, Closed
      <3> QED
        BY <3>2, <3>3, <3>6, <3>7 DEF AloneDoes
    <2>3. \A q \in Plans :
            (Applied(q) => /\ Takes(q, "merge") => CandidateOf[q] \in merged
                           /\ Takes(q, "supersede") => Closed(rows[StateRow]))'
      BY <1>4, <2>1 DEF InTurn, Applied, Takes, Closed
    <2>4. (rows[MarkRow] \in Candidates => markedBy = rows[MarkRow])'
      BY <1>4, <2>1 DEF InTurn
    <2>5. (\A d \in Candidates : Replacer(rows[NoteRow(d)]) => rows[MarkRow] # "unmarked")'
      BY <1>4, <2>1 DEF InTurn
    <2> QED
      BY <2>1, <2>2, <2>3, <2>4, <2>5 DEF InTurn
  <1> QED
    BY <1>7, <1>12, <1>13, <1>14 DEF ApplyInv

-----------------------------------------------------------------------------
(* A request that ends leaves its session empty.                            *)
LEMMA FinishDoes ==
  ASSUME Shapes, NEW r \in Applies, Finish(r)
  PROVE  /\ apply' \in [Applies -> ApplyRecords] /\ pending' \in [Applies -> [Keys -> Contents]]
         /\ apply'[r].at = "over" /\ apply'[r].part = "begin"
         /\ pending'[r] = Untouched /\ \A k \in Keys : pending'[r][k] = NoRow
         /\ ~Underway(r)' /\ ~Working(r)'
         /\ OthersStay(r)
  <1>1. Untouched \in [Keys -> Contents] /\ \A k \in Keys : Untouched[k] = NoRow
    BY DEF Untouched, Contents
  <1> DEFINE o == [NoApply EXCEPT !.at = "over"]
  <1>2. o \in ApplyRecords /\ o.at = "over" /\ o.part = "begin"
    BY NoApplyTyped
  <1>3. apply' = [apply EXCEPT ![r] = o] /\ pending' = [pending EXCEPT ![r] = Untouched]
    BY DEF Finish
  <1> HIDE DEF o
  <1>4. /\ apply' \in [Applies -> ApplyRecords] /\ pending' \in [Applies -> [Keys -> Contents]]
        /\ apply'[r] = o /\ pending'[r] = Untouched /\ OthersStay(r)
    BY <1>1, <1>2, <1>3 DEF Shapes, OthersStay
  <1> QED
    BY <1>1, <1>2, <1>4 DEF Underway, Working

(* The end of a request, except for what it commits.                        *)
LEMMA EndKeeps ==
  ASSUME ApplyInv, NEW r \in Applies, Underway(r), Finish(r), made' = made, merged' = merged,
         markedBy' = markedBy, reading' = reading, overlap' = overlap,
         applyFaults' \in 0..MaxApplyFaults,
         rows' \in [Keys -> Contents], RowsFit(rows)', Filed(rows)',
         \A k \in Keys : rows[k] # NoRow => rows'[k] # NoRow,
         \A q \in Plans : Applied(q)' => PlanLeft(q)',
         ~overlap =>
           /\ (rows[MarkRow] \in Candidates => markedBy = rows[MarkRow])'
           /\ (\A d \in Candidates : Replacer(rows[NoteRow(d)]) => rows[MarkRow] # "unmarked")'
           /\ (\A q \in Plans : Applied(q) => /\ Takes(q, "merge") => CandidateOf[q] \in merged
                                              /\ Takes(q, "supersede") => Closed(rows[StateRow]))'
  PROVE  ApplyInv'
  <1>1. /\ apply' \in [Applies -> ApplyRecords] /\ pending' \in [Applies -> [Keys -> Contents]]
        /\ apply'[r].at = "over" /\ apply'[r].part = "begin" /\ pending'[r] = Untouched
        /\ \A k \in Keys : pending'[r][k] = NoRow
        /\ ~Underway(r)' /\ ~Working(r)' /\ OthersStay(r)
    BY FinishDoes DEF ApplyInv
  <1>2. Shapes'
    <2>1. rows'[MarkRow] # NoRow
      BY KeyKinds DEF ApplyInv, Shapes
    <2>2. \A c \in Candidates : made'[c] # NoRow => Fits(c, made'[c])
      BY DEF ApplyInv, Shapes
    <2> QED
      BY <1>1, <2>1, <2>2 DEF ApplyInv, Shapes, Fits
  <1>3. OnScript(r)'
    BY <1>1 DEF OnScript, OnStep
  <1>4. OwnRows(r)'
    <2>1. /\ pending'[r][StateRow] = NoRow /\ pending'[r][MarkRow] = NoRow
          /\ \A k \in ConflictKeys : pending'[r][k] = NoRow
          /\ \A q \in Plans : pending'[r][ResultRow(q)] = NoRow
          /\ \A c \in Candidates : pending'[r][NoteRow(c)] = NoRow
      <3>1. /\ StateRow \in Keys /\ MarkRow \in Keys /\ ConflictKeys \subseteq Keys
            /\ \A q \in Plans : ResultRow(q) \in Keys
            /\ \A c \in Candidates : NoteRow(c) \in Keys
        BY KeyKinds
      <3> QED
        BY <1>1, <3>1
    <2>2. RowsFit(pending[r])' /\ Filed(pending[r])'
      BY <2>1, Values DEF RowsFit, Filed
    <2> QED
      BY <1>1, <2>1, <2>2 DEF OwnRows
  <1>5. \A s \in Applies : OnScript(s)' /\ OwnRows(s)' /\ (Working(s)' => Does(s)')
                           /\ (s # r => (Underway(s)' <=> Underway(s)))
    <2> TAKE s \in Applies
    <2>1. CASE s = r
      BY <1>1, <1>3, <1>4, <2>1
    <2>2. CASE s # r
      BY <1>1, <2>2, BystanderKeeps DEF ApplyInv, OthersStay
    <2> QED
      BY <2>1, <2>2
  <1>6. ASSUME ~overlap
        PROVE  InTurn'
    <2>1. \A s \in Applies : s # r => ~Underway(s)
      BY <1>6 DEF ApplyInv, InTurn
    <2>2. \A s \in Applies : ~Underway(s)' /\ ~Working(s)'
      BY <1>1, <1>5, <2>1 DEF Underway, Working
    <2> QED
      BY <1>6, <2>2 DEF InTurn
  <1> QED
    BY <1>2, <1>5, <1>6 DEF ApplyInv

LEMMA AbortApplyKeeps ==
  ASSUME ApplyInv, NEW r \in Applies, AbortApply(r)
  PROVE  ApplyInv'
  <1>1. Underway(r) /\ Shapes
    BY DEF AbortApply, Underway, ApplyInv
  <1>2. /\ made' = made /\ merged' = merged /\ markedBy' = markedBy /\ rows' = rows
        /\ reading' = reading /\ overlap' = overlap /\ Finish(r)
        /\ applyFaults' \in 0..MaxApplyFaults
    BY <1>1, ApplyAssumption DEF AbortApply, Fault, Shapes, fileVars
  <1>3. \A q \in Plans : Applied(q)' => PlanLeft(q)'
    <2> TAKE q \in Plans
    <2>1. \A c \in Candidates : LeftRows(q, c) => LeftRows(q, c)'
      BY <1>2 DEF LeftRows, Takes, Fits
    <2> QED
      BY <1>2, <2>1 DEF ApplyInv, Applied, PlanLeft
  <1>4. RowsFit(rows)' /\ Filed(rows)' /\ rows' \in [Keys -> Contents]
    BY <1>1, <1>2 DEF Shapes, RowsFit, Filed, Fits
  <1>5. ~overlap =>
           /\ (rows[MarkRow] \in Candidates => markedBy = rows[MarkRow])'
           /\ (\A d \in Candidates : Replacer(rows[NoteRow(d)]) => rows[MarkRow] # "unmarked")'
           /\ (\A q \in Plans : Applied(q) => /\ Takes(q, "merge") => CandidateOf[q] \in merged
                                              /\ Takes(q, "supersede") => Closed(rows[StateRow]))'
    BY <1>2 DEF ApplyInv, InTurn, Applied, Takes, Closed
  <1> QED
    BY <1>1, <1>2, <1>3, <1>4, <1>5, EndKeeps

-----------------------------------------------------------------------------
(* What a commit makes of each row.                                         *)
LEMMA CommitDoes ==
  ASSUME ApplyInv, NEW r \in Applies, CommitApply(r)
  PROVE  /\ Shapes /\ OnScript(r) /\ OwnRows(r) /\ Does(r) /\ Underway(r) /\ Working(r)
         /\ apply[r].plan \in Plans /\ apply[r].part = "begin"
         /\ \A step : ~OnStep(r, step)
         /\ made' = made /\ merged' = merged /\ markedBy' = markedBy /\ reading' = reading
         /\ applyFaults' = applyFaults /\ overlap' = overlap
         /\ \A k \in Keys : rows'[k] = Seen(r, k)
         /\ \A k \in Keys : rows[k] # NoRow \/ pending[r][k] # NoRow => rows'[k] # NoRow
         /\ rows'[ResultRow(apply[r].plan)] = apply[r].status
         /\ \A q \in Plans \ {apply[r].plan} : Applied(q)' <=> Applied(q)
         /\ apply[r].status = "APPLIED" =>
               \A step : (Takes(apply[r].plan, step) /\ step # "result") => Done(r, step)
  <1>1. /\ Shapes /\ OnScript(r) /\ OwnRows(r) /\ apply[r].at = "closing" /\ Underway(r) /\ Working(r)
    BY DEF ApplyInv, CommitApply, Underway, Working
  <1>2. PICK p \in Plans : p = apply[r].plan
    BY <1>1, RecordOf
  <1>3. /\ Does(r) /\ (\A step : ~OnStep(r, step)) /\ apply[r].part = "begin"
    BY <1>1 DEF ApplyInv, OnStep, OnScript
  <1>4. /\ made' = made /\ merged' = merged /\ markedBy' = markedBy /\ reading' = reading
        /\ applyFaults' = applyFaults /\ overlap' = overlap
        /\ rows' = [k \in Keys |-> Seen(r, k)]
    BY DEF CommitApply, fileVars
  <1>5. \A k \in Keys : rows'[k] = Seen(r, k)
    BY <1>4
  <1>6. \A k \in Keys : rows[k] # NoRow \/ pending[r][k] # NoRow => rows'[k] # NoRow
    BY <1>5 DEF Seen
  <1>7. rows'[ResultRow(p)] = apply[r].status
    <2>1. pending[r][ResultRow(p)] = apply[r].status /\ apply[r].status # NoRow
          /\ ResultRow(p) \in Keys
      BY <1>1, <1>2, RecordOf, Values, KeyKinds DEF OnScript
    <2> QED
      BY <1>5, <2>1 DEF Seen
  <1>8. \A q \in Plans \ {p} : Applied(q)' <=> Applied(q)
    <2> TAKE q \in Plans \ {p}
    <2>1. pending[r][ResultRow(q)] = NoRow /\ ResultRow(q) \in Keys
      BY <1>1, <1>2, KeyKinds DEF OwnRows
    <2> QED
      BY <1>5, <2>1 DEF Seen, Applied
  <1>9. ASSUME apply[r].status = "APPLIED", NEW step, Takes(p, step), step # "result"
        PROVE  Done(r, step)
    <2>1. WellScripted(Script(r)) /\ apply[r].step = Len(Script(r))
      BY <1>1, RecordOf DEF OnScript
    <2> QED
      BY <1>2, <1>9, <2>1 DEF Takes, Done, WellScripted, Script
  <1> QED
    BY <1>1, <1>2, <1>3, <1>4, <1>5, <1>6, <1>7, <1>8, <1>9

(* Every APPLIED plan has its rows after it: the one that commits wrote     *)
(* them, and no commit takes a row of another's away.                       *)
LEMMA CommitKept ==
  ASSUME ApplyInv, NEW r \in Applies, CommitApply(r), NEW q \in Plans, Applied(q)'
  PROVE  PlanLeft(q)'
  <1>1. PICK p \in Plans, c \in Candidates : p = apply[r].plan /\ c = apply[r].created
    BY RecordOf DEF ApplyInv
  <1>2. /\ Shapes /\ OwnRows(r) /\ Does(r) /\ Working(r) /\ apply[r].part = "begin"
        /\ \A step : ~OnStep(r, step)
        /\ made' = made /\ merged' = merged /\ markedBy' = markedBy /\ overlap' = overlap
        /\ \A k \in Keys : rows'[k] = Seen(r, k)
        /\ \A k \in Keys : rows[k] # NoRow \/ pending[r][k] # NoRow => rows'[k] # NoRow
        /\ rows'[ResultRow(p)] = apply[r].status
        /\ \A x \in Plans \ {p} : Applied(x)' <=> Applied(x)
        /\ apply[r].status = "APPLIED" =>
              \A step : (Takes(p, step) /\ step # "result") => Done(r, step)
    BY <1>1, CommitDoes
  <1>3. \A d \in Candidates : NoteRow(d) \in Keys /\ <<"own", d>> \in Keys
    BY KeyKinds
  <1>4. MarkRow \in Keys /\ ConflictRow(q) \in Keys
        /\ \A d \in Candidates : RelationRow(d, q) \in Keys
    <2>1. MarkRow \in Keys /\ ConflictRow(q) \in Keys
      BY KeyKinds
    <2>2. \A d \in Candidates : RelationRow(d, q) \in Keys
      BY KeyKinds
    <2> QED
      BY <2>1, <2>2
  <1>5. ~overlap => AloneDoes(r)
    BY <1>2 DEF ApplyInv, InTurn
  <1>6. ~overlap => MarkSound(r)
    BY <1>2, <1>5 DEF AloneDoes, MarkFits
  <1>7. CASE q = p
    <2>1. \A step : (Takes(q, step) /\ step # "result") => Done(r, step)
      BY <1>2, <1>7 DEF Applied
    <2>2. Takes(q, "create") => rows'[NoteRow(c)] # NoRow
      BY <1>1, <1>2, <1>3, <2>1 DEF Does
    <2>3. Takes(q, "create") => rows'[<<"own", c>>] # NoRow
      <3>1. Takes(q, "create") => Takes(q, "own")
        BY PlanScripts DEF WellScripted, Takes
      <3> QED
        BY <1>1, <1>2, <1>3, <2>1, <3>1 DEF Does
    <2>4. Takes(q, "relation") => rows'[RelationRow(c, q)] # NoRow
      BY <1>1, <1>2, <1>4, <1>7, <2>1 DEF Does
    <2>5. Takes(q, "conflict") => rows'[ConflictRow(q)] # NoRow
      BY <1>1, <1>2, <1>4, <1>7, <2>1 DEF Does
    <2>6. ASSUME Takes(q, "supersede"), ~overlap
          PROVE  markedBy = c /\ rows'[MarkRow] # "unmarked"
      <3>1. markedBy = c /\ Seen(r, MarkRow) = c
        BY <1>1, <1>5, <2>1, <2>6 DEF AloneDoes, MarkFits
      <3> QED
        BY <1>2, <1>4, <3>1, Values
    <2>7. Fits(c, q)
      BY <1>1, <1>2, <1>7 DEF Does
    <2>8. LeftRows(q, c)'
      BY <1>2, <2>2, <2>3, <2>4, <2>5, <2>6, <2>7 DEF LeftRows, Takes, Fits
    <2> QED
      BY <2>8 DEF PlanLeft
  <1>8. CASE q # p
    <2>1. PICK d \in Candidates : LeftRows(q, d)
      BY <1>2, <1>8 DEF ApplyInv, PlanLeft
    <2>2. (Takes(q, "supersede") /\ ~overlap) => markedBy = d /\ rows'[MarkRow] # "unmarked"
      <3> HAVE Takes(q, "supersede") /\ ~overlap
      <3>1. markedBy = d /\ rows[MarkRow] # "unmarked" /\ rows[MarkRow] # NoRow
        BY <1>2, <2>1 DEF LeftRows, Shapes
      <3>2. pending[r][MarkRow] \in {NoRow, "error", d}
        BY <1>6, <3>1 DEF MarkSound
      <3> QED
        BY <1>2, <1>4, <3>1, <3>2, Values DEF Seen
    <2>3. LeftRows(q, d)'
      <3>1. /\ Takes(q, "create") => rows'[NoteRow(d)] # NoRow /\ rows'[<<"own", d>>] # NoRow
            /\ Takes(q, "relation") => rows'[RelationRow(d, q)] # NoRow
            /\ Takes(q, "conflict") => rows'[ConflictRow(q)] # NoRow
            /\ Fits(d, q)
        BY <1>2, <1>3, <1>4, <2>1 DEF LeftRows
      <3> QED
        BY <1>2, <2>2, <3>1 DEF LeftRows, Takes, Fits
    <2> QED
      BY <2>3 DEF PlanLeft
  <1> QED
    BY <1>7, <1>8

(* While requests come in turn a commit replaces no APPLIED result, and     *)
(* finishes its own plan's work.                                            *)
LEMMA CommitAlone ==
  ASSUME ApplyInv, NEW r \in Applies, CommitApply(r), ~overlap
  PROVE  /\ ~Applied(apply[r].plan)
         /\ \A q \in Plans : Applied(q) => Applied(q)'
         /\ rows'[MarkRow] \in Candidates => markedBy = rows'[MarkRow]
         /\ \A d \in Candidates : Replacer(rows'[NoteRow(d)]) => rows'[MarkRow] # "unmarked"
         /\ \A q \in Plans : Applied(q)' => /\ Takes(q, "merge") => CandidateOf[q] \in merged
                                            /\ Takes(q, "supersede") => Closed(rows'[StateRow])
  <1>1. PICK p \in Plans : p = apply[r].plan
    BY RecordOf DEF ApplyInv
  <1>2. /\ Shapes /\ Working(r) /\ apply[r].part = "begin" /\ \A step : ~OnStep(r, step)
        /\ \A k \in Keys : rows'[k] = Seen(r, k)
        /\ rows'[ResultRow(p)] = apply[r].status
        /\ \A q \in Plans \ {p} : Applied(q)' <=> Applied(q)
        /\ apply[r].status = "APPLIED" =>
              \A step : (Takes(p, step) /\ step # "result") => Done(r, step)
    BY <1>1, CommitDoes
  <1>3. InTurn /\ AloneDoes(r) /\ ~Applied(p)
    BY <1>1, <1>2 DEF ApplyInv, InTurn, AloneDoes
  <1>4. MarkSound(r) /\ \A d \in Candidates : NotesSound(r, d)
    BY <1>2, <1>3 DEF AloneDoes, MarkFits
  <1>5. /\ rows'[MarkRow] = Seen(r, MarkRow) /\ rows'[StateRow] = Seen(r, StateRow)
        /\ \A d \in Candidates : rows'[NoteRow(d)] = Seen(r, NoteRow(d))
    <2>1. MarkRow \in Keys /\ StateRow \in Keys /\ \A d \in Candidates : NoteRow(d) \in Keys
      BY KeyKinds
    <2> QED
      BY <1>2, <2>1
  <1>6. rows'[MarkRow] \in Candidates => markedBy = rows'[MarkRow]
    BY <1>3, <1>4, <1>5, Values DEF MarkSound, Seen, InTurn
  <1>7. \A d \in Candidates : Replacer(rows'[NoteRow(d)]) => rows'[MarkRow] # "unmarked"
    BY <1>4, <1>5 DEF NotesSound
  <1>8. \A q \in Plans : Applied(q)' => /\ Takes(q, "merge") => CandidateOf[q] \in merged
                                        /\ Takes(q, "supersede") => Closed(rows'[StateRow])
    <2> SUFFICES ASSUME NEW q \in Plans, Applied(q)'
                 PROVE  /\ Takes(q, "merge") => CandidateOf[q] \in merged
                        /\ Takes(q, "supersede") => Closed(rows'[StateRow])
      OBVIOUS
    <2>1. CASE q = p
      <3>1. \A step : (Takes(p, step) /\ step # "result") => Done(r, step)
        BY <1>2, <2>1 DEF Applied
      <3>2. Takes(q, "merge") => CandidateOf[q] \in merged
        BY <1>1, <1>3, <2>1, <3>1 DEF AloneDoes, Evident
      <3>3. Takes(q, "supersede") => Closed(rows'[StateRow])
        <4> HAVE Takes(q, "supersede")
        <4>1. Done(r, "state") /\ Replacing(p)
          BY <2>1, <3>1, PlanScripts
        <4>2. Closed(pending[r][StateRow])
          BY <1>1, <1>3, <4>1 DEF AloneDoes, Stated
        <4> QED
          BY <1>5, <4>2 DEF Closed, Seen
      <3> QED
        BY <3>2, <3>3
    <2>2. CASE q # p
      <3>1. Closed(rows[StateRow]) => Closed(rows'[StateRow])
        BY <1>3, <1>5 DEF AloneDoes, Stated
      <3> QED
        BY <1>2, <1>3, <2>2, <3>1 DEF InTurn
    <2> QED
      BY <2>1, <2>2
  <1> QED
    BY <1>1, <1>2, <1>3, <1>6, <1>7, <1>8

LEMMA CommitApplyKeeps ==
  ASSUME ApplyInv, NEW r \in Applies, CommitApply(r)
  PROVE  ApplyInv'
  <1>1. /\ Shapes /\ OwnRows(r) /\ Underway(r)
        /\ made' = made /\ merged' = merged /\ markedBy' = markedBy /\ reading' = reading
        /\ applyFaults' = applyFaults /\ overlap' = overlap
        /\ \A k \in Keys : rows'[k] = Seen(r, k)
        /\ \A k \in Keys : rows[k] # NoRow => rows'[k] # NoRow
    BY CommitDoes
  <1>2. Finish(r) /\ rows' = [k \in Keys |-> Seen(r, k)]
    BY DEF CommitApply
  <1>3. rows' \in [Keys -> Contents]
    BY <1>1, <1>2, SeenShapes
  <1>4. RowsFit(rows)' /\ Filed(rows)'
    <2>1. /\ rows'[MarkRow] = Seen(r, MarkRow) /\ rows'[StateRow] = Seen(r, StateRow)
          /\ \A d \in Candidates : rows'[NoteRow(d)] = Seen(r, NoteRow(d))
          /\ \A p \in Plans : rows'[ResultRow(p)] = Seen(r, ResultRow(p))
      <3>1. /\ MarkRow \in Keys /\ StateRow \in Keys
            /\ \A d \in Candidates : NoteRow(d) \in Keys
            /\ \A p \in Plans : ResultRow(p) \in Keys
        BY KeyKinds
      <3> QED
        BY <1>1, <3>1
    <2>2. RowsFit(rows) /\ Filed(rows) /\ RowsFit(pending[r]) /\ Filed(pending[r])
      BY <1>1 DEF Shapes, OwnRows
    <2>3. RowsFit(rows')
      BY <2>1, <2>2 DEF RowsFit, Seen
    <2>4. \A d \in Candidates : rows'[NoteRow(d)] # NoRow => made'[d] # NoRow
      BY <1>1, <2>1, <2>2 DEF Filed, Seen
    <2> QED
      BY <2>3, <2>4 DEF RowsFit, Filed, Fits
  <1>5. \A q \in Plans : Applied(q)' => PlanLeft(q)'
    BY CommitKept
  <1>6. ~overlap =>
           /\ (rows[MarkRow] \in Candidates => markedBy = rows[MarkRow])'
           /\ (\A d \in Candidates : Replacer(rows[NoteRow(d)]) => rows[MarkRow] # "unmarked")'
           /\ (\A q \in Plans : Applied(q) => /\ Takes(q, "merge") => CandidateOf[q] \in merged
                                              /\ Takes(q, "supersede") => Closed(rows[StateRow]))'
    BY <1>1, CommitAlone DEF Closed, Replacer, Takes
  <1>7. applyFaults' \in 0..MaxApplyFaults
    BY <1>1 DEF Shapes
  <1> QED
    BY <1>1, <1>2, <1>3, <1>4, <1>5, <1>6, <1>7, EndKeeps

-----------------------------------------------------------------------------
(* A reviewer changes a conflict's row only.                                *)
LEMMA ReviewKeeps ==
  ASSUME ApplyInv, NEW k \in ConflictKeys, NEW status \in {"reviewing", "resolved"},
         Review(k, status), reading' \subseteq ConflictKeys,
         made' = made, merged' = merged, markedBy' = markedBy, pending' = pending,
         apply' = apply, applyFaults' = applyFaults, overlap' = overlap
  PROVE  ApplyInv'
  <1>1. Shapes /\ status \in Contents /\ status # NoRow
    BY ApplyAssumption DEF ApplyInv, Contents, Words
  <1>2. k \in Keys \ NoteKeys /\ k[1] = "conflict"
    BY KeyKinds
  <1>3. /\ rows' \in [Keys -> Contents] /\ rows'[k] = status
        /\ \A l \in Keys \ {k} : rows'[l] = rows[l]
    BY <1>1, <1>2 DEF Review, Shapes
  <1>4. \A l \in Keys : rows[l] # NoRow => rows'[l] # NoRow
    BY <1>1, <1>3
  <1>5. \A d \in Candidates : rows'[NoteRow(d)] = rows[NoteRow(d)]
    <2>1. \A d \in Candidates : NoteRow(d) \in Keys /\ NoteRow(d) \in NoteKeys
      BY KeyKinds
    <2> QED
      BY <1>2, <1>3, <2>1
  <1>6. rows'[MarkRow] = rows[MarkRow] /\ rows'[StateRow] = rows[StateRow]
    BY <1>2, <1>3, KeyKinds
  <1>7. \A q \in Plans : rows'[ResultRow(q)] = rows[ResultRow(q)]
    <2> TAKE q \in Plans
    <2>1. ResultRow(q) \in Keys /\ ResultRow(q)[1] = "result"
      BY KeyKinds
    <2> QED
      BY <1>2, <1>3, <2>1
  <1>8. \A q \in Plans : Applied(q)' <=> Applied(q)
    BY <1>7 DEF Applied
  <1>9. Shapes'
    <2>1. RowsFit(rows) /\ Filed(rows) /\ rows[MarkRow] # NoRow
      BY <1>1 DEF Shapes
    <2>2. RowsFit(rows')
      BY <1>5, <1>6, <1>7, <2>1 DEF RowsFit
    <2>3. \A d \in Candidates : rows'[NoteRow(d)] # NoRow => made'[d] # NoRow
      BY <1>5, <2>1 DEF Filed
    <2>4. \A d \in Candidates : made'[d] # NoRow => Fits(d, made'[d])
      BY <1>1 DEF Shapes
    <2> QED
      BY <1>1, <1>3, <1>6, <2>1, <2>2, <2>3, <2>4 DEF Shapes, RowsFit, Filed, Fits
  <1>10. \A s \in Applies : /\ OnScript(s)' /\ OwnRows(s)' /\ (Working(s)' => Does(s)')
                            /\ (Underway(s)' <=> Underway(s)) /\ (Working(s)' <=> Working(s))
                            /\ \A step : /\ Done(s, step)' <=> Done(s, step)
                                         /\ OnStep(s, step)' <=> OnStep(s, step)
    <2> TAKE s \in Applies
    <2>1. apply'[s] = apply[s] /\ pending'[s] = pending[s]
      OBVIOUS
    <2>2. Working(s)' <=> Working(s)
      BY DEF Working
    <2> QED
      BY <1>1, <1>4, <2>1, <2>2, BystanderKeeps DEF ApplyInv
  <1>11. \A q \in Plans : Applied(q)' => PlanLeft(q)'
    <2> SUFFICES ASSUME NEW q \in Plans, Applied(q)'
                 PROVE  PlanLeft(q)'
      OBVIOUS
    <2>1. PICK d \in Candidates : LeftRows(q, d)
      BY <1>8 DEF ApplyInv, PlanLeft
    <2>2. /\ NoteRow(d) \in Keys /\ <<"own", d>> \in Keys /\ RelationRow(d, q) \in Keys
          /\ ConflictRow(q) \in Keys
      BY KeyKinds
    <2>3. LeftRows(q, d)'
      BY <1>4, <1>6, <2>1, <2>2 DEF LeftRows, Takes, Fits
    <2> QED
      BY <2>3 DEF PlanLeft
  <1>12. ASSUME ~overlap
         PROVE  InTurn'
    <2>1. InTurn
      BY <1>12 DEF ApplyInv
    <2>2. \A s \in Applies : AloneDoes(s) => AloneDoes(s)'
      <3> SUFFICES ASSUME NEW s \in Applies, AloneDoes(s)
                   PROVE  AloneDoes(s)'
        OBVIOUS
      <3>1. ~Applied(apply[s].plan)'
        BY <1>1, <1>8, RecordOf DEF AloneDoes, Applied
      <3>2. /\ Seen(s, MarkRow)' = Seen(s, MarkRow) /\ Seen(s, StateRow)' = Seen(s, StateRow)
            /\ \A d \in Candidates : Seen(s, NoteRow(d))' = Seen(s, NoteRow(d))
        BY <1>5, <1>6 DEF Seen
      <3>3. Evident(s)'
        BY <1>10, <3>2 DEF AloneDoes, Evident, OnPart
      <3>4. MarkFits(s)'
        BY <1>1, <1>10, <3>2, RecordOf DEF AloneDoes, MarkFits, MarkSound, NotesSound
      <3>5. Stated(s)'
        BY <1>6, <1>10, <3>2 DEF AloneDoes, Stated, Closed
      <3> QED
        BY <3>1, <3>3, <3>4, <3>5 DEF AloneDoes
    <2>3. \A s \in Applies : Working(s)' => AloneDoes(s)'
      BY <1>10, <2>1, <2>2 DEF InTurn
    <2>4. (\A s, t \in Applies : Underway(s) /\ Underway(t) => s = t)'
      BY <1>10, <2>1 DEF InTurn
    <2>5. (\A q \in Plans : Applied(q) => /\ Takes(q, "merge") => CandidateOf[q] \in merged
                                          /\ Takes(q, "supersede") => Closed(rows[StateRow]))'
      BY <1>6, <1>8, <2>1 DEF InTurn, Takes, Closed
    <2>6. (rows[MarkRow] \in Candidates => markedBy = rows[MarkRow])'
      BY <1>6, <2>1 DEF InTurn
    <2>7. (\A d \in Candidates : Replacer(rows[NoteRow(d)]) => rows[MarkRow] # "unmarked")'
      BY <1>5, <1>6, <2>1 DEF InTurn, Replacer
    <2> QED
      BY <2>3, <2>4, <2>5, <2>6, <2>7 DEF InTurn
  <1> QED
    BY <1>9, <1>10, <1>11, <1>12 DEF ApplyInv

(* Nothing that the invariant is about depends on the reviewer's reads.     *)
LEMMA StillKeeps ==
  ASSUME ApplyInv, UNCHANGED <<fileVars, rows, pending, apply, applyFaults, overlap>>,
         reading' \subseteq ConflictKeys
  PROVE  ApplyInv'
  <1>1. /\ made' = made /\ merged' = merged /\ markedBy' = markedBy /\ rows' = rows
        /\ pending' = pending /\ apply' = apply /\ applyFaults' = applyFaults
        /\ overlap' = overlap
    BY DEF fileVars
  <1>2. Shapes'
    BY <1>1 DEF ApplyInv, Shapes, RowsFit, Filed, Fits
  <1>3. \A s \in Applies : /\ OnScript(s)' /\ OwnRows(s)' /\ (Working(s)' => Does(s)')
                           /\ (Underway(s)' <=> Underway(s)) /\ (Working(s)' <=> Working(s))
                           /\ \A step : /\ Done(s, step)' <=> Done(s, step)
                                        /\ OnStep(s, step)' <=> OnStep(s, step)
    <2> TAKE s \in Applies
    <2>1. apply'[s] = apply[s] /\ pending'[s] = pending[s]
          /\ \A l \in Keys : rows[l] # NoRow => rows'[l] # NoRow
      BY <1>1
    <2>2. Working(s)' <=> Working(s)
      BY <1>1 DEF Working
    <2> QED
      BY <1>1, <2>1, <2>2, BystanderKeeps DEF ApplyInv
  <1>4. \A q \in Plans : Applied(q)' => PlanLeft(q)'
    <2> TAKE q \in Plans
    <2>1. \A c \in Candidates : LeftRows(q, c) => LeftRows(q, c)'
      BY <1>1 DEF LeftRows, Takes, Fits
    <2> QED
      BY <1>1, <2>1 DEF ApplyInv, Applied, PlanLeft
  <1>5. ASSUME ~overlap
        PROVE  InTurn'
    <2>1. \A s \in Applies : AloneDoes(s) => AloneDoes(s)'
      <3> SUFFICES ASSUME NEW s \in Applies, AloneDoes(s)
                   PROVE  AloneDoes(s)'
        OBVIOUS
      <3>1. \A l : Seen(s, l)' = Seen(s, l)
        BY <1>1 DEF Seen
      <3>2. Evident(s)'
        BY <1>1, <1>3, <3>1 DEF AloneDoes, Evident, OnPart
      <3>3. MarkFits(s)'
        BY <1>1, <1>3, <3>1 DEF AloneDoes, MarkFits, MarkSound, NotesSound
      <3>4. Stated(s)'
        BY <1>1, <1>3, <3>1 DEF AloneDoes, Stated, Closed
      <3> QED
        BY <1>1, <3>2, <3>3, <3>4 DEF AloneDoes, Applied
    <2> QED
      BY <1>1, <1>3, <1>5, <2>1 DEF ApplyInv, InTurn, Applied, Takes, Closed, Replacer
  <1> QED
    BY <1>2, <1>3, <1>4, <1>5 DEF ApplyInv

-----------------------------------------------------------------------------
LEMMA ApplyInitially == ApplyInit => ApplyInv
  <1> SUFFICES ASSUME ApplyInit
               PROVE  ApplyInv
    OBVIOUS
  <1>1. /\ made = [c \in Candidates |-> NoRow] /\ merged = {} /\ markedBy = "unmarked"
        /\ rows = [Untouched EXCEPT ![MarkRow] = "unmarked"] /\ reading = {}
        /\ pending = [r \in Applies |-> Untouched] /\ apply = [r \in Applies |-> NoApply]
        /\ applyFaults = 0 /\ overlap = FALSE
    BY DEF ApplyInit
  <1>2. Untouched \in [Keys -> Contents] /\ \A k \in Keys : Untouched[k] = NoRow
    BY DEF Untouched, Contents
  <1>3. NoApply \in ApplyRecords /\ NoApply.at = "idle" /\ NoApply.part = "begin"
    BY NoApplyTyped
  <1>4. /\ rows \in [Keys -> Contents] /\ rows[MarkRow] = "unmarked"
        /\ \A k \in Keys : k # MarkRow => rows[k] = NoRow
    BY <1>1, <1>2, KeyKinds DEF Contents, Words
  <1>5. /\ rows[StateRow] = NoRow /\ \A q \in Plans : rows[ResultRow(q)] = NoRow
        /\ \A c \in Candidates : rows[NoteRow(c)] = NoRow
    <2>1. /\ StateRow \in Keys /\ StateRow # MarkRow
          /\ \A q \in Plans : ResultRow(q) \in Keys /\ ResultRow(q) # MarkRow
          /\ \A c \in Candidates : NoteRow(c) \in Keys /\ NoteRow(c) # MarkRow
      BY KeyKinds
    <2> QED
      BY <1>4, <2>1
  <1>6. RowsFit(rows) /\ Filed(rows)
    BY <1>4, <1>5, Values DEF RowsFit, Filed
  <1>7. RowsFit(Untouched) /\ Filed(Untouched)
    <2>1. /\ StateRow \in Keys /\ MarkRow \in Keys /\ \A q \in Plans : ResultRow(q) \in Keys
          /\ \A c \in Candidates : NoteRow(c) \in Keys
      BY KeyKinds
    <2> QED
      BY <1>2, <2>1, Values DEF RowsFit, Filed
  <1>8. Shapes
    <2>1. pending \in [Applies -> [Keys -> Contents]] /\ apply \in [Applies -> ApplyRecords]
      BY <1>1, <1>2, <1>3
    <2>2. applyFaults \in 0..MaxApplyFaults
      BY <1>1, ApplyAssumption
    <2>3. made \in [Candidates -> Plans \cup {NoRow}] /\ \A c \in Candidates : made[c] = NoRow
      BY <1>1
    <2> QED
      BY <1>1, <1>4, <1>6, <2>1, <2>2, <2>3, Values DEF Shapes
  <1>9. \A r \in Applies : ~Underway(r) /\ ~Working(r) /\ apply[r].at = "idle" /\ apply[r].part = "begin"
    BY <1>1, <1>3 DEF Underway, Working
  <1>10. \A r \in Applies : OnScript(r) /\ OwnRows(r)
    <2> TAKE r \in Applies
    <2>1. OnScript(r)
      BY <1>9 DEF OnScript, OnStep
    <2>2. pending[r] = Untouched /\ (\A k \in ConflictKeys : pending[r][k] = NoRow)
          /\ \A q \in Plans : pending[r][ResultRow(q)] = NoRow
      BY <1>1, <1>2, KeyKinds
    <2> QED
      BY <1>7, <2>1, <2>2 DEF OwnRows
  <1>11. \A q \in Plans : ~Applied(q)
    BY <1>5, Values DEF Applied, Outcomes
  <1>12. InTurn
    BY <1>1, <1>4, <1>5, <1>9, <1>11, Values DEF InTurn, Replacer
  <1> QED
    BY <1>8, <1>9, <1>10, <1>11, <1>12 DEF ApplyInv

LEMMA ApplyStep == ApplyInv /\ [ApplyNext]_applyVars => ApplyInv'
  <1> SUFFICES ASSUME ApplyInv, [ApplyNext]_applyVars
               PROVE  ApplyInv'
    OBVIOUS
  <1>1. CASE \E r \in Applies :
          \/ Apply(r) \/ Reindex(r) \/ SaveContext(r) \/ IndexContext(r)
          \/ MarkTarget(r) \/ IndexTarget(r) \/ Verify(r) \/ ReadEvidence(r)
          \/ MergeEvidence(r) \/ Supersede(r) \/ Select(r) \/ Flush(r)
          \/ CommitApply(r) \/ AbortApply(r)
    BY <1>1, ApplyKeeps, ReindexKeeps, SaveKeeps, IndexContextKeeps, MarkTargetKeeps,
       IndexTargetKeeps, VerifyKeeps, ReadKeeps, MergeKeeps, SupersedeKeeps, SelectKeeps,
       FlushKeeps, CommitApplyKeeps, AbortApplyKeeps
  <1>2. CASE ReadConflict
    <2>1. reading' \subseteq ConflictKeys
      BY <1>2 DEF ReadConflict, ApplyInv, Shapes
    <2> QED
      BY <1>2, <2>1, StillKeeps DEF ReadConflict
  <1>3. CASE MarkReviewing
    <2>1. PICK k \in reading : Review(k, "reviewing") /\ reading' = reading \ {k}
      BY <1>3 DEF MarkReviewing
    <2>2. k \in ConflictKeys /\ reading' \subseteq ConflictKeys
      BY <2>1 DEF ApplyInv, Shapes
    <2> QED
      BY <1>3, <2>1, <2>2, ReviewKeeps DEF MarkReviewing, fileVars
  <1>4. CASE ResolveConflict
    <2>1. PICK k \in ConflictKeys : Review(k, "resolved")
      BY <1>4 DEF ResolveConflict
    <2>2. reading' \subseteq ConflictKeys
      BY <1>4 DEF ResolveConflict, ApplyInv, Shapes
    <2> QED
      BY <1>4, <2>1, <2>2, ReviewKeeps DEF ResolveConflict, fileVars
  <1>5. CASE UNCHANGED applyVars
    <2>1. reading' \subseteq ConflictKeys
      BY <1>5 DEF applyVars, ApplyInv, Shapes
    <2> QED
      BY <1>5, <2>1, StillKeeps DEF applyVars
  <1> QED
    BY <1>1, <1>2, <1>3, <1>4, <1>5 DEF ApplyNext

(* Files, rows and results are of their kinds for any plans and any         *)
(* requests, and a request that is not under way has flushed nothing.       *)
THEOREM ApplyTypes == ApplySpec => []ApplyTypeOK
  <1>1. ApplyInv => ApplyTypeOK
    BY DEF ApplyInv, Shapes, RowsFit, Outcomes, OwnRows, ApplyTypeOK
  <1> QED
    BY <1>1, ApplyInitially, ApplyStep, PTL DEF ApplySpec

(* An APPLIED plan has left what its actions promise in files and rows,     *)
(* whatever overlapped, failed, died or was retried; with requests in turn, *)
(* its evidence, and the mark and the closing of the Context that it        *)
(* supersedes too (AppliedIsDone).                                          *)
THEOREM AppliedPlansAreDone == ApplySpec => []AppliedIsDone
  <1>1. ApplyInv => AppliedIsDone
    <2> SUFFICES ASSUME ApplyInv, NEW p \in Plans, Applied(p)
                 PROVE  /\ \E c \in Candidates : Left(p, c)
                        /\ Takes(p, "conflict") => rows[ConflictRow(p)] # NoRow
                        /\ ~overlap => /\ Takes(p, "merge") => CandidateOf[p] \in merged
                                       /\ Takes(p, "supersede") => rows[StateRow].closed
      BY DEF AppliedIsDone
    <2>1. PICK c \in Candidates : LeftRows(p, c)
      BY DEF ApplyInv, PlanLeft
    <2>2. Left(p, c)
      BY <2>1 DEF ApplyInv, Shapes, Filed, LeftRows, Left, Fits
    <2>3. ~overlap => /\ Takes(p, "merge") => CandidateOf[p] \in merged
                      /\ Takes(p, "supersede") => rows[StateRow].closed
      BY DEF ApplyInv, InTurn, Closed
    <2> QED
      BY <2>1, <2>2, <2>3 DEF LeftRows
  <1> QED
    BY <1>1, ApplyInitially, ApplyStep, PTL DEF ApplySpec

(* While requests come in turn, a settled conflict is opened again only by  *)
(* the first successful application of a plan for the same candidate and    *)
(* claim, or by a reviewer's older read, and no retry replaces an APPLIED   *)
(* result (SettledForGood).                                                 *)
THEOREM SettledStays == ApplySpec => SettledForGood
  <1> DEFINE Settles ==
          /\ \A k \in ConflictKeys : rows[k] = "resolved" /\ rows'[k] # "resolved" =>
                \/ k \in reading /\ rows'[k] = "reviewing"
                \/ \E r \in Applies :
                      /\ apply[r].at = "closing" /\ ConflictRow(apply[r].plan) = k
                      /\ ~Applied(apply[r].plan)
          /\ \A p \in Plans : Applied(p) => Applied(p)'
  <1>1. ApplyInv /\ [ApplyNext]_applyVars => [~overlap => Settles]_applyVars
    <2> SUFFICES ASSUME ApplyInv, [ApplyNext]_applyVars, ~overlap
                 PROVE  Settles
      OBVIOUS
    <2>0. rows \in [Keys -> Contents]
      BY DEF ApplyInv, Shapes
    <2>1. CASE \E r \in Applies : CommitApply(r)
      <3>1. PICK r \in Applies : CommitApply(r)
        BY <2>1
      <3>2. ~Applied(apply[r].plan) /\ \A p \in Plans : Applied(p) => Applied(p)'
        BY <3>1, CommitAlone
      <3>3. /\ apply[r].at = "closing" /\ OwnRows(r) /\ \A k \in Keys : rows'[k] = Seen(r, k)
        BY <3>1, CommitDoes DEF CommitApply
      <3>4. ASSUME NEW k \in ConflictKeys, rows[k] = "resolved", rows'[k] # "resolved"
            PROVE  ConflictRow(apply[r].plan) = k
        <4>1. k \in Keys
          BY KeyKinds
        <4>2. pending[r][k] # NoRow
          BY <3>3, <3>4, <4>1 DEF Seen
        <4> QED
          BY <3>3, <4>2 DEF OwnRows
      <3> QED
        BY <3>2, <3>3, <3>4
    <2>2. ASSUME NEW k \in ConflictKeys, NEW status,
                 Review(k, status),
                 status = "resolved" \/ (status = "reviewing" /\ k \in reading)
          PROVE  Settles
      <3>1. k \in Keys /\ k[1] = "conflict"
            /\ \A p \in Plans : ResultRow(p) \in Keys /\ ResultRow(p)[1] = "result"
        BY KeyKinds
      <3>2. rows'[k] = status /\ \A l \in Keys : l # k => rows'[l] = rows[l]
        BY <2>0, <2>2, <3>1 DEF Review
      <3>3. \A p \in Plans : Applied(p) => Applied(p)'
        BY <3>1, <3>2 DEF Applied
      <3>4. \A l \in ConflictKeys : rows[l] = "resolved" /\ rows'[l] # "resolved" =>
               l \in reading /\ rows'[l] = "reviewing"
        BY <2>2, <3>2, KeyKinds
      <3> QED
        BY <3>3, <3>4
    <2>3. CASE MarkReviewing
      <3>1. reading \subseteq ConflictKeys
        BY DEF ApplyInv, Shapes
      <3> QED
        BY <2>2, <2>3, <3>1 DEF MarkReviewing
    <2>4. CASE ResolveConflict
      BY <2>2, <2>4 DEF ResolveConflict
    <2>5. CASE rows' = rows
      BY <2>5 DEF Applied
    <2>6. \/ rows' = rows \/ MarkReviewing \/ ResolveConflict
          \/ \E r \in Applies : CommitApply(r)
      BY DEF ApplyNext, applyVars, Apply, Reindex, SaveContext, IndexContext, MarkTarget,
             IndexTarget, Verify, ReadEvidence, MergeEvidence, Supersede, Select, Flush,
             AbortApply, ReadConflict
    <2> QED
      BY <2>1, <2>3, <2>4, <2>5, <2>6
  <1>2. ApplySpec => [][~overlap => Settles]_applyVars
    BY <1>1, ApplyInitially, ApplyStep, PTL DEF ApplySpec
  <1> QED
    BY <1>2 DEF SettledForGood
=============================================================================
