--------------------------- MODULE VaultIndexProofs ---------------------------
(***************************************************************************)
(* Proofs about the writers of notes and the index behind them, for any    *)
(* paths, ids and requests.  First: an explicit creation replaces no file  *)
(* that came with a lane, because its check and its write lie under one    *)
(* exclusive lane.  A person or the rename of a move may come between.     *)
(* Then: a row differs from its file only where the history says why.      *)
(***************************************************************************)
EXTENDS VaultIndex, WellFoundedInduction, TLAPS

Writes == {"resolving", "checking", "matching", "writing"}
Reindexes == {"scanning", "rejecting", "looking", "flushing", "settling"}

(* The request needs its lane: it writes, or reindexes before it writes.    *)
Inside(o) == o.at \in Writes \/ (o.at \in Reindexes /\ o.back = "resolving" /\ ~o.wrote)

(* What a request's local state always satisfies.                           *)
Sound(o) ==
    /\ DOMAIN o = DOMAIN Fresh
    /\ o.at \notin {"idle", "ok", "failed"} => o.path \in Paths
    /\ o.wrote \in BOOLEAN /\ o.scanned \in BOOLEAN
    /\ o.back \in {"idle", "reading", "resolving"}
    /\ o.wrote => o.at \in {"looking", "flushing", "committing", "failing"}
    /\ o.at \in {"looking", "flushing", "rejecting"} => o.wrote \/ o.scanned
    /\ Inside(o) => o.lane = Mode(o.kind)

(* A creation that was admitted still finds no file, or was overtaken by    *)
(* somebody who takes no lane.                                              *)
Clear(r) == file[req[r].path] = NoFile \/ r \in overtaken
Admitted(o) == o.kind = "create" /\ o.at \in Writes \ {"resolving"}

OneExclusive ==
    \A r, s \in Requests : (r # s /\ req[r].lane = "exclusive") => req[s].lane = "none"

VaultInv ==
    /\ DOMAIN file = Paths /\ DOMAIN req = Requests
    /\ \A r \in Requests : Sound(req[r])
    /\ OneExclusive
    /\ \A r \in Requests : Admitted(req[r]) => Clear(r)

LEMMA FreshSound ==
  \A at \in {"idle", "ok", "failed"} :
      /\ Sound([Fresh EXCEPT !.at = at]) /\ [Fresh EXCEPT !.at = at].lane = "none"
      /\ ~Admitted([Fresh EXCEPT !.at = at])
  BY DEF Sound, Fresh, Inside, Writes, Reindexes, Admitted

LEMMA IdleSound == Sound(Fresh) /\ Fresh.lane = "none" /\ ~Admitted(Fresh)
  BY DEF Sound, Fresh, Inside, Writes, Reindexes, Admitted

LEMMA VaultInitially == Init => VaultInv
  <1> SUFFICES ASSUME Init
               PROVE  VaultInv
    OBVIOUS
  <1>1. \A r \in Requests : req[r] = Fresh /\ Sound(req[r]) /\ req[r].lane = "none"
                            /\ ~Admitted(req[r])
    BY IdleSound DEF Init
  <1> QED
    BY <1>1 DEF Init, VaultInv, OneExclusive

(* One request goes on, keeping or giving back its lane; files stay.        *)
LEMMA LocalStep ==
  ASSUME VaultInv, NEW r \in Requests, NEW o, req' = [req EXCEPT ![r] = o],
         file' = file, overtaken' = overtaken, Sound(o), o.lane \in {req[r].lane, "none"},
         Admitted(o) => file[o.path] = NoFile \/ r \in overtaken
  PROVE  VaultInv'
  <1>1. /\ DOMAIN req' = Requests /\ req'[r] = o
        /\ \A s \in Requests : s # r => req'[s] = req[s]
    BY DEF VaultInv
  <1>2. \A s \in Requests : Sound(req[s])'
    <2> SUFFICES ASSUME NEW s \in Requests
                 PROVE  Sound(req'[s])
      BY DEF Sound, Fresh, Inside, Mode
    <2> QED
      BY <1>1 DEF VaultInv
  <1>3. OneExclusive'
    BY <1>1 DEF VaultInv, OneExclusive
  <1>4. \A s \in Requests : Admitted(req'[s]) => Clear(s)'
    BY <1>1 DEF VaultInv, Clear
  <1>5. \A s \in Requests : Admitted(req[s])' => Clear(s)'
    BY <1>4 DEF Admitted
  <1> QED
    BY <1>1, <1>2, <1>3, <1>5 DEF VaultInv

-----------------------------------------------------------------------------
LEMMA StartStep ==
  ASSUME VaultInv, NEW r \in Requests, Start(r)
  PROVE  VaultInv'
  <1>1. PICK kind \in KindsOf[r], p \in Paths,
             named \in {NoId} \cup {Known(q) : q \in Seeded}, careful \in BOOLEAN :
             req' = [req EXCEPT ![r] = Begun(kind, p, named, careful)]
    BY DEF Start
  <1> DEFINE from == IF kind = "archive" THEN "reading" ELSE "entering"
             expects == IF careful THEN file[p].text ELSE Anything
             o == [Fresh EXCEPT !.at = from, !.kind = kind, !.path = p, !.named = named,
                                !.expects = expects]
  <1>2. req' = [req EXCEPT ![r] = o] /\ UNCHANGED <<file, overtaken>>
    BY <1>1 DEF Start, Begun
  <1>3. from \in {"reading", "entering"}
    OBVIOUS
  <1> HIDE DEF from, expects
  <1>4. /\ DOMAIN o = DOMAIN Fresh /\ o.at \in {"reading", "entering"} /\ o.path = p
        /\ o.wrote = FALSE /\ o.scanned = FALSE /\ o.lane = "none" /\ o.back = "idle"
    BY <1>3 DEF Fresh
  <1> HIDE DEF o
  <1>5. Sound(o) /\ ~Admitted(o)
    BY <1>4 DEF Sound, Inside, Writes, Reindexes, Admitted
  <1> QED
    BY <1>2, <1>4, <1>5, LocalStep

(* The lane is granted: to one request alone, or to several that share it.  *)
LEMMA EnterStep ==
  ASSUME VaultInv, NEW r \in Requests, Enter(r)
  PROVE  VaultInv'
  <1> DEFINE mode == Mode(req[r].kind)
             o == [req[r] EXCEPT !.at = Entry(req[r].kind), !.lane = mode]
  <1>1. /\ Sound(req[r]) /\ req[r].at = "entering" /\ Grantable(r, mode)
        /\ req' = [req EXCEPT ![r] = o] /\ UNCHANGED <<file, overtaken>>
    BY DEF VaultInv, Enter, At
  <1>2. mode \in {"shared", "exclusive"}
    BY DEF Mode
  <1> HIDE DEF mode
  <1>3. /\ DOMAIN o = DOMAIN req[r] /\ o.at = Entry(req[r].kind) /\ o.lane = mode
        /\ o.kind = req[r].kind /\ o.path = req[r].path /\ o.wrote = req[r].wrote
        /\ o.scanned = req[r].scanned /\ o.back = req[r].back
    BY <1>1 DEF Sound, Fresh
  <1>4. Entry(req[r].kind) \in {"checking", "resolving", "scanning"}
        /\ (Entry(req[r].kind) = "checking" => req[r].kind = "save")
    BY DEF Entry
  <1> HIDE DEF o
  <1>5. Sound(o)
    BY <1>1, <1>3, <1>4 DEF Sound, mode
  <1>6. ~Admitted(o)
    BY <1>3, <1>4 DEF Admitted, Writes
  <1>7. /\ DOMAIN req' = Requests /\ req'[r] = o
        /\ \A s \in Requests : s # r => req'[s] = req[s]
    BY <1>1 DEF VaultInv
  <1>8. \A s \in Requests : Sound(req'[s])
    BY <1>5, <1>7 DEF VaultInv
  <1>9. OneExclusive'
    BY <1>1, <1>2, <1>3, <1>7 DEF VaultInv, OneExclusive, Grantable
  <1>10. \A s \in Requests : Admitted(req'[s]) => Clear(s)'
    BY <1>1, <1>6, <1>7 DEF VaultInv, Clear
  <1> QED
    BY <1>1, <1>7, <1>8, <1>9, <1>10 DEF VaultInv, Sound, Fresh, Inside, Mode, Admitted

(* A request that fails gives its lane back.                                *)
LEMMA FailStep ==
  ASSUME VaultInv, NEW r \in Requests, Fail(r), file' = file, overtaken' = overtaken,
         req[r].at \notin {"idle", "ok", "failed"}
  PROVE  VaultInv'
  <1> DEFINE o == [req[r] EXCEPT !.at = "failing", !.lane = "none", !.scan = <<>>, !.todo = {}]
  <1>1. Sound(req[r]) /\ req' = [req EXCEPT ![r] = o]
    BY DEF VaultInv, Fail
  <1>2. Sound(o) /\ ~Admitted(o) /\ o.lane = "none"
    BY <1>1 DEF Sound, Fresh, Inside, Writes, Reindexes, Admitted
  <1> HIDE DEF o
  <1> QED
    BY <1>1, <1>2, LocalStep

LEMMA ResolveStep ==
  ASSUME VaultInv, NEW r \in Requests, Resolve(r)
  PROVE  VaultInv'
  <1>1. /\ Sound(req[r]) /\ req[r].at = "resolving" /\ UNCHANGED <<file, overtaken>>
        /\ req[r].lane = Mode(req[r].kind) /\ ~req[r].wrote
    BY DEF VaultInv, Resolve, At, Sound, Inside, Writes
  <1>2. CASE req' = [req EXCEPT ![r].at = "scanning", ![r].back = "resolving"]
    <2> DEFINE o == [req[r] EXCEPT !.at = "scanning", !.back = "resolving"]
    <2>1. req' = [req EXCEPT ![r] = o]
      BY <1>2 DEF VaultInv
    <2>2. Sound(o) /\ ~Admitted(o) /\ o.lane = req[r].lane
      BY <1>1 DEF Sound, Fresh, Inside, Writes, Reindexes, Admitted
    <2> HIDE DEF o
    <2> QED
      BY <1>1, <2>1, <2>2, LocalStep
  <1>3. ASSUME NEW id, req' = [req EXCEPT ![r].at = "checking", ![r].named = id],
               req[r].kind # "create"
        PROVE  VaultInv'
    <2> DEFINE o == [req[r] EXCEPT !.at = "checking", !.named = id]
    <2>1. req' = [req EXCEPT ![r] = o]
      BY <1>3 DEF VaultInv
    <2>2. Sound(o) /\ ~Admitted(o) /\ o.lane = req[r].lane
      BY <1>1, <1>3 DEF Sound, Fresh, Inside, Writes, Reindexes, Admitted
    <2> HIDE DEF o
    <2> QED
      BY <1>1, <2>1, <2>2, LocalStep
  <1>4. CASE Goto(r, "checking") /\ file[Path(r)] = NoFile
    <2> DEFINE o == [req[r] EXCEPT !.at = "checking"]
    <2>1. req' = [req EXCEPT ![r] = o]
      BY <1>4 DEF VaultInv, Goto
    <2>2. Sound(o) /\ o.path = req[r].path /\ o.lane = req[r].lane
      BY <1>1 DEF Sound, Fresh, Inside, Writes, Reindexes
    <2> HIDE DEF o
    <2> QED
      BY <1>1, <1>4, <2>1, <2>2, LocalStep DEF Path
  <1>5. CASE Fail(r)
    BY <1>1, <1>5, FailStep
  <1> QED
    BY <1>2, <1>3, <1>4, <1>5 DEF Resolve

LEMMA CheckStep ==
  ASSUME VaultInv, NEW r \in Requests, Check(r)
  PROVE  VaultInv'
  <1>1. /\ Sound(req[r]) /\ req[r].at = "checking" /\ UNCHANGED <<file, overtaken>>
        /\ Admitted(req[r]) => Clear(r)
    BY DEF VaultInv, Check, At
  <1>2. ASSUME NEW id, req' = [req EXCEPT ![r].at = "matching", ![r].id = id]
        PROVE  VaultInv'
    <2> DEFINE o == [req[r] EXCEPT !.at = "matching", !.id = id]
    <2>1. req' = [req EXCEPT ![r] = o]
      BY <1>2 DEF VaultInv
    <2>2. /\ Sound(o) /\ o.path = req[r].path /\ o.lane = req[r].lane
          /\ Admitted(o) => Admitted(req[r])
      BY <1>1 DEF Sound, Fresh, Inside, Writes, Reindexes, Admitted
    <2> HIDE DEF o
    <2> QED
      BY <1>1, <2>1, <2>2, LocalStep DEF Clear
  <1>3. CASE Fail(r)
    BY <1>1, <1>3, FailStep
  <1> QED
    BY <1>2, <1>3 DEF Check

LEMMA MatchStep ==
  ASSUME VaultInv, NEW r \in Requests, Match(r)
  PROVE  VaultInv'
  <1>1. /\ Sound(req[r]) /\ req[r].at = "matching" /\ UNCHANGED <<file, overtaken>>
        /\ Admitted(req[r]) => Clear(r)
    BY DEF VaultInv, Match, At
  <1>2. CASE Goto(r, "writing")
    <2> DEFINE o == [req[r] EXCEPT !.at = "writing"]
    <2>1. req' = [req EXCEPT ![r] = o]
      BY <1>2 DEF VaultInv, Goto
    <2>2. /\ Sound(o) /\ o.path = req[r].path /\ o.lane = req[r].lane
          /\ Admitted(o) => Admitted(req[r])
      BY <1>1 DEF Sound, Fresh, Inside, Writes, Reindexes, Admitted
    <2> HIDE DEF o
    <2> QED
      BY <1>1, <2>1, <2>2, LocalStep DEF Clear
  <1>3. CASE Fail(r)
    BY <1>1, <1>3, FailStep
  <1> QED
    BY <1>2, <1>3 DEF Match

(* A file is replaced at a path where no other request is about to create.  *)
LEMMA WroteStep ==
  ASSUME VaultInv, NEW r \in Requests, NEW p \in Paths, NEW f, Wrote(r, p, f),
         req[r].at \notin {"idle", "ok", "failed"},
         overtaken' = overtaken,
         \A s \in Requests : (s # r /\ Admitted(req[s]) /\ s \notin overtaken) => req[s].path # p
  PROVE  VaultInv'
  <1> DEFINE scan == [q \in {p} |-> f]
             o == [req[r] EXCEPT !.at = "looking", !.path = p, !.wrote = TRUE,
                                 !.scan = scan, !.todo = {p}]
  <1>1. /\ Sound(req[r]) /\ req' = [req EXCEPT ![r] = o]
        /\ file' = [file EXCEPT ![p] = f]
    BY DEF VaultInv, Wrote
  <1>2. Sound(o) /\ ~Admitted(o) /\ o.lane = req[r].lane
    <2> HIDE DEF scan
    <2> QED
      BY <1>1 DEF Sound, Fresh, Inside, Writes, Reindexes, Admitted
  <1> HIDE DEF o
  <1>3. /\ DOMAIN req' = Requests /\ req'[r] = o /\ DOMAIN file' = Paths
        /\ \A s \in Requests : s # r => req'[s] = req[s]
    BY <1>1 DEF VaultInv
  <1>4. \A s \in Requests : Sound(req'[s])
    BY <1>2, <1>3 DEF VaultInv
  <1>5. OneExclusive'
    BY <1>2, <1>3 DEF VaultInv, OneExclusive
  <1>6. \A s \in Requests : Admitted(req'[s]) => Clear(s)'
    <2> SUFFICES ASSUME NEW s \in Requests, Admitted(req'[s]), s \notin overtaken
                 PROVE  file'[req'[s].path] = NoFile
      BY DEF Clear
    <2>1. s # r /\ req'[s] = req[s] /\ Admitted(req[s]) /\ req[s].path # p
      BY <1>2, <1>3
    <2>2. req[s].path \in Paths /\ file[req[s].path] = NoFile
      BY <2>1 DEF VaultInv, Sound, Admitted, Writes, Clear
    <2> QED
      BY <1>1, <2>1, <2>2 DEF VaultInv
  <1> QED
    BY <1>3, <1>4, <1>5, <1>6 DEF VaultInv, Sound, Fresh, Inside, Mode, Admitted

(* A writer has the lane, and so nobody else has an exclusive one.          *)
LEMMA WriteFileStep ==
  ASSUME VaultInv, NEW r \in Requests, WriteFile(r)
  PROVE  VaultInv'
  <1>1. /\ Sound(req[r]) /\ req[r].at = "writing" /\ req[r].path \in Paths
        /\ req[r].lane = Mode(req[r].kind)
    BY DEF VaultInv, WriteFile, At, Sound, Inside, Writes
  <1>2. \A s \in Requests : Admitted(req[s]) => req[s].lane = "exclusive"
    BY DEF VaultInv, Sound, Inside, Admitted, Mode, Writes
  <1>3. req[r].lane # "none"
    BY <1>1 DEF Mode
  <1>4. \A s \in Requests : s # r => ~Admitted(req[s])
    BY <1>2, <1>3 DEF VaultInv, OneExclusive
  <1> QED
    BY <1>1, <1>4, WroteStep DEF WriteFile, Path

(* A lifecycle patch has no lane, but it rewrites a note that is there.     *)
LEMMA PatchStep ==
  ASSUME VaultInv, NEW r \in Requests, Patch(r)
  PROVE  VaultInv'
  <1>1. Sound(req[r]) /\ req[r].at = "patching" /\ req[r].path \in Paths
    BY DEF VaultInv, Patch, At, Sound
  <1>2. CASE IsNote(file[Path(r)]) /\
             Wrote(r, Path(r), [file[Path(r)] EXCEPT !.text = @ \cup {r}])
    <2>1. \A s \in Requests : (Admitted(req[s]) /\ s \notin overtaken) => req[s].path # Path(r)
      BY <1>2 DEF VaultInv, Clear, IsNote
    <2> QED
      BY <1>1, <1>2, <2>1, WroteStep DEF Path, Patch
  <1>3. CASE Fail(r) /\ UNCHANGED file
    BY <1>1, <1>3, FailStep DEF Patch
  <1> QED
    BY <1>2, <1>3 DEF Patch

LEMMA ReadForArchiveStep ==
  ASSUME VaultInv, NEW r \in Requests, ReadForArchive(r)
  PROVE  VaultInv'
  <1> DEFINE found == PathsOf(r, req[r].named)
             there == CHOOSE p \in found : TRUE
  <1>1. Sound(req[r]) /\ req[r].at = "reading" /\ UNCHANGED <<file, overtaken>>
    BY DEF VaultInv, ReadForArchive, At
  <1>2. CASE found # {} /\ req' = [req EXCEPT ![r] = [@ EXCEPT !.at = "patching", !.path = there]]
    <2> DEFINE o == [req[r] EXCEPT !.at = "patching", !.path = there]
    <2>1. there \in Paths
      BY <1>2 DEF PathsOf
    <2>2. req' = [req EXCEPT ![r] = o]
      BY <1>2 DEF VaultInv
    <2> HIDE DEF there
    <2>3. Sound(o) /\ ~Admitted(o) /\ o.lane = req[r].lane
      BY <1>1, <2>1 DEF Sound, Fresh, Inside, Writes, Reindexes, Admitted
    <2> HIDE DEF o
    <2> QED
      BY <1>1, <2>2, <2>3, LocalStep
  <1>3. CASE req' = [req EXCEPT ![r] = [@ EXCEPT !.at = "entering", !.back = "reading"]]
    <2> DEFINE o == [req[r] EXCEPT !.at = "entering", !.back = "reading"]
    <2>1. req' = [req EXCEPT ![r] = o]
      BY <1>3 DEF VaultInv
    <2>2. Sound(o) /\ ~Admitted(o) /\ o.lane = req[r].lane
      BY <1>1 DEF Sound, Fresh, Inside, Writes, Reindexes, Admitted
    <2> HIDE DEF o
    <2> QED
      BY <1>1, <2>1, <2>2, LocalStep
  <1>4. CASE req' = [req EXCEPT ![r] = [@ EXCEPT !.at = "failing"]]
    <2> DEFINE o == [req[r] EXCEPT !.at = "failing"]
    <2>1. req' = [req EXCEPT ![r] = o]
      BY <1>4 DEF VaultInv
    <2>2. Sound(o) /\ ~Admitted(o) /\ o.lane = req[r].lane
      BY <1>1 DEF Sound, Fresh, Inside, Writes, Reindexes, Admitted
    <2> HIDE DEF o
    <2> QED
      BY <1>1, <2>1, <2>2, LocalStep
  <1> QED
    BY <1>2, <1>3, <1>4 DEF ReadForArchive

-----------------------------------------------------------------------------
(* Index rows are written note by note.  A reindex keeps the lane for the   *)
(* write that it prepares; a write gives the lane back with the last row.   *)
LEMMA AdvanceStep ==
  ASSUME VaultInv, NEW r \in Requests, Advance(r), file' = file, overtaken' = overtaken,
         req[r].at \in {"rejecting", "looking", "flushing"}
  PROVE  VaultInv'
  <1> DEFINE rest == req[r].todo \ {Target(r)}
             next == IF req[r].at = "rejecting" THEN Accepted(req[r].scan) ELSE {}
             to == IF req[r].at = "rejecting" THEN "rejecting" ELSE "looking"
             o == Onward(r)
  <1>1. Sound(req[r])
    BY DEF VaultInv
  <1>2. /\ req' = [req EXCEPT ![r] = o]
        /\ \/ o = [req[r] EXCEPT !.todo = rest, !.at = to]
           \/ o = [req[r] EXCEPT !.todo = next, !.at = "looking"]
           \/ Indexing(r) /\ o = [req[r] EXCEPT !.todo = {}, !.at = "settling"]
           \/ o = [req[r] EXCEPT !.todo = {}, !.scan = <<>>, !.at = "committing",
                                 !.lane = "none"]
    BY Zenon DEF Advance, Onward
  <1>3. /\ req[r].at = "rejecting" => req[r].scanned /\ ~req[r].wrote
        /\ Inside(req[r]) => req[r].lane = Mode(req[r].kind)
        /\ ~req[r].wrote => req[r].scanned
        /\ Indexing(r) => ~req[r].wrote
    BY <1>1 DEF Sound, Indexing
  <1>4. to \in {"rejecting", "looking"} /\ (to = "rejecting" => req[r].at = "rejecting")
    OBVIOUS
  <1> HIDE DEF rest, next, to, o
  <1>5. /\ DOMAIN o = DOMAIN req[r] /\ o.lane \in {req[r].lane, "none"}
        /\ o.path = req[r].path /\ o.kind = req[r].kind /\ o.back = req[r].back
        /\ o.wrote = req[r].wrote /\ o.scanned = req[r].scanned
        /\ \/ o.at \in {"rejecting", "looking"} /\ o.lane = req[r].lane
              /\ (o.at = "rejecting" => req[r].at = "rejecting")
           \/ o.at = "settling" /\ o.lane = req[r].lane /\ ~req[r].wrote
           \/ o.at = "committing"
    BY <1>1, <1>2, <1>3, <1>4 DEF Sound, Fresh
  <1>6. Sound(o) /\ ~Admitted(o)
    BY <1>1, <1>3, <1>5 DEF Sound, Inside, Writes, Reindexes, Admitted
  <1> QED
    BY <1>2, <1>5, <1>6, LocalStep

LEMMA LookUpStep ==
  ASSUME VaultInv, NEW r \in Requests, LookUp(r)
  PROVE  VaultInv'
  <1> DEFINE seen == Around(r, Target(r), Payload(r).id)
             o == [req[r] EXCEPT !.at = "flushing", !.seen = seen]
  <1>1. /\ Sound(req[r]) /\ req[r].at = "looking" /\ UNCHANGED <<file, overtaken>>
        /\ req' = [req EXCEPT ![r] = o]
    BY DEF VaultInv, LookUp, At
  <1> HIDE DEF seen
  <1>2. Sound(o) /\ ~Admitted(o) /\ o.lane = req[r].lane
    BY <1>1 DEF Sound, Fresh, Inside, Writes, Reindexes, Admitted
  <1> HIDE DEF o
  <1> QED
    BY <1>1, <1>2, LocalStep

LEMMA RowsStep ==
  ASSUME VaultInv, NEW r \in Requests, Upsert(r) \/ UpsertFails(r) \/ RejectNote(r)
  PROVE  VaultInv'
  <1>1. req[r].at \in {"flushing", "rejecting"} /\ UNCHANGED <<file, overtaken>> /\ (Advance(r) \/ Fail(r))
    BY DEF Upsert, UpsertFails, RejectNote, Unindexed, At
  <1> QED
    BY <1>1, AdvanceStep, FailStep

LEMMA ScanStep ==
  ASSUME VaultInv, NEW r \in Requests, Scan(r)
  PROVE  VaultInv'
  <1> DEFINE todo == IF Rejected(file) # {} THEN Rejected(file) ELSE Accepted(file)
             to == IF Rejected(file) # {} THEN "rejecting"
                   ELSE IF Accepted(file) # {} THEN "looking" ELSE "settling"
             o == [req[r] EXCEPT !.scan = file, !.scanned = TRUE, !.todo = todo, !.at = to]
  <1>1. /\ Sound(req[r]) /\ req[r].at = "scanning" /\ file' = file
        /\ overtaken' = overtaken
        /\ req' = [req EXCEPT ![r] = o]
    <2>1. Sound(req[r]) /\ r \in DOMAIN req
      BY DEF VaultInv
    <2>2. req[r].at = "scanning" /\ file' = file /\ overtaken' = overtaken
      BY Zenon DEF Scan, At
    <2>3. req' = [req EXCEPT ![r].scan = file, ![r].scanned = TRUE, ![r].todo = todo,
                             ![r].at = to]
      BY Zenon DEF Scan
    <2>4. req' = [req EXCEPT ![r] = o]
      <3> HIDE DEF todo, to
      <3> QED
        BY <2>1, <2>3
    <2> QED
      BY <2>1, <2>2, <2>4, Zenon
  <1>2. to \in {"rejecting", "looking", "settling"}
    OBVIOUS
  <1> HIDE DEF todo, to
  <1>3. Sound(o) /\ ~Admitted(o) /\ o.lane = req[r].lane
    BY <1>1, <1>2 DEF Sound, Fresh, Inside, Writes, Reindexes, Admitted
  <1> HIDE DEF o
  <1> QED
    BY <1>1, <1>3, LocalStep

LEMMA SettleStep ==
  ASSUME VaultInv, NEW r \in Requests, Settle(r)
  PROVE  VaultInv'
  <1> DEFINE to == IF req[r].back # "idle" THEN req[r].back ELSE "committing"
             lane == IF req[r].back = "resolving" THEN req[r].lane ELSE "none"
             o == [req[r] EXCEPT !.scan = <<>>, !.at = to, !.lane = lane]
  <1>1. /\ Sound(req[r]) /\ req[r].at = "settling" /\ UNCHANGED <<file, overtaken>>
        /\ req' = [req EXCEPT ![r] = o]
    BY DEF VaultInv, Settle, At
  <1>2. req[r].back \in {"idle", "reading", "resolving"} /\ ~req[r].wrote
    BY <1>1 DEF Sound
  <1>3. /\ to \in {"reading", "resolving", "committing"} /\ lane \in {req[r].lane, "none"}
        /\ to = "resolving" => req[r].back = "resolving" /\ lane = req[r].lane
    BY <1>2
  <1> HIDE DEF to, lane
  <1>4. /\ DOMAIN o = DOMAIN Fresh /\ o.at = to /\ o.lane = lane
        /\ o.path = req[r].path /\ o.kind = req[r].kind /\ o.back = req[r].back
        /\ o.wrote = req[r].wrote /\ o.scanned = req[r].scanned
    BY <1>1 DEF Sound, Fresh
  <1> HIDE DEF o
  <1>5. Sound(o) /\ ~Admitted(o)
    BY <1>1, <1>2, <1>3, <1>4 DEF Sound, Inside, Writes, Reindexes, Admitted
  <1> QED
    BY <1>1, <1>3, <1>4, <1>5, LocalStep

-----------------------------------------------------------------------------
LEMMA RefuseStep ==
  ASSUME VaultInv, NEW r \in Requests, Refuse(r)
  PROVE  VaultInv'
  BY FailStep DEF Refuse, At

(* A request ends: by its commit or its rollback.                           *)
LEMMA EndStep ==
  ASSUME VaultInv, NEW r \in Requests, Commit(r) \/ Rollback(r)
  PROVE  VaultInv'
  <1>1. PICK at \in {"ok", "failed"} :
             req' = [req EXCEPT ![r] = [Fresh EXCEPT !.at = at]]
             /\ UNCHANGED <<file, overtaken>>
    BY DEF Commit, Rollback
  <1> DEFINE o == [Fresh EXCEPT !.at = at]
  <1>2. Sound(o) /\ ~Admitted(o) /\ o.lane = "none"
    BY <1>1, FreshSound
  <1> HIDE DEF o
  <1>3. req' = [req EXCEPT ![r] = o]
    BY <1>1 DEF o
  <1> QED
    BY <1>1, <1>2, <1>3, LocalStep

(* The process dies: every request under way ends and gives its lane back.  *)
LEMMA DieStep ==
  ASSUME VaultInv, Die
  PROVE  VaultInv'
  <1> DEFINE dead == [Fresh EXCEPT !.at = "failed"]
  <1>1. /\ DOMAIN req' = Requests /\ UNCHANGED <<file, overtaken>>
        /\ \A s \in Requests : req'[s] \in {dead, req[s]}
    BY DEF Die
  <1>2. Sound(dead) /\ ~Admitted(dead) /\ dead.lane = "none"
    BY FreshSound
  <1> HIDE DEF dead
  <1>3. \A s \in Requests : Sound(req'[s])
    BY <1>1, <1>2 DEF VaultInv
  <1>4. OneExclusive'
    <2> SUFFICES ASSUME NEW r \in Requests, NEW s \in Requests, r # s,
                        req'[r].lane = "exclusive"
                 PROVE  req'[s].lane = "none"
      BY DEF OneExclusive
    <2> QED
      BY <1>1, <1>2 DEF VaultInv, OneExclusive
  <1>5. \A s \in Requests : Admitted(req'[s]) => Clear(s)'
    BY <1>1, <1>2 DEF VaultInv, Clear
  <1> QED
    BY <1>1, <1>3, <1>4, <1>5 DEF VaultInv, Sound, Fresh, Inside, Mode, Admitted

(* Whoever takes no lane overtakes the creations at the paths it changes.   *)
LEMMA LanelessStep ==
  ASSUME VaultInv, (\E p \in Paths : UserEdits(p)) \/ \E p, q \in Paths : Renames(p, q)
  PROVE  VaultInv'
  <1>1. PICK P \in SUBSET Paths :
             /\ req' = req /\ DOMAIN file' = Paths
             /\ overtaken' = overtaken \cup UNION {Overtaken(p) : p \in P}
             /\ \A q \in Paths \ P : file'[q] = file[q]
    <2>1. ASSUME NEW p \in Paths, UserEdits(p)
          PROVE  \E P \in SUBSET Paths :
                    /\ req' = req /\ DOMAIN file' = Paths
                    /\ overtaken' = overtaken \cup UNION {Overtaken(k) : k \in P}
                    /\ \A q \in Paths \ P : file'[q] = file[q]
      <3>1. UNION {Overtaken(k) : k \in {p}} = Overtaken(p)
        OBVIOUS
      <3>2. /\ req' = req /\ DOMAIN file' = Paths
            /\ overtaken' = overtaken \cup Overtaken(p)
            /\ \A q \in Paths \ {p} : file'[q] = file[q]
        BY <2>1 DEF VaultInv, UserEdits
      <3> WITNESS {p} \in SUBSET Paths
      <3> QED
        BY <3>1, <3>2
    <2>2. ASSUME NEW p \in Paths, NEW q \in Paths, Renames(p, q)
          PROVE  \E P \in SUBSET Paths :
                    /\ req' = req /\ DOMAIN file' = Paths
                    /\ overtaken' = overtaken \cup UNION {Overtaken(k) : k \in P}
                    /\ \A k \in Paths \ P : file'[k] = file[k]
      <3>1. UNION {Overtaken(k) : k \in {p, q}} = Overtaken(p) \cup Overtaken(q)
        OBVIOUS
      <3>2. /\ req' = req /\ DOMAIN file' = Paths
            /\ overtaken' = overtaken \cup (Overtaken(p) \cup Overtaken(q))
            /\ \A k \in Paths \ {p, q} : file'[k] = file[k]
        BY <2>2 DEF VaultInv, Renames
      <3> WITNESS {p, q} \in SUBSET Paths
      <3> QED
        BY <3>1, <3>2
    <2> QED
      BY <2>1, <2>2
  <1>2. \A s \in Requests : Admitted(req[s]) => Clear(s)'
    <2> SUFFICES ASSUME NEW s \in Requests, Admitted(req[s])
                 PROVE  file'[req[s].path] = NoFile \/ s \in overtaken'
      BY <1>1 DEF Clear
    <2>1. /\ req[s].path \in Paths /\ Clear(s)
      BY DEF VaultInv, Sound, Admitted, Writes
    <2>2. s \in Overtaken(req[s].path)
      BY DEF Overtaken, Path, Admitted, Writes
    <2> QED
      BY <1>1, <2>1, <2>2 DEF Clear
  <1> QED
    BY <1>1, <1>2 DEF VaultInv, OneExclusive, Sound, Fresh, Inside, Mode, Admitted

LEMMA StutterStep ==
  ASSUME VaultInv, UNCHANGED vars
  PROVE  VaultInv'
  BY DEF VaultInv, Clear, vars, OneExclusive, Sound, Fresh, Inside, Mode, Admitted

LEMMA VaultStep == VaultInv /\ [Next]_vars => VaultInv'
  <1> SUFFICES ASSUME VaultInv, [Next]_vars
               PROVE  VaultInv'
    OBVIOUS
  <1>1. ASSUME NEW r \in Requests, Start(r) \/ Proceed(r) \/ UpsertFails(r)
        PROVE  VaultInv'
    BY <1>1, StartStep, EnterStep, RefuseStep, ResolveStep, CheckStep, MatchStep,
       WriteFileStep, ReadForArchiveStep, PatchStep, LookUpStep, RowsStep, ScanStep,
       SettleStep, EndStep DEF Proceed
  <1>2. CASE Die
    BY <1>2, DieStep
  <1>3. CASE (\E p \in Paths : UserEdits(p)) \/ \E p, q \in Paths : Renames(p, q)
    BY <1>3, LanelessStep
  <1>4. CASE UNCHANGED vars
    BY <1>4, StutterStep
  <1> QED
    BY <1>1, <1>2, <1>3, <1>4 DEF Next, Rest

(* write_note with mode "create" replaces no file that another request, in  *)
(* whatever lane, or the process left at the path between its check         *)
(* (obsidian_note_service.py:487) and its write (:361): what is there was    *)
(* brought or changed by somebody who takes no lane.                        *)
THEOREM CreationsNeverOverwrite == Spec => CreateNeverOverwrites
  <1>1. ASSUME VaultInv, NEW r \in Requests, WriteFile(r), req[r].kind = "create"
        PROVE  file[Path(r)] = NoFile \/ r \in overtaken
    BY <1>1 DEF VaultInv, WriteFile, At, Admitted, Writes, Path, Clear
  <1>2. VaultInv => [\A r \in Requests : WriteFile(r) /\ req[r].kind = "create"
                          => file[Path(r)] = NoFile \/ r \in overtaken]_vars
    BY <1>1
  <1> QED
    BY <1>2, VaultInitially, VaultStep, PTL DEF Spec, CreateNeverOverwrites

(***************************************************************************)
(* Rows mirror files.  A row without an uncommitted session mirrors its    *)
(* file, or its path is suspect, or some request owes it: it will still    *)
(* write the row or mark the path.  A pending row does so once its session *)
(* is committed.  That a copy turns into a row needs that copies are of    *)
(* files as they are or of suspects, that an id is at one path, and that a *)
(* session looks up its rows in the order of the paths.                    *)
(***************************************************************************)

(* Ids are native: an error row's id stays at the row's path.               *)
Free == {Minted(r) : r \in Requests} \cup {Known(p) : p \in Paths}
OwnIds(p) == Free \cup {ErrorId(p)}

Turns == {"rejecting", "looking", "flushing"}
Ended == {"idle", "ok", "failed"}

(* A request with copies of files that it puts into the index: of all of    *)
(* them, or of the one that it wrote.                                       *)
Copying(o) == o.at \in Turns \cup {"settling"}
Walking(o) == Copying(o) /\ ~o.wrote

(* The paths whose notes it has still to index; the paths that it leaves    *)
(* behind when it ends without a commit.                                    *)
Due(o, p) ==
    /\ o.at \in Turns
    /\ p \in o.todo \/ (o.at = "rejecting" /\ p \in Accepted(o.scan))
Leaves(o, p) == (o.wrote /\ p = o.path) \/ (o.scanned /\ p \in Paths)

(* It will still write the row, or mark the path as suspect.                *)
Owing(o, seen, p) ==
    \/ o.at = "failing" /\ Leaves(o, p)
    \/ Due(o, p)
    \/ Walking(o) /\ o.scan[p] = NoFile /\ seen # NoRow
Owes(r, p) == Owing(req[r], Visible(r, p), p)

(* A request's local state.                                                 *)
Shaped(o) ==
    /\ DOMAIN o = DOMAIN Fresh
    /\ o.at \in Points /\ o.kind \in Kinds
    /\ o.wrote \in BOOLEAN /\ o.scanned \in BOOLEAN
    /\ o.back \in {"idle", "reading", "resolving"}
    /\ o.at \notin Ended => o.path \in Paths
    /\ o.at \in Ended => o.lane = "none" /\ ~o.scanned /\ ~o.wrote
    /\ o.at \in {"entering", "scanning"} => ~o.scanned
    /\ o.at = "entering" => o.back # "resolving"
    /\ o.at \in {"reading", "resolving"} => (o.scanned <=> o.back = o.at)
    /\ o.at \notin {"looking", "flushing", "committing", "failing"} => ~o.wrote
    /\ o.at \in Turns \cup {"settling", "committing"} => o.wrote \/ o.scanned
    /\ o.at = "reading" \/ o.back = "reading" => o.kind = "archive"
    /\ o.at \in Writes \/ o.back = "resolving" => o.kind # "archive"
    /\ o.named \in {NoId} \cup OwnIds(o.path)
    /\ o.kind = "archive" => o.named \in {NoId} \cup Free
    /\ o.at \in {"matching", "writing"} => o.id \in OwnIds(o.path)
    /\ o.expects = Anything \/ o.expects \in Texts

(* Its copies, in the order in which it indexes them: first the notes that  *)
(* a reindex rejects, then the accepted ones.                               *)
Copied(o) ==
    /\ ~Copying(o) => o.scan = <<>>
    /\ o.wrote /\ Copying(o) =>
          /\ o.scan = [q \in {o.path} |-> o.scan[o.path]]
          /\ o.scan[o.path] \in Files /\ o.scan[o.path].id \in OwnIds(o.path)
          /\ o.scan[o.path].ok
          /\ o.todo = {o.path}
    /\ Walking(o) =>
          /\ o.scan \in [Paths -> Files \cup {NoFile, Plain}]
          /\ \A p \in Paths : IsNote(o.scan[p]) => o.scan[p].id \in OwnIds(p)
          /\ o.at = "rejecting" => o.todo # {} /\ o.todo \subseteq Rejected(o.scan)
          /\ o.at \in {"looking", "flushing"} => o.todo # {} /\ o.todo \subseteq Accepted(o.scan)

(* The rows of its session: none before it has copies to index; of a        *)
(* reindex, what became of the notes that it is past.                       *)
Pending(o, t) ==
    /\ t \in [Paths -> Rows \cup {NoRow, Same}]
    /\ \A p \in Paths : t[p] \notin {NoRow, Same} => t[p].id \in OwnIds(p)
    /\ ~o.scanned /\ o.at # "committing" => t = Unchanged
    /\ \A p \in Paths : (Walking(o) /\ IsNote(o.scan[p]) /\ ~Due(o, p)) =>
          \/ t[p] = ErrorRow(p)
          \/ p \in Accepted(o.scan) /\ t[p] = RowOf(o.scan[p])

Formed(o, t) == Shaped(o) /\ Copied(o) /\ Pending(o, t)

Typed ==
    /\ file \in [Paths -> Files \cup {NoFile, Plain}]
    /\ \A p \in Paths : IsNote(file[p]) => file[p].id \in OwnIds(p)
    /\ row \in [Paths -> Rows \cup {NoRow}]
    /\ \A p \in Paths : row[p] # NoRow => row[p].id \in OwnIds(p)
    /\ suspect \subseteq Paths /\ \A p \in Paths : file[p] = Plain => p \in suspect
    /\ DOMAIN req = Requests /\ tx \in [Requests -> [Paths -> Rows \cup {NoRow, Same}]]
    /\ \A r \in Requests : Formed(req[r], tx[r])

(* What an index that mirrors the files fs holds for a path.                *)
Mirror(fs, p) ==
    IF ~IsNote(fs[p]) THEN NoRow
    ELSE IF p \in Accepted(fs) THEN RowOf(fs[p]) ELSE ErrorRow(p)

OwedBy(R, p) == \E r \in R : Owes(r, p)

(* A committed row that no session replaces mirrors its file, unless the    *)
(* path is suspect or somebody still owes it.                               *)
CommittedExplained ==
    \A p \in Paths : (\A r \in Requests : tx[r][p] = Same) =>
        \/ p \in suspect \/ OwedBy(Requests, p)
        \/ row[p] = Mirror(file, p) /\ row[p] # ErrorRow(p)

(* So does a row that its session is about to commit; what a session has    *)
(* written outside the paths that it answers for is owed by another one.    *)
PendingExplained ==
    \A r \in Requests, p \in Paths : tx[r][p] # Same =>
        \/ p \in suspect \/ OwedBy(Requests \ {r}, p)
        \/ /\ Leaves(req[r], p)
           /\ Owes(r, p) \/ tx[r][p] \in {Mirror(file, p), ErrorRow(p)}

(* A row is in one session at most.                                         *)
OneHolder ==
    \A r, s \in Requests, p \in Paths : tx[r][p] # Same /\ tx[s][p] # Same => r = s

(* A copy is that of its file, and of one request, unless suspect; what is  *)
(* to be indexed as accepted is so among the files as they are.             *)
CopiesHold ==
    /\ \A r \in Requests : \A p \in DOMAIN req[r].scan :
          /\ req[r].scan[p] # file[p] => p \in suspect
          /\ \A s \in Requests \ {r} : p \in DOMAIN req[s].scan => p \in suspect
          /\ (req[r].wrote \/ p \in Accepted(req[r].scan))
                => p \in Accepted(file) \cup suspect

(* Nobody else has the id of a note that was just written, unless suspect.  *)
IdsApart ==
    \A r \in Requests : \A q \in DOMAIN req[r].scan : \A p \in Paths \ {q} :
        (req[r].wrote /\ IsNote(file[p]) /\ file[p].id = req[r].scan[q].id) => p \in suspect

MirrorInv ==
    Typed /\ CommittedExplained /\ PendingExplained /\ OneHolder /\ CopiesHold /\ IdsApart

-----------------------------------------------------------------------------
(* Ranks, and the files that keep an id.                                    *)
LEMMA Ranks ==
  ASSUME NEW p \in Paths
  PROVE  Rank(p) \in Nat /\ PathOrder[Rank(p)] = p
  <1>1. \E k \in DOMAIN PathOrder : PathOrder[k] = p
    BY DEF Paths
  <1>2. DOMAIN PathOrder \subseteq Nat
    BY VaultAssumption
  <1> QED
    BY <1>1, <1>2 DEF Rank

LEMMA FirstIsIn ==
  ASSUME NEW ps, ps \subseteq Paths, ps # {}
  PROVE  First(ps) \in ps
  <1> DEFINE R == OpToRel(<, Nat)
             T == {Rank(p) : p \in ps}
  <1>1. T \subseteq Nat /\ T # {}
    BY Ranks
  <1>2. PICK n \in T : \A m \in T : ~(<<m, n>> \in R)
    <2> HIDE DEF T, R
    <2>1. IsWellFoundedOn(R, Nat)
      BY NatLessThanWellFounded DEF R
    <2> QED
      BY <1>1, <2>1, WFMin
  <1>3. PICK p \in ps : Rank(p) = n
    OBVIOUS
  <1>4. \A q \in ps : Rank(p) <= Rank(q)
    <2> SUFFICES ASSUME NEW q \in ps
                 PROVE  Rank(p) <= Rank(q)
      OBVIOUS
    <2>1. Rank(q) \in T /\ Rank(p) \in Nat /\ Rank(q) \in Nat
      BY Ranks
    <2>2. ~(<<Rank(q), Rank(p)>> \in R)
      BY <1>2, <1>3, <2>1
    <2>3. ~(Rank(q) < Rank(p))
      BY <2>1, <2>2 DEF OpToRel
    <2> QED
      BY <2>1, <2>3
  <1> QED
    BY <1>4 DEF First

(* Two accepted notes have different ids; of those that share one, a note   *)
(* that is not accepted has another before it.                              *)
LEMMA AcceptedFacts ==
  ASSUME NEW fs
  PROVE  /\ \A p \in Accepted(fs) : p \in Paths /\ IsNote(fs[p]) /\ fs[p].ok
         /\ \A p, q \in Accepted(fs) : fs[p].id = fs[q].id => p = q
         /\ \A p \in Paths : (IsNote(fs[p]) /\ fs[p].ok /\ p \notin Accepted(fs)) =>
               \E q \in Paths \ {p} : IsNote(fs[q]) /\ fs[q].ok /\ fs[q].id = fs[p].id
  <1>1. \A p, q \in Accepted(fs) : fs[p].id = fs[q].id => p = q
    <2> SUFFICES ASSUME NEW p \in Accepted(fs), NEW q \in Accepted(fs), fs[p].id = fs[q].id
                 PROVE  p = q
      OBVIOUS
    <2>1. p \in Paths /\ q \in Paths /\ Rank(p) <= Rank(q) /\ Rank(q) <= Rank(p)
      BY DEF Accepted
    <2>2. Rank(p) = Rank(q)
      BY <2>1, Ranks
    <2> QED
      BY <2>1, <2>2, Ranks
  <1>2. ASSUME NEW p \in Paths, IsNote(fs[p]), fs[p].ok, p \notin Accepted(fs)
        PROVE  \E q \in Paths \ {p} : IsNote(fs[q]) /\ fs[q].ok /\ fs[q].id = fs[p].id
    <2>1. PICK q \in Paths : /\ IsNote(fs[q]) /\ fs[q].ok /\ fs[q].id = fs[p].id
                             /\ ~(Rank(p) <= Rank(q))
      BY <1>2 DEF Accepted
    <2>2. q # p
      BY <2>1, Ranks
    <2> QED
      BY <2>1, <2>2
  <1> QED
    BY <1>1, <1>2 DEF Accepted

(* Files that change leave the others as they are: accepted, unless they    *)
(* share a new id.                                                          *)
LEMMA OthersStay ==
  ASSUME NEW fs, NEW gs, NEW P, NEW q \in Paths, q \notin P,
         \A k \in Paths \ P : gs[k] = fs[k],
         \A p \in P : ~IsNote(gs[p]) \/ ~IsNote(fs[q]) \/ gs[p].id # fs[q].id
  PROVE  /\ q \in Accepted(fs) => q \in Accepted(gs)
         /\ Mirror(gs, q) = Mirror(fs, q) \/ Mirror(fs, q) = ErrorRow(q)
  <1>1. ASSUME q \in Accepted(fs)
        PROVE  q \in Accepted(gs)
    <2>1. IsNote(fs[q]) /\ fs[q].ok /\ gs[q] = fs[q]
      BY <1>1 DEF Accepted
    <2>2. ASSUME NEW k \in Paths, IsNote(gs[k]), gs[k].ok, gs[k].id = gs[q].id
          PROVE  Rank(q) <= Rank(k)
      <3>1. gs[k] = fs[k]
        BY <2>1, <2>2
      <3> QED
        BY <1>1, <2>1, <2>2, <3>1 DEF Accepted
    <2> QED
      BY <2>1, <2>2 DEF Accepted
  <1> QED
    BY <1>1 DEF Mirror

LEMMA NoteKinds ==
  /\ \A f \in Files : IsNote(f) /\ f # NoFile /\ f # Plain
  /\ ~IsNote(NoFile) /\ ~IsNote(Plain) /\ NoFile # Plain
  /\ \A f \in Files \cup {NoFile, Plain} : ~IsNote(f) => f \in {NoFile, Plain}
  BY RowAssumption DEF IsNote

LEMMA RowKinds ==
  ASSUME NEW f \in Files, NEW p \in Paths
  PROVE  /\ RowOf(f) \in Rows /\ RowOf(f).id = f.id
         /\ RowOf(f) \notin {NoRow, Same} /\ RowOf(f) # ErrorRow(p)
         /\ ErrorRow(p) \in Rows /\ ErrorRow(p).id = ErrorId(p)
         /\ ErrorRow(p) \notin {NoRow, Same}
  <1>1. RowOf(f) \in Rows /\ ErrorRow(p) \in Rows
    BY DEF RowOf, ErrorRow, Rows, Files, Ids, Texts
  <1>2. RowOf(f).indexed # ErrorRow(p).indexed
    BY DEF RowOf, ErrorRow
  <1> QED
    BY <1>1, <1>2, RowAssumption DEF RowOf, ErrorRow

(* An error row's id belongs to one path.                                   *)
LEMMA NativeIds ==
  ASSUME NEW p \in Paths, NEW q \in Paths
  PROVE  /\ ErrorId(q) \in OwnIds(p) => p = q
         /\ OwnIds(p) \subseteq Ids /\ Free \subseteq OwnIds(p) /\ ErrorId(p) \in OwnIds(p)
         /\ NoId \notin OwnIds(p)
  <1>1. OwnIds(p) \subseteq Ids
    BY DEF OwnIds, Free, Ids
  <1>2. ErrorId(q) \notin Free
    <2>1. \A r : ErrorId(q) # Minted(r)
      BY DEF ErrorId, Minted
    <2>2. \A k : ErrorId(q) # Known(k)
      BY DEF ErrorId, Known
    <2> QED
      BY <2>1, <2>2 DEF Free
  <1>3. ErrorId(q) = ErrorId(p) => p = q
    BY DEF ErrorId
  <1> QED
    BY <1>1, <1>2, <1>3, RowAssumption DEF OwnIds

-----------------------------------------------------------------------------
(* What happens in one session: a request goes on to o and its session to   *)
(* t.  Rows change at the paths T, which no other session holds, and there  *)
(* they are explained; elsewhere the request owes what it owed.             *)
Explained(r, o, t, p) ==
    \/ p \in suspect \/ OwedBy(Requests \ {r}, p)
    \/ Leaves(o, p) /\ (Owing(o, t[p], p) \/ t[p] \in {Mirror(file, p), ErrorRow(p)})

LEMMA SessionStep ==
  ASSUME MirrorInv, NEW r \in Requests, NEW o, NEW t, NEW T,
         UNCHANGED <<file, row, suspect>>,
         req' = [req EXCEPT ![r] = o], tx' = [tx EXCEPT ![r] = t], Formed(o, t),
         o.wrote = req[r].wrote, \A p : Leaves(req[r], p) => Leaves(o, p),
         o.scan \in {req[r].scan, <<>>},
         \A p \in Paths \ T :
            /\ t[p] = tx[r][p]
            /\ Owes(r, p) => Owing(o, Visible(r, p), p),
         \A p \in Paths \cap T : /\ t[p] # Same /\ Unlocked(r, p)
                                 /\ Explained(r, o, t, p)
  PROVE  MirrorInv'
  <1>1. /\ DOMAIN req' = Requests /\ req'[r] = o
        /\ \A s \in Requests \ {r} : req'[s] = req[s] /\ tx'[s] = tx[s]
        /\ tx' \in [Requests -> [Paths -> Rows \cup {NoRow, Same}]] /\ tx'[r] = t
    BY DEF MirrorInv, Typed, Formed, Pending
  <1>2. /\ \A s \in Requests \ {r}, p \in Paths : Visible(s, p)' = Visible(s, p)
        /\ \A p \in Paths : Visible(r, p)' = IF t[p] = Same THEN row[p] ELSE t[p]
    BY <1>1 DEF Visible
  <1>3. /\ \A s \in Requests \ {r}, p \in Paths : Owes(s, p)' <=> Owes(s, p)
        /\ \A p \in Paths \ T : Owes(r, p) => Owes(r, p)'
        /\ \A p \in Paths \cap T : Owing(o, t[p], p) => Owes(r, p)'
    BY <1>1, <1>2 DEF Owes, Visible
  <1>4. \A p \in Paths : /\ OwedBy(Requests \ {r}, p) => OwedBy(Requests, p)'
                         /\ \A s \in Requests : (s # r /\ Owes(s, p)) => Owes(s, p)'
                         /\ OwedBy(Requests \ {r}, p) => OwedBy(Requests \ {r}, p)'
    BY <1>3 DEF OwedBy
  <1>5. \A p \in Paths \ T : \A R \in SUBSET Requests : OwedBy(R, p) => OwedBy(R, p)'
    BY <1>3 DEF OwedBy
  <1>6. Typed'
    <2>1. \A s \in Requests : Formed(req'[s], tx'[s])
      BY <1>1 DEF MirrorInv, Typed
    <2> QED
      BY <1>1, <2>1 DEF MirrorInv, Typed
  <1>7. CommittedExplained'
    <2> SUFFICES ASSUME NEW p \in Paths, \A s \in Requests : tx'[s][p] = Same
                 PROVE  \/ p \in suspect \/ OwedBy(Requests, p)'
                        \/ row[p] = Mirror(file, p) /\ row[p] # ErrorRow(p)
      BY DEF CommittedExplained
    <2>1. p \notin T /\ \A s \in Requests : tx[s][p] = Same
      BY <1>1
    <2> QED
      BY <1>5, <2>1 DEF MirrorInv, CommittedExplained
  <1>8. PendingExplained'
    <2> SUFFICES ASSUME NEW s \in Requests, NEW p \in Paths, tx'[s][p] # Same
                 PROVE  \/ p \in suspect \/ OwedBy(Requests \ {s}, p)'
                        \/ /\ Leaves(req'[s], p)
                           /\ Owes(s, p)' \/ tx'[s][p] \in {Mirror(file, p), ErrorRow(p)}
      BY DEF PendingExplained
    <2>1. CASE p \in T
      <3>1. s = r
        BY <1>1, <2>1 DEF Unlocked
      <3> QED
        BY <1>1, <1>3, <1>4, <2>1, <3>1 DEF Explained
    <2>2. CASE p \notin T
      <3>1. tx[s][p] = tx'[s][p] /\ (Leaves(req[s], p) => Leaves(req'[s], p))
            /\ (Owes(s, p) => Owes(s, p)')
        BY <1>1, <1>3, <2>2
      <3>2. \/ p \in suspect \/ OwedBy(Requests \ {s}, p)
            \/ /\ Leaves(req[s], p)
               /\ Owes(s, p) \/ tx[s][p] \in {Mirror(file, p), ErrorRow(p)}
        BY <3>1 DEF MirrorInv, PendingExplained
      <3> QED
        BY <1>5, <2>2, <3>1, <3>2
    <2> QED
      BY <2>1, <2>2
  <1>9. OneHolder'
    <2> SUFFICES ASSUME NEW a \in Requests, NEW b \in Requests, NEW p \in Paths,
                        tx'[a][p] # Same, tx'[b][p] # Same
                 PROVE  a = b
      BY DEF OneHolder
    <2>1. CASE p \in T
      BY <1>1, <2>1 DEF Unlocked
    <2>2. CASE p \notin T
      <3>1. tx[a][p] = tx'[a][p] /\ tx[b][p] = tx'[b][p]
        BY <1>1, <2>2
      <3> QED
        BY <3>1 DEF MirrorInv, OneHolder
    <2> QED
      BY <2>1, <2>2
  <1>10. \A s \in Requests : req'[s].wrote = req[s].wrote /\ req'[s].scan \in {req[s].scan, <<>>}
    BY <1>1
  <1>11. CopiesHold'
    BY <1>10 DEF MirrorInv, CopiesHold
  <1>12. IdsApart'
    BY <1>10 DEF MirrorInv, IdsApart
  <1> QED
    BY <1>6, <1>7, <1>8, <1>9, <1>11, <1>12 DEF MirrorInv

(* A request goes on without writing a row.                                 *)
LEMMA QuietStep ==
  ASSUME MirrorInv, NEW r \in Requests, NEW o,
         UNCHANGED <<file, row, tx, suspect>>, req' = [req EXCEPT ![r] = o],
         Formed(o, tx[r]), o.wrote = req[r].wrote, o.scan \in {req[r].scan, <<>>},
         \A p : Leaves(req[r], p) => Leaves(o, p),
         \A p \in Paths : Owes(r, p) => Owing(o, Visible(r, p), p)
  PROVE  MirrorInv'
  <1>1. tx' = [tx EXCEPT ![r] = tx[r]]
    BY DEF MirrorInv, Typed
  <1>2. /\ \A p \in Paths \ {} : /\ tx[r][p] = tx[r][p]
                               /\ Owes(r, p) => Owing(o, Visible(r, p), p)
        /\ \A p \in Paths \cap {} : /\ tx[r][p] # Same /\ Unlocked(r, p)
                                    /\ Explained(r, o, tx[r], p)
    OBVIOUS
  <1> QED
    BY <1>1, <1>2, SessionStep

-----------------------------------------------------------------------------
(* Local steps.                                                             *)

LEMMA FormedNow ==
  ASSUME MirrorInv, NEW r \in Requests
  PROVE  Formed(req[r], tx[r]) /\ Shaped(req[r]) /\ Copied(req[r]) /\ Pending(req[r], tx[r])
  BY DEF MirrorInv, Typed, Formed

LEMMA CopyPaths ==
  ASSUME MirrorInv, NEW s \in Requests
  PROVE  /\ DOMAIN req[s].scan \subseteq Paths
         /\ req[s].wrote => \A q \in DOMAIN req[s].scan : req[s].scan[q] \in Files
  <1>1. Shaped(req[s]) /\ Copied(req[s])
    BY FormedNow
  <1>2. CASE ~Copying(req[s])
    BY <1>1, <1>2 DEF Copied
  <1>3. CASE Walking(req[s])
    BY <1>1, <1>3 DEF Copied, Walking
  <1>4. CASE Copying(req[s]) /\ req[s].wrote
    <2> DEFINE f == req[s].scan[req[s].path]
    <2>1. req[s].scan = [q \in {req[s].path} |-> f] /\ f \in Files
      BY <1>1, <1>4 DEF Copied
    <2>2. req[s].path \in Paths
      BY <1>1, <1>4 DEF Shaped, Copying, Turns, Ended
    <2> HIDE DEF f
    <2> QED
      BY <2>1, <2>2
  <1> QED
    BY <1>2, <1>3, <1>4 DEF Walking

(* What a request owes it answers for.                                      *)
LEMMA OwedIsLeft ==
  ASSUME NEW o, NEW t, Formed(o, t), NEW p \in Paths, NEW seen, Owing(o, seen, p)
  PROVE  Leaves(o, p)
  BY DEF Formed, Shaped, Copied, Owing, Due, Walking, Copying, Leaves, Turns

LEMMA SeenIds ==
  ASSUME MirrorInv, NEW r \in Requests, NEW p \in Paths, Visible(r, p) # NoRow
  PROVE  Visible(r, p).id \in OwnIds(p) /\ Visible(r, p) \in Rows
  <1>1. /\ tx[r][p] \in Rows \cup {NoRow, Same} /\ row[p] \in Rows \cup {NoRow}
        /\ tx[r][p] \notin {NoRow, Same} => tx[r][p].id \in OwnIds(p)
        /\ row[p] # NoRow => row[p].id \in OwnIds(p)
    BY DEF MirrorInv, Typed, Formed, Pending
  <1> QED
    BY <1>1 DEF Visible

(* Before a request has copies, and after.                                  *)
LEMMA EasyStep ==
  ASSUME MirrorInv, NEW r \in Requests, NEW o,
         UNCHANGED <<file, row, tx, suspect>>, req' = [req EXCEPT ![r] = o],
         req[r].at \notin Turns \cup {"settling", "committing", "failing"},
         o.at \notin Turns \cup {"settling", "committing", "ok", "failed"},
         Shaped(o), o.scan = req[r].scan, o.wrote = req[r].wrote, o.scanned = req[r].scanned
  PROVE  MirrorInv'
  <1>1. /\ Shaped(req[r]) /\ Copied(req[r]) /\ Pending(req[r], tx[r])
        /\ req[r].scan = <<>> /\ ~req[r].wrote
    BY FormedNow DEF Shaped, Copied, Copying, Turns
  <1>2. Formed(o, tx[r])
    BY <1>1 DEF Formed, Copied, Pending, Copying, Walking, Turns
  <1>3. \A p : Leaves(req[r], p) => Leaves(o, p)
    BY <1>1 DEF Leaves
  <1>4. \A p \in Paths : ~Owes(r, p)
    BY <1>1 DEF Owes, Owing, Due, Walking, Copying, Turns
  <1> QED
    BY <1>2, <1>3, <1>4, QuietStep

LEMMA FailedStep ==
  ASSUME MirrorInv, NEW r \in Requests, UNCHANGED <<file, row, tx, suspect>>, Fail(r),
         req[r].at \notin Ended \cup {"committing"}
  PROVE  MirrorInv'
  <1> DEFINE o == [req[r] EXCEPT !.at = "failing", !.lane = "none", !.scan = <<>>, !.todo = {}]
  <1>1. /\ Shaped(req[r]) /\ Copied(req[r]) /\ Pending(req[r], tx[r]) /\ Formed(req[r], tx[r])
        /\ req' = [req EXCEPT ![r] = o]
    BY FormedNow DEF Fail
  <1>2. /\ DOMAIN o = DOMAIN Fresh /\ o.at = "failing" /\ o.scan = <<>>
        /\ o.kind = req[r].kind /\ o.wrote = req[r].wrote /\ o.scanned = req[r].scanned
        /\ o.back = req[r].back /\ o.path = req[r].path /\ o.named = req[r].named
        /\ o.expects = req[r].expects
    BY <1>1 DEF Shaped, Fresh
  <1> HIDE DEF o
  <1>3. Formed(o, tx[r])
    BY <1>1, <1>2 DEF Formed, Shaped, Copied, Pending, Copying, Walking, Turns, Ended, Points, Writes
  <1>4. \A p : Leaves(req[r], p) => Leaves(o, p)
    BY <1>2 DEF Leaves
  <1>5. \A p \in Paths : Owes(r, p) => Owing(o, Visible(r, p), p)
    BY <1>1, <1>2, <1>4, OwedIsLeft DEF Owes, Owing
  <1> QED
    BY <1>1, <1>2, <1>3, <1>4, <1>5, QuietStep

LEMMA MirrorStart ==
  ASSUME MirrorInv, NEW r \in Requests, Start(r)
  PROVE  MirrorInv'
  <1>1. PICK kind \in KindsOf[r], p \in Paths,
             named \in {NoId} \cup {Known(q) : q \in Seeded}, careful \in BOOLEAN :
             /\ careful => IsNote(file[p])
             /\ req' = [req EXCEPT ![r] = Begun(kind, p, named, careful)]
    BY DEF Start
  <1> DEFINE from == IF kind = "archive" THEN "reading" ELSE "entering"
             expects == IF careful THEN file[p].text ELSE Anything
             o == [Fresh EXCEPT !.at = from, !.kind = kind, !.path = p, !.named = named,
                                !.expects = expects]
  <1>2. /\ req' = [req EXCEPT ![r] = o] /\ UNCHANGED <<file, row, tx, suspect>>
        /\ req[r].at = "idle" /\ Shaped(req[r]) /\ Copied(req[r])
    BY <1>1, FormedNow DEF Start, Begun, At
  <1>3. from \in {"reading", "entering"} /\ (from = "reading" <=> kind = "archive")
    OBVIOUS
  <1>4. expects = Anything \/ expects \in Texts
    <2>1. file[p] \in Files \cup {NoFile, Plain}
      BY DEF MirrorInv, Typed
    <2> QED
      BY <1>1, <2>1, NoteKinds DEF Files
  <1>5. kind \in Kinds /\ named \in {NoId} \cup Free
    <2>1. KindsOf[r] \subseteq Kinds
      BY VaultAssumption
    <2> QED
      BY <2>1, VaultAssumption DEF Free
  <1> HIDE DEF from, expects
  <1>6. /\ DOMAIN o = DOMAIN Fresh /\ o.at = from /\ o.path = p /\ o.kind = kind
        /\ o.wrote = FALSE /\ o.scanned = FALSE /\ o.back = "idle" /\ o.named = named
        /\ o.expects = expects /\ o.scan = <<>>
    BY DEF Fresh
  <1> HIDE DEF o
  <1>7. Shaped(o)
    BY <1>3, <1>4, <1>5, <1>6 DEF Shaped, OwnIds, Points, Ended, Turns, Writes
  <1>8. req[r].scan = <<>> /\ ~req[r].wrote /\ ~req[r].scanned
        /\ req[r].wrote \in BOOLEAN /\ req[r].scanned \in BOOLEAN
    BY <1>2 DEF Shaped, Copied, Copying, Ended, Turns
  <1> QED
    BY <1>2, <1>3, <1>6, <1>7, <1>8, EasyStep DEF Turns

LEMMA MirrorEnter ==
  ASSUME MirrorInv, NEW r \in Requests, Enter(r)
  PROVE  MirrorInv'
  <1> DEFINE mode == Mode(req[r].kind)
             at == Entry(req[r].kind)
             o == [req[r] EXCEPT !.at = at, !.lane = mode]
  <1>1. /\ req[r].at = "entering" /\ Shaped(req[r])
        /\ req' = [req EXCEPT ![r] = o] /\ UNCHANGED <<file, row, tx, suspect>>
    BY FormedNow DEF Enter, At
  <1>2. at \in {"checking", "resolving", "scanning"}
        /\ (req[r].kind = "archive" => at = "scanning")
    BY DEF Entry
  <1> HIDE DEF mode, at
  <1>3. /\ DOMAIN o = DOMAIN Fresh /\ o.at = at /\ o.path = req[r].path /\ o.kind = req[r].kind
        /\ o.wrote = req[r].wrote /\ o.scanned = req[r].scanned /\ o.back = req[r].back
        /\ o.named = req[r].named /\ o.expects = req[r].expects /\ o.scan = req[r].scan
    BY <1>1 DEF Shaped, Fresh
  <1> HIDE DEF o
  <1>4. Shaped(o)
    BY <1>1, <1>2, <1>3 DEF Shaped, Points, Ended, Turns, Writes
  <1> QED
    BY <1>1, <1>2, <1>3, <1>4, EasyStep DEF Turns

LEMMA MirrorRefuse ==
  ASSUME MirrorInv, NEW r \in Requests, Refuse(r)
  PROVE  MirrorInv'
  BY FailedStep DEF Refuse, At, Ended

LEMMA MirrorResolve ==
  ASSUME MirrorInv, NEW r \in Requests, Resolve(r)
  PROVE  MirrorInv'
  <1>1. /\ req[r].at = "resolving" /\ Shaped(req[r]) /\ UNCHANGED <<file, row, tx, suspect>>
        /\ req[r].kind # "archive" /\ ~req[r].wrote
    BY FormedNow DEF Resolve, At, Shaped, Writes
  <1>2. CASE req' = [req EXCEPT ![r].at = "scanning", ![r].back = "resolving"]
             /\ req[r].back = "idle"
    <2> DEFINE o == [req[r] EXCEPT !.at = "scanning", !.back = "resolving"]
    <2>1. req' = [req EXCEPT ![r] = o]
      BY <1>2 DEF MirrorInv, Typed
    <2>2. Shaped(o) /\ o.scan = req[r].scan /\ o.wrote = req[r].wrote
          /\ o.scanned = req[r].scanned /\ o.at = "scanning"
      BY <1>1, <1>2 DEF Shaped, Fresh, Points, Ended, Turns, Writes
    <2> HIDE DEF o
    <2> QED
      BY <1>1, <2>1, <2>2, EasyStep DEF Turns
  <1>3. ASSUME NEW id \in {NoId} \cup OwnIds(req[r].path),
               req' = [req EXCEPT ![r].at = "checking", ![r].named = id]
        PROVE  MirrorInv'
    <2> DEFINE o == [req[r] EXCEPT !.at = "checking", !.named = id]
    <2>1. req' = [req EXCEPT ![r] = o]
      BY <1>3 DEF MirrorInv, Typed
    <2>2. /\ o.scan = req[r].scan /\ o.wrote = req[r].wrote
          /\ o.scanned = req[r].scanned /\ o.at = "checking" /\ Shaped(o)
      BY <1>1 DEF Shaped, Fresh, Points, Ended, Turns, Writes
    <2> HIDE DEF o
    <2> QED
      BY <1>1, <2>1, <2>2, EasyStep DEF Turns
  <1>4. CASE Visible(r, Path(r)) # NoRow /\
             req' = [req EXCEPT ![r].at = "checking", ![r].named = Visible(r, Path(r)).id]
    <2>1. req[r].path \in Paths
      BY <1>1 DEF Shaped, Ended
    <2>2. Visible(r, Path(r)).id \in OwnIds(req[r].path)
      BY <1>4, <2>1, SeenIds DEF Path
    <2> QED
      BY <1>3, <1>4, <2>2
  <1>5. CASE Goto(r, "checking")
    <2> DEFINE o == [req[r] EXCEPT !.at = "checking"]
    <2>1. req' = [req EXCEPT ![r] = o]
      BY <1>5 DEF MirrorInv, Typed, Goto
    <2>2. /\ o.scan = req[r].scan /\ o.wrote = req[r].wrote
          /\ o.scanned = req[r].scanned /\ o.at = "checking" /\ Shaped(o)
      BY <1>1 DEF Shaped, Fresh, Points, Ended, Turns, Writes
    <2> HIDE DEF o
    <2> QED
      BY <1>1, <2>1, <2>2, EasyStep DEF Turns
  <1>6. CASE Fail(r)
    BY <1>1, <1>6, FailedStep DEF Ended
  <1> QED
    BY <1>2, <1>4, <1>5, <1>6 DEF Resolve

LEMMA MirrorCheck ==
  ASSUME MirrorInv, NEW r \in Requests, Check(r)
  PROVE  MirrorInv'
  <1> DEFINE p == Path(r)
             indexedId == IF Visible(r, p) = NoRow THEN NoId ELSE Visible(r, p).id
             id == Or(req[r].named, Or(indexedId, Or(FileId(p), Minted(r))))
             o == [req[r] EXCEPT !.at = "matching", !.id = id]
  <1>1. /\ req[r].at = "checking" /\ Shaped(req[r]) /\ UNCHANGED <<file, row, tx, suspect>>
        /\ ~req[r].wrote /\ req[r].path \in Paths
    BY FormedNow DEF Check, At, Shaped, Writes, Ended
  <1>2. id \in OwnIds(req[r].path)
    <2>1. indexedId \in {NoId} \cup OwnIds(p)
      BY <1>1, SeenIds DEF Path
    <2>2. FileId(p) \in {NoId} \cup OwnIds(p)
      BY <1>1 DEF FileId, MirrorInv, Typed, Path
    <2>3. Minted(r) \in OwnIds(p)
      BY DEF OwnIds, Free
    <2>4. req[r].named \in {NoId} \cup OwnIds(p)
      BY <1>1 DEF Shaped, Path
    <2> HIDE DEF indexedId
    <2> QED
      BY <2>1, <2>2, <2>3, <2>4 DEF Or, Path
  <1>3. CASE req' = [req EXCEPT ![r].at = "matching", ![r].id = id]
    <2> HIDE DEF id
    <2>1. req' = [req EXCEPT ![r] = o]
      BY <1>3 DEF MirrorInv, Typed
    <2>2. /\ o.scan = req[r].scan /\ o.wrote = req[r].wrote
          /\ o.scanned = req[r].scanned /\ o.at = "matching" /\ Shaped(o)
      BY <1>1, <1>2 DEF Shaped, Fresh, Points, Ended, Turns, Writes
    <2> HIDE DEF o
    <2> QED
      BY <1>1, <2>1, <2>2, EasyStep DEF Turns
  <1>4. CASE Fail(r)
    BY <1>1, <1>4, FailedStep DEF Ended
  <1> QED
    BY <1>3, <1>4 DEF Check

LEMMA MirrorMatch ==
  ASSUME MirrorInv, NEW r \in Requests, Match(r)
  PROVE  MirrorInv'
  <1>1. /\ req[r].at = "matching" /\ Shaped(req[r]) /\ UNCHANGED <<file, row, tx, suspect>>
    BY FormedNow DEF Match, At
  <1>2. CASE Goto(r, "writing")
    <2> DEFINE o == [req[r] EXCEPT !.at = "writing"]
    <2>1. req' = [req EXCEPT ![r] = o]
      BY <1>2 DEF MirrorInv, Typed, Goto
    <2>2. /\ o.scan = req[r].scan /\ o.wrote = req[r].wrote
          /\ o.scanned = req[r].scanned /\ o.at = "writing" /\ Shaped(o)
      BY <1>1 DEF Shaped, Fresh, Points, Ended, Turns, Writes
    <2> HIDE DEF o
    <2> QED
      BY <1>1, <2>1, <2>2, EasyStep DEF Turns
  <1>3. CASE Fail(r)
    BY <1>1, <1>3, FailedStep DEF Ended
  <1> QED
    BY <1>2, <1>3 DEF Match

LEMMA MirrorReadForArchive ==
  ASSUME MirrorInv, NEW r \in Requests, ReadForArchive(r)
  PROVE  MirrorInv'
  <1> DEFINE found == PathsOf(r, req[r].named)
             there == CHOOSE p \in found : TRUE
  <1>1. /\ req[r].at = "reading" /\ Shaped(req[r]) /\ UNCHANGED <<file, row, tx, suspect>>
        /\ req[r].kind = "archive" /\ ~req[r].wrote /\ req[r].back \in {"idle", "reading"}
    BY FormedNow DEF ReadForArchive, At, Shaped
  <1>2. CASE found # {} /\ req' = [req EXCEPT ![r] = [@ EXCEPT !.at = "patching", !.path = there]]
    <2> DEFINE o == [req[r] EXCEPT !.at = "patching", !.path = there]
    <2>1. there \in Paths
      BY <1>2 DEF PathsOf
    <2>2. req' = [req EXCEPT ![r] = o]
      BY <1>2 DEF MirrorInv, Typed
    <2> HIDE DEF there
    <2>3. /\ o.scan = req[r].scan /\ o.wrote = req[r].wrote
          /\ o.scanned = req[r].scanned /\ o.at = "patching" /\ Shaped(o)
      BY <1>1, <2>1, NativeIds DEF Shaped, Fresh, Points, Ended, Turns, Writes
    <2> HIDE DEF o
    <2> QED
      BY <1>1, <2>2, <2>3, EasyStep DEF Turns
  <1>3. CASE req' = [req EXCEPT ![r] = [@ EXCEPT !.at = "entering", !.back = "reading"]]
             /\ req[r].back = "idle"
    <2> DEFINE o == [req[r] EXCEPT !.at = "entering", !.back = "reading"]
    <2>1. req' = [req EXCEPT ![r] = o]
      BY <1>3 DEF MirrorInv, Typed
    <2>2. /\ o.scan = req[r].scan /\ o.wrote = req[r].wrote
          /\ o.scanned = req[r].scanned /\ o.at = "entering" /\ Shaped(o)
      BY <1>1, <1>3 DEF Shaped, Fresh, Points, Ended, Turns, Writes
    <2> HIDE DEF o
    <2> QED
      BY <1>1, <2>1, <2>2, EasyStep DEF Turns
  <1>4. CASE req' = [req EXCEPT ![r] = [@ EXCEPT !.at = "failing"]]
    <2> DEFINE o == [req[r] EXCEPT !.at = "failing"]
    <2>1. req' = [req EXCEPT ![r] = o]
      BY <1>4 DEF MirrorInv, Typed
    <2>2. /\ o.scan = req[r].scan /\ o.wrote = req[r].wrote
          /\ o.scanned = req[r].scanned /\ o.at = "failing" /\ Shaped(o)
      BY <1>1 DEF Shaped, Fresh, Points, Ended, Turns, Writes
    <2> HIDE DEF o
    <2> QED
      BY <1>1, <2>1, <2>2, EasyStep DEF Turns
  <1> QED
    BY <1>2, <1>3, <1>4 DEF ReadForArchive

LEMMA MirrorLookUp ==
  ASSUME MirrorInv, NEW r \in Requests, LookUp(r)
  PROVE  MirrorInv'
  <1> DEFINE seen == Around(r, Target(r), Payload(r).id)
             o == [req[r] EXCEPT !.at = "flushing", !.seen = seen]
  <1>1. /\ req[r].at = "looking" /\ Shaped(req[r]) /\ Copied(req[r]) /\ Pending(req[r], tx[r])
        /\ UNCHANGED <<file, row, tx, suspect>> /\ req' = [req EXCEPT ![r] = o]
    BY FormedNow DEF LookUp, At
  <1> HIDE DEF seen
  <1>2. /\ DOMAIN o = DOMAIN Fresh /\ o.at = "flushing" /\ o.path = req[r].path
        /\ o.kind = req[r].kind /\ o.wrote = req[r].wrote /\ o.scanned = req[r].scanned
        /\ o.back = req[r].back /\ o.named = req[r].named /\ o.expects = req[r].expects
        /\ o.scan = req[r].scan /\ o.todo = req[r].todo
    BY <1>1 DEF Shaped, Fresh
  <1> HIDE DEF o
  <1>3. Shaped(o) /\ Copied(o)
    BY <1>1, <1>2 DEF Shaped, Copied, Copying, Walking, Points, Ended, Turns, Writes
  <1>4. \A p : /\ Leaves(req[r], p) => Leaves(o, p)
               /\ Due(req[r], p) <=> Due(o, p)
               /\ Walking(o) <=> Walking(req[r])
    BY <1>1, <1>2 DEF Leaves, Due, Turns, Walking, Copying
  <1>5. Pending(o, tx[r])
    BY <1>1, <1>2, <1>4 DEF Pending
  <1>6. \A p \in Paths : Owes(r, p) => Owing(o, Visible(r, p), p)
    BY <1>1, <1>2, <1>4 DEF Owes, Owing
  <1> QED
    BY <1>1, <1>2, <1>3, <1>4, <1>5, <1>6, QuietStep DEF Formed

-----------------------------------------------------------------------------
(* The scan: copies of all files, each to be indexed; what was suspect is   *)
(* so no more, unless another session holds the row or another request has  *)
(* a copy.                                                                  *)
LEMMA MirrorScan ==
  ASSUME MirrorInv, NEW r \in Requests, Scan(r)
  PROVE  MirrorInv'
  <1> DEFINE todo == IF Rejected(file) # {} THEN Rejected(file) ELSE Accepted(file)
             at == IF Rejected(file) # {} THEN "rejecting"
                   ELSE IF Accepted(file) # {} THEN "looking" ELSE "settling"
             o == [req[r] EXCEPT !.scan = file, !.scanned = TRUE, !.todo = todo, !.at = at]
  <1>1. /\ req[r].at = "scanning" /\ Shaped(req[r]) /\ Copied(req[r]) /\ Pending(req[r], tx[r])
        /\ req' = [req EXCEPT ![r] = o] /\ UNCHANGED <<file, row, tx>>
        /\ suspect' = {p \in suspect : ~Unlocked(r, p)} \cup Skipped \cup Crossed(r, file)
    BY FormedNow DEF Scan, At
  <1>2. ~req[r].wrote /\ ~req[r].scanned /\ tx[r] = Unchanged /\ req[r].scan = <<>>
    BY <1>1 DEF Shaped, Pending, Copied, Copying, Turns
  <1>3. /\ at \in {"rejecting", "looking", "settling"}
        /\ at = "rejecting" => todo = Rejected(file) /\ todo # {}
        /\ at = "looking" => todo = Accepted(file) /\ todo # {} /\ Rejected(file) = {}
        /\ at = "settling" => Accepted(file) = {} /\ Rejected(file) = {}
    OBVIOUS
  <1> HIDE DEF todo, at
  <1>4. /\ DOMAIN o = DOMAIN Fresh /\ o.at = at /\ o.path = req[r].path
        /\ o.kind = req[r].kind /\ o.wrote = FALSE /\ o.scanned = TRUE
        /\ o.back = req[r].back /\ o.named = req[r].named /\ o.expects = req[r].expects
        /\ o.scan = file /\ o.todo = todo
    BY <1>1, <1>2 DEF Shaped, Fresh
  <1> HIDE DEF o
  <1>5. file \in [Paths -> Files \cup {NoFile, Plain}] /\ row \in [Paths -> Rows \cup {NoRow}]
        /\ \A p \in Paths : IsNote(file[p]) => file[p].id \in OwnIds(p)
    BY DEF MirrorInv, Typed
  <1>6. \A p \in Paths : IsNote(file[p]) => Due(o, p)
    BY <1>3, <1>4 DEF Due, Rejected, Turns
  <1>7. Formed(o, tx[r])
    <2>1. Shaped(o)
      BY <1>1, <1>3, <1>4 DEF Shaped, Points, Ended, Turns, Writes
    <2>2. Copied(o)
      BY <1>3, <1>4, <1>5 DEF Copied, Copying, Walking, Turns
    <2>3. Pending(o, tx[r])
      BY <1>1, <1>4, <1>6 DEF Pending
    <2> QED
      BY <2>1, <2>2, <2>3 DEF Formed
  <1>8. /\ DOMAIN req' = Requests /\ req'[r] = o
        /\ \A s \in Requests \ {r} : req'[s] = req[s]
    BY <1>1 DEF MirrorInv, Typed
  <1>9. \A s \in Requests : DOMAIN req[s].scan \subseteq Paths
    BY CopyPaths
  <1>10. /\ suspect' \subseteq Paths
         /\ \A s \in Requests \ {r} : DOMAIN req[s].scan \subseteq suspect'
         /\ \A s \in Requests \ {r} : \A q \in DOMAIN req[s].scan : \A p \in Paths :
               (IsNote(file[p]) /\ IsNote(req[s].scan[q]) /\ file[p].id = req[s].scan[q].id)
                  => p \in suspect'
         /\ \A p \in Paths : file[p] = Plain => p \in suspect'
         /\ \A s \in Requests \ {r}, p \in suspect : tx[s][p] # Same => p \in suspect'
    BY <1>1, <1>5, <1>9 DEF Crossed, Unlocked, Skipped, MirrorInv, Typed
  <1>11. \A s \in Requests, p \in Paths : Visible(s, p)' = Visible(s, p)
    BY <1>1 DEF Visible
  <1>12. /\ \A s \in Requests \ {r}, p \in Paths : Owes(s, p)' <=> Owes(s, p)
         /\ \A p \in Paths : ~Owes(r, p)
         /\ \A p \in Paths : IsNote(file[p]) \/ (file[p] = NoFile /\ row[p] # NoRow) => Owes(r, p)'
    <2>1. \A p \in Paths : ~Owes(r, p)
      BY <1>1 DEF Owes, Owing, Due, Walking, Copying, Turns
    <2>2. \A p \in Paths : Visible(r, p) = row[p]
      BY <1>2 DEF Visible, Unchanged
    <2>3. Walking(o)
      BY <1>3, <1>4 DEF Walking, Copying, Turns
    <2>4. \A p \in Paths : IsNote(file[p]) \/ (file[p] = NoFile /\ row[p] # NoRow)
                               => Owing(o, row[p], p)
      BY <1>4, <1>6, <2>3 DEF Owing
    <2> QED
      BY <1>8, <1>11, <2>1, <2>2, <2>4 DEF Owes
  <1>13. \A R \in SUBSET Requests, p \in Paths : OwedBy(R, p) => OwedBy(R, p)'
    BY <1>12 DEF OwedBy
  <1>14. Typed'
    <2>1. \A s \in Requests : Formed(req'[s], tx'[s])
      BY <1>1, <1>7, <1>8 DEF MirrorInv, Typed
    <2> QED
      BY <1>1, <1>8, <1>10, <2>1 DEF MirrorInv, Typed
  <1>15. CommittedExplained'
    <2> SUFFICES ASSUME NEW p \in Paths, p \notin suspect', ~OwedBy(Requests, p)'
                 PROVE  row[p] = Mirror(file, p) /\ row[p] # ErrorRow(p)
      BY <1>1 DEF CommittedExplained
    <2>1. ~IsNote(file[p]) /\ row[p] = NoRow
      <3>1. ~IsNote(file[p]) /\ (file[p] = NoFile => row[p] = NoRow)
        BY <1>12 DEF OwedBy
      <3> QED
        BY <1>5, <1>10, <3>1, NoteKinds
    <2>2. ErrorRow(p) \in Rows
      BY DEF ErrorRow, Rows, Ids, Texts
    <2> QED
      BY <2>1, <2>2, RowAssumption DEF Mirror
  <1>16. PendingExplained'
    <2> SUFFICES ASSUME NEW s \in Requests, NEW p \in Paths, tx[s][p] # Same
                 PROVE  \/ p \in suspect' \/ OwedBy(Requests \ {s}, p)'
                        \/ /\ Leaves(req'[s], p)
                           /\ Owes(s, p)' \/ tx[s][p] \in {Mirror(file, p), ErrorRow(p)}
      BY <1>1 DEF PendingExplained
    <2>1. s # r /\ req'[s] = req[s]
      BY <1>2, <1>8 DEF Unchanged
    <2>2. \/ p \in suspect \/ OwedBy(Requests \ {s}, p)
          \/ /\ Leaves(req[s], p)
             /\ Owes(s, p) \/ tx[s][p] \in {Mirror(file, p), ErrorRow(p)}
      BY DEF MirrorInv, PendingExplained
    <2> QED
      BY <1>10, <1>12, <1>13, <2>1, <2>2
  <1>17. OneHolder'
    BY <1>1 DEF MirrorInv, OneHolder
  <1>18. CopiesHold'
    <2> SUFFICES ASSUME NEW s \in Requests, NEW p \in DOMAIN req'[s].scan
                 PROVE  /\ req'[s].scan[p] # file[p] => p \in suspect'
                        /\ \A u \in Requests \ {s} : p \in DOMAIN req'[u].scan => p \in suspect'
                        /\ (req'[s].wrote \/ p \in Accepted(req'[s].scan))
                               => p \in Accepted(file) \cup suspect'
      BY <1>1 DEF CopiesHold
    <2>1. CASE s = r
      BY <1>4, <1>8, <1>10, <2>1
    <2>2. CASE s # r
      BY <1>8, <1>10, <2>2
    <2> QED
      BY <2>1, <2>2
  <1>19. IdsApart'
    <2> SUFFICES ASSUME NEW s \in Requests, NEW q \in DOMAIN req'[s].scan,
                        NEW p \in Paths \ {q}, req'[s].wrote, IsNote(file[p]),
                        file[p].id = req'[s].scan[q].id
                 PROVE  p \in suspect'
      BY <1>1 DEF IdsApart
    <2>1. s # r /\ req'[s] = req[s]
      BY <1>4, <1>8
    <2>2. req[s].scan[q] \in Files
      BY <2>1, CopyPaths
    <2> QED
      BY <1>10, <2>1, <2>2, NoteKinds
  <1> QED
    BY <1>14, <1>15, <1>16, <1>17, <1>18, <1>19 DEF MirrorInv

-----------------------------------------------------------------------------
(* Rows.  Onward to the next note: only the one in turn is done.            *)
LEMMA OnwardFacts ==
  ASSUME MirrorInv, NEW r \in Requests, req[r].at \in {"rejecting", "flushing"},
         NEW o, o = Onward(r)
  PROVE  /\ Target(r) \in req[r].todo /\ Target(r) \in Paths
         /\ Shaped(o) /\ Copied(o) /\ o.wrote = req[r].wrote /\ o.scanned = req[r].scanned
         /\ o.scan \in {req[r].scan, <<>>}
         /\ \A q : Leaves(req[r], q) => Leaves(o, q)
         /\ \A q : (q # Target(r) /\ Due(req[r], q)) => Due(o, q)
         /\ ~req[r].wrote => /\ Walking(req[r]) /\ Walking(o) /\ o.scan = req[r].scan
                             /\ req[r].scanned
         /\ req[r].wrote => /\ o.at = "committing" /\ req[r].todo = {req[r].path}
                            /\ req[r].at = "flushing" /\ ~Walking(o)
  <1> DEFINE p == Target(r)
             rest == req[r].todo \ {p}
             next == IF req[r].at = "rejecting" THEN Accepted(req[r].scan) ELSE {}
             to == IF req[r].at = "rejecting" THEN "rejecting" ELSE "looking"
  <1>1. /\ Shaped(req[r]) /\ Copied(req[r]) /\ Copying(req[r])
        /\ Walking(req[r]) <=> ~req[r].wrote
        /\ Indexing(r) <=> ~req[r].wrote
        /\ ~req[r].wrote => req[r].scanned
        /\ req[r].wrote => req[r].at = "flushing"
    BY FormedNow DEF Shaped, Copying, Walking, Turns, Indexing
  <1>2. /\ req[r].todo # {} /\ req[r].todo \subseteq Paths
        /\ req[r].wrote => req[r].todo = {req[r].path}
        /\ Walking(req[r]) => \/ req[r].todo \subseteq Rejected(req[r].scan)
                              \/ /\ req[r].at = "flushing"
                                 /\ req[r].todo \subseteq Accepted(req[r].scan)
    <2>1. req[r].wrote => req[r].todo = {req[r].path} /\ req[r].path \in Paths
      BY <1>1 DEF Copied, Shaped, Ended
    <2>2. Walking(req[r]) => /\ req[r].todo # {}
                             /\ \/ req[r].todo \subseteq Rejected(req[r].scan)
                                \/ /\ req[r].at = "flushing"
                                   /\ req[r].todo \subseteq Accepted(req[r].scan)
      BY <1>1 DEF Copied
    <2>3. Rejected(req[r].scan) \subseteq Paths /\ Accepted(req[r].scan) \subseteq Paths
      BY DEF Rejected, Accepted
    <2>4. CASE req[r].wrote
      BY <1>1, <2>1, <2>4
    <2>5. CASE ~req[r].wrote
      BY <1>1, <2>2, <2>3, <2>5
    <2> QED
      BY <2>4, <2>5
  <1>3. p \in req[r].todo /\ p \in Paths
    BY <1>2, FirstIsIn DEF Target
  <1>4. \/ rest # {} /\ o = [req[r] EXCEPT !.todo = rest, !.at = to]
        \/ rest = {} /\ next # {} /\ o = [req[r] EXCEPT !.todo = next, !.at = "looking"]
        \/ /\ rest = {} /\ next = {} /\ Indexing(r)
           /\ o = [req[r] EXCEPT !.todo = {}, !.at = "settling"]
        \/ /\ rest = {} /\ ~Indexing(r)
           /\ o = [req[r] EXCEPT !.todo = {}, !.scan = <<>>, !.at = "committing",
                                 !.lane = "none"]
    BY Zenon DEF Onward
  <1>5. req[r].wrote => rest = {} /\ next = {}
    BY <1>1, <1>2, <1>3
  <1>6. \/ req[r].at = "rejecting" /\ to = "rejecting" /\ next = Accepted(req[r].scan)
        \/ req[r].at = "flushing" /\ to = "looking" /\ next = {}
    OBVIOUS
  <1>7. rest \subseteq req[r].todo /\ \A q : q # p /\ q \in req[r].todo => q \in rest
    OBVIOUS
  <1> HIDE DEF p, rest, next, to
  <1>8. /\ DOMAIN o = DOMAIN Fresh /\ o.path = req[r].path /\ o.kind = req[r].kind
        /\ o.wrote = req[r].wrote /\ o.scanned = req[r].scanned /\ o.back = req[r].back
        /\ o.named = req[r].named /\ o.expects = req[r].expects
        /\ \/ ~req[r].wrote /\ rest # {} /\ o.todo = rest /\ o.at = to /\ o.scan = req[r].scan
           \/ ~req[r].wrote /\ rest = {} /\ next # {} /\ o.todo = next /\ o.at = "looking"
              /\ o.scan = req[r].scan
           \/ ~req[r].wrote /\ rest = {} /\ next = {} /\ o.todo = {} /\ o.at = "settling"
              /\ o.scan = req[r].scan
           \/ req[r].wrote /\ rest = {} /\ o.at = "committing" /\ o.scan = <<>>
    BY <1>1, <1>4, <1>5 DEF Shaped, Fresh
  <1>9. Shaped(o)
    BY <1>1, <1>6, <1>8 DEF Shaped, Points, Ended, Turns, Writes
  <1>10. Copied(o)
    BY <1>1, <1>2, <1>6, <1>7, <1>8 DEF Copied, Copying, Walking, Turns
  <1>11. \A q : (q # p /\ Due(req[r], q)) => Due(o, q)
    BY <1>1, <1>2, <1>3, <1>6, <1>7, <1>8 DEF Due, Turns
  <1>12. /\ ~req[r].wrote => Walking(o) /\ o.scan = req[r].scan
         /\ req[r].wrote => o.at = "committing" /\ ~Walking(o)
    BY <1>6, <1>8 DEF Walking, Copying, Turns
  <1>13. \A q : Leaves(req[r], q) => Leaves(o, q)
    BY <1>8 DEF Leaves
  <1> QED
    BY <1>1, <1>2, <1>3, <1>8, <1>9, <1>10, <1>11, <1>12, <1>13 DEF p

(* A reindex replaces a row by an error row.                                *)
LEMMA ErrorStep ==
  ASSUME MirrorInv, NEW r \in Requests, req[r].at \in {"rejecting", "flushing"},
         Indexing(r), Unlocked(r, Target(r)), Pend(r, Target(r), ErrorRow(Target(r))),
         Advance(r), UNCHANGED <<file, row, suspect>>
  PROVE  MirrorInv'
  <1> DEFINE p == Target(r)
             t == [tx[r] EXCEPT ![p] = ErrorRow(p)]
             o == Onward(r)
  <1>1. /\ p \in Paths /\ Shaped(o) /\ Copied(o) /\ o.wrote = req[r].wrote
        /\ o.scanned = req[r].scanned /\ o.scan \in {req[r].scan, <<>>}
        /\ \A q : Leaves(req[r], q) => Leaves(o, q)
        /\ \A q : (q # p /\ Due(req[r], q)) => Due(o, q)
        /\ Walking(req[r]) /\ Walking(o) /\ o.scan = req[r].scan /\ req[r].scanned
    BY OnwardFacts DEF Indexing
  <1>2. Pending(req[r], tx[r]) /\ req' = [req EXCEPT ![r] = o]
    BY FormedNow DEF Advance
  <1>3. /\ tx[r] \in [Paths -> Rows \cup {NoRow, Same}]
        /\ \A q \in Paths : tx[r][q] \notin {NoRow, Same} => tx[r][q].id \in OwnIds(q)
    BY <1>2 DEF Pending
  <1>4. tx' = [tx EXCEPT ![r] = t]
    BY DEF Pend, MirrorInv, Typed
  <1> HIDE DEF o, p
  <1>5. ErrorRow(p) \in Rows /\ ErrorRow(p).id = ErrorId(p) /\ ErrorRow(p) # Same
    <2>1. ErrorRow(p) \in Rows /\ ErrorRow(p).id = ErrorId(p)
      BY <1>1 DEF ErrorRow, Rows, Ids, Texts
    <2> QED
      BY <2>1, RowAssumption
  <1>6. /\ t \in [Paths -> Rows \cup {NoRow, Same}] /\ t[p] = ErrorRow(p)
        /\ \A q \in Paths \ {p} : t[q] = tx[r][q]
    BY <1>1, <1>3, <1>5
  <1> HIDE DEF t
  <1>7. Pending(o, t)
    <2>1. \A q \in Paths : t[q] \notin {NoRow, Same} => t[q].id \in OwnIds(q)
      BY <1>1, <1>3, <1>5, <1>6, NativeIds
    <2>2. ASSUME NEW q \in Paths, IsNote(o.scan[q]), ~Due(o, q)
          PROVE  t[q] = ErrorRow(q) \/ (q \in Accepted(o.scan) /\ t[q] = RowOf(o.scan[q]))
      BY <1>1, <1>2, <1>6, <2>2 DEF Pending
    <2> QED
      BY <1>1, <1>6, <2>1, <2>2 DEF Pending
  <1>8. \A q \in Paths \ {p} : Owes(r, q) => Owing(o, Visible(r, q), q)
    BY <1>1 DEF Owes, Owing
  <1>9. Unlocked(r, p) /\ Explained(r, o, t, p)
    <2>1. Leaves(o, p)
      BY <1>1 DEF Leaves
    <2> QED
      BY <1>6, <2>1 DEF Explained, p
  <1>10. /\ \A q \in Paths \ {p} : t[q] = tx[r][q] /\ (Owes(r, q) => Owing(o, Visible(r, q), q))
         /\ \A q \in Paths \cap {p} : t[q] # Same /\ Unlocked(r, q) /\ Explained(r, o, t, q)
    BY <1>5, <1>6, <1>8, <1>9
  <1>11. Formed(o, t)
    BY <1>1, <1>7 DEF Formed
  <1> QED
    BY <1>1, <1>2, <1>4, <1>10, <1>11, SessionStep

LEMMA MirrorRejectNote ==
  ASSUME MirrorInv, NEW r \in Requests, RejectNote(r)
  PROVE  MirrorInv'
  <1>1. req[r].at = "rejecting" /\ Shaped(req[r])
    BY FormedNow DEF RejectNote, At
  <1>2. Indexing(r)
    BY <1>1 DEF Indexing, Shaped, Turns
  <1> QED
    BY <1>1, <1>2, ErrorStep DEF RejectNote

LEMMA UnindexedStep ==
  ASSUME MirrorInv, NEW r \in Requests, req[r].at = "flushing", Unindexed(r),
         UNCHANGED <<file, row, suspect>>
  PROVE  MirrorInv'
  <1>1. CASE Indexing(r)
    BY <1>1, ErrorStep DEF Unindexed
  <1>2. CASE ~Indexing(r)
    BY <1>2, FailedStep DEF Unindexed, Ended
  <1> QED
    BY <1>1, <1>2

LEMMA MirrorUpsertFails ==
  ASSUME MirrorInv, NEW r \in Requests, UpsertFails(r)
  PROVE  MirrorInv'
  BY UnindexedStep DEF UpsertFails, At

(* The copy that is indexed next.                                           *)
LEMMA CopyFacts ==
  ASSUME MirrorInv, NEW r \in Requests, req[r].at = "flushing"
  PROVE  /\ Target(r) \in Paths /\ Target(r) \in DOMAIN req[r].scan
         /\ Payload(r) = req[r].scan[Target(r)]
         /\ Payload(r) \in Files /\ Payload(r).id \in OwnIds(Target(r))
         /\ req[r].wrote => /\ Target(r) = req[r].path
                            /\ req[r].todo = {Target(r)}
         /\ ~req[r].wrote => Walking(req[r]) /\ Target(r) \in Accepted(req[r].scan)
  <1> DEFINE p == Target(r)
  <1>1. /\ Shaped(req[r]) /\ Copied(req[r]) /\ Copying(req[r])
        /\ Walking(req[r]) <=> ~req[r].wrote
    BY FormedNow DEF Shaped, Copying, Walking, Turns
  <1>2. p \in req[r].todo /\ p \in Paths
    BY OnwardFacts
  <1> HIDE DEF p
  <1>3. CASE req[r].wrote
    <2>1. /\ req[r].todo = {req[r].path} /\ req[r].scan[req[r].path] \in Files
          /\ req[r].scan[req[r].path].id \in OwnIds(req[r].path)
          /\ DOMAIN req[r].scan = {req[r].path}
      <3> DEFINE f == req[r].scan[req[r].path]
      <3>1. req[r].scan = [q \in {req[r].path} |-> f] /\ req[r].todo = {req[r].path}
            /\ f \in Files /\ f.id \in OwnIds(req[r].path)
        BY <1>1, <1>3 DEF Copied
      <3> HIDE DEF f
      <3>2. DOMAIN req[r].scan = {req[r].path}
        BY <3>1
      <3> QED
        BY <3>1, <3>2 DEF f
    <2>2. p = req[r].path
      BY <1>2, <2>1
    <2> QED
      BY <1>2, <1>3, <2>1, <2>2 DEF Payload, p
  <1>4. CASE ~req[r].wrote
    <2> Walking(req[r])
      BY <1>1, <1>4
    <2>1. /\ req[r].todo \subseteq Accepted(req[r].scan) /\ DOMAIN req[r].scan = Paths
          /\ req[r].scan \in [Paths -> Files \cup {NoFile, Plain}]
          /\ \A q \in Paths : IsNote(req[r].scan[q]) => req[r].scan[q].id \in OwnIds(q)
      <3>1. req[r].scan \in [Paths -> Files \cup {NoFile, Plain}]
            /\ \A q \in Paths : IsNote(req[r].scan[q]) => req[r].scan[q].id \in OwnIds(q)
        BY <1>1 DEF Copied
      <3>2. req[r].todo \subseteq Accepted(req[r].scan)
        BY <1>1 DEF Copied
      <3> QED
        BY <3>1, <3>2
    <2>2. p \in Accepted(req[r].scan) /\ IsNote(req[r].scan[p])
      BY <1>2, <2>1, AcceptedFacts
    <2>3. req[r].scan[p] \in Files /\ req[r].scan[p].id \in OwnIds(p)
      BY <1>2, <2>1, <2>2, NoteKinds
    <2> QED
      BY <1>1, <1>2, <1>4, <2>1, <2>2, <2>3 DEF Payload, p
  <1> QED
    BY <1>1, <1>3, <1>4

(* Whose row a reindex takes the id from, it has still to index.            *)
LEMMA TakenIsDue ==
  ASSUME MirrorInv, NEW r \in Requests, req[r].at = "flushing", ~req[r].wrote,
         NEW q \in PathsOf(r, Payload(r).id), q # Target(r), IsNote(req[r].scan[q])
  PROVE  Due(req[r], q)
  <1> DEFINE p == Target(r)
  <1>1. /\ q \in Paths /\ Visible(r, q) # NoRow /\ Visible(r, q).id = Payload(r).id
        /\ p \in Paths /\ Payload(r) = req[r].scan[p] /\ Payload(r).id \in OwnIds(p)
        /\ Walking(req[r]) /\ p \in Accepted(req[r].scan) /\ Pending(req[r], tx[r])
    BY CopyFacts, FormedNow DEF PathsOf
  <1> SUFFICES ASSUME ~Due(req[r], q)
               PROVE  FALSE
    OBVIOUS
  <1>2. \/ tx[r][q] = ErrorRow(q)
        \/ q \in Accepted(req[r].scan) /\ tx[r][q] = RowOf(req[r].scan[q])
    BY <1>1 DEF Pending
  <1>3. CASE tx[r][q] = ErrorRow(q)
    <2>1. ErrorRow(q) # Same /\ ErrorRow(q).id = ErrorId(q)
      <3>1. ErrorRow(q) \in Rows /\ ErrorRow(q).id = ErrorId(q)
        BY <1>1 DEF ErrorRow, Rows, Ids, Texts
      <3> QED
        BY <3>1, RowAssumption
    <2>2. Payload(r).id = ErrorId(q)
      BY <1>1, <1>3, <2>1 DEF Visible
    <2> QED
      BY <1>1, <2>2, NativeIds
  <1>4. CASE q \in Accepted(req[r].scan) /\ tx[r][q] = RowOf(req[r].scan[q])
    <2>1. req[r].scan[q] \in Files
      BY <1>1, <1>4, FormedNow, NoteKinds DEF Copied
    <2>2. Visible(r, q).id = req[r].scan[q].id
      BY <1>1, <1>4, <2>1, RowKinds DEF Visible
    <2>3. q = p
      BY <1>1, <1>4, <2>2, AcceptedFacts
    <2> QED
      BY <2>3
  <1> QED
    BY <1>2, <1>3, <1>4

(* Rows that the upsert touches are in no other session.                    *)
LEMMA TouchedIsUnlocked ==
  ASSUME MirrorInv, NEW r \in Requests, NEW id, IdUnlocked(r, id), NEW q \in PathsOf(r, id)
  PROVE  q \in Paths /\ Unlocked(r, q)
  <1>1. q \in Paths /\ Visible(r, q) # NoRow /\ Visible(r, q).id = id
    BY DEF PathsOf
  <1>2. ASSUME NEW s \in Requests \ {r}, tx[s][q] # Same
        PROVE  FALSE
    <2>1. CASE tx[r][q] # Same
      BY <1>1, <1>2, <2>1 DEF MirrorInv, OneHolder
    <2>2. CASE tx[r][q] = Same
      <3>1. row[q] # NoRow /\ row[q].id = id
        BY <1>1, <2>2 DEF Visible
      <3> QED
        BY <1>1, <1>2, <3>1 DEF IdUnlocked
    <2> QED
      BY <2>1, <2>2
  <1> QED
    BY <1>1, <1>2 DEF Unlocked

(* The note itself then mirrors its file, unless it is suspect.             *)
LEMMA PutMirrors ==
  ASSUME MirrorInv, NEW r \in Requests, req[r].at = "flushing"
  PROVE  Target(r) \in suspect \/ RowOf(Payload(r)) = Mirror(file, Target(r))
  <1> DEFINE p == Target(r)
  <1>1. /\ p \in DOMAIN req[r].scan /\ Payload(r) = req[r].scan[p]
        /\ req[r].wrote \/ p \in Accepted(req[r].scan)
    BY CopyFacts
  <1>2. p \in suspect \/ (req[r].scan[p] = file[p] /\ p \in Accepted(file))
    BY <1>1 DEF MirrorInv, CopiesHold
  <1>3. p \in Accepted(file) => IsNote(file[p])
    BY AcceptedFacts
  <1> QED
    BY <1>1, <1>2, <1>3 DEF Mirror

(* A row that loses its id is suspect, owed, or of a path without a file.   *)
LEMMA TakenExplained ==
  ASSUME MirrorInv, NEW r \in Requests, req[r].at = "flushing",
         IdUnlocked(r, Payload(r).id),
         NEW q \in PathsOf(r, Payload(r).id), q # Target(r)
  PROVE  \/ q \in suspect \/ OwedBy(Requests \ {r}, q)
         \/ ~req[r].wrote /\ (Due(req[r], q) \/ NoRow = Mirror(file, q))
  <1> DEFINE p == Target(r)
             f == Payload(r)
  <1>1. /\ q \in Paths /\ Visible(r, q) # NoRow /\ Visible(r, q).id = f.id
        /\ p \in Paths /\ p \in DOMAIN req[r].scan /\ f = req[r].scan[p]
        /\ f \in Files /\ f.id \in OwnIds(p) /\ Unlocked(r, q)
    BY CopyFacts, TouchedIsUnlocked DEF PathsOf
  <1>2. CASE ~req[r].wrote
    <2>1. CASE IsNote(req[r].scan[q])
      BY <1>2, <2>1, TakenIsDue
    <2>2. CASE ~IsNote(req[r].scan[q])
      <3>1. q \in DOMAIN req[r].scan
        BY <1>1, <1>2, CopyFacts, FormedNow DEF Copied
      <3>2. q \in suspect \/ ~IsNote(file[q])
        BY <2>2, <3>1 DEF MirrorInv, CopiesHold
      <3> QED
        BY <1>2, <3>2 DEF Mirror
    <2> QED
      BY <2>1, <2>2
  <1>3. CASE req[r].wrote
    <2>1. ~Owes(r, q)
      <3>1. req[r].todo = {p}
        BY <1>3, CopyFacts
      <3> QED
        BY <1>3, <3>1 DEF Owes, Owing, Due, Walking
    <2>2. CASE IsNote(file[q]) /\ file[q].id = f.id
      BY <1>1, <1>3, <2>2 DEF MirrorInv, IdsApart
    <2>3. CASE ~IsNote(file[q]) \/ file[q].id # f.id
      <3>1. Visible(r, q) \notin {Mirror(file, q), ErrorRow(q)}
        <4>1. Visible(r, q) # ErrorRow(q)
          BY <1>1, NativeIds DEF ErrorRow
        <4>2. IsNote(file[q]) => RowOf(file[q]).id = file[q].id
          BY DEF RowOf
        <4> QED
          BY <1>1, <2>3, <4>1, <4>2 DEF Mirror
      <3>2. CASE tx[r][q] # Same
        <4>1. tx[r][q] = Visible(r, q)
          BY <3>2 DEF Visible
        <4> QED
          BY <1>1, <2>1, <3>1, <3>2, <4>1 DEF MirrorInv, PendingExplained
      <3>3. CASE tx[r][q] = Same
        <4>1. row[q] = Visible(r, q) /\ \A s \in Requests : tx[s][q] = Same
          BY <1>1, <3>3 DEF Visible, Unlocked
        <4>2. q \in suspect \/ OwedBy(Requests, q)
          BY <1>1, <3>1, <4>1 DEF MirrorInv, CommittedExplained
        <4> QED
          BY <2>1, <4>2 DEF OwedBy
      <3> QED
        BY <3>2, <3>3
    <2> QED
      BY <2>2, <2>3
  <1> QED
    BY <1>2, <1>3

LEMMA MirrorUpsert ==
  ASSUME MirrorInv, NEW r \in Requests, Upsert(r)
  PROVE  MirrorInv'
  <1> DEFINE p == Target(r)
             f == Payload(r)
             new == RowOf(f)
             taken == PathsOf(r, new.id)
             T == {p} \cup taken
             t == [q \in Paths |-> IF q = p THEN new ELSE IF q \in taken THEN NoRow
                                   ELSE tx[r][q]]
             o == Onward(r)
  <1>1. /\ req[r].at = "flushing" /\ UNCHANGED <<file, row, suspect>>
        /\ Unlocked(r, p) /\ IdUnlocked(r, new.id)
    BY DEF Upsert, At
  <1>2. CASE tx' = [tx EXCEPT ![r] = t] /\ Advance(r)
    <2>1. /\ p \in Paths /\ Shaped(o) /\ Copied(o) /\ o.wrote = req[r].wrote
          /\ o.scanned = req[r].scanned /\ o.scan \in {req[r].scan, <<>>}
          /\ \A q : Leaves(req[r], q) => Leaves(o, q)
          /\ \A q : (q # p /\ Due(req[r], q)) => Due(o, q)
          /\ ~req[r].wrote => /\ Walking(req[r]) /\ Walking(o) /\ o.scan = req[r].scan
                              /\ req[r].scanned
          /\ req[r].wrote => o.at = "committing" /\ ~Walking(o)
      BY <1>1, OnwardFacts
    <2>2. /\ f \in Files /\ f.id \in OwnIds(p) /\ f = req[r].scan[p]
          /\ req[r].wrote => p = req[r].path /\ req[r].todo = {p}
          /\ ~req[r].wrote => p \in Accepted(req[r].scan)
      BY <1>1, CopyFacts
    <2>3. new \in Rows /\ new.id = f.id /\ new \notin {NoRow, Same}
      BY <2>1, <2>2, RowKinds
    <2>4. /\ req' = [req EXCEPT ![r] = o] /\ Pending(req[r], tx[r])
          /\ tx[r] \in [Paths -> Rows \cup {NoRow, Same}]
          /\ \A q \in Paths : tx[r][q] \notin {NoRow, Same} => tx[r][q].id \in OwnIds(q)
      BY <1>2, FormedNow DEF Advance, Pending
    <2>5. \A q \in taken : q \in Paths /\ Unlocked(r, q)
      BY <1>1, TouchedIsUnlocked
    <2>6. \A q \in taken \ {p} :
             \/ q \in suspect \/ OwedBy(Requests \ {r}, q)
             \/ ~req[r].wrote /\ (Due(req[r], q) \/ NoRow = Mirror(file, q))
      <3> SUFFICES ASSUME NEW q \in PathsOf(r, f.id), q # p
                   PROVE  \/ q \in suspect \/ OwedBy(Requests \ {r}, q)
                          \/ ~req[r].wrote /\ (Due(req[r], q) \/ NoRow = Mirror(file, q))
        BY <2>3
      <3>1. IdUnlocked(r, f.id)
        BY <1>1, <2>3
      <3> HIDE DEF f
      <3> QED
        BY <1>1, <3>1, TakenExplained DEF f
    <2>7. ~req[r].wrote => \A q \in taken \ {p} : IsNote(req[r].scan[q]) => Due(req[r], q)
      BY <1>1, <2>3, TakenIsDue
    <2>8. p \in suspect \/ new = Mirror(file, p)
      BY <1>1, PutMirrors
    <2> HIDE DEF o, p, f, new, taken
    <2>9. /\ t \in [Paths -> Rows \cup {NoRow, Same}] /\ t[p] = new
          /\ \A q \in taken \ {p} : t[q] = NoRow
          /\ \A q \in Paths \ T : t[q] = tx[r][q]
      BY <2>1, <2>3, <2>4, <2>5
    <2> HIDE DEF t
    <2>10. \A q \in Paths : t[q] \notin {NoRow, Same} => t[q].id \in OwnIds(q)
      BY <2>2, <2>3, <2>4, <2>9
    <2>11. ASSUME NEW q \in Paths, Walking(o), IsNote(o.scan[q]), ~Due(o, q)
           PROVE  t[q] = ErrorRow(q) \/ (q \in Accepted(o.scan) /\ t[q] = RowOf(o.scan[q]))
      <3>1. ~req[r].wrote /\ Walking(req[r]) /\ o.scan = req[r].scan
        BY <2>1, <2>11
      <3>2. CASE q = p
        BY <2>2, <2>9, <3>1, <3>2 DEF new
      <3>3. CASE q # p
        <4>1. ~Due(req[r], q) /\ q \notin taken
          BY <2>1, <2>7, <2>11, <3>1, <3>3
        <4> QED
          BY <2>4, <2>9, <2>11, <3>1, <3>3, <4>1 DEF Pending
      <3> QED
        BY <3>2, <3>3
    <2>12. Formed(o, t)
      <3>1. ~o.scanned /\ o.at # "committing" => t = Unchanged
        BY <2>1
      <3>2. Pending(o, t)
        BY <2>9, <2>10, <2>11, <3>1 DEF Pending
      <3> QED
        BY <2>1, <3>2 DEF Formed
    <2>13. \A q \in Paths \ T : Owes(r, q) => Owing(o, Visible(r, q), q)
      BY <1>1, <2>1, <2>2 DEF Owes, Owing, Due, Walking
    <2>14. Leaves(o, p)
      BY <2>1, <2>2 DEF Leaves
    <2>15. \A q \in taken \ {p} : ~req[r].wrote => Leaves(o, q)
      BY <2>1, <2>5 DEF Leaves
    <2>16. ASSUME NEW q \in Paths \cap T
           PROVE  t[q] # Same /\ Unlocked(r, q) /\ Explained(r, o, t, q)
      <3>1. CASE q = p
        BY <1>1, <2>3, <2>8, <2>9, <2>14, <3>1 DEF Explained, p
      <3>2. CASE q # p
        <4>1. q \in taken /\ t[q] = NoRow /\ Unlocked(r, q)
          BY <2>5, <2>9, <2>16, <3>2
        <4>2. Due(req[r], q) => Owing(o, t[q], q)
          BY <2>1, <3>2 DEF Owing
        <4> QED
          BY <2>6, <2>15, <3>2, <4>1, <4>2, RowAssumption DEF Explained
      <3> QED
        BY <3>1, <3>2
    <2> HIDE DEF T
    <2>17. \A q \in Paths \ T : t[q] = tx[r][q] /\ (Owes(r, q) => Owing(o, Visible(r, q), q))
      BY <2>9, <2>13
    <2> QED
      BY <1>1, <1>2, <2>1, <2>4, <2>12, <2>16, <2>17, SessionStep
  <1>3. CASE Unindexed(r)
    BY <1>1, <1>3, UnindexedStep
  <1>4. (tx' = [tx EXCEPT ![r] = t] /\ Advance(r)) \/ Unindexed(r)
    BY Zenon DEF Upsert, Rest
  <1> QED
    BY <1>2, <1>3, <1>4

(* Rows of files that the scan did not find go.                             *)
LEMMA MirrorSettle ==
  ASSUME MirrorInv, NEW r \in Requests, Settle(r)
  PROVE  MirrorInv'
  <1> DEFINE to == IF req[r].back # "idle" THEN req[r].back ELSE "committing"
             lane == IF req[r].back = "resolving" THEN req[r].lane ELSE "none"
             o == [req[r] EXCEPT !.scan = <<>>, !.at = to, !.lane = lane]
             T == Missing(r)
             t == [p \in Paths |-> IF p \in T THEN NoRow ELSE tx[r][p]]
  <1>1. /\ req[r].at = "settling" /\ UNCHANGED <<file, row, suspect>>
        /\ req' = [req EXCEPT ![r] = o] /\ tx' = [tx EXCEPT ![r] = t]
        /\ \A p \in T : Unlocked(r, p)
    BY DEF Settle, At, MirrorInv, Typed
  <1>2. /\ Shaped(req[r]) /\ Copied(req[r]) /\ Pending(req[r], tx[r])
        /\ Walking(req[r]) /\ ~req[r].wrote /\ req[r].scanned
    BY <1>1, FormedNow DEF Shaped, Walking, Copying, Turns
  <1>3. DOMAIN req[r].scan = Paths
    BY <1>2 DEF Copied
  <1>4. \A p \in T : p \in Paths /\ (p \in suspect \/ NoRow = Mirror(file, p))
    <2>1. \A p \in T : p \in Paths /\ req[r].scan[p] = NoFile
      BY DEF Missing
    <2>2. \A p \in T : p \in suspect \/ file[p] = NoFile
      BY <1>3, <2>1 DEF MirrorInv, CopiesHold
    <2> QED
      BY <2>1, <2>2, NoteKinds DEF Mirror
  <1>5. /\ to \in {"reading", "resolving", "committing"}
        /\ to = "committing" \/ to = req[r].back
    BY <1>2 DEF Shaped
  <1> HIDE DEF to, lane
  <1>6. /\ DOMAIN o = DOMAIN Fresh /\ o.at = to /\ o.path = req[r].path
        /\ o.kind = req[r].kind /\ o.wrote = req[r].wrote /\ o.scanned = req[r].scanned
        /\ o.back = req[r].back /\ o.named = req[r].named /\ o.expects = req[r].expects
        /\ o.scan = <<>>
    BY <1>2 DEF Shaped, Fresh
  <1> HIDE DEF o
  <1>7. /\ tx[r] \in [Paths -> Rows \cup {NoRow, Same}]
        /\ \A p \in Paths : tx[r][p] \notin {NoRow, Same} => tx[r][p].id \in OwnIds(p)
    BY <1>2 DEF Pending
  <1>8. /\ t \in [Paths -> Rows \cup {NoRow, Same}]
        /\ \A p \in Paths \ T : t[p] = tx[r][p]
        /\ \A p \in Paths \cap T : t[p] = NoRow
    BY <1>7
  <1>9. \A p \in Paths \ T : ~Owes(r, p)
    BY <1>1 DEF Owes, Owing, Due, Missing, Turns
  <1> HIDE DEF t, T
  <1>10. Formed(o, t)
    <2>1. Shaped(o)
      BY <1>2, <1>5, <1>6 DEF Shaped, Points, Ended, Turns, Writes
    <2>2. Copied(o)
      BY <1>2, <1>5, <1>6 DEF Copied, Copying, Walking, Turns
    <2>3. \A p \in Paths : t[p] \notin {NoRow, Same} => t[p].id \in OwnIds(p)
      BY <1>7, <1>8
    <2>4. ~Walking(o)
      BY <1>5, <1>6 DEF Walking, Copying, Turns
    <2>5. Pending(o, t)
      BY <1>2, <1>6, <1>8, <2>3, <2>4 DEF Pending
    <2> QED
      BY <2>1, <2>2, <2>5 DEF Formed
  <1>11. \A p \in Paths \cap T : t[p] # Same /\ Unlocked(r, p) /\ Explained(r, o, t, p)
    <2>1. \A p \in Paths : Leaves(o, p)
      BY <1>2, <1>6 DEF Leaves
    <2> QED
      BY <1>1, <1>4, <1>8, <2>1, RowAssumption DEF Explained
  <1>12. \A p \in Paths \ T : t[p] = tx[r][p] /\ (Owes(r, p) => Owing(o, Visible(r, p), p))
    BY <1>8, <1>9
  <1>13. \A p : Leaves(req[r], p) => Leaves(o, p)
    BY <1>6 DEF Leaves
  <1> QED
    BY <1>1, <1>6, <1>10, <1>11, <1>12, <1>13, SessionStep

-----------------------------------------------------------------------------
(* The end of requests.                                                     *)

LEMMA FreshFormed ==
  /\ Formed(Fresh, Unchanged)
  /\ \A at \in {"ok", "failed"} : Formed([Fresh EXCEPT !.at = at], Unchanged)
  <1>1. ASSUME NEW o, NEW at \in Ended,
               DOMAIN o = DOMAIN Fresh, o.at = at, o.kind = "save", o.wrote = FALSE,
               o.scanned = FALSE, o.back = "idle", o.named = NoId, o.expects = Anything,
               o.scan = <<>>, o.lane = "none"
        PROVE  Formed(o, Unchanged)
    <2>1. Shaped(o)
      BY <1>1 DEF Shaped, Points, Kinds, Ended, Turns, Writes
    <2>2. Copied(o) /\ ~Walking(o)
      BY <1>1 DEF Copied, Copying, Walking, Turns, Ended
    <2>3. /\ Unchanged \in [Paths -> Rows \cup {NoRow, Same}]
          /\ \A p \in Paths : Unchanged[p] = Same
      BY DEF Unchanged
    <2>4. Pending(o, Unchanged)
      BY <2>2, <2>3 DEF Pending
    <2> QED
      BY <2>1, <2>2, <2>4 DEF Formed
  <1>2. Formed(Fresh, Unchanged)
    BY <1>1 DEF Fresh, Ended
  <1>3. ASSUME NEW at \in {"ok", "failed"}
        PROVE  Formed([Fresh EXCEPT !.at = at], Unchanged)
    <2> DEFINE o == [Fresh EXCEPT !.at = at]
    <2>1. /\ DOMAIN o = DOMAIN Fresh /\ o.at = at /\ o.kind = "save" /\ o.wrote = FALSE
          /\ o.scanned = FALSE /\ o.back = "idle" /\ o.named = NoId /\ o.expects = Anything
          /\ o.scan = <<>> /\ o.lane = "none" /\ at \in Ended
      BY DEF Fresh, Ended
    <2> HIDE DEF o
    <2>2. Formed(o, Unchanged)
      BY <1>1, <2>1
    <2> QED
      BY <2>2 DEF o
  <1> QED
    BY <1>2, <1>3

LEMMA LeftPaths ==
  ASSUME MirrorInv, NEW r \in Requests
  PROVE  /\ Unsettled(r) \subseteq Paths
         /\ \A p \in Paths : p \in Unsettled(r) <=> Leaves(req[r], p)
  <1>1. req[r].wrote => req[r].path \in Paths
    BY FormedNow DEF Shaped, Ended
  <1> QED
    BY <1>1 DEF Unsettled, Leaves, Path

(* Some requests end without a commit, and mark what they leave behind.     *)
LEMMA AbortStep ==
  ASSUME MirrorInv, NEW E \in SUBSET Requests,
         file' = file, row' = row, DOMAIN req' = Requests,
         tx' \in [Requests -> [Paths -> Rows \cup {NoRow, Same}]],
         \A s \in E : tx'[s] = Unchanged /\ req'[s] = [Fresh EXCEPT !.at = "failed"],
         \A s \in Requests \ E : tx'[s] = tx[s] /\ req'[s] = req[s],
         suspect \subseteq suspect', suspect' \subseteq Paths,
         \A s \in E : Unsettled(s) \subseteq suspect'
  PROVE  MirrorInv'
  <1> DEFINE dead == [Fresh EXCEPT !.at = "failed"]
  <1>1. Formed(dead, Unchanged) /\ dead.scan = <<>> /\ ~dead.wrote
    BY FreshFormed DEF Fresh
  <1>2. \A s \in E, p \in Paths : Unchanged[p] = Same /\ tx'[s][p] = Same
    BY DEF Unchanged
  <1>3. \A s \in E, p \in Paths : Leaves(req[s], p) => p \in suspect'
    BY LeftPaths
  <1>4. \A s \in E, p \in Paths : Owes(s, p) => p \in suspect'
    BY <1>3, FormedNow, OwedIsLeft DEF Owes
  <1>5. \A s \in Requests \ E, p \in Paths : Owes(s, p)' <=> Owes(s, p)
    BY DEF Owes, Visible
  <1>6. \A R \in SUBSET Requests, p \in Paths \ suspect' : OwedBy(R, p) => OwedBy(R, p)'
    BY <1>4, <1>5 DEF OwedBy
  <1> HIDE DEF dead
  <1>7. Typed'
    <2>1. \A s \in Requests : Formed(req'[s], tx'[s])
      BY <1>1, FormedNow DEF dead
    <2> QED
      BY <2>1 DEF MirrorInv, Typed
  <1>8. CommittedExplained'
    <2> SUFFICES ASSUME NEW p \in Paths \ suspect', \A s \in Requests : tx'[s][p] = Same,
                        ~OwedBy(Requests, p)'
                 PROVE  row[p] = Mirror(file, p) /\ row[p] # ErrorRow(p)
      BY DEF CommittedExplained
    <2>1. ASSUME NEW s \in Requests, tx[s][p] # Same
          PROVE  FALSE
      <3>1. s \in E
        BY <2>1
      <3>2. OwedBy(Requests \ {s}, p)
        BY <1>3, <2>1, <3>1 DEF MirrorInv, PendingExplained
      <3>3. OwedBy(Requests, p)
        BY <3>2 DEF OwedBy
      <3> QED
        BY <1>6, <3>3
    <2> QED
      BY <1>6, <2>1 DEF MirrorInv, CommittedExplained
  <1>9. PendingExplained'
    <2> SUFFICES ASSUME NEW s \in Requests, NEW p \in Paths \ suspect', tx'[s][p] # Same
                 PROVE  \/ OwedBy(Requests \ {s}, p)'
                        \/ /\ Leaves(req'[s], p)
                           /\ Owes(s, p)' \/ tx'[s][p] \in {Mirror(file, p), ErrorRow(p)}
      BY DEF PendingExplained
    <2>1. s \notin E /\ tx'[s] = tx[s] /\ req'[s] = req[s]
      BY <1>2
    <2>2. \/ OwedBy(Requests \ {s}, p)
          \/ /\ Leaves(req[s], p)
             /\ Owes(s, p) \/ tx[s][p] \in {Mirror(file, p), ErrorRow(p)}
      BY <2>1 DEF MirrorInv, PendingExplained
    <2> QED
      BY <1>5, <1>6, <2>1, <2>2
  <1>10. OneHolder'
    BY <1>2 DEF MirrorInv, OneHolder
  <1>11. \A s \in Requests : \/ req'[s] = req[s]
                             \/ req'[s].scan = <<>> /\ ~req'[s].wrote
    BY <1>1 DEF dead
  <1>12. CopiesHold'
    BY <1>11 DEF MirrorInv, CopiesHold
  <1>13. IdsApart'
    BY <1>11 DEF MirrorInv, IdsApart
  <1> QED
    BY <1>7, <1>8, <1>9, <1>10, <1>12, <1>13 DEF MirrorInv

LEMMA MirrorRollback ==
  ASSUME MirrorInv, NEW r \in Requests, Rollback(r)
  PROVE  MirrorInv'
  <1>1. /\ DOMAIN req' = Requests /\ file' = file /\ row' = row
        /\ req'[r] = [Fresh EXCEPT !.at = "failed"] /\ tx'[r] = Unchanged
        /\ \A s \in Requests \ {r} : tx'[s] = tx[s] /\ req'[s] = req[s]
        /\ suspect' = suspect \cup Unsettled(r)
    BY DEF Rollback, MirrorInv, Typed
  <1>2. tx' \in [Requests -> [Paths -> Rows \cup {NoRow, Same}]]
    <2>1. Unchanged \in [Paths -> Rows \cup {NoRow, Same}]
      BY DEF Unchanged
    <2> QED
      BY <2>1 DEF Rollback, MirrorInv, Typed
  <1>3. suspect' \subseteq Paths
    BY <1>1, LeftPaths DEF MirrorInv, Typed
  <1>4. /\ {r} \in SUBSET Requests /\ suspect \subseteq suspect'
        /\ \A s \in {r} : tx'[s] = Unchanged /\ req'[s] = [Fresh EXCEPT !.at = "failed"]
        /\ \A s \in {r} : Unsettled(s) \subseteq suspect'
    BY <1>1
  <1> QED
    BY <1>1, <1>2, <1>3, <1>4, AbortStep

LEMMA MirrorDie ==
  ASSUME MirrorInv, Die
  PROVE  MirrorInv'
  <1> DEFINE E == {r \in Requests : Under(r)}
  <1>1. /\ DOMAIN req' = Requests /\ file' = file /\ row' = row
        /\ \A s \in E : req'[s] = [Fresh EXCEPT !.at = "failed"]
        /\ \A s \in Requests \ E : req'[s] = req[s]
        /\ \A s \in Requests : tx'[s] = Unchanged
        /\ suspect' = suspect \cup UNION {Unsettled(r) : r \in Requests}
    BY DEF Die
  <1>2. \A s \in Requests \ E : tx[s] = Unchanged
    <2> SUFFICES ASSUME NEW s \in Requests, ~Under(s)
                 PROVE  tx[s] = Unchanged
      OBVIOUS
    <2>1. req[s].at \in Ended
      BY DEF Under, At, Finished, Ended
    <2> QED
      BY <2>1, FormedNow DEF Shaped, Pending, Ended
  <1>3. tx' \in [Requests -> [Paths -> Rows \cup {NoRow, Same}]]
    <2>1. Unchanged \in [Paths -> Rows \cup {NoRow, Same}]
      BY DEF Unchanged
    <2> QED
      BY <2>1 DEF Die
  <1>4. suspect' \subseteq Paths
    BY <1>1, LeftPaths DEF MirrorInv, Typed
  <1>5. \A s \in E : Unsettled(s) \subseteq suspect'
    BY <1>1
  <1> HIDE DEF E
  <1>6. E \in SUBSET Requests
    BY DEF E
  <1> QED
    BY <1>1, <1>2, <1>3, <1>4, <1>5, <1>6, AbortStep

(* A commit: what the session held is now the row that everybody sees.      *)
LEMMA MirrorCommit ==
  ASSUME MirrorInv, NEW r \in Requests, Commit(r)
  PROVE  MirrorInv'
  <1> DEFINE done == [Fresh EXCEPT !.at = "ok"]
  <1>1. /\ req[r].at = "committing" /\ file' = file /\ row' = [p \in Paths |-> Visible(r, p)]
        /\ DOMAIN req' = Requests /\ req'[r] = done
        /\ \A s \in Requests \ {r} : req'[s] = req[s] /\ tx'[s] = tx[s]
        /\ tx'[r] = Unchanged
        /\ suspect' = suspect \cup {p \in Paths : tx[r][p] = ErrorRow(p)}
    BY DEF Commit, At, MirrorInv, Typed
  <1>2. Formed(done, Unchanged) /\ done.scan = <<>> /\ ~done.wrote
    BY FreshFormed DEF Fresh
  <1> HIDE DEF done
  <1>3. /\ \A p \in Paths : Unchanged[p] = Same /\ ~Owes(r, p)
        /\ Unchanged \in [Paths -> Rows \cup {NoRow, Same}]
    BY <1>1 DEF Unchanged, Owes, Owing, Due, Walking, Copying, Turns
  <1>4. tx' \in [Requests -> [Paths -> Rows \cup {NoRow, Same}]]
    BY <1>3 DEF Commit, MirrorInv, Typed
  <1>5. \A p \in Paths : tx[r][p] = Same =>
           /\ row'[p] = row[p]
           /\ \A s \in Requests \ {r} : Owes(s, p)' <=> Owes(s, p)
    BY <1>1 DEF Visible, Owes
  <1>6. \A R \in SUBSET Requests, p \in Paths :
           (tx[r][p] = Same /\ OwedBy(R, p)) => OwedBy(R, p)'
    BY <1>3, <1>5 DEF OwedBy
  <1>7. Typed'
    <2>1. \A s \in Requests : Formed(req'[s], tx'[s])
      BY <1>1, <1>2 DEF MirrorInv, Typed
    <2>2. \A p \in Paths : row'[p] \in Rows \cup {NoRow}
                           /\ (row'[p] # NoRow => row'[p].id \in OwnIds(p))
      BY <1>1, SeenIds
    <2>3. row' \in [Paths -> Rows \cup {NoRow}]
      BY <1>1, <2>2
    <2> QED
      BY <1>1, <1>4, <2>1, <2>2, <2>3 DEF MirrorInv, Typed
  <1>8. CommittedExplained'
    <2> SUFFICES ASSUME NEW p \in Paths, \A s \in Requests : tx'[s][p] = Same,
                        p \notin suspect', ~OwedBy(Requests, p)'
                 PROVE  row'[p] = Mirror(file, p) /\ row'[p] # ErrorRow(p)
      BY <1>1 DEF CommittedExplained
    <2>1. CASE tx[r][p] = Same
      <3>1. \A s \in Requests : tx[s][p] = Same
        BY <1>1, <2>1
      <3>2. ~OwedBy(Requests, p) /\ p \notin suspect
        BY <1>1, <1>6, <2>1
      <3> QED
        BY <1>5, <2>1, <3>1, <3>2 DEF MirrorInv, CommittedExplained
    <2>2. CASE tx[r][p] # Same
      <3>1. row'[p] = tx[r][p] /\ tx[r][p] # ErrorRow(p) /\ p \notin suspect
        BY <1>1, <2>2 DEF Visible
      <3>2. CASE tx[r][p] = Mirror(file, p)
        BY <3>1, <3>2
      <3>3. CASE OwedBy(Requests \ {r}, p)
        <4>1. PICK s \in Requests \ {r} : Owes(s, p)
          BY <3>3 DEF OwedBy
        <4>2. ~Owes(s, p)' /\ req'[s] = req[s] /\ tx[s][p] = Same
          BY <1>1 DEF OwedBy
        <4>3. Visible(s, p)' = row'[p]
          BY <1>1, <4>2 DEF Visible
        <4>4. Walking(req[s]) /\ req[s].scan[p] = NoFile /\ row'[p] = NoRow
          BY <4>1, <4>2, <4>3 DEF Owes, Owing
        <4>5. p \in DOMAIN req[s].scan
          BY <4>4, FormedNow DEF Copied
        <4>6. file[p] = NoFile
          BY <3>1, <4>4, <4>5 DEF MirrorInv, CopiesHold
        <4>7. ErrorRow(p) \in Rows
          BY DEF ErrorRow, Rows, Ids, Texts
        <4> QED
          BY <4>4, <4>6, <4>7, RowAssumption, NoteKinds DEF Mirror
      <3>4. OwedBy(Requests \ {r}, p) \/ tx[r][p] = Mirror(file, p)
        BY <1>3, <2>2, <3>1 DEF MirrorInv, PendingExplained
      <3> QED
        BY <3>2, <3>3, <3>4
    <2> QED
      BY <2>1, <2>2
  <1>9. PendingExplained'
    <2> SUFFICES ASSUME NEW s \in Requests, NEW p \in Paths, tx'[s][p] # Same
                 PROVE  \/ p \in suspect' \/ OwedBy(Requests \ {s}, p)'
                        \/ /\ Leaves(req'[s], p)
                           /\ Owes(s, p)' \/ tx'[s][p] \in {Mirror(file, p), ErrorRow(p)}
      BY <1>1 DEF PendingExplained
    <2>1. s # r /\ tx'[s] = tx[s] /\ req'[s] = req[s]
      BY <1>1, <1>3
    <2>2. tx[r][p] = Same
      BY <2>1 DEF MirrorInv, OneHolder
    <2>3. \/ p \in suspect \/ OwedBy(Requests \ {s}, p)
          \/ /\ Leaves(req[s], p)
             /\ Owes(s, p) \/ tx[s][p] \in {Mirror(file, p), ErrorRow(p)}
      BY <2>1 DEF MirrorInv, PendingExplained
    <2> QED
      BY <1>1, <1>5, <1>6, <2>1, <2>2, <2>3
  <1>10. OneHolder'
    BY <1>1, <1>3 DEF MirrorInv, OneHolder
  <1>11. \A s \in Requests : \/ req'[s] = req[s]
                             \/ req'[s].scan = <<>> /\ ~req'[s].wrote
    BY <1>1, <1>2
  <1>12. CopiesHold'
    BY <1>1, <1>11 DEF MirrorInv, CopiesHold
  <1>13. IdsApart'
    BY <1>1, <1>11 DEF MirrorInv, IdsApart
  <1> QED
    BY <1>7, <1>8, <1>9, <1>10, <1>12, <1>13 DEF MirrorInv

-----------------------------------------------------------------------------
(* Files.  A request replaces one and owes its row.                         *)
LEMMA WroteMirrors ==
  ASSUME MirrorInv, NEW r \in Requests, NEW f, Wrote(r, Path(r), f),
         req[r].at \in {"writing", "patching"}, UNCHANGED <<row, tx>>,
         f \in Files, f.id \in OwnIds(Path(r)), f.ok
  PROVE  MirrorInv'
  <1>0. PICK p \in Paths : p = Path(r)
    BY FormedNow DEF Shaped, Path, Ended
  <1> DEFINE scan == [q \in {p} |-> f]
             o == [req[r] EXCEPT !.at = "looking", !.path = p, !.wrote = TRUE,
                                 !.scan = scan, !.todo = {p}]
  <1>1. /\ Shaped(req[r]) /\ Copied(req[r]) /\ Pending(req[r], tx[r]) /\ p \in Paths
        /\ ~req[r].wrote /\ p = req[r].path
    BY <1>0, FormedNow DEF Shaped, Path, Ended
  <1>2. /\ req' = [req EXCEPT ![r] = o] /\ file' = [file EXCEPT ![p] = f]
        /\ suspect' = suspect \cup Crossed(r, scan) \cup Doubled(p, f)
    BY <1>0 DEF Wrote, MirrorInv, Typed
  <1>3. DOMAIN scan = {p} /\ scan[p] = f
    OBVIOUS
  <1> HIDE DEF scan
  <1>4. /\ DOMAIN o = DOMAIN Fresh /\ o.at = "looking" /\ o.path = p
        /\ o.kind = req[r].kind /\ o.wrote = TRUE /\ o.scanned = req[r].scanned
        /\ o.back = req[r].back /\ o.named = req[r].named /\ o.expects = req[r].expects
        /\ o.scan = scan /\ o.todo = {p}
    BY <1>1 DEF Shaped, Fresh
  <1> HIDE DEF o
  <1>5. /\ DOMAIN req' = Requests /\ req'[r] = o /\ file'[p] = f
        /\ file' \in [Paths -> Files \cup {NoFile, Plain}]
        /\ \A s \in Requests \ {r} : req'[s] = req[s]
        /\ \A q \in Paths \ {p} : file'[q] = file[q]
    BY <1>1, <1>2 DEF MirrorInv, Typed
  <1>6. Formed(o, tx[r])
    <2>1. Shaped(o)
      BY <1>1, <1>4 DEF Shaped, Points, Ended, Turns, Writes
    <2>2. Copied(o)
      BY <1>0, <1>3, <1>4 DEF Copied, Copying, Walking, Turns, scan
    <2>3. Pending(o, tx[r])
      BY <1>1, <1>4 DEF Pending, Walking
    <2> QED
      BY <2>1, <2>2, <2>3 DEF Formed
  <1>7. IsNote(f) /\ f # Plain
    BY NoteKinds
  <1>8. /\ suspect \subseteq suspect' /\ suspect' \subseteq Paths
        /\ \A s \in Requests \ {r} : p \in DOMAIN req[s].scan => p \in suspect'
        /\ \A s \in Requests \ {r} : \A q \in DOMAIN req[s].scan :
              (IsNote(req[s].scan[q]) /\ req[s].scan[q].id = f.id) => p \in suspect'
        /\ \A q \in Paths \ {p} : (IsNote(file[q]) /\ file[q].id = f.id)
              => p \in suspect' /\ q \in suspect'
    <2>1. Crossed(r, scan) \subseteq Paths /\ Doubled(p, f) \subseteq Paths
      BY <1>1, <1>3 DEF Crossed, Doubled
    <2>2. \A s \in Requests \ {r} : p \in DOMAIN req[s].scan => p \in Crossed(r, scan)
      BY <1>3 DEF Crossed
    <2>3. \A s \in Requests \ {r} : \A q \in DOMAIN req[s].scan :
              (IsNote(req[s].scan[q]) /\ req[s].scan[q].id = f.id) => p \in Crossed(r, scan)
      BY <1>3, <1>7 DEF Crossed
    <2>4. \A q \in Paths \ {p} : (IsNote(file[q]) /\ file[q].id = f.id)
              => p \in Doubled(p, f) /\ q \in Doubled(p, f)
      BY <1>7 DEF Doubled
    <2> QED
      BY <1>2, <2>1, <2>2, <2>3, <2>4 DEF MirrorInv, Typed
  <1>9. /\ \A s \in Requests \ {r}, q \in Paths : Owes(s, q)' <=> Owes(s, q)
        /\ \A q \in Paths : ~Owes(r, q)
        /\ Owes(r, p)'
    <2>1. \A s \in Requests, q \in Paths : Visible(s, q)' = Visible(s, q)
      BY DEF Visible
    <2>2. Owing(o, Visible(r, p), p)
      BY <1>4 DEF Owing, Due, Turns
    <2>3. \A q \in Paths : ~Owes(r, q)
      BY <1>1 DEF Owes, Owing, Due, Walking, Copying, Turns
    <2>4. Owes(r, p)'
      BY <1>1, <1>5, <2>1, <2>2 DEF Owes
    <2>5. \A s \in Requests \ {r}, q \in Paths : Owes(s, q)' <=> Owes(s, q)
      BY <1>5, <2>1 DEF Owes
    <2> QED
      BY <2>3, <2>4, <2>5
  <1>10. /\ \A R \in SUBSET Requests, q \in Paths : OwedBy(R, q) => OwedBy(R, q)'
         /\ \A R : r \in R => OwedBy(R, p)'
         /\ OwedBy(Requests, p)' /\ \A s \in Requests \ {r} : OwedBy(Requests \ {s}, p)'
    BY <1>9 DEF OwedBy
  <1>11. \A q \in Paths \ {p} : q \notin suspect' =>
            /\ q \in Accepted(file) => q \in Accepted(file')
            /\ Mirror(file', q) = Mirror(file, q) \/ Mirror(file, q) = ErrorRow(q)
    <2> SUFFICES ASSUME NEW q \in Paths \ {p}, q \notin suspect'
                 PROVE  /\ q \in Accepted(file) => q \in Accepted(file')
                        /\ Mirror(file', q) = Mirror(file, q) \/ Mirror(file, q) = ErrorRow(q)
      OBVIOUS
    <2>1. \A k \in {p} : ~IsNote(file'[k]) \/ ~IsNote(file[q]) \/ file'[k].id # file[q].id
      BY <1>5, <1>8
    <2>2. q \in Paths /\ q \notin {p} /\ \A k \in Paths \ {p} : file'[k] = file[k]
      BY <1>5
    <2> QED
      BY <2>1, <2>2, OthersStay
  <1>12. p \in Accepted(file') \cup suspect'
    <2>1. p \notin Accepted(file') =>
             \E q \in Paths \ {p} : IsNote(file'[q]) /\ file'[q].id = f.id
      BY <1>1, <1>5, <1>7, AcceptedFacts
    <2> QED
      BY <1>5, <1>8, <2>1
  <1>13. Typed'
    <2>1. \A s \in Requests : Formed(req'[s], tx[s])
      BY <1>5, <1>6 DEF MirrorInv, Typed
    <2>2. \A q \in Paths : IsNote(file'[q]) => file'[q].id \in OwnIds(q)
      BY <1>0, <1>5 DEF MirrorInv, Typed
    <2> QED
      BY <1>5, <1>7, <1>8, <2>1, <2>2 DEF MirrorInv, Typed
  <1>14. CommittedExplained'
    <2> SUFFICES ASSUME NEW q \in Paths, \A s \in Requests : tx[s][q] = Same,
                        q \notin suspect', ~OwedBy(Requests, q)'
                 PROVE  row[q] = Mirror(file', q) /\ row[q] # ErrorRow(q)
      BY DEF CommittedExplained
    <2>1. q # p /\ q \notin suspect /\ ~OwedBy(Requests, q)
      BY <1>8, <1>10
    <2>2. row[q] = Mirror(file, q) /\ row[q] # ErrorRow(q)
      BY <2>1 DEF MirrorInv, CommittedExplained
    <2> QED
      BY <1>11, <2>1, <2>2
  <1>15. PendingExplained'
    <2> SUFFICES ASSUME NEW s \in Requests, NEW q \in Paths, tx[s][q] # Same,
                        q \notin suspect'
                 PROVE  \/ OwedBy(Requests \ {s}, q)'
                        \/ /\ Leaves(req'[s], q)
                           /\ Owes(s, q)' \/ tx[s][q] \in {Mirror(file', q), ErrorRow(q)}
      BY DEF PendingExplained
    <2>1. CASE q = p
      <3>1. Leaves(o, p)
        BY <1>4 DEF Leaves
      <3> QED
        BY <1>5, <1>9, <1>10, <2>1, <3>1
    <2>2. CASE q # p
      <3>1. \/ OwedBy(Requests \ {s}, q)
            \/ /\ Leaves(req[s], q)
               /\ Owes(s, q) \/ tx[s][q] \in {Mirror(file, q), ErrorRow(q)}
        BY <1>8 DEF MirrorInv, PendingExplained
      <3>2. Leaves(req[s], q) => Leaves(req'[s], q)
        BY <1>1, <1>4, <1>5 DEF Leaves
      <3> QED
        BY <1>9, <1>10, <1>11, <2>2, <3>1, <3>2
    <2> QED
      BY <2>1, <2>2
  <1>16. OneHolder'
    BY DEF MirrorInv, OneHolder
  <1>17. \A s \in Requests : \A q \in DOMAIN req[s].scan : q \in Paths
    BY CopyPaths
  <1>18. CopiesHold'
    <2> SUFFICES ASSUME NEW s \in Requests, NEW q \in DOMAIN req'[s].scan
                 PROVE  /\ req'[s].scan[q] # file'[q] => q \in suspect'
                        /\ \A u \in Requests \ {s} : q \in DOMAIN req'[u].scan => q \in suspect'
                        /\ (req'[s].wrote \/ q \in Accepted(req'[s].scan))
                               => q \in Accepted(file') \cup suspect'
      BY DEF CopiesHold
    <2>1. CASE s = r
      <3>1. q = p /\ req'[s].scan[q] = f
        BY <1>3, <1>4, <1>5, <2>1
      <3> QED
        BY <1>5, <1>8, <1>12, <2>1, <3>1
    <2>2. CASE s # r /\ q = p
      BY <1>5, <1>8, <2>2
    <2>3. CASE s # r /\ q # p
      <3>1. /\ q \in Paths /\ req'[s] = req[s] /\ q \in DOMAIN req[s].scan
            /\ file'[q] = file[q] /\ q \notin DOMAIN o.scan
        BY <1>3, <1>4, <1>5, <1>17, <2>3
      <3>2. /\ req[s].scan[q] # file[q] => q \in suspect
            /\ \A u \in Requests \ {s} : q \in DOMAIN req[u].scan => q \in suspect
            /\ (req[s].wrote \/ q \in Accepted(req[s].scan)) => q \in Accepted(file) \cup suspect
        BY <3>1 DEF MirrorInv, CopiesHold
      <3> QED
        BY <1>5, <1>8, <1>11, <2>3, <3>1, <3>2
    <2> QED
      BY <2>1, <2>2, <2>3
  <1>19. IdsApart'
    <2> SUFFICES ASSUME NEW s \in Requests, NEW q \in DOMAIN req'[s].scan,
                        NEW k \in Paths \ {q}, req'[s].wrote, IsNote(file'[k]),
                        file'[k].id = req'[s].scan[q].id
                 PROVE  k \in suspect'
      BY DEF IdsApart
    <2>1. CASE s = r
      <3>1. q = p /\ req'[s].scan[q] = f
        BY <1>3, <1>4, <1>5, <2>1
      <3> QED
        BY <1>5, <1>8, <3>1
    <2>2. CASE s # r
      <3>1. req'[s] = req[s] /\ req[s].wrote /\ q \in DOMAIN req[s].scan
        BY <1>5, <2>2
      <3>2. CASE k = p
        <4>1. req[s].scan[q] \in Files
          BY <3>1, CopyPaths
        <4>2. IsNote(req[s].scan[q])
          BY <4>1, NoteKinds
        <4> QED
          BY <1>5, <1>8, <2>2, <3>1, <3>2, <4>2
      <3>3. CASE k # p
        BY <1>5, <1>8, <3>1, <3>3 DEF MirrorInv, IdsApart
      <3> QED
        BY <3>2, <3>3
    <2> QED
      BY <2>1, <2>2
  <1> QED
    BY <1>13, <1>14, <1>15, <1>16, <1>18, <1>19 DEF MirrorInv

LEMMA MirrorWriteFile ==
  ASSUME MirrorInv, NEW r \in Requests, WriteFile(r)
  PROVE  MirrorInv'
  <1> DEFINE f == [id |-> req[r].id, text |-> TextOf(r), ok |-> TRUE]
  <1>1. req[r].at = "writing" /\ Wrote(r, Path(r), f) /\ UNCHANGED <<row, tx>>
        /\ Shaped(req[r])
    BY FormedNow DEF WriteFile, At
  <1>2. req[r].id \in OwnIds(Path(r)) /\ Path(r) \in Paths
    BY <1>1 DEF Shaped, Path, Ended
  <1>3. TextOf(r) \in Texts
    BY <1>1 DEF TextOf, Shaped, Texts
  <1>4. f \in Files /\ f.id = req[r].id /\ f.ok
    BY <1>2, <1>3, NativeIds DEF Files
  <1> HIDE DEF f
  <1> QED
    BY <1>1, <1>2, <1>4, WroteMirrors

LEMMA MirrorPatch ==
  ASSUME MirrorInv, NEW r \in Requests, Patch(r)
  PROVE  MirrorInv'
  <1> DEFINE f == [file[Path(r)] EXCEPT !.text = @ \cup {r}]
  <1>1. req[r].at = "patching" /\ UNCHANGED <<row, tx>> /\ Path(r) \in Paths
    BY FormedNow DEF Patch, At, Shaped, Path, Ended
  <1>2. CASE IsNote(file[Path(r)]) /\ file[Path(r)].ok /\ Wrote(r, Path(r), f)
    <2>1. file[Path(r)] \in Files /\ file[Path(r)].id \in OwnIds(Path(r))
      BY <1>1, <1>2, NoteKinds DEF MirrorInv, Typed
    <2>2. f \in Files /\ f.id = file[Path(r)].id /\ f.ok
      BY <1>2, <2>1 DEF Files, Texts
    <2> HIDE DEF f
    <2> QED
      BY <1>1, <1>2, <2>1, <2>2, WroteMirrors
  <1>3. CASE Fail(r) /\ UNCHANGED <<file, suspect>>
    BY <1>1, <1>3, FailedStep DEF Ended
  <1> QED
    BY <1>2, <1>3 DEF Patch

(* Files change without a lane at the paths P: these, and the files that    *)
(* share one of their new ids, are suspect from now on.                     *)
LEMMA LanelessMirrors ==
  ASSUME MirrorInv, NEW P \in SUBSET Paths, UNCHANGED <<row, tx, req>>,
         file' \in [Paths -> Files \cup {NoFile, Plain}],
         \A q \in Paths \ P : file'[q] = file[q],
         \A q \in Paths : IsNote(file'[q]) => file'[q].id \in OwnIds(q),
         suspect \subseteq suspect', suspect' \subseteq Paths, P \subseteq suspect',
         \A p \in P, q \in Paths :
            (IsNote(file'[p]) /\ IsNote(file[q]) /\ file[q].id = file'[p].id) => q \in suspect'
  PROVE  MirrorInv'
  <1>4. \A q \in Paths \ P : q \notin suspect' =>
            /\ q \in Accepted(file) => q \in Accepted(file')
            /\ Mirror(file', q) = Mirror(file, q) \/ Mirror(file, q) = ErrorRow(q)
    BY OthersStay
  <1>5. /\ \A s \in Requests, q \in Paths : Owes(s, q)' <=> Owes(s, q)
        /\ \A R \in SUBSET Requests, q \in Paths : OwedBy(R, q)' <=> OwedBy(R, q)
    <2>1. \A s \in Requests, q \in Paths : Owes(s, q)' <=> Owes(s, q)
      BY DEF Owes, Visible
    <2> QED
      BY <2>1 DEF OwedBy
  <1>6. Typed'
    <2>1. \A q \in Paths : file'[q] = Plain => q \in suspect'
      BY DEF MirrorInv, Typed
    <2> QED
      BY <2>1 DEF MirrorInv, Typed
  <1>7. CommittedExplained'
    <2> SUFFICES ASSUME NEW q \in Paths, \A s \in Requests : tx[s][q] = Same,
                        q \notin suspect', ~OwedBy(Requests, q)
                 PROVE  row[q] = Mirror(file', q) /\ row[q] # ErrorRow(q)
      BY <1>5 DEF CommittedExplained
    <2>1. q \notin P /\ row[q] = Mirror(file, q) /\ row[q] # ErrorRow(q)
      BY DEF MirrorInv, CommittedExplained
    <2> QED
      BY <1>4, <2>1
  <1>8. PendingExplained'
    <2> SUFFICES ASSUME NEW s \in Requests, NEW q \in Paths, tx[s][q] # Same,
                        q \notin suspect'
                 PROVE  \/ OwedBy(Requests \ {s}, q)'
                        \/ /\ Leaves(req[s], q)
                           /\ Owes(s, q)' \/ tx[s][q] \in {Mirror(file', q), ErrorRow(q)}
      BY DEF PendingExplained
    <2>1. \/ OwedBy(Requests \ {s}, q)
          \/ /\ Leaves(req[s], q)
             /\ Owes(s, q) \/ tx[s][q] \in {Mirror(file, q), ErrorRow(q)}
      BY DEF MirrorInv, PendingExplained
    <2> QED
      BY <1>4, <1>5, <2>1
  <1>9. OneHolder'
    BY DEF MirrorInv, OneHolder
  <1>10. CopiesHold'
    <2> SUFFICES ASSUME NEW s \in Requests, NEW q \in DOMAIN req[s].scan
                 PROVE  /\ req[s].scan[q] # file'[q] => q \in suspect'
                        /\ \A u \in Requests \ {s} : q \in DOMAIN req[u].scan => q \in suspect'
                        /\ (req[s].wrote \/ q \in Accepted(req[s].scan))
                               => q \in Accepted(file') \cup suspect'
      BY DEF CopiesHold
    <2>1. CASE q \in P
      BY <2>1
    <2>2. CASE q \notin P
      <3>1. q \in Paths /\ file'[q] = file[q]
        BY <2>2, CopyPaths
      <3>2. /\ req[s].scan[q] # file[q] => q \in suspect
            /\ \A u \in Requests \ {s} : q \in DOMAIN req[u].scan => q \in suspect
            /\ (req[s].wrote \/ q \in Accepted(req[s].scan)) => q \in Accepted(file) \cup suspect
        BY DEF MirrorInv, CopiesHold
      <3> QED
        BY <1>4, <2>2, <3>1, <3>2
    <2> QED
      BY <2>1, <2>2
  <1>11. IdsApart'
    <2> SUFFICES ASSUME NEW s \in Requests, NEW q \in DOMAIN req[s].scan,
                        NEW k \in Paths \ {q}, req[s].wrote, IsNote(file'[k]),
                        file'[k].id = req[s].scan[q].id
                 PROVE  k \in suspect'
      BY DEF IdsApart
    <2>1. CASE k \in P
      BY <2>1
    <2>2. CASE k \notin P
      BY <2>2 DEF MirrorInv, IdsApart
    <2> QED
      BY <2>1, <2>2
  <1> QED
    BY <1>6, <1>7, <1>8, <1>9, <1>10, <1>11 DEF MirrorInv

(* A person edits a note, takes its frontmatter away, deletes it or copies  *)
(* another one over it.                                                     *)
LEMMA MirrorUserEdits ==
  ASSUME MirrorInv, NEW p \in Paths, UserEdits(p)
  PROVE  MirrorInv'
  <1>1. PICK f \in Edited(p) :
             /\ UNCHANGED <<row, tx, req>> /\ file' = [file EXCEPT ![p] = f]
             /\ suspect' = suspect \cup {p} \cup Doubled(p, file[p]) \cup Doubled(p, f)
    BY DEF UserEdits
  <1>2. /\ file \in [Paths -> Files \cup {NoFile, Plain}] /\ suspect \subseteq Paths
        /\ \A q \in Paths : IsNote(file[q]) => file[q].id \in OwnIds(q)
    BY DEF MirrorInv, Typed
  <1>3. f \in Files \cup {NoFile, Plain} /\ (IsNote(f) => f.id \in OwnIds(p))
    <2>1. CASE f \in {NoFile, Plain}
      BY <2>1, NoteKinds
    <2>2. ASSUME NEW q \in Paths, f = file[q], Portable(f)
          PROVE  f \in Files \cup {NoFile, Plain} /\ (IsNote(f) => f.id \in OwnIds(p))
      BY <1>2, <2>2 DEF Portable, OwnIds
    <2>3. ASSUME NEW ok \in BOOLEAN, IsNote(file[p]),
                 f = [file[p] EXCEPT !.text = @ \cup {User}, !.ok = ok]
          PROVE  f \in Files /\ f.id \in OwnIds(p)
      <3>1. file[p] \in Files /\ file[p].id \in OwnIds(p)
        BY <1>2, <2>3, NoteKinds
      <3> QED
        BY <2>3, <3>1 DEF Files, Texts
    <2> QED
      BY <1>1, <2>1, <2>2, <2>3 DEF Edited
  <1>4. /\ file' \in [Paths -> Files \cup {NoFile, Plain}]
        /\ file'[p] = f /\ \A q \in Paths \ {p} : file'[q] = file[q]
    BY <1>1, <1>2, <1>3
  <1>5. \A q \in Paths : IsNote(file'[q]) => file'[q].id \in OwnIds(q)
    BY <1>2, <1>3, <1>4
  <1>6. /\ suspect \subseteq suspect' /\ suspect' \subseteq Paths /\ {p} \subseteq suspect'
        /\ \A q \in Paths : (IsNote(f) /\ IsNote(file[q]) /\ file[q].id = f.id) => q \in suspect'
    BY <1>1, <1>2 DEF Doubled
  <1> QED
    BY <1>1, <1>4, <1>5, <1>6, LanelessMirrors

(* A rename takes a note to another path, whatever is there.                *)
LEMMA MirrorRenames ==
  ASSUME MirrorInv, NEW p \in Paths, NEW q \in Paths, Renames(p, q)
  PROVE  MirrorInv'
  <1>1. /\ UNCHANGED <<row, tx, req>> /\ p # q /\ Portable(file[p])
        /\ file' = [file EXCEPT ![p] = NoFile, ![q] = file[p]]
        /\ suspect' = suspect \cup {p, q} \cup Doubled(p, file[p]) \cup Doubled(q, file[q])
    BY DEF Renames
  <1>2. /\ file \in [Paths -> Files \cup {NoFile, Plain}] /\ suspect \subseteq Paths
        /\ \A k \in Paths : IsNote(file[k]) => file[k].id \in OwnIds(k)
    BY DEF MirrorInv, Typed
  <1>3. /\ file' \in [Paths -> Files \cup {NoFile, Plain}]
        /\ file'[p] = NoFile /\ file'[q] = file[p]
        /\ \A k \in Paths \ {p, q} : file'[k] = file[k]
    BY <1>1, <1>2
  <1>4. IsNote(file[p]) => file[p].id \in OwnIds(q)
    BY <1>1, <1>2 DEF Portable, OwnIds
  <1>5. \A k \in Paths : IsNote(file'[k]) => file'[k].id \in OwnIds(k)
    BY <1>2, <1>3, <1>4, NoteKinds
  <1>6. /\ suspect \subseteq suspect' /\ suspect' \subseteq Paths /\ {p, q} \subseteq suspect'
        /\ \A k \in Paths : (IsNote(file[p]) /\ IsNote(file[k]) /\ file[k].id = file[p].id)
              => k \in suspect'
    BY <1>1, <1>2 DEF Doubled
  <1>7. \A j \in {p, q}, k \in Paths :
           (IsNote(file'[j]) /\ IsNote(file[k]) /\ file[k].id = file'[j].id) => k \in suspect'
    BY <1>3, <1>6, NoteKinds
  <1> QED
    BY <1>1, <1>3, <1>5, <1>6, <1>7, LanelessMirrors

-----------------------------------------------------------------------------
LEMMA MirrorInitially == Init => MirrorInv
  <1> SUFFICES ASSUME Init
               PROVE  MirrorInv
    OBVIOUS
  <1> DEFINE f(p) == [id |-> Known(p), text |-> {}, ok |-> TRUE]
  <1>1. /\ file = [p \in Paths |-> IF p \in Seeded THEN f(p) ELSE NoFile]
        /\ row = [p \in Paths |-> IF p \in Seeded THEN RowOf(file[p]) ELSE NoRow]
        /\ DOMAIN req = Requests /\ tx = [r \in Requests |-> Unchanged] /\ suspect = {}
        /\ \A r \in Requests : req[r] = Fresh
    BY DEF Init, Unchanged
  <1>2. \A p \in Paths : f(p) \in Files /\ f(p).id = Known(p) /\ f(p).ok /\ Known(p) \in OwnIds(p)
    BY DEF Files, Ids, Texts, OwnIds, Free
  <1>3. \A p, q : Known(p) = Known(q) => p = q
    BY DEF Known
  <1> HIDE DEF f
  <1>4. \A p \in Paths : \/ file[p] = NoFile /\ row[p] = NoRow
                         \/ p \in Seeded /\ file[p] = f(p) /\ row[p] = RowOf(f(p))
    BY <1>1
  <1>5. \A p \in Paths : IsNote(file[p]) => p \in Accepted(file)
    <2> SUFFICES ASSUME NEW p \in Paths, IsNote(file[p]), p \notin Accepted(file)
                 PROVE  FALSE
      OBVIOUS
    <2>1. file[p].ok /\ file[p].id = Known(p)
      BY <1>2, <1>4, NoteKinds
    <2>2. PICK q \in Paths \ {p} : IsNote(file[q]) /\ file[q].id = file[p].id
      BY <2>1, AcceptedFacts
    <2>3. file[q].id = Known(q)
      BY <1>2, <1>4, <2>2, NoteKinds
    <2> QED
      BY <1>3, <2>1, <2>2, <2>3
  <1>6. Unchanged \in [Paths -> Rows \cup {NoRow, Same}]
    BY DEF Unchanged
  <1>7. Typed
    <2>1. /\ file \in [Paths -> Files \cup {NoFile, Plain}]
          /\ \A p \in Paths : file[p] # Plain /\ (IsNote(file[p]) => file[p].id \in OwnIds(p))
      <3>1. \A p \in Paths : file[p] \in Files \cup {NoFile} /\ file[p] # Plain
        BY <1>2, <1>4, NoteKinds
      <3>2. \A p \in Paths : IsNote(file[p]) => file[p].id \in OwnIds(p)
        BY <1>2, <1>4, NoteKinds
      <3> QED
        BY <1>1, <3>1, <3>2
    <2>2. /\ row \in [Paths -> Rows \cup {NoRow}]
          /\ \A p \in Paths : row[p] # NoRow => row[p].id \in OwnIds(p)
      <3>1. \A p \in Paths : RowOf(f(p)) \in Rows /\ RowOf(f(p)).id = Known(p)
        BY <1>2, RowKinds
      <3>2. \A p \in Paths : row[p] \in Rows \cup {NoRow}
                             /\ (row[p] # NoRow => row[p].id \in OwnIds(p))
        BY <1>2, <1>4, <3>1
      <3> QED
        BY <1>1, <3>2
    <2>3. \A r \in Requests : Formed(req[r], tx[r])
      BY <1>1, FreshFormed
    <2> QED
      BY <1>1, <1>6, <2>1, <2>2, <2>3 DEF Typed
  <1>8. CommittedExplained
    <2> SUFFICES ASSUME NEW p \in Paths
                 PROVE  row[p] = Mirror(file, p) /\ row[p] # ErrorRow(p)
      BY DEF CommittedExplained
    <2>1. CASE file[p] = NoFile
      <3>1. ErrorRow(p) \in Rows
        BY DEF ErrorRow, Rows, Ids, Texts
      <3>2. row[p] = NoRow
        BY <1>2, <1>4, <2>1, NoteKinds
      <3> QED
        BY <2>1, <3>1, <3>2, RowAssumption, NoteKinds DEF Mirror
    <2>2. CASE file[p] # NoFile
      BY <1>2, <1>4, <1>5, <2>2, RowKinds, NoteKinds DEF Mirror
    <2> QED
      BY <2>1, <2>2
  <1>9. \A r \in Requests, p \in Paths : tx[r][p] = Same
    BY <1>1 DEF Unchanged
  <1>10. PendingExplained /\ OneHolder
    BY <1>9 DEF PendingExplained, OneHolder
  <1>11. \A r \in Requests : req[r].scan = <<>> /\ ~req[r].wrote
    BY <1>1 DEF Fresh
  <1>12. CopiesHold /\ IdsApart
    BY <1>11 DEF CopiesHold, IdsApart
  <1> QED
    BY <1>7, <1>8, <1>10, <1>12 DEF MirrorInv

LEMMA MirrorStutters ==
  ASSUME MirrorInv, UNCHANGED vars
  PROVE  MirrorInv'
  BY DEF MirrorInv, vars, Typed, CommittedExplained, PendingExplained, OneHolder, CopiesHold,
         IdsApart, OwedBy, Owes, Visible

LEMMA MirrorSteps == MirrorInv /\ [Next]_vars => MirrorInv'
  <1> SUFFICES ASSUME MirrorInv, [Next]_vars
               PROVE  MirrorInv'
    OBVIOUS
  <1>1. ASSUME NEW r \in Requests, Start(r) \/ Proceed(r) \/ UpsertFails(r)
        PROVE  MirrorInv'
    BY <1>1, MirrorStart, MirrorEnter, MirrorRefuse, MirrorResolve, MirrorCheck, MirrorMatch,
       MirrorWriteFile, MirrorReadForArchive, MirrorPatch, MirrorLookUp, MirrorUpsert,
       MirrorUpsertFails, MirrorScan, MirrorRejectNote, MirrorSettle, MirrorCommit,
       MirrorRollback DEF Proceed
  <1>2. CASE Die
    BY <1>2, MirrorDie
  <1>3. CASE (\E p \in Paths : UserEdits(p)) \/ \E p, q \in Paths : Renames(p, q)
    BY <1>3, MirrorUserEdits, MirrorRenames
  <1>4. CASE UNCHANGED vars
    BY <1>4, MirrorStutters
  <1> QED
    BY <1>1, <1>2, <1>3, <1>4 DEF Next, Rest

(* Files, rows and requests keep their types, and a session that is over    *)
(* holds no rows and no lane.                                               *)
THEOREM VaultTypes == Spec => []TypeOK
  <1>1. MirrorInv => TypeOK
    <2> SUFFICES ASSUME MirrorInv
                 PROVE  TypeOK
      OBVIOUS
    <2>1. \A r \in Requests : req[r].at \in Points
      BY FormedNow DEF Shaped
    <2>2. ASSUME NEW r \in Requests, ~Under(r)
          PROVE  tx[r] = Unchanged /\ req[r].lane = "none"
      <3>1. req[r].at \in Ended
        BY <2>2 DEF Under, At, Finished, Ended
      <3> QED
        BY <3>1, FormedNow DEF Shaped, Pending, Ended
    <2> QED
      BY <2>1, <2>2 DEF TypeOK, MirrorInv, Typed
  <1> QED
    BY <1>1, MirrorInitially, MirrorSteps, PTL DEF Spec

(* Once the requests have ended, a row differs from its file only where the *)
(* history says why: nothing that the sessions of obsidian_note_service.py  *)
(* and obsidian_vault_lifecycle_service.py do in any order leaves a row     *)
(* behind unnoticed.                                                        *)
THEOREM RowsMirrorFiles == Spec => []UnsuspectedRowsMirrorFiles
  <1>1. MirrorInv => UnsuspectedRowsMirrorFiles
    <2> SUFFICES ASSUME MirrorInv, \A r \in Requests : ~Under(r), NEW p \in Paths \ suspect
                 PROVE  Mirrored(p)
      BY DEF UnsuspectedRowsMirrorFiles
    <2>1. \A r \in Requests : /\ req[r].at \in Ended
                              /\ Shaped(req[r]) /\ Pending(req[r], tx[r])
      BY FormedNow DEF Under, At, Finished, Ended
    <2>2. \A r \in Requests : tx[r] = Unchanged
      BY <2>1 DEF Shaped, Pending, Ended
    <2>3. \A r \in Requests : tx[r][p] = Same
      BY <2>2 DEF Unchanged
    <2>4. ~OwedBy(Requests, p)
      BY <2>1 DEF OwedBy, Owes, Owing, Due, Walking, Copying, Turns, Ended
    <2>5. row[p] = Mirror(file, p)
      BY <2>3, <2>4 DEF MirrorInv, CommittedExplained
    <2> QED
      BY <2>5 DEF Mirrored, Mirror
  <1> QED
    BY <1>1, MirrorInitially, MirrorSteps, PTL DEF Spec
=============================================================================
