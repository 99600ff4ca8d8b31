----------------------- MODULE GraphProjectionProofs -----------------------
(***************************************************************************)
(* Proofs about GraphProjection when replies are honest, for every number  *)
(* of requests, runs and batches, with or without the maintenance lane.    *)
(***************************************************************************)
EXTENDS GraphProjection, TLAPS

(* A request at work owns a started run, which no other request owns.       *)
Ownership ==
    \A b \in Rebuilders :
        IF At(b, "idle") THEN RunOf(b) = NoRun
        ELSE /\ RunOf(b) \in 1..(nextRun - 1)
             /\ \A c \in Rebuilders \ {b} : RunOf(c) # RunOf(b)

(* The transaction that activates b's run has committed.                    *)
Activated(b) ==
    /\ At(b, "writing")
    /\ rebuilder[b].committed
    /\ rebuilder[b].sent = BatchCount

(* What the store holds of the run that b is building.                      *)
Staged(b) ==
    /\ rebuilder[b].at \in {"building", "starting"} =>
           rows[RunOf(b)] = {} /\ rebuilder[b].sent = 0
    /\ At(b, "writing") /\ ~rebuilder[b].committed =>
           rows[RunOf(b)] = 1..rebuilder[b].sent
    /\ At(b, "writing") /\ rebuilder[b].committed
       /\ rebuilder[b].sent < BatchCount =>
           rows[RunOf(b)] = 1..(rebuilder[b].sent + 1)
    /\ Activated(b) => RunOf(b) = active \/ rows[RunOf(b)] = {}
    /\ ~At(b, "idle") /\ RunOf(b) = active => Activated(b)

Staging == \A b \in Rebuilders : Staged(b)

(* Runs that have not started have left no trace.                           *)
Unstarted ==
    \A r \in Runs :
        r >= nextRun => rows[r] = {} /\ outcome[r] = "none" /\ r # active

(* A run that has been reported on is over.                                 *)
ReportedIsOver ==
    \A r \in Runs : outcome[r] # "none" => \A b \in Rebuilders : RunOf(b) # r

(* A status read past its first query has a run.                            *)
Viewing == view.at # "idle" => view.run \in Runs

Inv ==
    /\ TypeOK
    /\ Viewing
    /\ Ownership
    /\ Staging
    /\ Unstarted
    /\ ReportedIsOver
    /\ ActiveIsWhole
    /\ StagingAccounted
    /\ FailedMeansUnchanged

-----------------------------------------------------------------------------
(* What a step of one request does to the others.                           *)

Place == [at : Points, run : Runs \cup {NoRun}, sent : 0..BatchCount,
          committed : BOOLEAN]

(* Only b's entry of rebuilder changes, to p.                               *)
Moves(b, p) == rebuilder' = [rebuilder EXCEPT ![b] = p]

LEMMA MoveFacts ==
    ASSUME TypeOK, NEW b \in Rebuilders, NEW p \in Place, Moves(b, p)
    PROVE  /\ rebuilder' \in [Rebuilders -> Place]
           /\ rebuilder'[b] = p
           /\ \A c \in Rebuilders \ {b} : rebuilder'[c] = rebuilder[c]
  BY DEF TypeOK, Place, Moves

LEMMA PlaceFacts ==
    ASSUME TypeOK, NEW b \in Rebuilders
    PROVE  /\ rebuilder[b] \in Place
           /\ Idle \in Place
           /\ Idle.at = "idle"
           /\ Idle.run = NoRun
  BY BoundsAssumption DEF TypeOK, Place, Idle, Points

LEMMA GotoFacts ==
    ASSUME TypeOK, NEW b \in Rebuilders, NEW q \in Points, Goto(b, q)
    PROVE  \E p \in Place :
               /\ Moves(b, p)
               /\ p.at = q
               /\ p.run = RunOf(b)
               /\ p.sent = rebuilder[b].sent
               /\ p.committed = FALSE
  <1> DEFINE p == [rebuilder[b] EXCEPT !.at = q, !.committed = FALSE]
  <1>1. rebuilder[b] \in Place
    BY PlaceFacts
  <1>2. /\ p \in Place /\ p.at = q /\ p.run = RunOf(b)
        /\ p.sent = rebuilder[b].sent /\ p.committed = FALSE
    BY <1>1 DEF Place, RunOf
  <1>3. Moves(b, p)
    BY DEF Goto, Moves
  <1> QED
    BY <1>2, <1>3

LEMMA CommitFacts ==
    ASSUME TypeOK, NEW b \in Rebuilders,
           rebuilder' = [rebuilder EXCEPT ![b].committed = TRUE]
    PROVE  \E p \in Place :
               /\ Moves(b, p)
               /\ p.at = rebuilder[b].at
               /\ p.run = RunOf(b)
               /\ p.sent = rebuilder[b].sent
               /\ p.committed = TRUE
  <1> DEFINE p == [rebuilder[b] EXCEPT !.committed = TRUE]
  <1>1. rebuilder[b] \in Place
    BY PlaceFacts
  <1>2. /\ p \in Place /\ p.at = rebuilder[b].at /\ p.run = RunOf(b)
        /\ p.sent = rebuilder[b].sent /\ p.committed = TRUE
    BY <1>1 DEF Place, RunOf
  <1>3. Moves(b, p)
    BY DEF Moves
  <1> QED
    BY <1>2, <1>3

(* A request at work is on a started run.                                   *)
LEMMA OwnedRun ==
    ASSUME Inv, NEW b \in Rebuilders, ~At(b, "idle")
    PROVE  /\ RunOf(b) \in Runs
           /\ RunOf(b) < nextRun
           /\ RunOf(b) # NoRun
           /\ \A c \in Rebuilders \ {b} : RunOf(c) # RunOf(b)
  BY BoundsAssumption DEF Inv, TypeOK, Ownership, Runs, NoRun

(* A request stays on its run or leaves it.                                 *)
LEMMA OwnershipKept ==
    ASSUME Inv, NEW b \in Rebuilders, NEW p \in Place, Moves(b, p),
           ~At(b, "idle"), nextRun' = nextRun,
           \/ p.at # "idle" /\ p.run = RunOf(b)
           \/ p = Idle
    PROVE  Ownership'
  <1>1. /\ rebuilder'[b] = p
        /\ \A c \in Rebuilders \ {b} : rebuilder'[c] = rebuilder[c]
    BY MoveFacts DEF Inv
  <1>2. Idle.at = "idle" /\ Idle.run = NoRun
    BY DEF Idle
  <1>3. \A c \in Rebuilders :
            ~At(c, "idle") => RunOf(c) \in 1..(nextRun - 1) /\ RunOf(c) # NoRun
    BY DEF Inv, Ownership, NoRun
  <1> QED
    BY <1>1, <1>2, <1>3 DEF Inv, Ownership, At, RunOf

(* What is staged for a request survives the steps of another: these touch  *)
(* their own run, and empty no other than the one they supersede.           *)
LEMMA OthersStaged ==
    ASSUME Inv, NEW b \in Rebuilders, NEW p \in Place, Moves(b, p),
           ~At(b, "idle"),
           active' \in {active, RunOf(b)},
           \A r \in Runs \ {RunOf(b)} :
               rows'[r] = IF r = active /\ active' # active THEN {} ELSE rows[r]
    PROVE  \A c \in Rebuilders \ {b} : Staged(c)'
  <1> SUFFICES ASSUME NEW c \in Rebuilders \ {b}
               PROVE  Staged(c)'
    OBVIOUS
  <1>1. rebuilder'[c] = rebuilder[c]
    BY MoveFacts DEF Inv
  <1>2. CASE At(c, "idle")
    BY <1>1, <1>2 DEF Staged, Activated, At, RunOf
  <1>3. CASE ~At(c, "idle")
    <2>1. RunOf(c) \in Runs \ {RunOf(b)}
      BY <1>3, OwnedRun
    <2>2. Staged(c)
      BY DEF Inv, Staging
    <2>3. rebuilder[c].sent \in Int /\ BatchCount \in Int
      BY PlaceFacts, BoundsAssumption DEF Inv, Place
    <2>4. CASE RunOf(c) = active
      BY <1>1, <2>1, <2>2, <2>3, <2>4 DEF Staged, Activated, At, RunOf
    <2>5. CASE RunOf(c) # active
      BY <1>1, <2>1, <2>2, <2>5 DEF Staged, Activated, At, RunOf
    <2> QED
      BY <2>4, <2>5
  <1> QED
    BY <1>2, <1>3

-----------------------------------------------------------------------------
(* The initial states satisfy the invariant: nothing has been started.      *)
LEMMA InitInv == Init => Inv
  BY BoundsAssumption
     DEF Init, Inv, TypeOK, Ownership, Staging, Staged, Activated, Unstarted,
         ReportedIsOver, ActiveIsWhole, StagingAccounted, Viewing,
         FailedMeansUnchanged, Idle, NoView, At, RunOf, Runs, NoRun, Points,
         Batches

(* Beginning a rebuild claims a run that nothing has touched.               *)
LEMMA BeginInv ==
    ASSUME Inv, NEW b \in Rebuilders, Begin(b)
    PROVE  Inv'
  <1> DEFINE p == [Idle EXCEPT !.at = "building", !.run = nextRun]
  <1>0. /\ At(b, "idle") /\ nextRun \in Runs /\ nextRun' = nextRun + 1
        /\ Moves(b, p)
        /\ UNCHANGED <<active, rows, outcome, abandoned, view>>
    BY DEF Begin, store, Moves
  <1>1. /\ p \in Place /\ p.at = "building" /\ p.run = nextRun /\ p.sent = 0
        /\ p.committed = FALSE
    <2>1. Idle \in Place /\ Idle.sent = 0 /\ Idle.committed = FALSE
      BY PlaceFacts DEF Inv, Idle
    <2>2. "building" \in Points /\ nextRun \in Runs \cup {NoRun}
      BY <1>0 DEF Points
    <2> QED
      BY <2>1, <2>2 DEF Place
  <1>2. /\ rebuilder' \in [Rebuilders -> Place]
        /\ rebuilder'[b] = p
        /\ \A c \in Rebuilders \ {b} : rebuilder'[c] = rebuilder[c]
    BY <1>0, <1>1, MoveFacts DEF Inv
  <1>3. rows[nextRun] = {} /\ outcome[nextRun] = "none" /\ nextRun # active
    BY <1>0, BoundsAssumption DEF Inv, TypeOK, Unstarted, Runs
  <1> HIDE DEF p
  <1>4. TypeOK'
    <2>1. nextRun' \in 1..(MaxRuns + 1)
      BY <1>0, BoundsAssumption DEF Runs
    <2> QED
      BY <1>0, <1>2, <2>1 DEF Inv, TypeOK, Place
  <1>5. Ownership'
    <2> SUFFICES ASSUME NEW c \in Rebuilders
                 PROVE  IF At(c, "idle")' THEN RunOf(c)' = NoRun
                        ELSE /\ RunOf(c)' \in 1..(nextRun' - 1)
                             /\ \A d \in Rebuilders \ {c} : RunOf(d)' # RunOf(c)'
      BY DEF Ownership
    <2>1. \A d \in Rebuilders : RunOf(d) < nextRun
      BY BoundsAssumption DEF Inv, TypeOK, Ownership, NoRun, Runs
    <2>2. nextRun \in Nat \ {0}
      BY <1>0, BoundsAssumption DEF Runs
    <2>3. Ownership
      BY DEF Inv
    <2>4. CASE c = b
      BY <1>0, <1>1, <1>2, <2>1, <2>2, <2>4 DEF At, RunOf
    <2>5. CASE c # b
      BY <1>0, <1>1, <1>2, <2>1, <2>2, <2>3, <2>5 DEF Ownership, At, RunOf
    <2> QED
      BY <2>4, <2>5
  <1>6. Staging'
    <2> SUFFICES ASSUME NEW c \in Rebuilders
                 PROVE  Staged(c)'
      BY DEF Staging
    <2>1. CASE c = b
      BY <1>0, <1>1, <1>2, <1>3, <2>1 DEF Staged, Activated, At, RunOf
    <2>2. CASE c # b
      <3>1. rebuilder'[c] = rebuilder[c] /\ Staged(c)
        BY <1>2, <2>2 DEF Inv, Staging
      <3> QED
        BY <1>0, <3>1 DEF Staged, Activated, At, RunOf
    <2> QED
      BY <2>1, <2>2
  <1>7. Unstarted'
    BY <1>0, BoundsAssumption DEF Inv, TypeOK, Unstarted, Runs
  <1>8. ReportedIsOver'
    BY <1>0, <1>1, <1>2, <1>3 DEF Inv, ReportedIsOver, RunOf
  <1>9. ActiveIsWhole'
    BY <1>0 DEF Inv, ActiveIsWhole
  <1>10. StagingAccounted'
    <2> SUFFICES ASSUME NEW r \in Runs, rows[r] # {}, r # active,
                        r \notin abandoned
                 PROVE  \E c \in Rebuilders : RunOf(c)' = r
      BY <1>0 DEF StagingAccounted
    <2>1. PICK c \in Rebuilders : RunOf(c) = r
      BY DEF Inv, StagingAccounted
    <2>2. c # b
      BY <1>0, <2>1, BoundsAssumption DEF Inv, Ownership, Runs, NoRun
    <2> QED
      BY <1>2, <2>1, <2>2 DEF RunOf
  <1>11. FailedMeansUnchanged'
    BY <1>0 DEF Inv, FailedMeansUnchanged
  <1>12. Viewing'
    BY <1>0 DEF Inv, Viewing
  <1> QED
    BY <1>4, <1>5, <1>6, <1>7, <1>8, <1>9, <1>10, <1>11, <1>12 DEF Inv

-----------------------------------------------------------------------------
(* What an action of a request at work has to do for the invariant to hold: *)
(* change its own place, run and report only, activate no run but its own,  *)
(* whole, and leave nothing staged behind.                                  *)
LEMMA WorkStep ==
    ASSUME Inv, NEW b \in Rebuilders, NEW p \in Place, Moves(b, p),
           ~At(b, "idle"), nextRun' = nextRun, view' = view,
           \/ p.at # "idle" /\ p.run = RunOf(b) /\ outcome' = outcome
           \/ p = Idle,
           outcome' \in [Runs -> {"none", "completed", "failed"}],
           \A r \in Runs \ {RunOf(b)} : outcome'[r] = outcome[r],
           active' \in {active, RunOf(b)},
           active' = RunOf(b) =>
               rows'[RunOf(b)] = Batches /\ outcome'[RunOf(b)] # "failed",
           rows' \in [Runs -> SUBSET Batches],
           \A r \in Runs \ {RunOf(b)} :
               rows'[r] = IF r = active /\ active' # active THEN {} ELSE rows[r],
           abandoned' \in SUBSET Runs,
           abandoned \subseteq abandoned',
           p = Idle /\ rows'[RunOf(b)] # {} =>
               RunOf(b) = active' \/ RunOf(b) \in abandoned',
           Staged(b)'
    PROVE  Inv'
  <1>1. /\ rebuilder' \in [Rebuilders -> Place]
        /\ rebuilder'[b] = p
        /\ \A c \in Rebuilders \ {b} : rebuilder'[c] = rebuilder[c]
    BY MoveFacts DEF Inv
  <1>2. /\ RunOf(b) \in Runs
        /\ RunOf(b) < nextRun
        /\ RunOf(b) # NoRun
        /\ \A c \in Rebuilders \ {b} : RunOf(c) # RunOf(b)
    BY OwnedRun
  <1>3. Idle.run = NoRun
    BY DEF Idle
  <1>4. TypeOK'
    BY <1>1, <1>2 DEF Inv, TypeOK, Place
  <1>5. Ownership'
    BY OwnershipKept
  <1>6. Staging'
    BY OthersStaged DEF Staging
  <1>7. Unstarted'
    <2> SUFFICES ASSUME NEW r \in Runs, r >= nextRun
                 PROVE  rows'[r] = {} /\ outcome'[r] = "none" /\ r # active'
      BY DEF Unstarted
    <2>1. r # RunOf(b)
      BY <1>2, BoundsAssumption DEF Inv, TypeOK, Runs
    <2> QED
      BY <2>1 DEF Inv, Unstarted
  <1>8. ReportedIsOver'
    <2> SUFFICES ASSUME NEW r \in Runs, outcome'[r] # "none",
                        NEW c \in Rebuilders
                 PROVE  RunOf(c)' # r
      BY DEF ReportedIsOver
    <2>1. NoRun \notin Runs
      BY DEF NoRun, Runs
    <2>2. CASE c = b
      <3>1. CASE p = Idle
        BY <1>1, <1>3, <2>1, <2>2, <3>1 DEF RunOf
      <3>2. CASE p.run = RunOf(b) /\ outcome' = outcome
        BY <1>1, <2>2, <3>2 DEF Inv, ReportedIsOver, RunOf
      <3> QED
        BY <3>1, <3>2
    <2>3. CASE c # b /\ r = RunOf(b)
      BY <1>1, <1>2, <2>3 DEF RunOf
    <2>4. CASE c # b /\ r # RunOf(b)
      BY <1>1, <2>4 DEF Inv, ReportedIsOver, RunOf
    <2> QED
      BY <2>2, <2>3, <2>4
  <1>9. ActiveIsWhole'
    <2>1. CASE active' = RunOf(b)
      BY <2>1 DEF ActiveIsWhole
    <2>2. CASE active' # RunOf(b)
      BY <2>2 DEF Inv, TypeOK, ActiveIsWhole
    <2> QED
      BY <2>1, <2>2
  <1>10. StagingAccounted'
    <2> SUFFICES ASSUME NEW r \in Runs, rows'[r] # {}, r # active',
                        r \notin abandoned'
                 PROVE  \E c \in Rebuilders : RunOf(c)' = r
      BY DEF StagingAccounted
    <2>1. CASE r = RunOf(b)
      BY <1>1, <2>1 DEF RunOf
    <2>2. CASE r # RunOf(b)
      <3>1. rows[r] # {} /\ r # active /\ r \notin abandoned
        BY <2>2
      <3>2. PICK c \in Rebuilders : RunOf(c) = r
        BY <3>1 DEF Inv, StagingAccounted
      <3> QED
        BY <1>1, <2>2, <3>2 DEF RunOf
    <2> QED
      BY <2>1, <2>2
  <1>11. FailedMeansUnchanged'
    <2> SUFFICES ASSUME NEW r \in Runs, outcome'[r] = "failed"
                 PROVE  active' # r
      BY DEF FailedMeansUnchanged
    <2>1. CASE r = RunOf(b)
      BY <2>1
    <2>2. CASE r # RunOf(b)
      BY <2>2 DEF Inv, FailedMeansUnchanged
    <2> QED
      BY <2>1, <2>2
  <1>12. Viewing'
    BY DEF Inv, Viewing
  <1> QED
    BY <1>4, <1>5, <1>6, <1>7, <1>8, <1>9, <1>10, <1>11, <1>12 DEF Inv

-----------------------------------------------------------------------------
(* The actions of a request at work.                                        *)

LEMMA WorkFacts ==
    ASSUME Inv, NEW b \in Rebuilders, ~At(b, "idle")
    PROVE  /\ RunOf(b) \in Runs
           /\ rows \in [Runs -> SUBSET Batches]
           /\ outcome \in [Runs -> {"none", "completed", "failed"}]
           /\ abandoned \in SUBSET Runs
           /\ outcome[RunOf(b)] = "none"
           /\ active = RunOf(b) => rows[RunOf(b)] = Batches /\ Activated(b)
           /\ rebuilder[b] \in Place
           /\ rebuilder[b].sent \in Nat
           /\ BatchCount \in Nat
           /\ Staged(b)
  <1>1. RunOf(b) \in Runs /\ RunOf(b) # NoRun
    BY OwnedRun
  <1>2. /\ rebuilder[b] \in Place /\ rebuilder[b].sent \in Nat
        /\ BatchCount \in Nat
    BY PlaceFacts, BoundsAssumption DEF Inv, Place
  <1>3. Staged(b)
    BY DEF Inv, Staging
  <1>4. outcome[RunOf(b)] = "none"
    BY <1>1 DEF Inv, ReportedIsOver
  <1>5. active = RunOf(b) => rows[RunOf(b)] = Batches /\ Activated(b)
    BY <1>1, <1>3 DEF Inv, ActiveIsWhole, Staged
  <1> QED
    BY <1>1, <1>2, <1>3, <1>4, <1>5 DEF Inv, TypeOK

(* A transaction that did not commit leaves the run to be aborted.          *)
LEMMA FailsInv ==
    ASSUME Inv, ~RepliesMayBeLost, NEW b \in Rebuilders, ~At(b, "idle"),
           Fails(b), UNCHANGED <<nextRun, abandoned, view>>
    PROVE  Inv'
  <1>1. PICK p \in Place : /\ Moves(b, p)
                           /\ p.at = "aborting"
                           /\ p.run = RunOf(b)
    BY GotoFacts DEF Fails, Inv, Points
  <1>2. ~rebuilder[b].committed /\ UNCHANGED <<active, rows, outcome>>
    BY DEF Fails, store
  <1>3. active # RunOf(b)
    BY <1>2, WorkFacts DEF Activated
  <1>4. rebuilder'[b] = p
    BY <1>1, MoveFacts DEF Inv
  <1>5. Staged(b)'
    BY <1>1, <1>2, <1>3, <1>4 DEF Staged, Activated, At, RunOf
  <1>6. p # Idle
    BY <1>1 DEF Idle
  <1> QED
    BY <1>1, <1>2, <1>3, <1>5, <1>6, WorkFacts, WorkStep

LEMMA BuildSourceInv ==
    ASSUME Inv, NEW b \in Rebuilders, BuildSource(b)
    PROVE  Inv'
  <1>1. /\ At(b, "building") /\ ~At(b, "idle")
        /\ UNCHANGED <<nextRun, active, rows, abandoned, view>>
    BY DEF BuildSource, store, At
  <1>2. rows[RunOf(b)] = {} /\ rebuilder[b].sent = 0 /\ active # RunOf(b)
    BY <1>1, WorkFacts DEF Staged, Activated, At
  <1>3. CASE Goto(b, "starting") /\ UNCHANGED outcome
    <2>1. PICK p \in Place : /\ Moves(b, p)
                             /\ p.at = "starting"
                             /\ p.run = RunOf(b)
                             /\ p.sent = rebuilder[b].sent
      BY <1>3, GotoFacts DEF Inv, Points
    <2>2. rebuilder'[b] = p
      BY <2>1, MoveFacts DEF Inv
    <2>3. Staged(b)'
      BY <1>1, <1>2, <2>1, <2>2 DEF Staged, Activated, At, RunOf
    <2>4. p # Idle
      BY <2>1 DEF Idle
    <2> QED
      BY <1>1, <1>2, <1>3, <2>1, <2>3, <2>4, WorkFacts, WorkStep
  <1>4. CASE Done(b) /\ outcome' = [outcome EXCEPT ![RunOf(b)] = "failed"]
    <2>1. Idle \in Place /\ Moves(b, Idle) /\ rebuilder'[b] = Idle
      BY <1>4, PlaceFacts, MoveFacts DEF Inv, Done, Moves
    <2>2. Staged(b)'
      BY <2>1 DEF Staged, Activated, At, Idle
    <2> QED
      BY <1>1, <1>2, <1>4, <2>1, <2>2, WorkFacts, WorkStep
  <1> QED
    BY <1>3, <1>4 DEF BuildSource

LEMMA StartRebuildInv ==
    ASSUME Inv, ~RepliesMayBeLost, NEW b \in Rebuilders, StartRebuild(b)
    PROVE  Inv'
  <1>1. /\ At(b, "starting") /\ ~At(b, "idle")
        /\ UNCHANGED <<nextRun, abandoned, view>>
    BY DEF StartRebuild, At
  <1>2. rows[RunOf(b)] = {} /\ rebuilder[b].sent = 0 /\ active # RunOf(b)
    BY <1>1, WorkFacts DEF Staged, Activated, At
  <1>3. CASE Commits(b, DeleteRun(RunOf(b)))
    <2>1. /\ UNCHANGED <<active, outcome>>
          /\ rows' = [rows EXCEPT ![RunOf(b)] = {}]
          /\ rebuilder' = [rebuilder EXCEPT ![b].committed = TRUE]
      BY <1>3 DEF Commits, DeleteRun
    <2>2. rows' = rows
      BY <1>1, <1>2, <2>1, WorkFacts
    <2>3. PICK p \in Place : /\ Moves(b, p)
                             /\ p.at = "starting"
                             /\ p.run = RunOf(b)
                             /\ p.sent = rebuilder[b].sent
      BY <1>1, <2>1, CommitFacts DEF Inv, At
    <2>4. rebuilder'[b] = p
      BY <2>3, MoveFacts DEF Inv
    <2>5. Staged(b)'
      BY <1>2, <2>1, <2>2, <2>3, <2>4 DEF Staged, Activated, At, RunOf
    <2>6. p # Idle
      BY <2>3 DEF Idle
    <2> QED
      BY <1>1, <1>2, <2>1, <2>2, <2>3, <2>5, <2>6, WorkFacts, WorkStep
  <1>4. CASE Succeeds(b) /\ Goto(b, "writing") /\ UNCHANGED outcome
    <2>1. UNCHANGED <<active, rows>>
      BY <1>4 DEF Succeeds, store
    <2>2. PICK p \in Place : /\ Moves(b, p)
                             /\ p.at = "writing"
                             /\ p.run = RunOf(b)
                             /\ p.sent = rebuilder[b].sent
                             /\ p.committed = FALSE
      BY <1>4, GotoFacts DEF Inv, Points
    <2>3. rebuilder'[b] = p
      BY <2>2, MoveFacts DEF Inv
    <2>4. 1..0 = {}
      OBVIOUS
    <2>5. Staged(b)'
      BY <1>2, <2>1, <2>2, <2>3, <2>4 DEF Staged, Activated, At, RunOf
    <2>6. p # Idle
      BY <2>2 DEF Idle
    <2> QED
      BY <1>1, <1>2, <1>4, <2>1, <2>2, <2>5, <2>6, WorkFacts, WorkStep
  <1>5. CASE Fails(b)
    BY <1>1, <1>5, FailsInv
  <1> QED
    BY <1>3, <1>4, <1>5 DEF StartRebuild

LEMMA WriteRebuildBatchInv ==
    ASSUME Inv, ~RepliesMayBeLost, NEW b \in Rebuilders, WriteRebuildBatch(b)
    PROVE  Inv'
  <1> DEFINE i == rebuilder[b].sent + 1
  <1>1. /\ At(b, "writing") /\ ~At(b, "idle")
        /\ rebuilder[b].sent < BatchCount
        /\ UNCHANGED <<nextRun, abandoned, view>>
    BY DEF WriteRebuildBatch, At
  <1>2. active # RunOf(b)
    BY <1>1, WorkFacts DEF Activated
  <1>3. i \in Batches /\ 1..rebuilder[b].sent \cup {i} = 1..i
    BY <1>1, WorkFacts DEF Batches
  <1>4. CASE Commits(b, AddBatch(RunOf(b), i))
    <2>1. /\ UNCHANGED <<active, outcome>>
          /\ rows' = [rows EXCEPT ![RunOf(b)] = @ \cup {i}]
          /\ rebuilder' = [rebuilder EXCEPT ![b].committed = TRUE]
          /\ ~rebuilder[b].committed
      BY <1>4 DEF Commits, AddBatch
    <2>2. rows[RunOf(b)] = 1..rebuilder[b].sent
      BY <1>1, <2>1, WorkFacts DEF Staged
    <2>3. /\ rows' \in [Runs -> SUBSET Batches]
          /\ rows'[RunOf(b)] = 1..i
          /\ \A r \in Runs \ {RunOf(b)} : rows'[r] = rows[r]
      BY <1>1, <1>3, <2>1, <2>2, WorkFacts
    <2>4. PICK p \in Place : /\ Moves(b, p)
                             /\ p.at = "writing"
                             /\ p.run = RunOf(b)
                             /\ p.sent = rebuilder[b].sent
                             /\ p.committed = TRUE
      BY <1>1, <2>1, CommitFacts DEF Inv, At
    <2>5. rebuilder'[b] = p
      BY <2>4, MoveFacts DEF Inv
    <2>6. Staged(b)'
      BY <1>1, <1>2, <2>1, <2>3, <2>4, <2>5, WorkFacts
         DEF Staged, Activated, At, RunOf
    <2>7. p # Idle
      BY <2>4 DEF Idle
    <2> QED
      BY <1>1, <1>2, <2>1, <2>3, <2>4, <2>6, <2>7, WorkFacts, WorkStep
  <1>5. CASE /\ Succeeds(b)
             /\ rebuilder' = [rebuilder EXCEPT ![b].sent = @ + 1,
                                               ![b].committed = FALSE]
             /\ UNCHANGED outcome
    <2> DEFINE p == [rebuilder[b] EXCEPT !.sent = @ + 1, !.committed = FALSE]
    <2>1. UNCHANGED <<active, rows>> /\ rebuilder[b].committed
      BY <1>5 DEF Succeeds, store
    <2>2. rows[RunOf(b)] = 1..i
      BY <1>1, <2>1, WorkFacts DEF Staged
    <2>3. i \in 0..BatchCount
      BY <1>1, WorkFacts
    <2>4. /\ p \in Place /\ p.at = "writing" /\ p.run = RunOf(b)
          /\ p.sent = i /\ p.committed = FALSE
      BY <1>1, <2>3, WorkFacts DEF Place, At, RunOf
    <2>5. Moves(b, p)
      BY <1>5 DEF Moves
    <2> HIDE DEF p
    <2>6. rebuilder'[b] = p
      BY <2>4, <2>5, MoveFacts DEF Inv
    <2>7. Staged(b)'
      BY <1>2, <2>1, <2>2, <2>4, <2>6 DEF Staged, Activated, At, RunOf
    <2>8. p # Idle
      BY <2>4 DEF Idle
    <2> QED
      BY <1>1, <1>2, <1>5, <2>1, <2>4, <2>5, <2>7, <2>8, WorkFacts, WorkStep
  <1>6. CASE Fails(b)
    BY <1>1, <1>6, FailsInv
  <1> QED
    BY <1>4, <1>5, <1>6 DEF WriteRebuildBatch

LEMMA CompleteRebuildInv ==
    ASSUME Inv, ~RepliesMayBeLost, NEW b \in Rebuilders, CompleteRebuild(b)
    PROVE  Inv'
  <1>1. /\ At(b, "writing") /\ ~At(b, "idle")
        /\ rebuilder[b].sent = BatchCount
        /\ UNCHANGED <<nextRun, abandoned, view>>
    BY DEF CompleteRebuild, At
  <1>2. CASE Commits(b, ActivateProjection(RunOf(b)))
    <2>1. /\ active' = RunOf(b)
          /\ outcome' = outcome
          /\ rows' = IF active \in Runs \ {RunOf(b)}
                     THEN [rows EXCEPT ![active] = {}] ELSE rows
          /\ rebuilder' = [rebuilder EXCEPT ![b].committed = TRUE]
          /\ ~rebuilder[b].committed
      BY <1>2 DEF Commits, ActivateProjection
    <2>2. rows[RunOf(b)] = Batches /\ active # RunOf(b)
      BY <1>1, <2>1, WorkFacts DEF Staged, Activated, Batches
    <2>3. /\ rows' \in [Runs -> SUBSET Batches]
          /\ rows'[RunOf(b)] = Batches
          /\ \A r \in Runs \ {RunOf(b)} :
                 rows'[r] = IF r = active THEN {} ELSE rows[r]
      BY <1>1, <2>1, <2>2, WorkFacts
    <2>4. PICK p \in Place : /\ Moves(b, p)
                             /\ p.at = "writing"
                             /\ p.run = RunOf(b)
                             /\ p.sent = rebuilder[b].sent
                             /\ p.committed = TRUE
      BY <1>1, <2>1, CommitFacts DEF Inv, At
    <2>5. rebuilder'[b] = p
      BY <2>4, MoveFacts DEF Inv
    <2>6. Staged(b)'
      BY <1>1, <2>1, <2>4, <2>5, WorkFacts DEF Staged, Activated, At, RunOf
    <2>7. p # Idle
      BY <2>4 DEF Idle
    <2> QED
      BY <1>1, <2>1, <2>2, <2>3, <2>4, <2>6, <2>7, WorkFacts, WorkStep
  <1>3. CASE /\ Succeeds(b)
             /\ Done(b)
             /\ outcome' = [outcome EXCEPT ![RunOf(b)] = "completed"]
    <2>1. UNCHANGED <<active, rows>> /\ Activated(b)
      BY <1>1, <1>3 DEF Succeeds, store, Activated
    <2>2. RunOf(b) = active \/ rows[RunOf(b)] = {}
      BY <2>1, <1>1, WorkFacts DEF Staged
    <2>3. Idle \in Place /\ Moves(b, Idle) /\ rebuilder'[b] = Idle
      BY <1>3, PlaceFacts, MoveFacts DEF Inv, Done, Moves
    <2>4. Staged(b)'
      BY <2>3 DEF Staged, Activated, At, Idle
    <2> QED
      BY <1>1, <1>3, <2>1, <2>2, <2>3, <2>4, WorkFacts, WorkStep
  <1>4. CASE Fails(b)
    BY <1>1, <1>4, FailsInv
  <1> QED
    BY <1>2, <1>3, <1>4 DEF CompleteRebuild

LEMMA AbortRebuildInv ==
    ASSUME Inv, NEW b \in Rebuilders, AbortRebuild(b)
    PROVE  Inv'
  <1>1. /\ At(b, "aborting") /\ ~At(b, "idle")
        /\ Done(b)
        /\ outcome' = [outcome EXCEPT ![RunOf(b)] = "failed"]
        /\ UNCHANGED <<nextRun, view>>
    BY DEF AbortRebuild, At
  <1>2. active # RunOf(b)
    BY <1>1, WorkFacts DEF Activated, At
  <1>3. Idle \in Place /\ Moves(b, Idle) /\ rebuilder'[b] = Idle
    BY <1>1, PlaceFacts, MoveFacts DEF Inv, Done, Moves
  <1>4. Staged(b)'
    BY <1>3 DEF Staged, Activated, At, Idle
  <1>5. CASE DeleteRun(RunOf(b)) /\ UNCHANGED abandoned
    <2>1. active' = active /\ rows' = [rows EXCEPT ![RunOf(b)] = {}]
      BY <1>5 DEF DeleteRun
    <2>2. /\ rows' \in [Runs -> SUBSET Batches]
          /\ rows'[RunOf(b)] = {}
          /\ \A r \in Runs \ {RunOf(b)} : rows'[r] = rows[r]
      BY <1>1, <2>1, WorkFacts
    <2> QED
      BY <1>1, <1>2, <1>3, <1>4, <1>5, <2>1, <2>2, WorkFacts, WorkStep
  <1>6. CASE UNCHANGED store /\ abandoned' = abandoned \cup {RunOf(b)}
    <2>1. UNCHANGED <<active, rows>>
      BY <1>6 DEF store
    <2> QED
      BY <1>1, <1>2, <1>3, <1>4, <1>6, <2>1, WorkFacts, WorkStep
  <1> QED
    BY <1>5, <1>6 DEF AbortRebuild

LEMMA VanishInv ==
    ASSUME Inv, NEW b \in Rebuilders, Vanish(b)
    PROVE  Inv'
  <1>1. /\ ~At(b, "idle")
        /\ Done(b)
        /\ abandoned' = abandoned \cup {RunOf(b)}
        /\ UNCHANGED <<nextRun, active, rows, outcome, view>>
    BY DEF Vanish, store
  <1>2. Idle \in Place /\ Moves(b, Idle) /\ rebuilder'[b] = Idle
    BY <1>1, PlaceFacts, MoveFacts DEF Inv, Done, Moves
  <1>3. Staged(b)'
    BY <1>2 DEF Staged, Activated, At, Idle
  <1> QED
    BY <1>1, <1>2, <1>3, WorkFacts, WorkStep

-----------------------------------------------------------------------------
(* The status read changes nothing but what it has found.                   *)

LEMMA ReadInv ==
    ASSUME Inv, ReadMetadata \/ ReadNodes \/ ReadEdges
    PROVE  Inv'
  <1> DEFINE Views == [at : {"idle", "nodes", "edges", "done"},
                       run : Runs \cup {NoRun},
                       nodes : SUBSET Batches, edges : SUBSET Batches]
  <1>1. UNCHANGED <<nextRun, active, rows, rebuilder, outcome, abandoned>>
    BY DEF ReadMetadata, ReadNodes, ReadEdges, store
  <1>2. view \in Views /\ NoView \in Views /\ NoView.at = "idle"
    BY DEF Inv, TypeOK, NoView
  <1>3. view.at # "idle" => rows[view.run] \in SUBSET Batches
    BY DEF Inv, TypeOK, Viewing
  <1>4. view' \in Views /\ Viewing'
    <2>1. CASE ReadMetadata /\ active = NoRun
      BY <1>2, <2>1 DEF ReadMetadata, Viewing
    <2>2. CASE ReadMetadata /\ active # NoRun
      <3>1. active \in Runs
        BY <2>2 DEF Inv, TypeOK
      <3>2. view' = [NoView EXCEPT !.at = "nodes", !.run = active]
        BY <2>2 DEF ReadMetadata
      <3> QED
        BY <1>2, <3>1, <3>2 DEF Viewing
    <2>3. CASE ReadNodes
      BY <1>2, <1>3, <2>3 DEF ReadNodes, Viewing, Inv
    <2>4. CASE ReadEdges
      BY <1>2, <1>3, <2>4 DEF ReadEdges, Viewing, Inv
    <2> QED
      BY <2>1, <2>2, <2>3, <2>4
  <1> QED
    BY <1>1, <1>4
       DEF Inv, TypeOK, Ownership, Staging, Staged, Activated, Unstarted,
           ReportedIsOver, ActiveIsWhole, StagingAccounted,
           FailedMeansUnchanged, At, RunOf

-----------------------------------------------------------------------------
(* The theorems.                                                            *)

LEMMA NextInv ==
    ASSUME ~RepliesMayBeLost, Inv, [Next]_vars
    PROVE  Inv'
  <1>1. CASE UNCHANGED vars
    BY <1>1
       DEF vars, store, Inv, TypeOK, Viewing, Ownership, Staging, Staged,
           Activated, Unstarted, ReportedIsOver, ActiveIsWhole,
           StagingAccounted, FailedMeansUnchanged, At, RunOf
  <1>2. ASSUME NEW b \in Rebuilders,
               \/ Begin(b) \/ BuildSource(b) \/ StartRebuild(b)
               \/ WriteRebuildBatch(b) \/ CompleteRebuild(b)
               \/ AbortRebuild(b) \/ Vanish(b)
        PROVE  Inv'
    BY <1>2, BeginInv, BuildSourceInv, StartRebuildInv, WriteRebuildBatchInv,
       CompleteRebuildInv, AbortRebuildInv, VanishInv
  <1>3. CASE ReadMetadata \/ ReadNodes \/ ReadEdges
    BY <1>3, ReadInv
  <1> QED
    BY <1>1, <1>2, <1>3 DEF Next

LEMMA Invariance ==
    ASSUME ~RepliesMayBeLost
    PROVE  Spec => []Inv
  <1>1. Inv /\ [Next]_vars => Inv'
    BY NextInv
  <1> QED
    BY <1>1, InitInv, PTL DEF Spec

(* Every value stays in its range, whatever the requests, the runs and the  *)
(* size of the source.                                                      *)
THEOREM TypeCorrect ==
    ASSUME ~RepliesMayBeLost
    PROVE  Spec => []TypeOK
  <1>1. Inv => TypeOK
    BY DEF Inv
  <1> QED
    BY <1>1, Invariance, PTL

(* The active run is whole at every moment, also when requests that the     *)
(* lane does not keep apart rebuild at once, fail, abort or vanish.         *)
THEOREM ActiveStaysWhole ==
    ASSUME ~RepliesMayBeLost
    PROVE  Spec => []ActiveIsWhole
  <1>1. Inv => ActiveIsWhole
    BY DEF Inv
  <1> QED
    BY <1>1, Invariance, PTL

(* No rows are left behind but those of runs that are active, in progress   *)
(* or ended without their abort taking effect.                              *)
THEOREM NothingLeftBehind ==
    ASSUME ~RepliesMayBeLost
    PROVE  Spec => []StagingAccounted
  <1>1. Inv => StagingAccounted
    BY DEF Inv
  <1> QED
    BY <1>1, Invariance, PTL

(* With honest replies a report of failure is true: the run is not active.  *)
THEOREM FailureReportsAreTrue ==
    ASSUME ~RepliesMayBeLost
    PROVE  Spec => []FailedMeansUnchanged
  <1>1. Inv => FailedMeansUnchanged
    BY DEF Inv
  <1> QED
    BY <1>1, Invariance, PTL

(* Rows of the active run are touched by no step: a step that keeps the     *)
(* active run keeps its rows, and one that replaces it shows a whole run.   *)
LEMMA StepPublishes ==
    ASSUME ~RepliesMayBeLost, Inv, [Next]_vars
    PROVE  \/ UNCHANGED <<active, IF active = NoRun THEN {} ELSE rows[active]>>
           \/ active' \in Runs /\ active' # active /\ rows'[active'] = Batches
  <1>1. NoRun \notin Runs
    BY DEF NoRun, Runs
  <1>2. CASE active' = active
    <2>1. ActiveIsWhole /\ ActiveIsWhole'
      BY NextInv DEF Inv
    <2> QED
      BY <1>2, <2>1 DEF ActiveIsWhole
  <1>3. CASE active' # active
    <2>1. Inv'
      BY NextInv
    <2>2. active' # NoRun
      <3>1. CASE \E b \in Rebuilders : CompleteRebuild(b)
        <4>1. PICK b \in Rebuilders : CompleteRebuild(b)
          BY <3>1
        <4>2. active' = RunOf(b) /\ ~At(b, "idle")
          BY <1>3, <4>1
             DEF CompleteRebuild, Commits, ActivateProjection, Succeeds,
                 Fails, store, At
        <4> QED
          BY <4>2, OwnedRun
      <3>2. CASE ~\E b \in Rebuilders : CompleteRebuild(b)
        BY <1>3, <3>2
           DEF Next, vars, store, Begin, BuildSource, StartRebuild,
               WriteRebuildBatch, AbortRebuild, Vanish, Commits, Succeeds,
               Fails, DeleteRun, AddBatch, ReadMetadata, ReadNodes, ReadEdges
      <3> QED
        BY <3>1, <3>2
    <2> QED
      BY <1>3, <2>1, <2>2 DEF Inv, TypeOK, ActiveIsWhole
  <1> QED
    BY <1>2, <1>3

(* The service implements the atomic projection: in one step readers pass   *)
(* from nothing or a whole run to a whole run, and no other step shows.     *)
THEOREM Refinement ==
    ASSUME ~RepliesMayBeLost
    PROVE  Spec => AtomicSpec
  <1> DEFINE shownNow == IF active = NoRun THEN [run |-> NoRun, rows |-> {}]
                         ELSE [run |-> active, rows |-> rows[active]]
  <1>1. Init => Abstract!Init
    BY DEF Init, Abstract!Init, Abstract!Nothing
  <1>2. Inv /\ [Next]_vars => [Abstract!Next]_shownNow
    <2> SUFFICES ASSUME Inv, [Next]_vars
                 PROVE  [Abstract!Next]_shownNow
      OBVIOUS
    <2>1. CASE active' = active
      <3>1. shownNow' = shownNow
        BY <2>1, StepPublishes
      <3> QED
        BY <3>1
    <2>2. CASE active' # active
      <3>1. /\ active' \in Runs
            /\ active' # NoRun
            /\ rows'[active'] = Batches
        BY <2>2, StepPublishes DEF NoRun, Runs
      <3>2. shownNow.run = active
        OBVIOUS
      <3>3. shownNow' = [run |-> active', rows |-> Batches]
        BY <3>1
      <3>4. Abstract!Publish(active')
        BY <2>2, <3>2, <3>3 DEF Abstract!Publish
      <3> QED
        BY <3>1, <3>4 DEF Abstract!Next
    <2> QED
      BY <2>1, <2>2
  <1> QED
    BY <1>1, <1>2, Invariance, PTL DEF Spec, AtomicSpec, Abstract!Spec
-----------------------------------------------------------------------------
(* What a step of a request does, seen from the runs it leaves alone.       *)
Joins(b) ==
    /\ At(b, "idle") /\ (ExclusiveLane => LaneFree)
    /\ nextRun' = nextRun + 1 /\ RunOf(b)' = nextRun
    /\ ~Activated(b)' /\ UNCHANGED <<active, rows, outcome>>

Works(b) ==
    /\ ~At(b, "idle") /\ UNCHANGED nextRun
    /\ \/ RunOf(b)' = RunOf(b)
       \/ RunOf(b)' = NoRun /\ At(b, "idle")'
    /\ active' \in {active, RunOf(b)}
    /\ \A r \in Runs \ {RunOf(b)} : rows'[r] \in {rows[r], {}}
    /\ Activated(b) => RunOf(b)' = NoRun /\ UNCHANGED <<active, rows>>
    /\ Activated(b)' => active' = RunOf(b)
    /\ \A r \in Runs : outcome'[r] = "completed" =>
           outcome[r] = "completed" \/ (r = RunOf(b) /\ Activated(b))

Acts(b) ==
    /\ UNCHANGED view
    /\ \A c \in Rebuilders \ {b} : rebuilder'[c] = rebuilder[c]
    /\ Joins(b) \/ Works(b)

LEMMA BeginActs ==
    ASSUME Inv, NEW b \in Rebuilders, Begin(b)
    PROVE  Acts(b)
  <1>1. DOMAIN rebuilder = Rebuilders
    BY DEF Inv, TypeOK
  <1>2. /\ rebuilder'[b].at = "building" /\ rebuilder'[b].run = nextRun
        /\ \A c \in Rebuilders \ {b} : rebuilder'[c] = rebuilder[c]
    BY <1>1 DEF Begin, Idle
  <1> QED
    BY <1>2 DEF Begin, Acts, Joins, Activated, At, RunOf, store

LEMMA WorkActs ==
    ASSUME ~RepliesMayBeLost, Inv, NEW b \in Rebuilders,
           \/ BuildSource(b) \/ StartRebuild(b) \/ WriteRebuildBatch(b)
           \/ CompleteRebuild(b) \/ AbortRebuild(b) \/ Vanish(b)
    PROVE  Acts(b)
  <1>1. /\ rebuilder = [c \in Rebuilders |-> rebuilder[c]] /\ rebuilder[b] \in Place
        /\ RunOf(b) \in Runs \cup {NoRun} /\ BatchCount \in Nat
        /\ rows \in [Runs -> SUBSET Batches] /\ DOMAIN outcome = Runs
    BY BoundsAssumption DEF Inv, TypeOK, Place, RunOf
  <1>2. Idle.at = "idle" /\ Idle.run = NoRun
    BY DEF Idle
  <1>3. /\ UNCHANGED view /\ ~At(b, "idle") /\ nextRun' = nextRun
        /\ \A c \in Rebuilders \ {b} : rebuilder'[c] = rebuilder[c]
    BY <1>1 DEF BuildSource, StartRebuild, WriteRebuildBatch, CompleteRebuild,
                AbortRebuild, Vanish, Commits, Fails, Goto, Done, At
  <1>4. \/ rebuilder'[b].run = rebuilder[b].run
        \/ rebuilder'[b] = Idle
    BY <1>1 DEF BuildSource, StartRebuild, WriteRebuildBatch, CompleteRebuild,
                AbortRebuild, Vanish, Commits, Fails, Goto, Done, At, Place
  <1>5. /\ active' \in {active, RunOf(b)}
        /\ \A r \in Runs \ {RunOf(b)} : rows'[r] \in {rows[r], {}}
    BY <1>1 DEF BuildSource, StartRebuild, WriteRebuildBatch, CompleteRebuild,
                AbortRebuild, Vanish, Commits, Fails, Succeeds, store,
                DeleteRun, AddBatch, ActivateProjection
  <1>6. Activated(b) => rebuilder'[b] = Idle /\ UNCHANGED <<active, rows>>
    BY <1>1 DEF Activated, BuildSource, StartRebuild, WriteRebuildBatch,
                CompleteRebuild, AbortRebuild, Vanish, Commits, Fails, Succeeds,
                Done, At, store
  <1>7. Activated(b)' => active' = RunOf(b)
    <2>1. CASE CompleteRebuild(b)
      BY <1>1, <1>2, <2>1 DEF CompleteRebuild, Commits, ActivateProjection, Fails,
                              Goto, Done, Activated, At, Place
    <2>2. CASE StartRebuild(b)
      <3>1. rebuilder'[b].at # "writing" \/ rebuilder'[b].committed = FALSE
        <4>1. \/ rebuilder' = [rebuilder EXCEPT ![b].committed = TRUE]
              \/ \E q \in Points : Goto(b, q)
          BY <2>2 DEF StartRebuild, Commits, Fails, Points
        <4>2. rebuilder[b].at = "starting"
          BY <2>2 DEF StartRebuild, At
        <4>3. \A q : Goto(b, q) => rebuilder'[b].committed = FALSE
          BY <1>1 DEF Goto, Place
        <4>4. rebuilder' = [rebuilder EXCEPT ![b].committed = TRUE]
                  => rebuilder'[b].at = rebuilder[b].at
          BY <1>1 DEF Place
        <4> QED
          BY <4>1, <4>2, <4>3, <4>4
      <3> QED
        BY <3>1 DEF Activated, At
    <2>4. CASE WriteRebuildBatch(b)
      <3>1. /\ rebuilder[b].sent < BatchCount
            /\ \/ rebuilder'[b].sent = rebuilder[b].sent
               \/ rebuilder'[b].committed = FALSE
        <4>1. rebuilder[b].sent < BatchCount
          BY <2>4 DEF WriteRebuildBatch
        <4>2. \/ rebuilder' = [rebuilder EXCEPT ![b].committed = TRUE]
              \/ rebuilder' = [rebuilder EXCEPT ![b].sent = @ + 1, ![b].committed = FALSE]
              \/ Goto(b, "aborting")
          BY <2>4 DEF WriteRebuildBatch, Commits, Fails
        <4> QED
          BY <1>1, <4>1, <4>2 DEF Goto, Place
      <3> QED
        BY <1>1, <3>1 DEF Activated, Place
    <2>3. CASE BuildSource(b) \/ AbortRebuild(b) \/ Vanish(b)
      BY <1>1, <1>2, <2>3 DEF BuildSource, AbortRebuild, Vanish, Goto, Done,
                              Activated, At, Place
    <2> QED
      BY <2>1, <2>2, <2>3, <2>4
  <1>8. \A r \in Runs : outcome'[r] = "completed" =>
            outcome[r] = "completed" \/ (r = RunOf(b) /\ Activated(b))
    BY <1>1 DEF BuildSource, StartRebuild, WriteRebuildBatch, CompleteRebuild,
                AbortRebuild, Vanish, Commits, Fails, Succeeds, Activated, At
  <1>9. Works(b)
    BY <1>2, <1>3, <1>4, <1>5, <1>6, <1>7, <1>8 DEF Works, At, RunOf
  <1> QED
    BY <1>3, <1>9 DEF Acts

LEMMA StepActs ==
    ASSUME ~RepliesMayBeLost, Inv, [Next]_vars
    PROVE  \/ \E b \in Rebuilders : Acts(b)
           \/ ReadMetadata \/ ReadNodes \/ ReadEdges
           \/ UNCHANGED vars
  BY BeginActs, WorkActs DEF Next

-----------------------------------------------------------------------------
(* The active run, and a run that was active, keeps all its rows or loses   *)
(* all of them: nobody writes to it any more.                               *)
OnceActive(r) ==
    /\ r \in Runs /\ r < nextRun
    /\ rows[r] \in {{}, Batches}
    /\ \A b \in Rebuilders : RunOf(b) = r => Activated(b)

Reading == (view.at # "idle" => OnceActive(view.run)) /\ ListsWholeOrEmpty

LEMMA ActiveIsOnceActive ==
    ASSUME Inv, active # NoRun
    PROVE  OnceActive(active)
  <1>1. active \in Runs /\ rows[active] = Batches /\ active < nextRun
    BY BoundsAssumption DEF Inv, TypeOK, ActiveIsWhole, Unstarted, Runs
  <1>2. \A b \in Rebuilders : RunOf(b) = active => Activated(b)
    BY DEF Inv, Ownership, Staging, Staged
  <1> QED
    BY <1>1, <1>2 DEF OnceActive

LEMMA ActKeepsOnceActive ==
    ASSUME Inv, NEW b \in Rebuilders, Acts(b), NEW r, OnceActive(r)
    PROVE  OnceActive(r)'
  <1>1. r \in Runs /\ r < nextRun /\ nextRun \in Int /\ NoRun # r /\ r \in Int
    BY BoundsAssumption DEF Inv, TypeOK, OnceActive, Runs, NoRun
  <1>2. \A c \in Rebuilders \ {b} : RunOf(c)' = r => Activated(c)'
    BY DEF Acts, OnceActive, RunOf, Activated, At
  <1>3. CASE Joins(b)
    BY <1>1, <1>2, <1>3 DEF Joins, OnceActive
  <1>4. CASE Works(b) /\ RunOf(b) = r
    <2>1. Activated(b)
      BY <1>4 DEF OnceActive
    <2> QED
      BY <1>1, <1>2, <1>4, <2>1 DEF Works, OnceActive
  <1>5. CASE Works(b) /\ RunOf(b) # r
    <2>1. RunOf(b)' # r /\ rows'[r] \in {{}, Batches}
      BY <1>1, <1>5 DEF Works, OnceActive
    <2> QED
      BY <1>1, <1>2, <1>5, <2>1 DEF Works, OnceActive
  <1> QED
    BY <1>3, <1>4, <1>5 DEF Acts

(* With honest replies each list a status read returns is whole or empty,   *)
(* although its queries see different moments and rebuilds may overlap.     *)
THEOREM ListsAreNeverTorn ==
    ASSUME ~RepliesMayBeLost
    PROVE  Spec => []ListsWholeOrEmpty
  <1>1. Init => Reading
    BY DEF Init, Reading, ListsWholeOrEmpty, NoView
  <1>2. Inv /\ Reading /\ [Next]_vars => Reading'
    <2> SUFFICES ASSUME Inv, Reading, [Next]_vars
                 PROVE  Reading'
      OBVIOUS
    <2>1. CASE \E b \in Rebuilders : Acts(b)
      <3>1. PICK b \in Rebuilders : Acts(b)
        BY <2>1
      <3>2. view' = view
        BY <3>1 DEF Acts
      <3>3. PICK r : r = view.run
        OBVIOUS
      <3>4. view.at # "idle" => OnceActive(r)'
        BY <3>1, <3>3, ActKeepsOnceActive DEF Reading
      <3> QED
        BY <3>2, <3>3, <3>4 DEF Reading, ListsWholeOrEmpty, OnceActive
    <2>2. CASE UNCHANGED vars
      BY <2>2 DEF vars, store, Reading, ListsWholeOrEmpty, OnceActive, Activated,
                  At, RunOf
    <2>3. CASE ReadMetadata \/ ReadNodes \/ ReadEdges
      <3>1. UNCHANGED <<nextRun, rows, rebuilder>>
        BY <2>3 DEF ReadMetadata, ReadNodes, ReadEdges, store
      <3>2. \A r : OnceActive(r)' <=> OnceActive(r)
        BY <3>1 DEF OnceActive, Activated, At, RunOf
      <3>3. view \in [at : {"idle", "nodes", "edges", "done"},
                      run : Runs \cup {NoRun},
                      nodes : SUBSET Batches, edges : SUBSET Batches]
        BY DEF Inv, TypeOK
      <3>4. CASE ReadMetadata
        BY <3>2, <3>4, ActiveIsOnceActive
           DEF ReadMetadata, Reading, ListsWholeOrEmpty, NoView, OnceActive
      <3>5. CASE ReadNodes
        <4>1. view'.at = "edges" /\ view'.run = view.run /\ view'.nodes = rows[view.run]
          BY <3>3, <3>5 DEF ReadNodes
        <4> QED
          BY <3>2, <3>5, <4>1 DEF ReadNodes, Reading, ListsWholeOrEmpty, OnceActive
      <3>6. CASE ReadEdges
        <4>1. /\ view'.at = "done" /\ view'.run = view.run
              /\ view'.nodes = view.nodes /\ view'.edges = rows[view.run]
          BY <3>3, <3>6 DEF ReadEdges
        <4> QED
          BY <3>2, <3>6, <4>1 DEF ReadEdges, Reading, ListsWholeOrEmpty, OnceActive
      <3> QED
        BY <2>3, <3>4, <3>5, <3>6
    <2> QED
      BY <2>1, <2>2, <2>3, StepActs
  <1>3. Reading => ListsWholeOrEmpty
    BY DEF Reading
  <1> QED
    BY <1>1, <1>2, <1>3, Invariance, PTL DEF Spec

-----------------------------------------------------------------------------
(* In the lane the only request at work is on the newest run.               *)
InLane ==
    /\ \A b \in Rebuilders : ~At(b, "idle") =>
           RunOf(b) = nextRun - 1 /\ (Activated(b) => active = RunOf(b))
    /\ CompletedIsShown

(* In the lane and with honest replies, a run reported as completed, or a   *)
(* run started after it, is the one readers are shown.                      *)
THEOREM CompletedRunsAreShown ==
    ASSUME ~RepliesMayBeLost, ExclusiveLane
    PROVE  Spec => []CompletedIsShown
  <1>1. Init => InLane
    BY DEF Init, InLane, CompletedIsShown, Idle, At
  <1>2. Inv /\ InLane /\ [Next]_vars => InLane'
    <2> SUFFICES ASSUME Inv, InLane, [Next]_vars
                 PROVE  InLane'
      OBVIOUS
    <2>1. ASSUME NEW b \in Rebuilders, Acts(b)
          PROVE  InLane'
      <3>1. /\ nextRun \in Int /\ active \in Int /\ active < nextRun
            /\ \A r \in Runs : r \in Int
        <4>1. nextRun \in Int /\ nextRun > 0 /\ active \in Runs \cup {0}
          BY BoundsAssumption DEF Inv, TypeOK, NoRun
        <4>2. active \in Runs => ~(active >= nextRun)
          BY DEF Inv, Unstarted
        <4> QED
          BY <4>1, <4>2, BoundsAssumption DEF Runs
      <3>2. \A c \in Rebuilders \ {b} : At(c, "idle")
        <4> SUFFICES ASSUME NEW c \in Rebuilders \ {b}, ~At(c, "idle")
                     PROVE  FALSE
          OBVIOUS
        <4>1. CASE At(b, "idle")
          BY <2>1, <4>1 DEF Acts, Joins, Works, LaneFree
        <4>2. CASE ~At(b, "idle")
          BY <4>2, OwnedRun DEF InLane
        <4> QED
          BY <4>1, <4>2
      <3>3. \A c \in Rebuilders \ {b} : At(c, "idle")'
        BY <2>1, <3>2 DEF Acts, At
      <3>4. CASE Joins(b)
        BY <3>1, <3>3, <3>4 DEF Joins, InLane, CompletedIsShown
      <3>5. CASE Works(b)
        <4>1. RunOf(b) = nextRun - 1 /\ (Activated(b) => active = RunOf(b))
          BY <3>5 DEF Works, InLane
        <4>2. active' >= active /\ active' \in Int
          BY <3>1, <3>5, <4>1 DEF Works
        <4>3. CompletedIsShown'
          BY <3>1, <3>5, <4>1, <4>2 DEF Works, InLane, CompletedIsShown
        <4>4. ~At(b, "idle")' =>
                  RunOf(b)' = nextRun - 1 /\ (Activated(b)' => active' = RunOf(b)')
          BY <3>5, <4>1 DEF Works
        <4> QED
          BY <3>3, <3>5, <4>3, <4>4 DEF Works, InLane
      <3> QED
        BY <2>1, <3>4, <3>5 DEF Acts
    <2>2. CASE UNCHANGED vars \/ ReadMetadata \/ ReadNodes \/ ReadEdges
      <3>1. UNCHANGED <<nextRun, active, rebuilder, outcome>>
        BY <2>2 DEF vars, store, ReadMetadata, ReadNodes, ReadEdges
      <3> QED
        BY <3>1 DEF InLane, CompletedIsShown, Activated, At, RunOf
    <2> QED
      BY <2>1, <2>2, StepActs
  <1>3. InLane => CompletedIsShown
    BY DEF InLane
  <1> QED
    BY <1>1, <1>2, <1>3, Invariance, PTL DEF Spec

=============================================================================
