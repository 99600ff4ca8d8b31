------------------------- MODULE LibrarianProofs -------------------------
(***************************************************************************)
(* Proofs about what the librarian starts or is given: recovery runs,      *)
(* approved workflows, the OAuth credentials of its provider, and report   *)
(* bundles; and about all the services side by side.                       *)
(***************************************************************************)
EXTENDS MCServices, MemoryProofs, ReconciliationProofs, FiniteSetTheorems, TLAPS

(***************************************************************************)
(* The lock file keeps recovery runs apart, and COMPLETED is true, for any *)
(* number of requests, keys and retries, however often the process dies.   *)
(***************************************************************************)

RunsAlone == \A r, s \in Operators : (Executing(r) /\ Executing(s)) => r = s
NoneExecutes == \A r \in Operators : ~Executing(r)

(* A run that executes holds the lock, and has no manifest yet.             *)
HoldsLock ==
    \A r \in Operators : Executing(r) => lock = ops[r].id /\ ~Known(ops[r].id)

(* A run that an inspection is about to block has been blocked by another   *)
(* one, or it holds the lock without a manifest and nothing executes.       *)
InspectsTheDead ==
    \A r \in Operators : ops[r].at = "inspecting" =>
        \/ manifest[ops[r].parent] = Blocked(NoRun)
        \/ lock = ops[r].parent /\ ~Known(ops[r].parent) /\ NoneExecutes

(* Whatever was planned is done, is to be done or was done by the parent.   *)
WorkIsPlanned ==
    \A r \in Operators : Executing(r) =>
        ops[r].plan \subseteq ops[r].todo \cup ops[r].done \cup ParentDone(ops[r].parent)

CompletedAreWhole ==
    \A id \in RunIds : (Known(id) /\ manifest[id].status = "COMPLETED") =>
        manifest[id].plan \subseteq manifest[id].done \cup ParentDone(manifest[id].parent)

Serial == RunsAlone /\ HoldsLock /\ InspectsTheDead /\ WorkIsPlanned /\ CompletedAreWhole

RecoveryInv == RecoveryTypeOK /\ (interrupted \/ Serial)

(* A manifest that is written stays as it is.                               *)
ManifestsStay == \A id \in RunIds : Known(id) => manifest'[id] = manifest[id]

-----------------------------------------------------------------------------
LEMMA IdleTyped == Idle \in Ops
  BY DEF Idle, Ops

LEMMA RecoveryInitially == RecoveryInit => RecoveryInv
  <1> SUFFICES ASSUME RecoveryInit
               PROVE  RecoveryInv
    OBVIOUS
  <1>1. \A r \in Operators : ops[r] = Idle /\ ops[r].at = "idle"
    BY DEF RecoveryInit, Idle
  <1>2. RecoveryTypeOK
    BY <1>1, IdleTyped DEF RecoveryInit, RecoveryTypeOK
  <1>3. \A id \in RunIds : ~Known(id)
    BY DEF RecoveryInit, Known
  <1>4. Serial
    BY <1>1, <1>3 DEF Serial, RunsAlone, HoldsLock, InspectsTheDead, WorkIsPlanned,
                      CompletedAreWhole, Executing
  <1> QED
    BY <1>2, <1>4 DEF RecoveryInv

(* A request that goes elsewhere keeps the type.                            *)
LEMMA OpsTyped ==
  ASSUME RecoveryTypeOK, NEW r \in Operators, NEW o \in Ops, ops' = [ops EXCEPT ![r] = o],
         o.at \in {"planning", "planned", "executing"} => o.id \in RunIds,
         o.at = "inspecting" => o.parent \in RunIds,
         lock' \in RunIds \cup {NoRun}, broken' \subseteq Indexes, files' \in Nat,
         manifest' \in [RunIds -> Manifests \cup {NoRun}], interrupted' \in BOOLEAN
  PROVE  /\ RecoveryTypeOK'
         /\ ops'[r] = o /\ \A s \in Operators : s # r => ops'[s] = ops[s]
  BY DEF RecoveryTypeOK

(* What a request becomes, for the actions that change its place only.      *)
LEMMA Elsewhere ==
  ASSUME RecoveryTypeOK, NEW r \in Operators,
         NEW to \in {"over", "planned", "executing"},
         to # "over" => ops[r].id \in RunIds,
         NEW plan \in SUBSET Steps, NEW todo \in SUBSET Steps, NEW ended \in SUBSET Steps,
         NEW since \in Nat
  PROVE  [ops[r] EXCEPT !.at = to, !.plan = plan, !.todo = todo, !.done = ended,
                        !.since = since] \in Ops
  BY DEF RecoveryTypeOK, Ops

LEMMA FinishedTyped ==
  ASSUME RecoveryTypeOK, NEW r \in Operators, NEW ended \in SUBSET Steps,
         NEW status \in {"COMPLETED", "FAILED"}
  PROVE  Finished(r, status, ended) \in [RunIds -> Manifests \cup {NoRun}]
  <1>1. ops[r].plan \in SUBSET Steps /\ ops[r].parent \in RunIds \cup {NoRun}
    BY DEF RecoveryTypeOK, Ops
  <1>2. [status |-> status, plan |-> ops[r].plan, done |-> ended, parent |-> ops[r].parent]
            \in Manifests
    BY <1>1 DEF Manifests
  <1> QED
    BY <1>2 DEF Finished, RecoveryTypeOK

LEMMA BlockedTyped ==
  ASSUME RecoveryTypeOK, NEW id \in RunIds, NEW parent \in RunIds \cup {NoRun}
  PROVE  /\ Blocked(parent) \in Manifests
         /\ [manifest EXCEPT ![id] = Blocked(parent)] \in [RunIds -> Manifests \cup {NoRun}]
  <1>1. Blocked(parent) \in Manifests
    BY DEF Blocked, Manifests
  <1> QED
    BY <1>1 DEF RecoveryTypeOK

LEMMA ParentDoneTyped ==
  ASSUME RecoveryTypeOK, NEW id \in RunIds \cup {NoRun}
  PROVE  ParentDone(id) \in SUBSET Steps
  <1>1. CASE ~Known(id)
    BY <1>1 DEF ParentDone
  <1>2. CASE Known(id)
    <2>1. id \in RunIds /\ manifest[id] \in Manifests
      BY <1>2 DEF Known, RecoveryTypeOK
    <2> QED
      BY <1>2, <2>1 DEF ParentDone, Manifests
  <1> QED
    BY <1>1, <1>2

-----------------------------------------------------------------------------
(* How each action changes the state, in terms of the types.                *)
LEMMA RequestStartEffect ==
  ASSUME RecoveryTypeOK, NEW r \in Operators, RequestStart(r)
  PROVE  /\ RecoveryTypeOK'
         /\ ops'[r].at = "planning"
         /\ \A s \in Operators : s # r => ops'[s] = ops[s]
  <1>1. PICK k \in RunKeys :
            ops' = [ops EXCEPT ![r] = [Idle EXCEPT !.at = "planning", !.id = <<k, 0>>]]
    BY DEF RequestStart
  <1> DEFINE o == [Idle EXCEPT !.at = "planning", !.id = <<k, 0>>]
  <1>2. <<k, 0>> \in RunIds
    BY RecoveryAssumption DEF RunIds
  <1>3. o \in Ops /\ o.at = "planning" /\ o.id = <<k, 0>>
    BY <1>2 DEF Ops, Idle
  <1>4. /\ lock' \in RunIds \cup {NoRun} /\ broken' \subseteq Indexes /\ files' \in Nat
        /\ manifest' \in [RunIds -> Manifests \cup {NoRun}] /\ interrupted' \in BOOLEAN
    BY DEF RecoveryTypeOK, RequestStart
  <1> HIDE DEF o
  <1> QED
    BY <1>1, <1>2, <1>3, <1>4, OpsTyped DEF o

LEMMA PlanEffect ==
  ASSUME RecoveryTypeOK, NEW r \in Operators, Plan(r)
  PROVE  /\ RecoveryTypeOK'
         /\ ops'[r].at = "planned"
         /\ \A s \in Operators : s # r => ops'[s] = ops[s]
  <1> DEFINE plan == IF broken = {} THEN {} ELSE broken \cup {"verify_readiness"}
             o == [ops[r] EXCEPT !.at = "planned", !.plan = plan]
  <1>1. plan \in SUBSET Steps
    BY DEF RecoveryTypeOK, Steps
  <1>2. ops[r] \in Ops /\ ops[r].at = "planning" /\ ops[r].id \in RunIds
    BY DEF RecoveryTypeOK, Plan
  <1> HIDE DEF plan
  <1>3. o \in Ops /\ o.at = "planned" /\ o.id = ops[r].id
    BY <1>1, <1>2 DEF Ops
  <1>4. ops' = [ops EXCEPT ![r] = o]
    BY DEF Plan, plan
  <1>5. /\ lock' \in RunIds \cup {NoRun} /\ broken' \subseteq Indexes /\ files' \in Nat
        /\ manifest' \in [RunIds -> Manifests \cup {NoRun}] /\ interrupted' \in BOOLEAN
    BY DEF RecoveryTypeOK, Plan
  <1> HIDE DEF o
  <1> QED
    BY <1>2, <1>3, <1>4, <1>5, OpsTyped

LEMMA PlaceTyped ==
  ASSUME NEW id \in RunIds, NEW own \in RunIds \cup {NoRun}
  PROVE  /\ own # NoRun => /\ Planning(id, own) \in Ops /\ Planning(id, own).at = "planning"
                           /\ Planning(id, own).id = own /\ own \in RunIds
         /\ Inspecting(id, own) \in Ops /\ Inspecting(id, own).at = "inspecting"
         /\ Inspecting(id, own).parent = id
         /\ [Idle EXCEPT !.at = "over"] \in Ops /\ [Idle EXCEPT !.at = "over"].at = "over"
  BY DEF Planning, Inspecting, Idle, Ops

LEMMA InspectEffect ==
  ASSUME RecoveryTypeOK, NEW r \in Operators, Inspect(r)
  PROVE  /\ RecoveryTypeOK'
         /\ UNCHANGED <<lock, manifest>>
         /\ interrupted => interrupted'
         /\ ~Executing(r) /\ ~Executing(r)'
         /\ \A s \in Operators : s # r => ops'[s] = ops[s]
         /\ (ops'[r].at = "inspecting" /\ ~interrupted') =>
                /\ lock = ops'[r].parent /\ ~Known(ops'[r].parent)
                /\ \A s \in Operators : ~(Executing(s) /\ ops[s].id = lock)
  <1>1. PICK id \in RunIds, own \in RunIds \cup {NoRun} :
          /\ ops' = [ops EXCEPT ![r] =
                 IF Known(id) /\ own # NoRun THEN Planning(id, own)
                 ELSE IF ~Known(id) /\ lock = id THEN Inspecting(id, own)
                 ELSE [Idle EXCEPT !.at = "over"]]
          /\ interrupted' = (interrupted
                 \/ \E s \in Operators : Executing(s) /\ ops[s].id = id /\ lock = id)
    BY DEF Inspect
  <1> DEFINE o == IF Known(id) /\ own # NoRun THEN Planning(id, own)
                  ELSE IF ~Known(id) /\ lock = id THEN Inspecting(id, own)
                  ELSE [Idle EXCEPT !.at = "over"]
  <1>2. /\ o \in Ops /\ o.at # "executing"
        /\ o.at \in {"planning", "planned", "executing"} => o.id \in RunIds
        /\ o.at = "inspecting" => o.parent = id /\ ~Known(id) /\ lock = id
    BY <1>1, PlaceTyped
  <1>3. ops' = [ops EXCEPT ![r] = o]
    BY <1>1
  <1>4. /\ lock' \in RunIds \cup {NoRun} /\ broken' \subseteq Indexes /\ files' \in Nat
        /\ manifest' \in [RunIds -> Manifests \cup {NoRun}] /\ interrupted' \in BOOLEAN
        /\ UNCHANGED <<lock, manifest>>
    BY <1>1 DEF RecoveryTypeOK, Inspect
  <1> HIDE DEF o
  <1>5. /\ RecoveryTypeOK'
        /\ ops'[r] = o /\ \A s \in Operators : s # r => ops'[s] = ops[s]
    BY <1>2, <1>3, <1>4, OpsTyped
  <1>6. ~Executing(r) /\ ~Executing(r)'
    BY <1>2, <1>5 DEF Executing, Inspect
  <1>7. (interrupted => interrupted')
        /\ (~interrupted' => \A s \in Operators : ~(Executing(s) /\ ops[s].id = id /\ lock = id))
    BY <1>1
  <1> QED
    BY <1>2, <1>4, <1>5, <1>6, <1>7

LEMMA InterruptEffect ==
  ASSUME RecoveryTypeOK, NEW r \in Operators, Interrupt(r)
  PROVE  /\ RecoveryTypeOK'
         /\ ops[r].at = "inspecting" /\ ops[r].parent \in RunIds
         /\ manifest' = [manifest EXCEPT ![ops[r].parent] = Blocked(NoRun)]
         /\ lock' = Released(ops[r].parent)
         /\ interrupted' = interrupted
         /\ ops'[r].at \in {"planning", "over"}
         /\ \A s \in Operators : s # r => ops'[s] = ops[s]
  <1> DEFINE id == ops[r].parent
             own == ops[r].id
             o == IF own # NoRun THEN Planning(id, own) ELSE [Idle EXCEPT !.at = "over"]
  <1>1. /\ id \in RunIds /\ own \in RunIds \cup {NoRun} /\ ops[r].at = "inspecting"
        /\ ops' = [ops EXCEPT ![r] = o] /\ interrupted' = interrupted
        /\ lock' = Released(id) /\ UNCHANGED <<files, broken>>
        /\ manifest' = [manifest EXCEPT ![id] = Blocked(NoRun)]
    BY DEF RecoveryTypeOK, Ops, Interrupt
  <1> HIDE DEF id, own
  <1>2. /\ o \in Ops /\ o.at \in {"planning", "over"}
        /\ o.at \in {"planning", "planned", "executing"} => o.id \in RunIds
    BY <1>1, PlaceTyped
  <1>3. /\ lock' \in RunIds \cup {NoRun} /\ broken' \subseteq Indexes /\ files' \in Nat
        /\ manifest' \in [RunIds -> Manifests \cup {NoRun}] /\ interrupted' \in BOOLEAN
    BY <1>1, BlockedTyped DEF RecoveryTypeOK, Released
  <1> HIDE DEF o
  <1>4. /\ RecoveryTypeOK'
        /\ ops'[r] = o /\ \A s \in Operators : s # r => ops'[s] = ops[s]
    BY <1>1, <1>2, <1>3, OpsTyped
  <1> QED
    BY <1>1, <1>2, <1>4 DEF id

(* A planned run is refused, ends at once, or begins to execute.            *)
LEMMA StartEffect ==
  ASSUME RecoveryTypeOK, NEW r \in Operators, Start(r)
  PROVE  /\ RecoveryTypeOK' /\ interrupted' = interrupted
         /\ ~Executing(r) /\ ops[r].id \in RunIds
         /\ \A s \in Operators : s # r => ops'[s] = ops[s]
         /\ \/ ops'[r].at = "over" /\ UNCHANGED <<lock, manifest>>
            \/ /\ Free(ops[r].id) /\ ops'[r].at = "over" /\ UNCHANGED lock
               /\ manifest' = [manifest EXCEPT ![ops[r].id] = Blocked(ops[r].parent)]
            \/ /\ Free(ops[r].id) /\ ops'[r].at = "over" /\ UNCHANGED lock
               /\ manifest' = Finished(r, "COMPLETED", {})
               /\ ops[r].plan \subseteq ParentDone(ops[r].parent)
            \/ /\ Free(ops[r].id) /\ ops'[r].at = "executing" /\ UNCHANGED manifest
               /\ lock' = ops[r].id /\ ops'[r].id = ops[r].id
               /\ ops'[r].plan \subseteq ops'[r].todo \cup ParentDone(ops'[r].parent)
  <1> DEFINE id == ops[r].id
             plan == ops[r].plan
             todo == plan \ ParentDone(ops[r].parent)
  <1>1. /\ ops[r] \in Ops /\ ops[r].at = "planned" /\ id \in RunIds /\ ~Executing(r)
        /\ plan \in SUBSET Steps /\ ops[r].parent \in RunIds \cup {NoRun}
    BY DEF RecoveryTypeOK, Ops, Start, Executing
  <1>2. UNCHANGED <<files, broken, interrupted>>
    BY DEF Start
  <1>3. ASSUME Turns(r, "over"), lock' \in RunIds \cup {NoRun},
               manifest' \in [RunIds -> Manifests \cup {NoRun}]
        PROVE  /\ RecoveryTypeOK' /\ ops'[r].at = "over"
               /\ \A s \in Operators : s # r => ops'[s] = ops[s]
    <2> DEFINE o == [ops[r] EXCEPT !.at = "over"]
    <2>1. o \in Ops /\ o.at = "over" /\ ops' = [ops EXCEPT ![r] = o]
      BY <1>1, <1>3 DEF Ops, Turns, RecoveryTypeOK
    <2>2. broken' \subseteq Indexes /\ files' \in Nat /\ interrupted' \in BOOLEAN
      BY <1>2 DEF RecoveryTypeOK
    <2> HIDE DEF o
    <2> QED
      BY <2>1, <2>2, <1>3, OpsTyped
  <1>4. lock \in RunIds \cup {NoRun} /\ manifest \in [RunIds -> Manifests \cup {NoRun}]
    BY DEF RecoveryTypeOK
  <1>5. CASE ~Free(id) /\ Turns(r, "over") /\ UNCHANGED <<lock, manifest>>
    BY <1>1, <1>2, <1>3, <1>4, <1>5
  <1>6. CASE /\ Free(id) /\ plan = {}
             /\ manifest' = [manifest EXCEPT ![id] = Blocked(ops[r].parent)]
             /\ Turns(r, "over") /\ UNCHANGED lock
    BY <1>1, <1>2, <1>3, <1>4, <1>6, BlockedTyped
  <1>7. CASE /\ Free(id) /\ plan # {} /\ todo = {}
             /\ manifest' = Finished(r, "COMPLETED", {})
             /\ Turns(r, "over") /\ UNCHANGED lock
    <2>1. manifest' \in [RunIds -> Manifests \cup {NoRun}]
      BY <1>7, FinishedTyped
    <2> QED
      BY <1>1, <1>2, <1>3, <1>4, <1>7, <2>1
  <1>8. CASE /\ Free(id) /\ plan # {} /\ todo # {}
             /\ lock' = id /\ UNCHANGED manifest
             /\ ops' = [ops EXCEPT ![r].at = "executing", ![r].todo = todo, ![r].since = files]
    <2> DEFINE o == [ops[r] EXCEPT !.at = "executing", !.todo = todo, !.since = files]
    <2>1. todo \in SUBSET Steps /\ files \in Nat
      BY <1>1 DEF RecoveryTypeOK
    <2>2. ops' = [ops EXCEPT ![r] = o]
      BY <1>8 DEF RecoveryTypeOK
    <2>3. /\ o \in Ops /\ o.at = "executing" /\ o.id = id /\ o.plan = plan
          /\ o.todo = todo /\ o.parent = ops[r].parent
      <3> HIDE DEF todo
      <3> QED
        BY <1>1, <2>1 DEF Ops
    <2>4. /\ lock' \in RunIds \cup {NoRun} /\ broken' \subseteq Indexes /\ files' \in Nat
          /\ manifest' \in [RunIds -> Manifests \cup {NoRun}] /\ interrupted' \in BOOLEAN
      BY <1>1, <1>2, <1>8 DEF RecoveryTypeOK
    <2>5. /\ RecoveryTypeOK' /\ ops'[r] = o
          /\ \A s \in Operators : s # r => ops'[s] = ops[s]
      <3> HIDE DEF o
      <3> QED
        BY <1>1, <2>2, <2>3, <2>4, OpsTyped
    <2> QED
      BY <1>1, <1>2, <1>8, <2>3, <2>5
  <1> QED
    BY <1>5, <1>6, <1>7, <1>8 DEF Start

LEMMA StepEndsEffect ==
  ASSUME RecoveryTypeOK, NEW r \in Operators, StepEnds(r)
  PROVE  /\ RecoveryTypeOK' /\ interrupted' = interrupted
         /\ Executing(r) /\ ops[r].id \in RunIds
         /\ \A s \in Operators : s # r => ops'[s] = ops[s]
         /\ \/ \E ended \in SUBSET Steps :
                  /\ manifest' = Finished(r, "COMPLETED", ended) /\ ops'[r].at = "over"
                  /\ ops[r].todo \cup ops[r].done \subseteq ended
            \/ /\ UNCHANGED manifest /\ lock' = ops[r].id /\ ops'[r].at = "executing"
               /\ ops'[r].id = ops[r].id /\ ops'[r].parent = ops[r].parent
               /\ ops'[r].plan = ops[r].plan
               /\ ops[r].todo \cup ops[r].done \subseteq ops'[r].todo \cup ops'[r].done
  <1>1. PICK step \in Due(ops[r].todo) :
            /\ Executing(r) /\ broken' = broken \ {step}
            /\ UNCHANGED <<files, trouble, interrupted>>
            /\ IF ops[r].todo \ {step} = {}
               THEN /\ manifest' = Finished(r, "COMPLETED", ops[r].done \cup {step})
                    /\ lock' = Released(ops[r].id)
                    /\ Turns(r, "over")
               ELSE /\ lock' = ops[r].id
                    /\ ops' = [ops EXCEPT ![r].todo = ops[r].todo \ {step},
                                          ![r].done = ops[r].done \cup {step}]
                    /\ UNCHANGED manifest
    BY DEF StepEnds
  <1> DEFINE rest == ops[r].todo \ {step}
             ended == ops[r].done \cup {step}
  <1>2. /\ ops[r] \in Ops /\ ops[r].id \in RunIds /\ ops[r].at = "executing"
        /\ ops[r].todo \in SUBSET Steps /\ ops[r].done \in SUBSET Steps
        /\ step \in ops[r].todo
    BY <1>1 DEF RecoveryTypeOK, Ops, Executing, Due
  <1>3. rest \in SUBSET Steps /\ ended \in SUBSET Steps
    BY <1>2
  <1>4. broken' \subseteq Indexes /\ files' \in Nat /\ interrupted' \in BOOLEAN
    BY <1>1 DEF RecoveryTypeOK
  <1>5. CASE rest = {}
    <2> DEFINE o == [ops[r] EXCEPT !.at = "over"]
    <2>1. o \in Ops /\ o.at = "over" /\ ops' = [ops EXCEPT ![r] = o]
      BY <1>1, <1>2, <1>5 DEF Ops, Turns, RecoveryTypeOK
    <2>2. lock' \in RunIds \cup {NoRun}
      BY <1>1, <1>5 DEF Released, RecoveryTypeOK
    <2>3. manifest' \in [RunIds -> Manifests \cup {NoRun}]
      BY <1>1, <1>3, <1>5, FinishedTyped
    <2>4. /\ RecoveryTypeOK' /\ ops'[r].at = "over"
          /\ \A s \in Operators : s # r => ops'[s] = ops[s]
      <3> HIDE DEF o
      <3> QED
        BY <1>4, <2>1, <2>2, <2>3, OpsTyped
    <2> QED
      BY <1>1, <1>2, <1>3, <1>5, <2>4
  <1>6. CASE rest # {}
    <2> DEFINE o == [ops[r] EXCEPT !.todo = rest, !.done = ended]
    <2>1. ops' = [ops EXCEPT ![r] = o]
      BY <1>1, <1>6 DEF RecoveryTypeOK
    <2>2. /\ o \in Ops /\ o.at = "executing" /\ o.id = ops[r].id /\ o.plan = ops[r].plan
          /\ o.todo = rest /\ o.done = ended /\ o.parent = ops[r].parent
      <3> HIDE DEF rest, ended
      <3> QED
        BY <1>2, <1>3 DEF Ops
    <2>3. lock' \in RunIds \cup {NoRun} /\ manifest' \in [RunIds -> Manifests \cup {NoRun}]
      BY <1>1, <1>2, <1>6 DEF RecoveryTypeOK
    <2>4. /\ RecoveryTypeOK' /\ ops'[r] = o
          /\ \A s \in Operators : s # r => ops'[s] = ops[s]
      <3> HIDE DEF o
      <3> QED
        BY <1>2, <1>4, <2>1, <2>2, <2>3, OpsTyped
    <2>5. ops[r].todo \cup ops[r].done \subseteq rest \cup ended
      OBVIOUS
    <2> QED
      BY <1>1, <1>2, <1>6, <2>2, <2>4, <2>5
  <1> QED
    BY <1>5, <1>6

LEMMA StepFailsEffect ==
  ASSUME RecoveryTypeOK, NEW r \in Operators, StepFails(r)
  PROVE  /\ RecoveryTypeOK' /\ interrupted' = interrupted
         /\ Executing(r) /\ ops[r].id \in RunIds
         /\ \A s \in Operators : s # r => ops'[s] = ops[s]
         /\ \E ended \in SUBSET Steps : manifest' = Finished(r, "FAILED", ended)
         /\ ops'[r].at = "over"
  <1>1. /\ ops[r] \in Ops /\ ops[r].id \in RunIds /\ Executing(r)
        /\ ops[r].done \in SUBSET Steps
    BY DEF RecoveryTypeOK, Ops, Executing, StepFails
  <1> DEFINE o == [ops[r] EXCEPT !.at = "over"]
  <1>2. o \in Ops /\ o.at = "over" /\ ops' = [ops EXCEPT ![r] = o]
    BY <1>1 DEF Ops, Turns, RecoveryTypeOK, StepFails
  <1>3. manifest' = Finished(r, "FAILED", ops[r].done)
    BY DEF StepFails
  <1>4. /\ lock' \in RunIds \cup {NoRun} /\ broken' \subseteq Indexes /\ files' \in Nat
        /\ interrupted' = interrupted /\ interrupted' \in BOOLEAN
    BY DEF RecoveryTypeOK, StepFails, Released
  <1>5. manifest' \in [RunIds -> Manifests \cup {NoRun}]
    BY <1>1, <1>3, FinishedTyped
  <1> HIDE DEF o
  <1>6. /\ RecoveryTypeOK' /\ ops'[r].at = "over"
        /\ \A s \in Operators : s # r => ops'[s] = ops[s]
    BY <1>2, <1>4, <1>5, OpsTyped
  <1> QED
    BY <1>1, <1>3, <1>4, <1>6

LEMMA ProcessDiesEffect ==
  ASSUME RecoveryTypeOK, ProcessDies
  PROVE  /\ RecoveryTypeOK' /\ interrupted' = interrupted
         /\ \A s \in Operators : ops'[s].at \in {"idle", "over"}
         /\ \/ UNCHANGED manifest
            \/ \E r \in Operators, ended \in SUBSET Steps :
                  Executing(r) /\ manifest' = Finished(r, "FAILED", ended)
  <1> DEFINE gone == [Idle EXCEPT !.at = "over"]
  <1>1. gone \in Ops /\ gone.at = "over"
    BY DEF Idle, Ops
  <1>2. ops' = [r \in Operators |-> IF ops[r].at = "idle" THEN ops[r] ELSE gone]
    BY DEF ProcessDies
  <1> HIDE DEF gone
  <1>3. /\ ops' \in [Operators -> Ops]
        /\ \A s \in Operators : ops'[s].at \in {"idle", "over"}
    BY <1>1, <1>2 DEF RecoveryTypeOK
  <1>4. \/ UNCHANGED manifest
        \/ \E r \in Operators, ended \in SUBSET Steps :
              Executing(r) /\ manifest' = Finished(r, "FAILED", ended)
    BY DEF ProcessDies, RecoveryTypeOK, Ops
  <1>5. manifest' \in [RunIds -> Manifests \cup {NoRun}]
    BY <1>4, FinishedTyped DEF RecoveryTypeOK
  <1>6. UNCHANGED <<files, broken, lock, interrupted>>
    BY DEF ProcessDies
  <1>7. RecoveryTypeOK'
    BY <1>3, <1>5, <1>6 DEF RecoveryTypeOK
  <1> QED
    BY <1>3, <1>4, <1>6, <1>7

-----------------------------------------------------------------------------
(* Manifests that stay keep what their runs have done.                      *)
LEMMA DoneStays ==
  ASSUME RecoveryTypeOK, RecoveryTypeOK', ManifestsStay
  PROVE  /\ \A id \in RunIds \cup {NoRun} :
                (Known(id) => Known(id)') /\ ParentDone(id) \subseteq ParentDone(id)'
  BY DEF ManifestsStay, ParentDone, Known, RecoveryTypeOK

(* One manifest more, or one that was there again.                          *)
LEMMA OneManifest ==
  ASSUME RecoveryTypeOK, NEW id \in RunIds, NEW m \in Manifests,
         manifest' = [manifest EXCEPT ![id] = m], Known(id) => manifest[id] = m
  PROVE  /\ ManifestsStay
         /\ manifest'[id] = m
         /\ \A x \in RunIds : x # id => manifest'[x] = manifest[x]
  BY DEF ManifestsStay, RecoveryTypeOK

(* A manifest that is COMPLETED has its plan behind it when it is written.  *)
LEMMA WholeStays ==
  ASSUME RecoveryTypeOK, RecoveryTypeOK', ManifestsStay, CompletedAreWhole,
         \A id \in RunIds :
             (manifest'[id] # manifest[id] /\ manifest'[id].status = "COMPLETED") =>
                 manifest'[id].plan \subseteq
                     manifest'[id].done \cup ParentDone(manifest[id].parent)'
  PROVE  CompletedAreWhole'
  <1> SUFFICES ASSUME NEW id \in RunIds, Known(id)', manifest'[id].status = "COMPLETED",
                      manifest'[id] = manifest[id]
               PROVE  manifest'[id].plan \subseteq
                          manifest'[id].done \cup ParentDone(manifest[id].parent)'
    BY DEF CompletedAreWhole
  <1>1. Known(id) /\ manifest[id] \in Manifests
    BY DEF Known, RecoveryTypeOK
  <1>2. PICK x \in RunIds \cup {NoRun} : x = manifest[id].parent
    BY <1>1 DEF Manifests
  <1>3. ParentDone(x) \subseteq ParentDone(x)'
    BY DoneStays
  <1>4. ParentDone(manifest[id].parent)' = ParentDone(x)'
    BY <1>2 DEF ParentDone, Known
  <1>5. manifest[id].plan \subseteq manifest[id].done \cup ParentDone(x)
    BY <1>1, <1>2 DEF CompletedAreWhole
  <1> QED
    BY <1>3, <1>4, <1>5

(* No manifest changes, and whatever executes has executed before.          *)
LEMMA QuietStep ==
  ASSUME RecoveryTypeOK, RecoveryTypeOK', Serial, UNCHANGED <<lock, manifest>>,
         \A r \in Operators : Executing(r)' => Executing(r) /\ ops'[r] = ops[r],
         \A r \in Operators : ops'[r].at = "inspecting" =>
             \/ ops'[r] = ops[r]
             \/ lock = ops'[r].parent /\ ~Known(ops'[r].parent) /\ NoneExecutes
  PROVE  Serial'
  <1>1. /\ \A id : Known(id)' <=> Known(id)
        /\ \A id : ParentDone(id)' = ParentDone(id)
    BY DEF Known, ParentDone
  <1>2. RunsAlone' /\ HoldsLock'
    BY <1>1 DEF Serial, RunsAlone, HoldsLock
  <1>3. NoneExecutes => NoneExecutes'
    BY DEF NoneExecutes
  <1>4. InspectsTheDead'
    BY <1>1, <1>3 DEF Serial, InspectsTheDead
  <1>5. WorkIsPlanned'
    BY <1>1 DEF Serial, WorkIsPlanned
  <1>6. CompletedAreWhole'
    BY <1>1 DEF Serial, CompletedAreWhole
  <1> QED
    BY <1>2, <1>4, <1>5, <1>6 DEF Serial

LEMMA InterruptStep ==
  ASSUME RecoveryTypeOK, Serial, NEW r \in Operators, Interrupt(r)
  PROVE  Serial'
  <1> DEFINE id == ops[r].parent
  <1>1. /\ RecoveryTypeOK'
        /\ ops[r].at = "inspecting" /\ id \in RunIds
        /\ manifest' = [manifest EXCEPT ![id] = Blocked(NoRun)]
        /\ lock' = Released(id)
        /\ ops'[r].at \in {"planning", "over"}
        /\ \A s \in Operators : s # r => ops'[s] = ops[s]
    BY InterruptEffect
  <1>2. Blocked(NoRun) \in Manifests /\ Blocked(NoRun).status = "BLOCKED"
    BY BlockedTyped, <1>1 DEF Blocked
  <1>3. Known(id) => manifest[id] = Blocked(NoRun)
    BY <1>1 DEF Serial, InspectsTheDead
  <1>4. /\ ManifestsStay /\ manifest'[id] = Blocked(NoRun)
        /\ \A x \in RunIds : x # id => manifest'[x] = manifest[x]
    BY <1>1, <1>2, <1>3, OneManifest
  <1>5. \A s \in Operators : Executing(s)' => Executing(s) /\ ops'[s] = ops[s]
    BY <1>1 DEF Executing
  <1>6. \A s \in Operators : Executing(s) => ops[s].id \in RunIds /\ ops[s].id # id
    <2> SUFFICES ASSUME NEW s \in Operators, Executing(s)
                 PROVE  ops[s].id \in RunIds /\ ops[s].id # id
      OBVIOUS
    <2>1. ops[s].id \in RunIds /\ ~Known(ops[s].id)
      BY DEF RecoveryTypeOK, Serial, HoldsLock, Executing
    <2>2. manifest[id] = Blocked(NoRun)
      BY <1>1 DEF Serial, InspectsTheDead, NoneExecutes
    <2>3. Known(id)
      BY <1>1, <1>2, <2>2, RecoveryAssumption DEF Known
    <2> QED
      BY <2>1, <2>3
  <1>7. RunsAlone' /\ HoldsLock'
    <2>1. \A s \in Operators : Executing(s) => lock' = lock
      BY <1>1, <1>6 DEF Serial, HoldsLock, Released
    <2>2. \A s \in Operators : Executing(s)' => ~Known(ops[s].id)'
      BY <1>4, <1>5, <1>6 DEF Known, Serial, HoldsLock
    <2> QED
      BY <1>5, <2>1, <2>2 DEF Serial, RunsAlone, HoldsLock
  <1>8. InspectsTheDead'
    <2> SUFFICES ASSUME NEW s \in Operators, ops'[s].at = "inspecting"
                 PROVE  \/ manifest'[ops'[s].parent] = Blocked(NoRun)
                        \/ lock' = ops'[s].parent /\ ~Known(ops[s].parent)' /\ NoneExecutes'
      BY DEF InspectsTheDead
    <2>1. PICK x \in RunIds : ops'[s] = ops[s] /\ ops[s].parent = x
      BY <1>1 DEF RecoveryTypeOK
    <2>2. CASE x = id
      BY <1>4, <2>1, <2>2
    <2>3. CASE x # id
      <3>1. manifest'[x] = manifest[x] /\ (lock = x => lock' = lock)
        BY <1>1, <1>4, <2>3 DEF Released
      <3>2. NoneExecutes => NoneExecutes'
        BY <1>5 DEF NoneExecutes
      <3>3. manifest[x] = Blocked(NoRun) \/ (lock = x /\ ~Known(x) /\ NoneExecutes)
        BY <2>1 DEF Serial, InspectsTheDead
      <3> QED
        BY <2>1, <3>1, <3>2, <3>3 DEF Known
    <2> QED
      BY <2>2, <2>3
  <1>9. WorkIsPlanned'
    <2> SUFFICES ASSUME NEW s \in Operators, Executing(s)'
                 PROVE  ops'[s].plan \subseteq
                            ops'[s].todo \cup ops'[s].done \cup ParentDone(ops[s].parent)'
      BY DEF WorkIsPlanned
    <2>1. PICK x \in RunIds \cup {NoRun} : ops[s].parent = x
      BY DEF RecoveryTypeOK, Ops
    <2>2. ops'[s] = ops[s] /\ ops[s].plan \subseteq ops[s].todo \cup ops[s].done \cup ParentDone(x)
      BY <1>5, <2>1 DEF Serial, WorkIsPlanned
    <2>3. ParentDone(x) \subseteq ParentDone(x)'
      BY <1>1, <1>4, DoneStays
    <2>4. ParentDone(ops[s].parent)' = ParentDone(x)'
      BY <2>1, <2>2 DEF ParentDone, Known
    <2> QED
      BY <2>2, <2>3, <2>4
  <1>10. CompletedAreWhole'
    BY <1>1, <1>2, <1>4, WholeStays DEF Serial
  <1> QED
    BY <1>7, <1>8, <1>9, <1>10 DEF Serial

(* A run that ends has written its manifest, and then nothing executes.     *)
LEMMA EndStep ==
  ASSUME RecoveryTypeOK, RecoveryTypeOK', Serial, NEW id \in RunIds, NEW m \in Manifests,
         ~Known(id), manifest' = [manifest EXCEPT ![id] = m],
         NoneExecutes',
         \A s \in Operators : ops'[s].at = "inspecting" =>
             ops'[s] = ops[s] /\ manifest[ops[s].parent] = Blocked(NoRun),
         m.status = "COMPLETED" => m.plan \subseteq m.done \cup ParentDone(m.parent)
  PROVE  Serial'
  <1>1. /\ ManifestsStay /\ manifest'[id] = m
        /\ \A x \in RunIds : x # id => manifest'[x] = manifest[x]
    BY OneManifest
  <1>2. RunsAlone' /\ HoldsLock' /\ WorkIsPlanned'
    BY DEF NoneExecutes, RunsAlone, HoldsLock, WorkIsPlanned
  <1>3. InspectsTheDead'
    <2> SUFFICES ASSUME NEW s \in Operators, ops'[s].at = "inspecting"
                 PROVE  manifest'[ops'[s].parent] = Blocked(NoRun)
      BY DEF InspectsTheDead
    <2>1. ops'[s] = ops[s] /\ ops[s].parent \in RunIds
      BY DEF RecoveryTypeOK
    <2>2. Known(ops[s].parent)
      <3>1. Blocked(NoRun) \in Manifests
        BY DEF Blocked, Manifests
      <3> QED
        BY <2>1, <3>1, RecoveryAssumption DEF Known
    <2> QED
      BY <1>1, <2>1, <2>2 DEF ManifestsStay
  <1>4. CompletedAreWhole'
    <2>1. m.parent \in RunIds \cup {NoRun}
      BY DEF Manifests
    <2>2. ParentDone(m.parent) \subseteq ParentDone(m.parent)'
      BY <1>1, <2>1, DoneStays
    <2>3. ParentDone(manifest[id].parent)' = ParentDone(m.parent)'
      BY <1>1 DEF ParentDone, Known
    <2> QED
      BY <1>1, <2>2, <2>3, WholeStays DEF Serial
  <1> QED
    BY <1>2, <1>3, <1>4 DEF Serial

(* What a finished run writes.                                              *)
LEMMA FinishedRun ==
  ASSUME RecoveryTypeOK, NEW r \in Operators, ops[r].id \in RunIds,
         NEW ended \in SUBSET Steps, NEW status \in {"COMPLETED", "FAILED"},
         manifest' = Finished(r, status, ended)
  PROVE  \E m \in Manifests :
            /\ manifest' = [manifest EXCEPT ![ops[r].id] = m]
            /\ m.status = status /\ m.plan = ops[r].plan /\ m.done = ended
            /\ m.parent = ops[r].parent
  <1> DEFINE m == [status |-> status, plan |-> ops[r].plan, done |-> ended,
                   parent |-> ops[r].parent]
  <1>1. ops[r].plan \in SUBSET Steps /\ ops[r].parent \in RunIds \cup {NoRun}
    BY DEF RecoveryTypeOK, Ops
  <1>2. m \in Manifests
    BY <1>1 DEF Manifests
  <1> WITNESS m \in Manifests
  <1> QED
    BY DEF Finished

LEMMA RunStartStep ==
  ASSUME RecoveryTypeOK, Serial, NEW r \in Operators, Start(r)
  PROVE  Serial'
  <1>1. /\ RecoveryTypeOK' /\ ~Executing(r) /\ ops[r].id \in RunIds
        /\ \A s \in Operators : s # r => ops'[s] = ops[s]
    BY StartEffect
  <1>2. CASE ops'[r].at = "over" /\ UNCHANGED <<lock, manifest>>
    BY <1>1, <1>2, QuietStep DEF Executing
  <1>3. ASSUME Free(ops[r].id)
        PROVE  /\ lock = NoRun /\ ~Known(ops[r].id) /\ NoneExecutes
               /\ \A s \in Operators : ops[s].at = "inspecting" =>
                      manifest[ops[s].parent] = Blocked(NoRun)
    <2>1. lock = NoRun /\ ~Known(ops[r].id)
      BY <1>3 DEF Free
    <2>2. \A s \in Operators : Executing(s) => ops[s].id # NoRun
      BY RecoveryAssumption DEF RecoveryTypeOK, Executing
    <2>3. \A s \in Operators : ops[s].at = "inspecting" => ops[s].parent # NoRun
      BY RecoveryAssumption DEF RecoveryTypeOK
    <2> QED
      BY <2>1, <2>2, <2>3 DEF Serial, HoldsLock, InspectsTheDead, NoneExecutes
  <1>4. ASSUME Free(ops[r].id), ops'[r].at = "over"
        PROVE  /\ NoneExecutes'
               /\ \A s \in Operators : ops'[s].at = "inspecting" =>
                      ops'[s] = ops[s] /\ manifest[ops[s].parent] = Blocked(NoRun)
    BY <1>1, <1>3, <1>4 DEF NoneExecutes, Executing
  <1>5. CASE /\ Free(ops[r].id) /\ ops'[r].at = "over" /\ UNCHANGED lock
             /\ manifest' = [manifest EXCEPT ![ops[r].id] = Blocked(ops[r].parent)]
    <2>1. Blocked(ops[r].parent) \in Manifests /\ Blocked(ops[r].parent).status = "BLOCKED"
      BY BlockedTyped, <1>1 DEF Blocked, RecoveryTypeOK, Ops
    <2> QED
      BY <1>1, <1>3, <1>4, <1>5, <2>1, EndStep
  <1>6. CASE /\ Free(ops[r].id) /\ ops'[r].at = "over" /\ UNCHANGED lock
             /\ manifest' = Finished(r, "COMPLETED", {})
             /\ ops[r].plan \subseteq ParentDone(ops[r].parent)
    <2>1. PICK m \in Manifests :
              /\ manifest' = [manifest EXCEPT ![ops[r].id] = m]
              /\ m.plan = ops[r].plan /\ m.done = {} /\ m.parent = ops[r].parent
      BY <1>1, <1>6, FinishedRun
    <2> QED
      BY <1>1, <1>3, <1>4, <1>6, <2>1, EndStep
  <1>7. CASE /\ Free(ops[r].id) /\ ops'[r].at = "executing" /\ UNCHANGED manifest
             /\ lock' = ops[r].id /\ ops'[r].id = ops[r].id
             /\ ops'[r].plan \subseteq ops'[r].todo \cup ParentDone(ops'[r].parent)
    <2>1. \A s \in Operators : Executing(s)' => s = r
      BY <1>1, <1>3, <1>7 DEF NoneExecutes, Executing
    <2>2. RunsAlone' /\ HoldsLock'
      BY <1>3, <1>7, <2>1 DEF RunsAlone, HoldsLock, Known
    <2>3. InspectsTheDead'
      BY <1>1, <1>3, <1>7 DEF InspectsTheDead
    <2>4. WorkIsPlanned'
      BY <1>7, <2>1 DEF WorkIsPlanned, ParentDone, Known
    <2>5. CompletedAreWhole'
      BY <1>7 DEF Serial, CompletedAreWhole, ParentDone, Known
    <2> QED
      BY <2>2, <2>3, <2>4, <2>5 DEF Serial
  <1> QED
    BY <1>2, <1>5, <1>6, <1>7, StartEffect

(* A run that ends was the only one that executed.                          *)
LEMMA LastOne ==
  ASSUME RecoveryTypeOK, Serial, NEW r \in Operators, Executing(r),
         \/ /\ ops'[r].at = "over"
            /\ \A s \in Operators : s # r => ops'[s] = ops[s]
         \/ \A s \in Operators : ops'[s].at \in {"idle", "over"}
  PROVE  /\ NoneExecutes' /\ ~Known(ops[r].id)
         /\ \A s \in Operators : ops'[s].at = "inspecting" =>
                ops'[s] = ops[s] /\ manifest[ops[s].parent] = Blocked(NoRun)
  BY DEF Serial, RunsAlone, HoldsLock, InspectsTheDead, NoneExecutes, Executing

LEMMA StepEndsStep ==
  ASSUME RecoveryTypeOK, Serial, NEW r \in Operators, StepEnds(r)
  PROVE  Serial'
  <1>1. /\ RecoveryTypeOK' /\ Executing(r) /\ ops[r].id \in RunIds
        /\ \A s \in Operators : s # r => ops'[s] = ops[s]
    BY StepEndsEffect
  <1>2. ops[r].plan \subseteq ops[r].todo \cup ops[r].done \cup ParentDone(ops[r].parent)
    BY <1>1 DEF Serial, WorkIsPlanned
  <1>3. CASE \E ended \in SUBSET Steps :
                 /\ manifest' = Finished(r, "COMPLETED", ended) /\ ops'[r].at = "over"
                 /\ ops[r].todo \cup ops[r].done \subseteq ended
    <2>1. PICK ended \in SUBSET Steps :
                 /\ manifest' = Finished(r, "COMPLETED", ended) /\ ops'[r].at = "over"
                 /\ ops[r].todo \cup ops[r].done \subseteq ended
      BY <1>3
    <2>2. PICK m \in Manifests :
              /\ manifest' = [manifest EXCEPT ![ops[r].id] = m]
              /\ m.plan = ops[r].plan /\ m.done = ended /\ m.parent = ops[r].parent
      BY <1>1, <2>1, FinishedRun
    <2>3. m.plan \subseteq m.done \cup ParentDone(m.parent)
      BY <1>2, <2>1, <2>2
    <2>4. /\ NoneExecutes' /\ ~Known(ops[r].id)
          /\ \A s \in Operators : ops'[s].at = "inspecting" =>
                 ops'[s] = ops[s] /\ manifest[ops[s].parent] = Blocked(NoRun)
      BY <1>1, <2>1, LastOne
    <2> QED
      BY <1>1, <2>2, <2>3, <2>4, EndStep
  <1>4. CASE /\ UNCHANGED manifest /\ lock' = ops[r].id /\ ops'[r].at = "executing"
             /\ ops'[r].id = ops[r].id /\ ops'[r].parent = ops[r].parent
             /\ ops'[r].plan = ops[r].plan
             /\ ops[r].todo \cup ops[r].done \subseteq ops'[r].todo \cup ops'[r].done
    <2>1. \A s \in Operators : Executing(s)' => s = r
      BY <1>1 DEF Serial, RunsAlone, Executing
    <2>2. RunsAlone' /\ HoldsLock'
      BY <1>1, <1>4, <2>1 DEF Serial, RunsAlone, HoldsLock, Known
    <2>3. \A s \in Operators : ops'[s].at = "inspecting" => s = r \/
              (ops'[s] = ops[s] /\ manifest[ops[s].parent] = Blocked(NoRun))
      BY <1>1 DEF Serial, InspectsTheDead, NoneExecutes
    <2>5. InspectsTheDead'
      BY <1>4, <2>3 DEF InspectsTheDead
    <2>6. WorkIsPlanned'
      BY <1>2, <1>4, <2>1 DEF WorkIsPlanned, ParentDone, Known
    <2>7. CompletedAreWhole'
      BY <1>4 DEF Serial, CompletedAreWhole, ParentDone, Known
    <2> QED
      BY <2>2, <2>5, <2>6, <2>7 DEF Serial
  <1> QED
    BY <1>3, <1>4, StepEndsEffect

LEMMA StepFailsStep ==
  ASSUME RecoveryTypeOK, Serial, NEW r \in Operators, StepFails(r)
  PROVE  Serial'
  <1>1. /\ RecoveryTypeOK' /\ Executing(r) /\ ops[r].id \in RunIds /\ ops'[r].at = "over"
        /\ \A s \in Operators : s # r => ops'[s] = ops[s]
    BY StepFailsEffect
  <1>2. PICK ended \in SUBSET Steps : manifest' = Finished(r, "FAILED", ended)
    BY StepFailsEffect
  <1>3. PICK m \in Manifests :
            manifest' = [manifest EXCEPT ![ops[r].id] = m] /\ m.status = "FAILED"
    BY <1>1, <1>2, FinishedRun
  <1>4. /\ NoneExecutes' /\ ~Known(ops[r].id)
        /\ \A s \in Operators : ops'[s].at = "inspecting" =>
               ops'[s] = ops[s] /\ manifest[ops[s].parent] = Blocked(NoRun)
    BY <1>1, LastOne
  <1> QED
    BY <1>1, <1>3, <1>4, EndStep

LEMMA ProcessDiesStep ==
  ASSUME RecoveryTypeOK, Serial, ProcessDies
  PROVE  Serial'
  <1>1. /\ RecoveryTypeOK' /\ \A s \in Operators : ops'[s].at \in {"idle", "over"}
        /\ UNCHANGED lock
    BY ProcessDiesEffect DEF ProcessDies
  <1>2. CASE UNCHANGED manifest
    BY <1>1, <1>2, QuietStep DEF Executing
  <1>3. CASE \E r \in Operators, ended \in SUBSET Steps :
                 Executing(r) /\ manifest' = Finished(r, "FAILED", ended)
    <2>1. PICK r \in Operators, ended \in SUBSET Steps :
              Executing(r) /\ manifest' = Finished(r, "FAILED", ended)
      BY <1>3
    <2>2. ops[r].id \in RunIds
      BY <2>1 DEF RecoveryTypeOK, Executing
    <2>3. PICK m \in Manifests :
              manifest' = [manifest EXCEPT ![ops[r].id] = m] /\ m.status = "FAILED"
      BY <2>1, <2>2, FinishedRun
    <2>4. /\ NoneExecutes' /\ ~Known(ops[r].id)
          /\ \A s \in Operators : ops'[s].at = "inspecting" =>
                 ops'[s] = ops[s] /\ manifest[ops[s].parent] = Blocked(NoRun)
      BY <1>1, <2>1, LastOne
    <2> QED
      BY <1>1, <2>2, <2>3, <2>4, EndStep
  <1> QED
    BY <1>2, <1>3, ProcessDiesEffect

LEMMA InspectStep ==
  ASSUME RecoveryTypeOK, Serial, NEW r \in Operators, Inspect(r), ~interrupted'
  PROVE  Serial'
  <1>1. /\ RecoveryTypeOK' /\ UNCHANGED <<lock, manifest>>
        /\ ~Executing(r) /\ ~Executing(r)'
        /\ \A s \in Operators : s # r => ops'[s] = ops[s]
        /\ ops'[r].at = "inspecting" =>
               /\ lock = ops'[r].parent /\ ~Known(ops'[r].parent)
               /\ \A s \in Operators : ~(Executing(s) /\ ops[s].id = lock)
    BY InspectEffect
  <1>2. ops'[r].at = "inspecting" => NoneExecutes
    BY <1>1 DEF Serial, HoldsLock, NoneExecutes
  <1>3. \A s \in Operators : Executing(s)' => Executing(s) /\ ops'[s] = ops[s]
    BY <1>1 DEF Executing
  <1>4. \A s \in Operators : ops'[s].at = "inspecting" =>
            \/ ops'[s] = ops[s]
            \/ lock = ops'[s].parent /\ ~Known(ops'[s].parent) /\ NoneExecutes
    BY <1>1, <1>2
  <1> QED
    BY <1>1, <1>3, <1>4, QuietStep

-----------------------------------------------------------------------------
LEMMA RecoveryStep == RecoveryInv /\ [RecoveryNext]_recoveryVars => RecoveryInv'
  <1> SUFFICES ASSUME RecoveryInv, [RecoveryNext]_recoveryVars
               PROVE  RecoveryInv'
    OBVIOUS
  <1>0. RecoveryTypeOK /\ (interrupted \/ Serial)
    BY DEF RecoveryInv
  <1>1. CASE Edit \/ Decay \/ UNCHANGED recoveryVars
    <2>1. UNCHANGED <<lock, manifest, ops, interrupted>>
      BY <1>1 DEF Edit, Decay, recoveryVars
    <2>a. broken' \in {broken, broken \cup {"reindex_vault"}, broken \cup {"reindex_embeddings"}}
      BY <1>1 DEF Edit, Decay, recoveryVars
    <2>b. broken' \subseteq Indexes
      BY <1>0, <2>a DEF RecoveryTypeOK, Indexes
    <2>c. files' \in Nat
      BY <1>0, <1>1 DEF Edit, Decay, recoveryVars, RecoveryTypeOK
    <2>2. RecoveryTypeOK'
      BY <1>0, <2>1, <2>b, <2>c DEF RecoveryTypeOK
    <2>3. Serial => Serial'
      BY <1>0, <2>1, <2>2, QuietStep DEF Executing
    <2> QED
      BY <1>0, <2>1, <2>2, <2>3 DEF RecoveryInv
  <1>2. CASE ProcessDies
    BY <1>0, <1>2, ProcessDiesEffect, ProcessDiesStep DEF RecoveryInv
  <1>3. ASSUME NEW r \in Operators, RequestStart(r) \/ Plan(r)
        PROVE  RecoveryInv'
    <2>1. /\ RecoveryTypeOK' /\ ops'[r].at \in {"planning", "planned"}
          /\ \A s \in Operators : s # r => ops'[s] = ops[s]
      BY <1>0, <1>3, RequestStartEffect, PlanEffect
    <2>2. UNCHANGED <<lock, manifest, interrupted>>
      BY <1>3 DEF RequestStart, Plan
    <2>3. Serial => Serial'
      BY <1>0, <2>1, <2>2, QuietStep DEF Executing
    <2> QED
      BY <1>0, <2>1, <2>2, <2>3 DEF RecoveryInv
  <1>4. ASSUME NEW r \in Operators, Inspect(r)
        PROVE  RecoveryInv'
    BY <1>0, <1>4, InspectEffect, InspectStep DEF RecoveryInv
  <1>5. ASSUME NEW r \in Operators, Interrupt(r)
        PROVE  RecoveryInv'
    BY <1>0, <1>5, InterruptEffect, InterruptStep DEF RecoveryInv
  <1>6. ASSUME NEW r \in Operators, Start(r)
        PROVE  RecoveryInv'
    BY <1>0, <1>6, StartEffect, RunStartStep DEF RecoveryInv
  <1>7. ASSUME NEW r \in Operators, StepEnds(r)
        PROVE  RecoveryInv'
    BY <1>0, <1>7, StepEndsEffect, StepEndsStep DEF RecoveryInv
  <1>8. ASSUME NEW r \in Operators, StepFails(r)
        PROVE  RecoveryInv'
    BY <1>0, <1>8, StepFailsEffect, StepFailsStep DEF RecoveryInv
  <1> QED
    BY <1>1, <1>2, <1>3, <1>4, <1>5, <1>6, <1>7, <1>8 DEF RecoveryNext

LEMMA RecoveryInvariance == RecoverySpec => []RecoveryInv
  BY RecoveryInitially, RecoveryStep, PTL DEF RecoverySpec

(* Two runs never execute at the same time, unless one was inspected while  *)
(* it executed (recovery_run_service.py:113-155, 251-275).                  *)
THEOREM RecoveriesAreSerial == RecoverySpec => []OneRecoveryAtATime
  <1>1. RecoveryInv => OneRecoveryAtATime
    BY DEF RecoveryInv, Serial, RunsAlone, OneRecoveryAtATime
  <1> QED
    BY <1>1, RecoveryInvariance, PTL

(* A COMPLETED manifest's plan was executed by the run or by the run that   *)
(* it retries (recovery_run_service.py:153-249, 288-303).                   *)
THEOREM CompletedIsTrue == RecoverySpec => []CompletedPlansAreDone
  <1>1. RecoveryInv => CompletedPlansAreDone
    BY DEF RecoveryInv, Serial, CompletedAreWhole, CompletedPlansAreDone, ParentDone
  <1> QED
    BY <1>1, RecoveryInvariance, PTL

-----------------------------------------------------------------------------
(***************************************************************************)
(* What a workflow's row tells is what its actions have done, for any       *)
(* workflows, actions and requests.                                        *)
(***************************************************************************)

WorkPoints == {"executing", "failing", "storing", "committing"}

(* A request that is at work knows its workflow and holds a row for it.     *)
Shaped(o) ==
    /\ DOMAIN o = {"at", "thread", "write", "todo"}
    /\ DOMAIN o.write = {"status", "completed"}
    /\ o.at \in WorkPoints \cup {"idle", "over"}
    /\ o.at \in WorkPoints => o.thread \in Threads
    /\ o.at \in {"idle", "over"} => o.thread = NoThread

WorkflowShapes ==
    /\ workflows = [w \in Threads |-> workflows[w]] /\ done = [w \in Threads |-> done[w]]
    /\ DOMAIN approver = Approvers
    /\ accepted \in [Threads -> Nat]
    /\ \A r \in Approvers : Shaped(approver[r])

(* Nothing is listed, in a row or by a request, that was not carried out.   *)
ListsAreTrue ==
    /\ \A w \in Threads : workflows[w].completed \subseteq done[w]
    /\ \A r \in Approvers : approver[r].at \in WorkPoints =>
           approver[r].write.completed \subseteq done[approver[r].thread]

(* A workflow whose requests never met nor failed midway has one at most,   *)
(* which lists all that was carried out and, unless it only rolls back, will *)
(* be the first to complete it.                                             *)
WorksAlone ==
    \A r \in Approvers :
        (approver[r].at \in WorkPoints /\ approver[r].thread \notin muddled) =>
            /\ \A s \in Approvers : approver[s].thread = approver[r].thread => s = r
            /\ workflows[approver[r].thread].completed \subseteq approver[r].write.completed
            /\ done[approver[r].thread] = approver[r].write.completed
            /\ approver[r].at # "failing" => workflows[approver[r].thread].status # "COMPLETED"

Settled ==
    \A w \in Threads \ muddled :
        /\ accepted[w] = IF workflows[w].status = "COMPLETED" THEN 1 ELSE 0
        /\ ~Busy(w) => done[w] = workflows[w].completed

WorkflowInv == WorkflowShapes /\ ListsAreTrue /\ WorksAlone /\ Settled

LEMMA InvGivesTruth == WorkflowInv => WorkflowsTellTheirWork
  BY DEF WorkflowInv, ListsAreTrue, Settled, WorkflowsTellTheirWork

LEMMA WorkflowInitially == WorkflowInit => WorkflowInv
  <1> SUFFICES ASSUME WorkflowInit
               PROVE  WorkflowInv
    OBVIOUS
  <1>1. \A r \in Approvers : approver[r] = NoApprover /\ approver[r].at = "idle"
                             /\ Shaped(approver[r])
    BY DEF WorkflowInit, NoApprover, Shaped, WorkPoints, NoRecord
  <1>2. \A w \in Threads : /\ workflows[w].completed = {} /\ workflows[w].status = "none"
                           /\ done[w] = {} /\ accepted[w] = 0
    BY DEF WorkflowInit, NoRecord
  <1>3. WorkflowShapes
    BY <1>1 DEF WorkflowInit, WorkflowShapes
  <1> QED
    BY <1>1, <1>2, <1>3 DEF WorkflowInv, ListsAreTrue, WorksAlone, Settled, WorkPoints
-----------------------------------------------------------------------------
(* A request joins its workflow, or goes on with it.                        *)
Advances(r, w, o) ==
    /\ approver[r].thread \in {w, NoThread} /\ approver' = [approver EXCEPT ![r] = o]
    /\ done' = [done EXCEPT ![w] = done'[w]] /\ done[w] \subseteq done'[w]
    /\ UNCHANGED <<workflows, accepted>>
    /\ muddled \subseteq muddled' /\ muddled' \subseteq muddled \cup {w}
    /\ Shaped(o) /\ o.at \in WorkPoints /\ o.thread = w /\ o.write.completed \subseteq done'[w]
    /\ w \notin muddled' =>
           /\ \A s \in Approvers : approver[s].thread = w => s = r
           /\ workflows[w].completed \subseteq o.write.completed
           /\ done'[w] = o.write.completed
           /\ o.at # "failing" => workflows[w].status # "COMPLETED"

LEMMA GoesOn ==
  ASSUME WorkflowInv, NEW r \in Approvers, NEW w \in Threads, NEW o, Advances(r, w, o)
  PROVE  WorkflowInv'
  <1> USE DEF Advances
  <1>1. /\ DOMAIN approver' = Approvers /\ approver'[r] = o
        /\ \A s \in Approvers : s # r => approver'[s] = approver[s]
    BY DEF WorkflowInv, WorkflowShapes
  <1>2. /\ done' = [v \in Threads |-> done'[v]]
        /\ \A v \in Threads : v # w => done'[v] = done[v]
    BY DEF WorkflowInv, WorkflowShapes
  <1>3. \A s \in Approvers : Shaped(approver'[s])
    BY <1>1 DEF WorkflowInv, WorkflowShapes
  <1>4. WorkflowShapes'
    BY <1>1, <1>2, <1>3 DEF WorkflowInv, WorkflowShapes, Shaped
  <1>5. \A v \in Threads : done[v] \subseteq done'[v]
    BY <1>2
  <1>6. \A s \in Approvers : approver'[s].at \in WorkPoints =>
            approver'[s].write.completed \subseteq done'[approver'[s].thread]
    <2> SUFFICES ASSUME NEW s \in Approvers, approver'[s].at \in WorkPoints
                 PROVE  approver'[s].write.completed \subseteq done'[approver'[s].thread]
      OBVIOUS
    <2>1. CASE s = r
      BY <1>1, <1>2, <2>1
    <2>2. CASE s # r
      <3>1. /\ approver[s].thread \in Threads
            /\ approver[s].write.completed \subseteq done[approver[s].thread]
        BY <1>1, <2>2 DEF WorkflowInv, ListsAreTrue, WorkflowShapes, Shaped
      <3> QED
        BY <1>1, <1>5, <2>2, <3>1
    <2> QED
      BY <2>1, <2>2
  <1>7. ListsAreTrue'
    BY <1>5, <1>6 DEF WorkflowInv, ListsAreTrue
  <1>8. WorksAlone'
    <2> SUFFICES ASSUME NEW s \in Approvers, approver'[s].at \in WorkPoints,
                        approver'[s].thread \notin muddled'
                 PROVE  /\ \A q \in Approvers :
                               approver'[q].thread = approver'[s].thread => q = s
                        /\ workflows[approver'[s].thread].completed
                               \subseteq approver'[s].write.completed
                        /\ done'[approver'[s].thread] = approver'[s].write.completed
                        /\ approver'[s].at # "failing" =>
                               workflows[approver'[s].thread].status # "COMPLETED"
      BY DEF WorksAlone
    <2>1. CASE s = r
      BY <1>1, <1>2, <2>1
    <2>2. CASE s # r
      <3>1. approver'[s] = approver[s] /\ approver[s].thread \notin muddled
            /\ approver[s].thread \in Threads /\ approver[s].at \in WorkPoints
        BY <1>1, <2>2 DEF WorkflowInv, WorkflowShapes, Shaped
      <3>2. approver[s].thread # w
        BY <2>2, <3>1
      <3> QED
        BY <1>1, <1>2, <2>2, <3>1, <3>2 DEF WorkflowInv, WorksAlone
    <2> QED
      BY <2>1, <2>2
  <1>9. Settled'
    <2> SUFFICES ASSUME NEW v \in Threads, v \notin muddled'
                 PROVE  /\ accepted[v] = IF workflows[v].status = "COMPLETED" THEN 1 ELSE 0
                        /\ Busy(v)' \/ done'[v] = workflows[v].completed
      BY DEF Settled, Busy
    <2>1. CASE v = w
      BY <1>1, <2>1 DEF WorkflowInv, Settled, Busy
    <2>2. CASE v # w
      <3>1. Busy(v) => Busy(v)'
        BY <1>1, <2>2, WorkflowAssumption DEF Busy
      <3> QED
        BY <1>2, <2>2, <3>1 DEF WorkflowInv, Settled
    <2> QED
      BY <2>1, <2>2
  <1> QED
    BY <1>4, <1>7, <1>8, <1>9 DEF WorkflowInv

(* A request leaves its workflow and a row behind.                          *)
LeavesWork(r, w, row, n) ==
    /\ approver[r].at \in WorkPoints /\ approver[r].thread = w
    /\ approver' = [approver EXCEPT ![r] = [NoApprover EXCEPT !.at = "over"]]
    /\ workflows' = [workflows EXCEPT ![w] = row]
    /\ accepted' = [accepted EXCEPT ![w] = n] /\ done' = done
    /\ muddled \subseteq muddled' /\ muddled' \subseteq muddled \cup {w}
    /\ row.completed \subseteq done[w]
    /\ w \notin muddled' => /\ done[w] = row.completed
                            /\ n = IF row.status = "COMPLETED" THEN 1 ELSE 0

LEMMA LeavesRow ==
  ASSUME WorkflowInv, NEW r \in Approvers, NEW w \in Threads, NEW row, NEW n \in Nat,
         LeavesWork(r, w, row, n)
  PROVE  WorkflowInv'
  <1> USE DEF LeavesWork
  <1> DEFINE o == [NoApprover EXCEPT !.at = "over"]
  <1>1. /\ DOMAIN approver' = Approvers /\ approver'[r] = o
        /\ \A s \in Approvers : s # r => approver'[s] = approver[s]
    BY DEF WorkflowInv, WorkflowShapes
  <1>2. o.at = "over" /\ o.thread = NoThread /\ Shaped(o)
    BY DEF NoApprover, Shaped, WorkPoints, NoRecord
  <1> HIDE DEF o
  <1>3. /\ workflows' = [v \in Threads |-> workflows'[v]] /\ workflows'[w] = row
        /\ \A v \in Threads : v # w => workflows'[v] = workflows[v]
    BY DEF WorkflowInv, WorkflowShapes
  <1>4. /\ accepted' \in [Threads -> Nat] /\ accepted'[w] = n
        /\ \A v \in Threads : v # w => accepted'[v] = accepted[v]
    BY DEF WorkflowInv, WorkflowShapes
  <1>5. \A s \in Approvers : Shaped(approver'[s])
    BY <1>1, <1>2 DEF WorkflowInv, WorkflowShapes
  <1>6. WorkflowShapes'
    BY <1>1, <1>3, <1>4, <1>5 DEF WorkflowInv, WorkflowShapes, Shaped
  <1>7. \A s \in Approvers : approver'[s].at \in WorkPoints => s # r /\ approver[s].at \in WorkPoints
    BY <1>1, <1>2 DEF WorkPoints
  <1>8. ListsAreTrue'
    BY <1>1, <1>3, <1>7 DEF WorkflowInv, ListsAreTrue
  <1>9. WorksAlone'
    <2> SUFFICES ASSUME NEW s \in Approvers, approver'[s].at \in WorkPoints,
                        approver'[s].thread \notin muddled'
                 PROVE  /\ \A q \in Approvers :
                               approver'[q].thread = approver'[s].thread => q = s
                        /\ workflows'[approver'[s].thread].completed
                               \subseteq approver'[s].write.completed
                        /\ done[approver'[s].thread] = approver'[s].write.completed
                        /\ approver'[s].at # "failing" =>
                               workflows'[approver'[s].thread].status # "COMPLETED"
      BY DEF WorksAlone
    <2>1. /\ s # r /\ approver'[s] = approver[s] /\ approver[s].thread \notin muddled
          /\ approver[s].thread \in Threads /\ approver[s].at \in WorkPoints
      BY <1>1, <1>7 DEF WorkflowInv, WorkflowShapes, Shaped
    <2>2. approver[s].thread # w
      BY <2>1 DEF WorkflowInv, WorksAlone
    <2>3. \A q \in Approvers : approver'[q].thread = approver[s].thread => q = s
      BY <1>1, <1>2, <2>1, WorkflowAssumption DEF WorkflowInv, WorksAlone
    <2> QED
      BY <1>3, <2>1, <2>2, <2>3 DEF WorkflowInv, WorksAlone
  <1>10. Settled'
    <2> SUFFICES ASSUME NEW v \in Threads, v \notin muddled'
                 PROVE  /\ accepted'[v] = IF workflows'[v].status = "COMPLETED" THEN 1 ELSE 0
                        /\ Busy(v)' \/ done[v] = workflows'[v].completed
      BY DEF Settled, Busy
    <2>1. CASE v = w
      BY <1>3, <1>4, <2>1
    <2>2. CASE v # w
      <3>1. Busy(v) => Busy(v)'
        BY <1>1, <2>2 DEF Busy
      <3> QED
        BY <1>3, <1>4, <2>2, <3>1 DEF WorkflowInv, Settled
    <2> QED
      BY <2>1, <2>2
  <1> QED
    BY <1>6, <1>8, <1>9, <1>10 DEF WorkflowInv

-----------------------------------------------------------------------------
(* A request arrives: it finds its workflow at rest, or muddles it.         *)
Joins(r, w, o) ==
    /\ approver[r].at = "idle" /\ approver' = [approver EXCEPT ![r] = o]
    /\ workflows' = workflows /\ accepted' = accepted /\ done' = done
    /\ muddled \subseteq muddled' /\ muddled' \subseteq muddled \cup {w}
    /\ Shaped(o) /\ o.at \in WorkPoints /\ o.thread = w
    /\ o.write.completed = workflows[w].completed
    /\ w \notin muddled' => /\ ~Busy(w)
                            /\ o.at # "failing" => workflows[w].status # "COMPLETED"

LEMMA Arrives ==
  ASSUME WorkflowInv, NEW r \in Approvers, NEW w \in Threads, NEW o, Joins(r, w, o)
  PROVE  WorkflowInv'
  <1>1. approver[r].thread = NoThread
    BY DEF Joins, WorkflowInv, WorkflowShapes, Shaped
  <1>2. done' = [done EXCEPT ![w] = done'[w]]
    BY DEF Joins, WorkflowInv, WorkflowShapes
  <1>3. /\ workflows[w].completed \subseteq done[w]
        /\ w \notin muddled' => done[w] = workflows[w].completed
    BY DEF Joins, WorkflowInv, ListsAreTrue, Settled
  <1>4. w \notin muddled' => \A s \in Approvers : approver[s].thread = w => s = r
    BY DEF Joins, Busy
  <1>5. done[w] \subseteq done'[w] /\ o.write.completed \subseteq done'[w]
    BY <1>3 DEF Joins
  <1>6. w \notin muddled' =>
             /\ \A s \in Approvers : approver[s].thread = w => s = r
             /\ workflows[w].completed \subseteq o.write.completed
             /\ done'[w] = o.write.completed
             /\ o.at # "failing" => workflows[w].status # "COMPLETED"
    BY <1>3, <1>4 DEF Joins
  <1>7. Advances(r, w, o)
    BY <1>1, <1>2, <1>5, <1>6 DEF Advances, Joins
  <1> QED
    BY <1>7, GoesOn

LEMMA StartStep ==
  ASSUME WorkflowInv, NEW r \in Approvers, StartWorkflow(r)
  PROVE  WorkflowInv'
  <1> DEFINE write == [status |-> "WAITING", completed |-> {}]
             o(w) == [approver[r] EXCEPT !.at = "storing", !.thread = w, !.write = write]
  <1>1. PICK w \in Threads : /\ workflows[w] = NoRecord /\ ~Busy(w)
                             /\ approver' = [approver EXCEPT ![r] = o(w)]
    BY DEF StartWorkflow, WorkflowInv, WorkflowShapes
  <1>2. /\ Shaped(approver[r]) /\ approver[r].at = "idle" /\ muddled' = muddled
        /\ workflows' = workflows /\ accepted' = accepted /\ done' = done
    BY DEF WorkflowInv, WorkflowShapes, StartWorkflow, ApproverAt, WorkKept
  <1>3. /\ Shaped(o(w)) /\ o(w).at = "storing" /\ o(w).thread = w
        /\ o(w).write.completed = {}
    BY <1>2 DEF Shaped, WorkPoints
  <1>4. workflows[w].completed = {} /\ workflows[w].status # "COMPLETED"
    BY <1>1 DEF NoRecord
  <1> HIDE DEF o
  <1>5. Joins(r, w, o(w))
    BY <1>1, <1>2, <1>3, <1>4 DEF Joins, WorkPoints
  <1> QED
    BY <1>1, <1>5, Arrives

LEMMA ResumeStep ==
  ASSUME WorkflowInv, NEW r \in Approvers, ResumeWorkflow(r)
  PROVE  WorkflowInv'
  <1> DEFINE at(w) == IF AwaitsApproval(w) THEN "executing" ELSE "failing"
             write(w) == [status |-> "COMPLETED", completed |-> workflows[w].completed]
             todo(approved) == {i \in 1..Len(PendingActions) : PendingActions[i] \in approved}
  <1>1. PICK w \in Threads, approved \in SUBSET ActionIds :
            /\ approver' = [approver EXCEPT ![r] = [@ EXCEPT
                   !.at = at(w), !.thread = w, !.write = write(w), !.todo = todo(approved)]]
            /\ muddled' = IF Busy(w) THEN muddled \cup {w} ELSE muddled
    BY Zenon DEF ResumeWorkflow
  <1> DEFINE o == [approver[r] EXCEPT !.at = at(w), !.thread = w, !.write = write(w),
                                      !.todo = todo(approved)]
  <1>2. /\ Shaped(approver[r]) /\ approver[r].at = "idle"
        /\ workflows' = workflows /\ accepted' = accepted /\ done' = done
    BY DEF WorkflowInv, WorkflowShapes, ResumeWorkflow, ApproverAt, WorkKept
  <1>3. at(w) \in WorkPoints /\ (at(w) # "failing" => workflows[w].status # "COMPLETED")
    BY DEF AwaitsApproval, WorkPoints
  <1>4. DOMAIN write(w) = {"status", "completed"} /\ write(w).completed = workflows[w].completed
    OBVIOUS
  <1> HIDE DEF at, write, todo
  <1>5. approver' = [approver EXCEPT ![r] = o]
    BY <1>1 DEF WorkflowInv, WorkflowShapes
  <1>6. /\ Shaped(o) /\ o.at = at(w) /\ o.thread = w
        /\ o.write.completed = workflows[w].completed
    BY <1>2, <1>3, <1>4 DEF Shaped, WorkPoints
  <1> HIDE DEF o
  <1>7. Joins(r, w, o)
    BY <1>1, <1>2, <1>3, <1>5, <1>6 DEF Joins, WorkPoints
  <1> QED
    BY <1>1, <1>7, Arrives

LEMMA CancelStep ==
  ASSUME WorkflowInv, NEW r \in Approvers, CancelWorkflow(r)
  PROVE  WorkflowInv'
  <1> DEFINE write(w) == [status |-> "CANCELLED", completed |-> workflows[w].completed]
             o(w) == [approver[r] EXCEPT !.at = "storing", !.thread = w, !.write = write(w)]
  <1>1. PICK w \in Threads :
            /\ approver' = [approver EXCEPT ![r] = o(w)]
            /\ muddled' = IF Busy(w) \/ workflows[w].status = "COMPLETED"
                          THEN muddled \cup {w} ELSE muddled
    BY DEF CancelWorkflow, WorkflowInv, WorkflowShapes
  <1>2. /\ Shaped(approver[r]) /\ approver[r].at = "idle"
        /\ workflows' = workflows /\ accepted' = accepted /\ done' = done
    BY DEF WorkflowInv, WorkflowShapes, CancelWorkflow, ApproverAt, WorkKept
  <1>3. /\ Shaped(o(w)) /\ o(w).at = "storing" /\ o(w).thread = w
        /\ o(w).write.completed = workflows[w].completed
    BY <1>2 DEF Shaped, WorkPoints
  <1> HIDE DEF o
  <1>4. Joins(r, w, o(w))
    BY <1>1, <1>2, <1>3 DEF Joins, WorkPoints
  <1> QED
    BY <1>1, <1>4, Arrives

(* An action's effect is listed, or its workflow is muddled.                *)
LEMMA CarryOutStep ==
  ASSUME WorkflowInv, NEW r \in Approvers, CarryOut(r)
  PROVE  WorkflowInv'
  <1>0. PICK i \in approver[r].todo :
           LET act == PendingActions[i]
           IN  \/ /\ approver' = [approver EXCEPT ![r].todo = @ \ {i},
                                                 ![r].write.completed = @ \cup {act}]
                 /\ done' = [done EXCEPT ![approver[r].thread] = @ \cup {act}]
                 /\ UNCHANGED muddled
              \/ /\ approver' = [approver EXCEPT ![r].at = "failing"]
                 /\ \/ UNCHANGED <<done, muddled>>
                    \/ /\ done' = [done EXCEPT ![approver[r].thread] = @ \cup {act}]
                       /\ muddled' = muddled \cup {approver[r].thread}
    BY DEF CarryOut
  <1> DEFINE w == approver[r].thread
             act == PendingActions[i]
             rest == approver[r].todo \ {i}
             listed == approver[r].write.completed
  <1>1. /\ Shaped(approver[r]) /\ approver[r].at = "executing" /\ w \in Threads
        /\ workflows' = workflows /\ accepted' = accepted
        /\ done = [v \in Threads |-> done[v]] /\ listed \subseteq done[w]
    BY DEF WorkflowInv, WorkflowShapes, Shaped, CarryOut, ApproverAt, ListsAreTrue, WorkPoints
  <1>2. w \notin muddled =>
            /\ \A s \in Approvers : approver[s].thread = w => s = r
            /\ workflows[w].completed \subseteq listed /\ done[w] = listed
            /\ workflows[w].status # "COMPLETED"
    BY <1>1 DEF WorkflowInv, WorksAlone, WorkPoints
  <1>3. CASE /\ approver' = [approver EXCEPT ![r].todo = @ \ {i},
                                             ![r].write.completed = @ \cup {act}]
             /\ done' = [done EXCEPT ![w] = @ \cup {act}] /\ muddled' = muddled
    <2> DEFINE write == [approver[r].write EXCEPT !.completed = listed \cup {act}]
               o == [approver[r] EXCEPT !.todo = rest, !.write = write]
    <2>1. /\ approver' = [approver EXCEPT ![r] = o]
          /\ done' = [done EXCEPT ![w] = done'[w]] /\ done'[w] = done[w] \cup {act}
      BY <1>1, <1>3 DEF WorkflowInv, WorkflowShapes, Shaped
    <2>2. /\ DOMAIN write = {"status", "completed"} /\ write.completed = listed \cup {act}
      BY <1>1 DEF Shaped
    <2> HIDE DEF write
    <2>3. /\ Shaped(o) /\ o.at = "executing" /\ o.thread = w
          /\ o.write.completed = listed \cup {act}
      BY <1>1, <2>2 DEF Shaped, WorkPoints
    <2> HIDE DEF o
    <2>4. Advances(r, w, o)
      BY <1>1, <1>2, <1>3, <2>1, <2>3 DEF Advances, WorkPoints
    <2> QED
      BY <1>1, <2>4, GoesOn
  <1>4. CASE /\ approver' = [approver EXCEPT ![r].at = "failing"]
             /\ \/ UNCHANGED <<done, muddled>>
                \/ /\ done' = [done EXCEPT ![w] = @ \cup {act}]
                   /\ muddled' = muddled \cup {w}
    <2> DEFINE o == [approver[r] EXCEPT !.at = "failing"]
    <2>1. /\ done' = [done EXCEPT ![w] = done'[w]] /\ done[w] \subseteq done'[w]
          /\ muddled \subseteq muddled' /\ muddled' \subseteq muddled \cup {w}
          /\ w \notin muddled' => done'[w] = done[w]
      <3>1. CASE UNCHANGED <<done, muddled>>
        BY <1>1, <3>1
      <3>2. CASE done' = [done EXCEPT ![w] = @ \cup {act}] /\ muddled' = muddled \cup {w}
        BY <1>1, <3>2
      <3> QED
        BY <1>4, <3>1, <3>2
    <2>2. approver' = [approver EXCEPT ![r] = o]
      BY <1>4 DEF WorkflowInv, WorkflowShapes
    <2>3. /\ Shaped(o) /\ o.at = "failing" /\ o.thread = w /\ o.write.completed = listed
      BY <1>1 DEF Shaped, WorkPoints
    <2> HIDE DEF o
    <2>4. Advances(r, w, o)
      BY <1>1, <1>2, <2>1, <2>2, <2>3 DEF Advances, WorkPoints
    <2> QED
      BY <1>1, <2>4, GoesOn
  <1> QED
    BY <1>0, <1>3, <1>4

LEMMA StoreStep ==
  ASSUME WorkflowInv, NEW r \in Approvers, Finalize(r) \/ StoreWorkflow(r)
  PROVE  WorkflowInv'
  <1> DEFINE w == approver[r].thread
             listed == approver[r].write.completed
  <1>1. PICK at \in {"storing", "committing"} : approver' = [approver EXCEPT ![r].at = at]
    BY DEF Finalize, StoreWorkflow
  <1> DEFINE o == [approver[r] EXCEPT !.at = at]
  <1>2. /\ Shaped(approver[r]) /\ approver[r].at \in WorkPoints \ {"failing"} /\ w \in Threads
        /\ workflows' = workflows /\ accepted' = accepted /\ done' = done
        /\ muddled' = muddled /\ listed \subseteq done[w]
    BY DEF WorkflowInv, WorkflowShapes, Shaped, Finalize, StoreWorkflow, WorkKept, ApproverAt,
           ListsAreTrue, WorkPoints
  <1>3. w \notin muddled =>
            /\ \A s \in Approvers : approver[s].thread = w => s = r
            /\ workflows[w].completed \subseteq listed /\ done[w] = listed
            /\ workflows[w].status # "COMPLETED"
    BY <1>2 DEF WorkflowInv, WorksAlone, WorkPoints
  <1>4. approver' = [approver EXCEPT ![r] = o] /\ done' = [done EXCEPT ![w] = done'[w]]
    BY <1>1, <1>2 DEF WorkflowInv, WorkflowShapes
  <1>5. /\ Shaped(o) /\ o.at \in WorkPoints /\ o.thread = w /\ o.write.completed = listed
    BY <1>1, <1>2 DEF Shaped, WorkPoints
  <1> HIDE DEF o
  <1>6. Advances(r, w, o)
    BY <1>2, <1>3, <1>4, <1>5 DEF Advances, WorkPoints
  <1> QED
    BY <1>2, <1>6, GoesOn

(* A workflow that was never muddled is completed for the first time.       *)
LEMMA CommitStep ==
  ASSUME WorkflowInv, NEW r \in Approvers, CommitWorkflow(r)
  PROVE  WorkflowInv'
  <1> DEFINE w == approver[r].thread
             row == approver[r].write
             n == IF row.status = "COMPLETED" THEN accepted[w] + 1 ELSE accepted[w]
  <1>1. /\ approver[r].at = "committing" /\ w \in Threads /\ accepted \in [Threads -> Nat]
        /\ done' = done /\ muddled' = muddled
        /\ workflows' = [workflows EXCEPT ![w] = row]
        /\ approver' = [approver EXCEPT ![r] = [NoApprover EXCEPT !.at = "over"]]
        /\ row.completed \subseteq done[w]
    BY DEF WorkflowInv, WorkflowShapes, Shaped, CommitWorkflow, ApproverAt, ListsAreTrue, WorkPoints
  <1>2. accepted' = [accepted EXCEPT ![w] = n] /\ n \in Nat
    <2>1. CASE row.status = "COMPLETED"
      <3>1. accepted' = [accepted EXCEPT ![w] = @ + 1]
        BY <2>1 DEF CommitWorkflow
      <3> QED
        BY <1>1, <2>1, <3>1
    <2>2. CASE row.status # "COMPLETED"
      <3>1. accepted' = accepted
        BY <2>2 DEF CommitWorkflow
      <3> QED
        BY <1>1, <2>2, <3>1
    <2> QED
      BY <2>1, <2>2
  <1>3. w \notin muddled => /\ done[w] = row.completed /\ accepted[w] = 0
    BY <1>1 DEF WorkflowInv, WorksAlone, Settled, WorkPoints
  <1>4. w \notin muddled => n = IF row.status = "COMPLETED" THEN 1 ELSE 0
    BY <1>3
  <1> HIDE DEF n
  <1>5. LeavesWork(r, w, row, n)
    BY <1>1, <1>2, <1>3, <1>4 DEF LeavesWork, WorkPoints
  <1> QED
    BY <1>1, <1>2, <1>5, LeavesRow

(* What was carried out and is not listed muddles the workflow.             *)
LEMMA DropStep ==
  ASSUME WorkflowInv, NEW r \in Approvers, DropWorkflow(r)
  PROVE  WorkflowInv'
  <1> DEFINE w == approver[r].thread
  <1>1. /\ approver[r].at \in WorkPoints /\ w \in Threads /\ accepted \in [Threads -> Nat]
        /\ workflows' = workflows /\ accepted' = accepted /\ done' = done
        /\ workflows = [v \in Threads |-> workflows[v]]
        /\ approver' = [approver EXCEPT ![r] = [NoApprover EXCEPT !.at = "over"]]
        /\ workflows[w].completed \subseteq done[w]
    BY DEF WorkflowInv, WorkflowShapes, Shaped, DropWorkflow, ApproverAt, ListsAreTrue, WorkPoints
  <1>2. /\ workflows' = [workflows EXCEPT ![w] = workflows[w]]
        /\ accepted' = [accepted EXCEPT ![w] = accepted[w]] /\ accepted[w] \in Nat
    BY <1>1
  <1>3. /\ muddled \subseteq muddled' /\ muddled' \subseteq muddled \cup {w}
        /\ w \notin muddled' => approver[r].write.completed \subseteq workflows[w].completed
    BY DEF DropWorkflow, Carried
  <1>4. w \notin muddled' =>
            /\ done[w] = workflows[w].completed
            /\ accepted[w] = IF workflows[w].status = "COMPLETED" THEN 1 ELSE 0
    BY <1>1, <1>3 DEF WorkflowInv, WorksAlone, Settled
  <1>5. LeavesWork(r, w, workflows[w], accepted[w])
    BY <1>1, <1>2, <1>3, <1>4 DEF LeavesWork, WorkPoints
  <1> QED
    BY <1>1, <1>2, <1>5, LeavesRow

LEMMA WorkflowStep == WorkflowInv /\ [WorkflowNext]_workflowVars => WorkflowInv'
  <1> SUFFICES ASSUME WorkflowInv, [WorkflowNext]_workflowVars
               PROVE  WorkflowInv'
    OBVIOUS
  <1>1. ASSUME NEW r \in Approvers,
               \/ StartWorkflow(r) \/ ResumeWorkflow(r) \/ CarryOut(r) \/ Finalize(r)
               \/ CancelWorkflow(r) \/ StoreWorkflow(r) \/ CommitWorkflow(r)
               \/ DropWorkflow(r)
        PROVE  WorkflowInv'
    BY <1>1, StartStep, ResumeStep, CancelStep, CarryOutStep, StoreStep, CommitStep, DropStep
  <1>2. CASE UNCHANGED workflowVars
    BY <1>2 DEF workflowVars, WorkflowInv, WorkflowShapes, Shaped, ListsAreTrue, WorksAlone, Settled, Busy
  <1> QED
    BY <1>1, <1>2 DEF WorkflowNext

(* A workflow's row tells what was carried out for it, after one approval,  *)
(* unless its requests met, failed midway or cancelled it when it was       *)
(* complete (obsidian_librarian_workflow_service.py:113-171).               *)
THEOREM RowsTellTheWork == WorkflowSpec => []WorkflowsTellTheirWork
  <1> QED
    BY WorkflowInitially, WorkflowStep, InvGivesTruth, PTL DEF WorkflowSpec

(* What the types need besides: only a request that commits has a row in    *)
(* its session, and no other one has a row for its workflow.                *)
WorkflowTyped ==
    /\ \A w \in Threads : done[w] \subseteq ActionIds /\ workflows[w].completed \subseteq ActionIds
    /\ \A r \in Approvers :
          /\ approver[r].at \in WorkPoints => approver[r].write.completed \subseteq ActionIds
          /\ approver[r].todo \subseteq 1..Len(PendingActions)
          /\ stored[r] => approver[r].at = "committing"
    /\ \A r, s \in Approvers : (r # s /\ stored[r] /\ stored[s]) =>
           approver[r].thread # approver[s].thread
    /\ stored = [r \in Approvers |-> stored[r]]
    /\ muddled \subseteq Threads
    /\ workflowFaults \in 0..MaxWorkflowFaults

LEMMA WorkflowTypedInitially == WorkflowInit => WorkflowTyped
  BY WorkflowAssumption DEF WorkflowInit, WorkflowTyped, NoApprover, NoRecord, WorkPoints

(* Steps of one request that leave the rows and the sessions as they are.   *)
LEMMA WorkTyped ==
  ASSUME WorkflowInv, WorkflowTyped, NEW r \in Approvers, NEW o,
         approver' = [approver EXCEPT ![r] = o], UNCHANGED <<workflows, stored, workflowFaults>>,
         ~stored[r], o.at \in WorkPoints => o.write.completed \subseteq ActionIds,
         o.todo \subseteq 1..Len(PendingActions),
         \A w \in Threads : done'[w] \subseteq ActionIds, muddled' \subseteq Threads
  PROVE  WorkflowTyped'
  <1>1. approver'[r] = o /\ \A s \in Approvers \ {r} : approver'[s] = approver[s]
    BY DEF WorkflowInv, WorkflowShapes
  <1> QED
    BY <1>1 DEF WorkflowTyped

LEMMA WorkflowTypedStep ==
  WorkflowInv /\ WorkflowTyped /\ [WorkflowNext]_workflowVars => WorkflowTyped'
  <1> SUFFICES ASSUME WorkflowInv, WorkflowTyped, [WorkflowNext]_workflowVars
               PROVE  WorkflowTyped'
    OBVIOUS
  <1>0. /\ \A r \in Approvers : Shaped(approver[r]) /\ (stored[r] => approver[r].at = "committing")
        /\ DOMAIN approver = Approvers /\ stored = [r \in Approvers |-> stored[r]]
        /\ done = [w \in Threads |-> done[w]] /\ workflows = [w \in Threads |-> workflows[w]]
    BY DEF WorkflowInv, WorkflowShapes, WorkflowTyped
  <1>1. ASSUME NEW r \in Approvers, StartWorkflow(r)
        PROVE  WorkflowTyped'
    <2>1. PICK w \in Threads :
             approver' = [approver EXCEPT ![r] = [@ EXCEPT !.at = "storing", !.thread = w,
                             !.write = [status |-> "WAITING", completed |-> {}]]]
      BY <1>1 DEF StartWorkflow
    <2> DEFINE o == [approver[r] EXCEPT !.at = "storing", !.thread = w,
                        !.write = [status |-> "WAITING", completed |-> {}]]
    <2>2. o.write.completed = {} /\ o.todo = approver[r].todo /\ ~stored[r]
      BY <1>0, <1>1 DEF Shaped, StartWorkflow, ApproverAt
    <2>3. approver' = [approver EXCEPT ![r] = o]
      BY <2>1, <1>0
    <2> HIDE DEF o
    <2> QED
      BY <1>1, <2>2, <2>3, WorkTyped DEF StartWorkflow, WorkKept, WorkflowTyped
  <1>2. ASSUME NEW r \in Approvers, ResumeWorkflow(r)
        PROVE  WorkflowTyped'
    <2>1. PICK w \in Threads, approved \in SUBSET ActionIds :
             approver' = [approver EXCEPT ![r] = [@ EXCEPT
                 !.at = IF AwaitsApproval(w) THEN "executing" ELSE "failing",
                 !.thread = w,
                 !.write = [status |-> "COMPLETED", completed |-> workflows[w].completed],
                 !.todo = {i \in 1..Len(PendingActions) : PendingActions[i] \in approved}]]
             /\ muddled' = IF Busy(w) THEN muddled \cup {w} ELSE muddled
      BY <1>2 DEF ResumeWorkflow
    <2> DEFINE o == [approver[r] EXCEPT
                 !.at = IF AwaitsApproval(w) THEN "executing" ELSE "failing",
                 !.thread = w,
                 !.write = [status |-> "COMPLETED", completed |-> workflows[w].completed],
                 !.todo = {i \in 1..Len(PendingActions) : PendingActions[i] \in approved}]
    <2>2. /\ o.write.completed = workflows[w].completed /\ ~stored[r]
          /\ o.todo \subseteq 1..Len(PendingActions)
      BY <1>0, <1>2 DEF Shaped, ResumeWorkflow, ApproverAt
    <2>3. approver' = [approver EXCEPT ![r] = o]
      BY <2>1, <1>0
    <2> HIDE DEF o
    <2> QED
      BY <1>2, <2>1, <2>2, <2>3, WorkTyped DEF ResumeWorkflow, WorkKept, WorkflowTyped
  <1>3. ASSUME NEW r \in Approvers, CarryOut(r)
        PROVE  WorkflowTyped'
    <2> DEFINE w == approver[r].thread
    <2>0. /\ approver[r].at = "executing" /\ w \in Threads /\ ~stored[r]
          /\ approver[r].write.completed \subseteq ActionIds
      BY <1>0, <1>3 DEF CarryOut, ApproverAt, Shaped, WorkPoints, WorkflowTyped
    <2>1. PICK i \in approver[r].todo :
           LET act == PendingActions[i]
           IN  \/ /\ approver' = [approver EXCEPT ![r].todo = @ \ {i},
                                                 ![r].write.completed = @ \cup {act}]
                 /\ done' = [done EXCEPT ![w] = @ \cup {act}]
                 /\ UNCHANGED muddled
              \/ /\ approver' = [approver EXCEPT ![r].at = "failing"]
                 /\ \/ UNCHANGED <<done, muddled>>
                    \/ /\ done' = [done EXCEPT ![w] = @ \cup {act}]
                       /\ muddled' = muddled \cup {w}
      BY <1>3 DEF CarryOut
    <2> DEFINE act == PendingActions[i]
    <2>2. act \in ActionIds
      BY DEF ActionIds, WorkflowTyped
    <2>3. /\ \A v \in Threads : done'[v] \subseteq ActionIds
          /\ muddled' \subseteq Threads
      <3>1. done' = done \/ done' = [done EXCEPT ![w] = @ \cup {act}]
        BY <2>1
      <3>2. muddled' = muddled \/ muddled' = muddled \cup {w}
        BY <2>1
      <3>3. \A v \in Threads : done'[v] \subseteq done[v] \cup {act}
        BY <1>0, <2>0, <3>1
      <3> QED
        BY <2>0, <2>2, <3>2, <3>3 DEF WorkflowTyped
    <2>4. CASE approver' = [approver EXCEPT ![r].todo = @ \ {i},
                                            ![r].write.completed = @ \cup {act}]
      <3> DEFINE write == [approver[r].write EXCEPT !.completed = @ \cup {act}]
                 o == [approver[r] EXCEPT !.todo = @ \ {i}, !.write = write]
      <3>1. approver' = [approver EXCEPT ![r] = o]
        BY <1>0, <2>4 DEF Shaped
      <3>2. write.completed = approver[r].write.completed \cup {act}
        BY <1>0 DEF Shaped
      <3> HIDE DEF write
      <3>3. o.todo \subseteq 1..Len(PendingActions) /\ o.write = write
        BY <1>0 DEF Shaped, WorkflowTyped
      <3> HIDE DEF o, act
      <3> QED
        BY <1>3, <2>0, <2>2, <2>3, <3>1, <3>2, <3>3, WorkTyped DEF CarryOut
    <2>5. CASE approver' = [approver EXCEPT ![r].at = "failing"]
      <3> DEFINE o == [approver[r] EXCEPT !.at = "failing"]
      <3>1. approver' = [approver EXCEPT ![r] = o]
        BY <1>0, <2>5
      <3>2. o.todo = approver[r].todo /\ o.write = approver[r].write
        BY <1>0 DEF Shaped
      <3> HIDE DEF o, act
      <3> QED
        BY <1>3, <2>0, <2>3, <3>1, <3>2, WorkTyped DEF CarryOut, WorkflowTyped
    <2> QED
      BY <2>1, <2>4, <2>5
  <1>4. ASSUME NEW r \in Approvers, Finalize(r)
        PROVE  WorkflowTyped'
    <2> DEFINE o == [approver[r] EXCEPT !.at = "storing"]
    <2>1. approver' = [approver EXCEPT ![r] = o]
      BY <1>0, <1>4 DEF Finalize
    <2>2. /\ o.todo = approver[r].todo /\ o.write = approver[r].write
          /\ approver[r].at \in WorkPoints /\ ~stored[r]
      BY <1>0, <1>4 DEF Shaped, Finalize, ApproverAt, WorkPoints
    <2> HIDE DEF o
    <2> QED
      BY <1>4, <2>1, <2>2, WorkTyped DEF Finalize, WorkKept, WorkflowTyped
  <1>5. ASSUME NEW r \in Approvers, CancelWorkflow(r)
        PROVE  WorkflowTyped'
    <2>1. PICK w \in Threads :
             /\ approver' = [approver EXCEPT ![r] = [@ EXCEPT !.at = "storing", !.thread = w,
                    !.write = [status |-> "CANCELLED", completed |-> workflows[w].completed]]]
             /\ muddled' = IF Busy(w) \/ workflows[w].status = "COMPLETED"
                           THEN muddled \cup {w} ELSE muddled
      BY <1>5 DEF CancelWorkflow
    <2> DEFINE o == [approver[r] EXCEPT !.at = "storing", !.thread = w,
                    !.write = [status |-> "CANCELLED", completed |-> workflows[w].completed]]
    <2>2. /\ o.write.completed = workflows[w].completed /\ o.todo = approver[r].todo
          /\ ~stored[r]
      BY <1>0, <1>5 DEF Shaped, CancelWorkflow, ApproverAt
    <2>3. approver' = [approver EXCEPT ![r] = o]
      BY <2>1, <1>0
    <2> HIDE DEF o
    <2> QED
      BY <1>5, <2>1, <2>2, <2>3, WorkTyped DEF CancelWorkflow, WorkKept, WorkflowTyped
  <1>6. ASSUME NEW r \in Approvers, StoreWorkflow(r)
        PROVE  WorkflowTyped'
    <2>1. /\ \A s \in Approvers : approver[s].thread = approver[r].thread => ~stored[s]
          /\ stored' = [stored EXCEPT ![r] = TRUE]
          /\ approver' = [approver EXCEPT ![r].at = "committing"] /\ approver[r].at = "storing"
          /\ UNCHANGED <<workflows, done, muddled, workflowFaults>>
      BY <1>6 DEF StoreWorkflow, ApproverAt
    <2>2. /\ approver'[r].at = "committing" /\ approver'[r].thread = approver[r].thread
          /\ approver'[r].write = approver[r].write /\ approver'[r].todo = approver[r].todo
          /\ approver[r].at \in WorkPoints
          /\ \A s \in Approvers \ {r} : approver'[s] = approver[s] /\ stored'[s] = stored[s]
          /\ stored' = [s \in Approvers |-> stored'[s]]
      BY <1>0, <2>1 DEF Shaped, WorkPoints
    <2>3. \A s \in Approvers :
             /\ approver'[s].at \in WorkPoints => approver'[s].write.completed \subseteq ActionIds
             /\ approver'[s].todo \subseteq 1..Len(PendingActions)
             /\ stored'[s] => approver'[s].at = "committing"
      BY <2>2 DEF WorkflowTyped
    <2>4. ASSUME NEW q \in Approvers, NEW s \in Approvers, q # s, stored'[q], stored'[s]
          PROVE  approver'[q].thread # approver'[s].thread
      <3>1. CASE q # r /\ s # r
        BY <2>2, <2>4, <3>1 DEF WorkflowTyped
      <3>2. CASE q = r
        BY <2>1, <2>2, <2>4, <3>2
      <3>3. CASE s = r
        BY <2>1, <2>2, <2>4, <3>3
      <3> QED
        BY <3>1, <3>2, <3>3
    <2> QED
      BY <2>1, <2>2, <2>3, <2>4 DEF WorkflowTyped
  <1>7. ASSUME NEW r \in Approvers, CommitWorkflow(r) \/ DropWorkflow(r)
        PROVE  WorkflowTyped'
    <2>1. /\ stored' = [stored EXCEPT ![r] = FALSE]
          /\ approver' = [approver EXCEPT ![r] = [NoApprover EXCEPT !.at = "over"]]
          /\ done' = done
      BY <1>7 DEF CommitWorkflow, DropWorkflow
    <2>2. /\ approver'[r].at = "over" /\ approver'[r].todo = {} /\ stored'[r] = FALSE
          /\ \A s \in Approvers \ {r} : approver'[s] = approver[s] /\ stored'[s] = stored[s]
          /\ stored' = [s \in Approvers |-> stored'[s]]
      BY <1>0, <2>1 DEF NoApprover
    <2>3. \A s \in Approvers :
             /\ approver'[s].at \in WorkPoints => approver'[s].write.completed \subseteq ActionIds
             /\ approver'[s].todo \subseteq 1..Len(PendingActions)
             /\ stored'[s] => approver'[s].at = "committing"
      BY <2>2 DEF WorkflowTyped, WorkPoints
    <2>4. \A q, s \in Approvers : (q # s /\ stored'[q] /\ stored'[s]) =>
             approver'[q].thread # approver'[s].thread
      BY <2>2 DEF WorkflowTyped
    <2>5. /\ \A w \in Threads : workflows'[w].completed \subseteq ActionIds
          /\ muddled' \subseteq Threads
          /\ workflowFaults' \in 0..MaxWorkflowFaults
      <3>1. CASE CommitWorkflow(r)
        <4>1. /\ approver[r].write.completed \subseteq ActionIds
              /\ workflows' = [workflows EXCEPT ![approver[r].thread] = approver[r].write]
              /\ muddled' = muddled /\ workflowFaults' = workflowFaults
          BY <3>1 DEF CommitWorkflow, ApproverAt, WorkflowTyped, WorkPoints
        <4>2. \A w \in Threads : workflows'[w] = workflows[w] \/ workflows'[w] = approver[r].write
          BY <1>0, <4>1
        <4> QED
          BY <4>1, <4>2 DEF WorkflowTyped
      <3>2. CASE DropWorkflow(r)
        <4>1. approver[r].at \in WorkPoints /\ approver[r].thread \in Threads
          BY <1>0, <3>2 DEF DropWorkflow, ApproverAt, Shaped, WorkPoints
        <4>2. /\ muddled' = muddled \/ muddled' = muddled \cup {approver[r].thread}
              /\ workflows' = workflows
          BY <3>2 DEF DropWorkflow
        <4>3. workflowFaults' \in 0..MaxWorkflowFaults
          BY <3>2, WorkflowAssumption DEF DropWorkflow, WorkflowTyped
        <4> QED
          BY <4>1, <4>2, <4>3 DEF WorkflowTyped
      <3> QED
        BY <1>7, <3>1, <3>2
    <2> QED
      BY <2>1, <2>2, <2>3, <2>4, <2>5 DEF WorkflowTyped
  <1>8. CASE UNCHANGED workflowVars
    BY <1>8 DEF workflowVars, WorkflowTyped
  <1> QED
    BY <1>1, <1>2, <1>3, <1>4, <1>5, <1>6, <1>7, <1>8 DEF WorkflowNext

(* Rows and requests keep their types, and at most one session has written  *)
(* a workflow's row: the others wait for it.                                *)
THEOREM WorkflowTypes == WorkflowSpec => []WorkflowTypeOK
  <1>1. WorkflowTyped => WorkflowTypeOK
    BY DEF WorkflowTyped, WorkflowTypeOK
  <1>2. WorkflowInit => WorkflowInv /\ WorkflowTyped
    BY WorkflowInitially, WorkflowTypedInitially
  <1>3. (WorkflowInv /\ WorkflowTyped) /\ [WorkflowNext]_workflowVars
            => (WorkflowInv /\ WorkflowTyped)'
    BY WorkflowStep, WorkflowTypedStep
  <1> QED
    BY <1>1, <1>2, <1>3, PTL DEF WorkflowSpec

-----------------------------------------------------------------------------
(***************************************************************************)
(* The inductive invariant of OAuth credentials.  It needs no row locks:   *)
(* a session that brings new tokens sets the access token and its expiry,  *)
(* or it never commits, and a commit that leaves two rows of one key is    *)
(* excused; a refresh token that the provider has forgotten is on its way  *)
(* to be replaced by the session that replaced it.                         *)
(***************************************************************************)
Items == SecretKeys \X (Flows \cup {NoSecret})
ItemsOf(todo) == {todo[j] : j \in 1..Len(todo)}
SecretRows == [SecretKeys -> [Makers -> Makers \cup {NoSecret}]]
SessionRows == [SecretKeys -> [Makers -> Makers \cup {NoSecret, Kept}]]

FlowRecords ==
    [at : {"idle", "resolving", "polling", "judging", "renewing", "exchanging", "writing",
           "closing", "failing", "over"},
     read : Makers \cup {NoSecret}, todo : Seq(Items), next : {"closing", "renewing"},
     selected : BOOLEAN, picked : SUBSET Makers, exchanged : BOOLEAN, patches : BOOLEAN]

OauthShapes ==
    /\ secrets \in SecretRows /\ session \in [Flows -> SessionRows]
    /\ flow \in [Flows -> FlowRecords]
    /\ live \subseteq Makers /\ redeemed \subseteq Makers
    /\ oauthFaults \in 0..MaxOauthFaults

(* The keys that a request without new tokens may set.                      *)
Settable(o) == IF o.patches THEN {"device", "access"} ELSE {"device"}

(* A key that a session has set, or is going to.                            *)
Sets(r, o, row, k) == <<k, r>> \in ItemsOf(o.todo) \/ \E i \in Makers : row[k][i] = r

FlowFits(r, o, row) ==
    /\ o.at \in {"idle", "over"} => row = Blank
    /\ o.at = "idle" => o.next = "closing"
    /\ o.at = "polling" => o.read \in Makers
    /\ o.at = "writing" => o.todo # <<>>
    /\ o.at \notin {"writing", "failing"} => o.todo = <<>>
    /\ \A k \in SecretKeys, i \in Makers : row[k][i] \in {Kept, NoSecret, r}
    /\ \A item \in ItemsOf(o.todo) : item[2] \in {NoSecret, r}
    /\ o.exchanged \/ o.patches =>
          o.next = "closing" /\ o.at \in {"writing", "closing", "failing"}
    /\ ~o.exchanged =>
          /\ \A item \in ItemsOf(o.todo) : item[2] = NoSecret \/ item[1] \in Settable(o)
          /\ \A k \in SecretKeys \ Settable(o), i \in Makers : row[k][i] # r
    /\ o.exchanged =>
          /\ \A item \in ItemsOf(o.todo) : item[2] = NoSecret => item[1] = "device"
          /\ Sets(r, o, row, "access") /\ Sets(r, o, row, "expiry")

(* A refresh token that is not the stored one yet.                          *)
Rotating(r, o, row) == o.exchanged /\ Sets(r, o, row, "refresh")

(* Nobody knows what a request makes before its commit.                     *)
OwnSecrets ==
    \A r \in Flows : flow[r].at # "over" =>
        /\ \A k \in SecretKeys, i \in Makers : secrets[k][i] # r
        /\ \A s \in Flows \ {r} : flow[s].read # r

RefreshFits ==
    {"doubled rows", "lost tokens"} \cap excuses = {} =>
        \/ \E r \in Flows : Rotating(r, flow[r], session[r])
        \/ Stored("refresh") \subseteq live
ExpiryFits ==
    {"doubled rows", "patched access token"} \cap excuses = {} =>
        \A a \in Stored("access"), e \in Stored("expiry") : a = e

OauthInv ==
    /\ OauthShapes /\ OwnSecrets
    /\ \A r \in Flows : /\ FlowFits(r, flow[r], session[r])
                        /\ Rotating(r, flow[r], session[r]) => r \in live
    /\ RefreshFits /\ ExpiryFits

-----------------------------------------------------------------------------
(* The items of a list of writes.                                           *)
LEMMA TodoItems ==
    ASSUME NEW todo \in Seq(Items), todo # <<>>
    PROVE  /\ Head(todo) \in ItemsOf(todo) /\ Tail(todo) \in Seq(Items)
           /\ ItemsOf(todo) \subseteq Items
           /\ ItemsOf(Tail(todo)) \subseteq ItemsOf(todo)
           /\ \A item \in ItemsOf(todo) : item = Head(todo) \/ item \in ItemsOf(Tail(todo))
<1>1. /\ Len(todo) \in Nat /\ Len(todo) >= 1 /\ Head(todo) = todo[1]
      /\ Tail(todo) \in Seq(Items) /\ Len(Tail(todo)) = Len(todo) - 1
  OBVIOUS
<1>2. \A j \in 1..Len(Tail(todo)) : Tail(todo)[j] = todo[j + 1] /\ j + 1 \in 1..Len(todo)
  BY <1>1
<1>3. \A j \in 1..Len(todo) :
          j = 1 \/ (j - 1 \in 1..Len(Tail(todo)) /\ Tail(todo)[j - 1] = todo[j])
  BY <1>1
<1>4. Head(todo) \in ItemsOf(todo)
  BY <1>1 DEF ItemsOf
<1>5. ItemsOf(Tail(todo)) \subseteq ItemsOf(todo)
  BY <1>2 DEF ItemsOf
<1>6. \A item \in ItemsOf(todo) : item = Head(todo) \/ item \in ItemsOf(Tail(todo))
  BY <1>1, <1>3 DEF ItemsOf
<1>7. ItemsOf(todo) \subseteq Items
  BY DEF ItemsOf
<1>8. QED
  BY <1>1, <1>4, <1>5, <1>6, <1>7

LEMMA NoItems == ItemsOf(<<>>) = {}
BY DEF ItemsOf

LEMMA JoinedItems ==
    ASSUME NEW s \in Seq(Items), NEW t \in Seq(Items)
    PROVE  s \o t \in Seq(Items) /\ ItemsOf(s \o t) = ItemsOf(s) \cup ItemsOf(t)
<1>1. /\ s \o t \in Seq(Items) /\ Len(s \o t) = Len(s) + Len(t)
      /\ Len(s) \in Nat /\ Len(t) \in Nat
      /\ \A j \in 1..Len(s) : (s \o t)[j] = s[j]
      /\ \A j \in 1..Len(t) : (s \o t)[Len(s) + j] = t[j]
  OBVIOUS
<1>2. \A j \in 1..Len(s \o t) : j \in 1..Len(s) \/ (j - Len(s)) \in 1..Len(t)
  BY <1>1
<1>3. \A j \in 1..Len(s \o t) : (s \o t)[j] \in ItemsOf(s) \cup ItemsOf(t)
  <2> SUFFICES ASSUME NEW j \in 1..Len(s \o t)
               PROVE  (s \o t)[j] \in ItemsOf(s) \cup ItemsOf(t)
    OBVIOUS
  <2>1. CASE j \in 1..Len(s)
    BY <1>1, <2>1 DEF ItemsOf
  <2>2. CASE (j - Len(s)) \in 1..Len(t)
    <3>1. (s \o t)[Len(s) + (j - Len(s))] = t[j - Len(s)]
      BY <1>1, <2>2
    <3>2. Len(s) + (j - Len(s)) = j
      BY <1>1
    <3>3. QED
      BY <1>1, <2>2, <3>1, <3>2 DEF ItemsOf
  <2>3. QED
    BY <1>2, <2>1, <2>2
<1>4. ItemsOf(s) \subseteq ItemsOf(s \o t)
  <2>1. \A j \in 1..Len(s) : j \in 1..Len(s \o t)
    BY <1>1
  <2>2. QED
    BY <1>1, <2>1 DEF ItemsOf
<1>5. ItemsOf(t) \subseteq ItemsOf(s \o t)
  <2>1. \A j \in 1..Len(t) : Len(s) + j \in 1..Len(s \o t)
    BY <1>1
  <2>2. QED
    BY <1>1, <2>1 DEF ItemsOf
<1>6. ItemsOf(s \o t) \subseteq ItemsOf(s) \cup ItemsOf(t)
  BY <1>1, <1>3 DEF ItemsOf
<1>7. QED
  BY <1>1, <1>4, <1>5, <1>6

LEMMA OneItem ==
    ASSUME NEW item \in Items
    PROVE  <<item>> \in Seq(Items) /\ <<item>> # <<>> /\ ItemsOf(<<item>>) = {item}
BY DEF ItemsOf

LEMMA TwoItems ==
    ASSUME NEW a \in Items, NEW b \in Items
    PROVE  /\ <<a, b>> \in Seq(Items) /\ <<a, b>> # <<>>
           /\ ItemsOf(<<a, b>>) = {a, b}
<1>1. <<a, b>> \in Seq(Items) /\ <<a, b>> # <<>>
  OBVIOUS
<1>2. Len(<<a, b>>) = 2 /\ <<a, b>>[1] = a /\ <<a, b>>[2] = b
  OBVIOUS
<1>3. 1..2 = {1, 2}
  OBVIOUS
<1>4. ItemsOf(<<a, b>>) = {<<a, b>>[j] : j \in {1, 2}}
  BY <1>2, <1>3, Zenon DEF ItemsOf
<1>5. QED
  BY <1>1, <1>2, <1>4

LEMMA ThreeItems ==
    ASSUME NEW a \in Items, NEW b \in Items, NEW c \in Items
    PROVE  /\ <<a, b, c>> \in Seq(Items) /\ <<a, b, c>> # <<>>
           /\ ItemsOf(<<a, b, c>>) = {a, b, c}
<1>1. <<a, b, c>> \in Seq(Items) /\ <<a, b, c>> # <<>>
  OBVIOUS
<1>2. /\ Len(<<a, b, c>>) = 3
      /\ <<a, b, c>>[1] = a /\ <<a, b, c>>[2] = b /\ <<a, b, c>>[3] = c
  OBVIOUS
<1>3. 1..3 = {1, 2, 3}
  OBVIOUS
<1>4. ItemsOf(<<a, b, c>>) = {<<a, b, c>>[j] : j \in {1, 2, 3}}
  BY <1>2, <1>3, Zenon DEF ItemsOf
<1>5. QED
  BY <1>1, <1>2, <1>4

LEMMA FourItems ==
    ASSUME NEW a \in Items, NEW b \in Items, NEW c \in Items, NEW d \in Items
    PROVE  /\ <<a, b, c, d>> \in Seq(Items) /\ <<a, b, c, d>> # <<>>
           /\ ItemsOf(<<a, b, c, d>>) = {a, b, c, d}
<1>1. <<a, b, c, d>> \in Seq(Items) /\ <<a, b, c, d>> # <<>>
  OBVIOUS
<1>2. /\ Len(<<a, b, c, d>>) = 4
      /\ <<a, b, c, d>>[1] = a /\ <<a, b, c, d>>[2] = b
      /\ <<a, b, c, d>>[3] = c /\ <<a, b, c, d>>[4] = d
  OBVIOUS
<1>3. 1..4 = {1, 2, 3, 4}
  OBVIOUS
<1>4. ItemsOf(<<a, b, c, d>>) = {<<a, b, c, d>>[j] : j \in {1, 2, 3, 4}}
  BY <1>2, <1>3, Zenon DEF ItemsOf
<1>5. QED
  BY <1>1, <1>2, <1>4

LEMMA TokenItems ==
    ASSUME NEW r \in Flows, NEW rotated \in BOOLEAN
    PROVE  /\ StoreTokens(r, rotated) \in Seq(Items) /\ StoreTokens(r, rotated) # <<>>
           /\ ItemsOf(StoreTokens(r, rotated)) =
                  {<<"access", r>>, <<"expiry", r>>}
                      \cup (IF rotated THEN {<<"refresh", r>>} ELSE {})
<1>1. <<"access", r>> \in Items /\ <<"expiry", r>> \in Items /\ <<"refresh", r>> \in Items
  BY DEF Items, SecretKeys
<1>2. CASE rotated
  BY <1>1, <1>2, ThreeItems DEF StoreTokens, Set
<1>3. CASE ~rotated
  BY <1>1, <1>3, TwoItems DEF StoreTokens, Set
<1>4. QED
  BY <1>2, <1>3

LEMMA DeletedItems ==
    /\ DeleteAll \in Seq(Items) /\ DeleteAll # <<>>
    /\ \A item \in ItemsOf(DeleteAll) : item[2] = NoSecret
    /\ Delete("device") \in Items
<1>1. \A k \in SecretKeys : <<k, NoSecret>> \in Items
  BY DEF Items
<1>2. PICK a, b, c, d \in Items :
          /\ DeleteAll = <<a, b, c, d>> /\ a[2] = NoSecret /\ b[2] = NoSecret
          /\ c[2] = NoSecret /\ d[2] = NoSecret
  BY <1>1 DEF DeleteAll, Delete, SecretKeys
<1>3. DeleteAll \in Seq(Items) /\ DeleteAll # <<>> /\ ItemsOf(DeleteAll) = {a, b, c, d}
  BY <1>2, FourItems
<1>4. Delete("device") \in Items
  BY <1>1 DEF Delete, SecretKeys
<1>5. QED
  BY <1>2, <1>3, <1>4

-----------------------------------------------------------------------------
LEMMA FlowOf ==
    ASSUME NEW r \in Flows, OauthInv
    PROVE  /\ flow[r] \in FlowRecords /\ session[r] \in SessionRows
           /\ FlowFits(r, flow[r], session[r])
           /\ secrets \in SecretRows /\ live \subseteq Makers /\ redeemed \subseteq Makers
           /\ oauthFaults \in 0..MaxOauthFaults
           /\ flow[r].at # "over" => \A t \in Flows \ {r} : flow[t].read # r
           /\ \A t \in Flows \ {r} : flow[t].at # "over" => flow[r].read # t
BY DEF OauthInv, OauthShapes, OwnSecrets

(* What a session shows is a committed row, or one of its own.              *)
LEMMA ShownRows ==
    ASSUME NEW r \in Flows, OauthInv, NEW k \in SecretKeys, NEW i \in Makers
    PROVE  /\ Shown(r, k, i) \in Makers \cup {NoSecret}
           /\ Shown(r, k, i) \in {secrets[k][i], NoSecret, r}
           /\ \A t \in Flows \ {r} : flow[t].at # "over" => Shown(r, k, i) # t
<1>1. session[r][k][i] \in {Kept, NoSecret, r} /\ secrets[k][i] \in Makers \cup {NoSecret}
  BY FlowOf DEF FlowFits, SecretRows
<1>2. Shown(r, k, i) \in {secrets[k][i], NoSecret, r}
  BY <1>1 DEF Shown
<1>3. Shown(r, k, i) \in Makers \cup {NoSecret}
  BY <1>1, <1>2 DEF Makers
<1>4. \A t \in Flows : t # NoSecret
  BY OauthAssumption DEF Makers
<1>5. \A t \in Flows \ {r} : flow[t].at # "over" => Shown(r, k, i) # t
  BY <1>2, <1>4 DEF OauthInv, OwnSecrets
<1>6. QED
  BY <1>2, <1>3, <1>5

(* A step that commits nothing and ends no request.                         *)
LEMMA FlowStepFits ==
    ASSUME NEW r \in Flows, NEW o \in FlowRecords, NEW row \in SessionRows, OauthInv,
           flow' = [flow EXCEPT ![r] = o], session' = [session EXCEPT ![r] = row],
           UNCHANGED <<secrets, oauthFaults, excuses>>,
           live' \subseteq Makers, redeemed' \subseteq Makers,
           flow[r].at # "over", o.at # "over", FlowFits(r, o, row),
           \A t \in Flows \ {r} : flow[t].at # "over" => o.read # t,
           Rotating(r, flow[r], session[r]) => Rotating(r, o, row),
           Rotating(r, o, row) => r \in live',
           live \ {flow[r].read} \subseteq live',
           live \subseteq live' \/ Rotating(r, o, row)
    PROVE  OauthInv'
<1>1. OauthShapes'
  BY DEF OauthInv, OauthShapes
<1>2. /\ flow'[r] = o /\ session'[r] = row
      /\ \A t \in Flows : t # r => flow'[t] = flow[t] /\ session'[t] = session[t]
  BY DEF OauthInv, OauthShapes
<1>3. OwnSecrets'
  <2>1. ASSUME NEW t \in Flows, flow'[t].at # "over"
        PROVE  flow[t].at # "over"
    BY <1>2, <2>1
  <2>2. ASSUME NEW t \in Flows, flow'[t].at # "over", NEW s \in Flows \ {t}
        PROVE  flow'[s].read # t
    <3>1. CASE s = r
      BY <1>2, <2>1, <2>2, <3>1
    <3>2. CASE s # r
      BY <1>2, <2>1, <2>2, <3>2 DEF OauthInv, OwnSecrets
    <3>3. QED
      BY <3>1, <3>2
  <2>3. QED
    BY <2>1, <2>2 DEF OauthInv, OwnSecrets
<1>4. ASSUME NEW t \in Flows
      PROVE  /\ FlowFits(t, flow'[t], session'[t])
             /\ Rotating(t, flow'[t], session'[t]) => t \in live'
  <2>1. CASE t = r
    BY <1>2, <2>1
  <2>2. CASE t # r
    <3>1. FlowFits(t, flow'[t], session'[t])
      BY <1>2, <2>2, FlowOf
    <3>2. ASSUME Rotating(t, flow[t], session[t])
          PROVE  t \in live'
      <4>1. t \in live
        BY <3>2 DEF OauthInv
      <4>2. flow[t].at # "over"
        BY <3>2, FlowOf DEF Rotating, FlowFits
      <4>3. flow[r].read # t
        BY <2>2, <4>2 DEF OauthInv, OwnSecrets
      <4>4. QED
        BY <4>1, <4>3
    <3>3. QED
      BY <1>2, <2>2, <3>1, <3>2
  <2>3. QED
    BY <2>1, <2>2
<1>5. RefreshFits'
  <2>1. Stored("refresh")' = Stored("refresh")
    BY DEF Stored
  <2>2. ASSUME {"doubled rows", "lost tokens"} \cap excuses = {},
               ~Rotating(r, o, row)
        PROVE  \/ \E t \in Flows : Rotating(t, flow'[t], session'[t])
               \/ Stored("refresh") \subseteq live'
    <3>1. \/ \E t \in Flows : Rotating(t, flow[t], session[t])
          \/ Stored("refresh") \subseteq live
      BY <2>2 DEF OauthInv, RefreshFits
    <3>2. ASSUME NEW t \in Flows, Rotating(t, flow[t], session[t])
          PROVE  Rotating(t, flow'[t], session'[t])
      BY <1>2, <2>2, <3>2
    <3>3. live \subseteq live'
      BY <2>2
    <3>4. QED
      BY <3>1, <3>2, <3>3
  <2>3. ASSUME Rotating(r, o, row)
        PROVE  \E t \in Flows : Rotating(t, flow'[t], session'[t])
    BY <1>2, <2>3
  <2>4. QED
    BY <2>1, <2>2, <2>3 DEF RefreshFits
<1>6. ExpiryFits'
  BY DEF OauthInv, ExpiryFits, Stored
<1>7. QED
  BY <1>1, <1>3, <1>4, <1>5, <1>6 DEF OauthInv

(* A step of a request that has no new tokens and writes no row.            *)
LEMMA QuietStepFits ==
    ASSUME NEW r \in Flows, NEW o \in FlowRecords, OauthInv,
           flow' = [flow EXCEPT ![r] = o], RowsKept, UNCHANGED live,
           redeemed' \subseteq Makers,
           flow[r].at # "over", o.at # "over", FlowFits(r, o, session[r]),
           \A t \in Flows \ {r} : flow[t].at # "over" => o.read # t,
           ~flow[r].exchanged, ~o.exchanged
    PROVE  OauthInv'
<1>1. session[r] \in SessionRows /\ live' \subseteq Makers
  BY FlowOf
<1>2. session' = [session EXCEPT ![r] = session[r]]
  BY DEF RowsKept, OauthInv, OauthShapes
<1>3. ~Rotating(r, flow[r], session[r]) /\ ~Rotating(r, o, session[r])
  BY DEF Rotating
<1>4. UNCHANGED <<secrets, oauthFaults, excuses>> /\ live' = live
  BY DEF RowsKept
<1>5. QED
  BY <1>1, <1>2, <1>3, <1>4, FlowStepFits

(* The places where a request has neither tokens nor a patch to write.      *)
Early == {"idle", "resolving", "polling", "judging", "renewing", "exchanging"}

LEMMA EarlyFlow ==
    ASSUME NEW r \in Flows, OauthInv, flow[r].at \in Early
    PROVE  /\ ~flow[r].exchanged /\ ~flow[r].patches /\ flow[r].todo = <<>>
           /\ flow[r].at # "over"
           /\ \A k \in SecretKeys, i \in Makers : session[r][k][i] \in {Kept, NoSecret, r}
           /\ \A k \in SecretKeys \ {"device"}, i \in Makers : session[r][k][i] # r
<1>1. flow[r].at \in Early /\ FlowFits(r, flow[r], session[r])
  BY FlowOf
<1>2. /\ ~flow[r].exchanged /\ ~flow[r].patches /\ flow[r].todo = <<>>
      /\ flow[r].at # "over"
  BY <1>1, FlowOf DEF FlowFits, Early, FlowRecords
<1>3. QED
  BY <1>1, <1>2 DEF FlowFits, Settable

(* An early request moves on, with what it has read.                        *)
LEMMA ReadsFit ==
    ASSUME NEW r \in Flows, OauthInv, flow[r].at \in Early,
           NEW at \in (Early \ {"idle"}) \cup {"closing", "failing"},
           NEW read \in Makers \cup {NoSecret},
           \A t \in Flows \ {r} : flow[t].at # "over" => read # t,
           at = "polling" => read \in Makers,
           flow' = [flow EXCEPT ![r].at = at, ![r].read = read],
           RowsKept, ProviderKept
    PROVE  OauthInv'
<1>1. PICK o : o = [flow[r] EXCEPT !.at = at, !.read = read]
  OBVIOUS
<1>0. flow[r] \in FlowRecords
  BY FlowOf
<1>2. /\ o \in FlowRecords /\ o.at = at /\ o.read = read
      /\ o.todo = flow[r].todo /\ o.next = flow[r].next
      /\ o.exchanged = flow[r].exchanged /\ o.patches = flow[r].patches
  BY <1>0, <1>1 DEF FlowRecords, Early
<1>3. flow' = [flow EXCEPT ![r] = o]
  BY <1>1 DEF OauthInv, OauthShapes
<1>4. o.at # "over" /\ o.at # "idle" /\ o.at # "writing"
  BY <1>2 DEF Early
<1>5. FlowFits(r, o, session[r])
  BY <1>2, <1>4, EarlyFlow, NoItems DEF FlowFits, Settable
<1>6. UNCHANGED live /\ redeemed' \subseteq Makers
  BY FlowOf DEF ProviderKept
<1>7. QED
  BY <1>2, <1>3, <1>4, <1>5, <1>6, EarlyFlow, QuietStepFits

LEMMA MovesFit ==
    ASSUME NEW r \in Flows, OauthInv, flow[r].at \in Early,
           NEW at \in (Early \ {"idle", "polling"}) \cup {"closing", "failing"},
           Moves(r, at), RowsKept, ProviderKept
    PROVE  OauthInv'
<1>1. PICK read \in Makers \cup {NoSecret} : read = flow[r].read
  BY FlowOf DEF FlowRecords
<1>2. \A t \in Flows \ {r} : flow[t].at # "over" => read # t
  BY <1>1, FlowOf
<1>3. flow' = [flow EXCEPT ![r].at = at, ![r].read = read]
  BY <1>1 DEF Moves, OauthInv, OauthShapes, FlowRecords
<1>4. at \in (Early \ {"idle"}) \cup {"closing", "failing"} /\ at # "polling"
  BY DEF Early
<1>5. QED
  BY <1>2, <1>3, <1>4, ReadsFit

(* An early request begins to write, no tokens of its own.                  *)
LEMMA WritesFit ==
    ASSUME NEW r \in Flows, OauthInv, flow[r].at \in Early,
           NEW todo \in Seq(Items), todo # <<>>, NEW next \in {"closing", "renewing"},
           NEW patches \in BOOLEAN, patches => next = "closing",
           \A item \in ItemsOf(todo) :
               \/ item[2] = NoSecret
               \/ item[2] = r /\ (item[1] = "device" \/ (patches /\ item[1] = "access")),
           flow' = [flow EXCEPT ![r].at = "writing", ![r].todo = todo, ![r].next = next,
                                ![r].patches = patches],
           RowsKept, ProviderKept
    PROVE  OauthInv'
<1>1. PICK o : o = [flow[r] EXCEPT !.at = "writing", !.todo = todo, !.next = next,
                                   !.patches = patches]
  OBVIOUS
<1>0. flow[r] \in FlowRecords
  BY FlowOf
<1>2. /\ o \in FlowRecords /\ o.at = "writing" /\ o.read = flow[r].read
      /\ o.todo = todo /\ o.next = next
      /\ o.exchanged = flow[r].exchanged /\ o.patches = patches
  BY <1>0, <1>1 DEF FlowRecords
<1>3. flow' = [flow EXCEPT ![r] = o]
  BY <1>1 DEF OauthInv, OauthShapes
<1>4. FlowFits(r, o, session[r])
  <2>1. \A item \in ItemsOf(o.todo) :
            item[2] \in {NoSecret, r} /\ (item[2] = NoSecret \/ item[1] \in Settable(o))
    BY <1>2 DEF Settable
  <2>2. \A k \in SecretKeys \ Settable(o), i \in Makers : session[r][k][i] # r
    BY EarlyFlow DEF Settable
  <2>3. QED
    BY <1>2, <2>1, <2>2, EarlyFlow DEF FlowFits
<1>5. UNCHANGED live /\ redeemed' \subseteq Makers
  BY FlowOf DEF ProviderKept
<1>6. \A t \in Flows \ {r} : flow[t].at # "over" => o.read # t
  BY <1>2, FlowOf
<1>7. o.at # "over" /\ ~o.exchanged
  BY <1>2, EarlyFlow
<1>8. QED
  BY <1>2, <1>3, <1>4, <1>5, <1>6, <1>7, EarlyFlow, QuietStepFits

LEMMA WritesStep ==
    ASSUME NEW r \in Flows, OauthInv, flow[r].at \in Early,
           NEW todo \in Seq(Items), todo # <<>>, NEW next \in {"closing", "renewing"},
           \A item \in ItemsOf(todo) :
               item[2] = NoSecret \/ (item[2] = r /\ item[1] = "device"),
           Writes(r, todo, next), RowsKept, ProviderKept
    PROVE  OauthInv'
<1>1. flow[r].patches = FALSE
  BY EarlyFlow, FlowOf DEF FlowRecords
<1>2. flow' = [flow EXCEPT ![r].at = "writing", ![r].todo = todo, ![r].next = next,
                           ![r].patches = FALSE]
  <2>1. PICK q \in FlowRecords : q = flow[r]
    BY FlowOf
  <2>2. [q EXCEPT !.at = "writing", !.todo = todo, !.next = next]
            = [q EXCEPT !.at = "writing", !.todo = todo, !.next = next, !.patches = FALSE]
    BY <1>1, <2>1 DEF FlowRecords
  <2>3. QED
    BY <2>1, <2>2 DEF Writes
<1>3. QED
  BY <1>2, WritesFit

(* The list that only deletes a device code.                                *)
LEMMA DeviceDeleted ==
    ASSUME NEW r \in Flows
    PROVE  /\ <<Delete("device")>> \in Seq(Items) /\ <<Delete("device")>> # <<>>
           /\ \A item \in ItemsOf(<<Delete("device")>>) : item[2] = NoSecret
BY DeletedItems, OneItem DEF Delete

-----------------------------------------------------------------------------
LEMMA OauthCallFits ==
    ASSUME NEW r \in Flows, Call(r), OauthInv
    PROVE  OauthInv'
<1>1. flow[r].at = "idle" /\ flow[r].at \in Early /\ RowsKept /\ ProviderKept
  BY DEF Call, FlowAt, Early
<1>2. flow[r].next = "closing"
  BY <1>1, FlowOf DEF FlowFits
<1>3. CASE Writes(r, <<Set("device", r)>>, "closing")
  <2>1. Set("device", r) \in Items /\ Set("device", r)[1] = "device" /\ Set("device", r)[2] = r
    BY DEF Set, Items, SecretKeys
  <2>2. QED
    BY <1>1, <1>3, <2>1, OneItem, WritesStep
<1>4. CASE Moves(r, "resolving")
  BY <1>1, <1>4, MovesFit DEF Early
<1>5. CASE Moves(r, "judging")
  BY <1>1, <1>5, MovesFit DEF Early
<1>6. CASE Writes(r, DeleteAll, "closing")
  BY <1>1, <1>6, DeletedItems, WritesStep
<1>7. ASSUME NEW todo \in {<<>>, DeleteAll},
             flow' = [flow EXCEPT ![r].at = "writing", ![r].patches = TRUE,
                                  ![r].todo = todo \o <<Set("access", r)>>]
      PROVE  OauthInv'
  <2>1. Set("access", r) \in Items /\ Set("access", r)[1] = "access" /\ Set("access", r)[2] = r
    BY DEF Set, Items, SecretKeys
  <2>2. todo \in Seq(Items) /\ \A item \in ItemsOf(todo) : item[2] = NoSecret
    <3>1. CASE todo = <<>>
      BY <3>1, NoItems
    <3>2. CASE todo = DeleteAll
      BY <3>2, DeletedItems
    <3>3. QED
      BY <3>1, <3>2
  <2>3. PICK all : all = todo \o <<Set("access", r)>>
    OBVIOUS
  <2>4. all \in Seq(Items) /\ ItemsOf(all) = ItemsOf(todo) \cup {Set("access", r)}
    BY <2>1, <2>2, <2>3, OneItem, JoinedItems
  <2>5. all # <<>>
    BY <2>4, NoItems
  <2>6. flow' = [flow EXCEPT ![r].at = "writing", ![r].todo = all, ![r].next = "closing",
                             ![r].patches = TRUE]
    <3>1. PICK q \in FlowRecords : q = flow[r]
      BY FlowOf
    <3>2. [q EXCEPT !.at = "writing", !.patches = TRUE, !.todo = all]
              = [q EXCEPT !.at = "writing", !.todo = all, !.next = "closing", !.patches = TRUE]
      BY <1>2, <3>1 DEF FlowRecords
    <3>3. QED
      BY <1>7, <2>3, <3>1, <3>2
  <2>7. \A item \in ItemsOf(all) :
            item[2] = NoSecret \/ (item[2] = r /\ item[1] = "access")
    BY <2>1, <2>2, <2>4
  <2>8. QED
    BY <1>1, <2>4, <2>5, <2>6, <2>7, WritesFit
<1>8. QED
  BY <1>3, <1>4, <1>5, <1>6, <1>7 DEF Call

LEMMA ResolveCodeFits ==
    ASSUME NEW r \in Flows, ResolveCode(r), OauthInv
    PROVE  OauthInv'
<1>1. flow[r].at \in Early /\ RowsKept /\ ProviderKept
  BY DEF ResolveCode, FlowAt, Early
<1>2. CASE Moves(r, "failing")
  BY <1>1, <1>2, MovesFit
<1>3. CASE Writes(r, <<Delete("device")>>, "closing")
  BY <1>1, <1>3, DeviceDeleted, WritesStep
<1>4. ASSUME NEW i \in RowsOf(r, "device"),
             flow' = [flow EXCEPT ![r].at = "polling", ![r].read = Shown(r, "device", i)]
      PROVE  OauthInv'
  <2>1. PICK read : read = Shown(r, "device", i)
    OBVIOUS
  <2>2. /\ read \in Makers \cup {NoSecret}
        /\ \A t \in Flows \ {r} : flow[t].at # "over" => read # t
    BY <2>1, ShownRows DEF RowsOf, SecretKeys
  <2>3. flow' = [flow EXCEPT ![r].at = "polling", ![r].read = read]
    BY <1>4, <2>1
  <2>4. PICK at \in (Early \ {"idle"}) \cup {"closing", "failing"} : at = "polling"
    BY DEF Early
  <2>5. flow' = [flow EXCEPT ![r].at = at, ![r].read = read]
    BY <2>3, <2>4
  <2>6. read \in Makers
    BY <2>1, <2>2 DEF RowsOf
  <2>7. QED
    BY <1>1, <2>2, <2>5, <2>6, ReadsFit
<1>5. QED
  BY <1>2, <1>3, <1>4 DEF ResolveCode

LEMMA JudgeFits ==
    ASSUME NEW r \in Flows, Judge(r), OauthInv
    PROVE  OauthInv'
<1>1. flow[r].at \in Early /\ RowsKept /\ ProviderKept
  BY DEF Judge, FlowAt, Early
<1>2. CASE Moves(r, "closing")
  BY <1>1, <1>2, MovesFit
<1>3. CASE Writes(r, <<Delete("device")>>, "renewing")
  BY <1>1, <1>3, DeviceDeleted, WritesStep
<1>4. CASE Moves(r, "renewing")
  BY <1>1, <1>4, MovesFit DEF Early
<1>5. QED
  BY <1>2, <1>3, <1>4 DEF Judge

LEMMA ResolveTokenFits ==
    ASSUME NEW r \in Flows, ResolveToken(r), OauthInv
    PROVE  OauthInv'
<1>1. flow[r].at \in Early /\ RowsKept /\ ProviderKept
  BY DEF ResolveToken, FlowAt, Early
<1>2. CASE Moves(r, "closing")
  BY <1>1, <1>2, MovesFit
<1>3. ASSUME NEW i \in RowsOf(r, "refresh"),
             flow' = [flow EXCEPT ![r].at = "exchanging", ![r].read = Shown(r, "refresh", i)]
      PROVE  OauthInv'
  <2>1. PICK read : read = Shown(r, "refresh", i)
    OBVIOUS
  <2>2. /\ read \in Makers \cup {NoSecret}
        /\ \A t \in Flows \ {r} : flow[t].at # "over" => read # t
    BY <2>1, ShownRows DEF RowsOf, SecretKeys
  <2>3. flow' = [flow EXCEPT ![r].at = "exchanging", ![r].read = read]
    BY <1>3, <2>1
  <2>4. PICK at \in (Early \ {"idle"}) \cup {"closing", "failing"} : at = "exchanging"
    BY DEF Early
  <2>5. flow' = [flow EXCEPT ![r].at = at, ![r].read = read]
    BY <2>3, <2>4
  <2>6. at # "polling"
    BY <2>4
  <2>7. QED
    BY <1>1, <2>2, <2>5, <2>6, ReadsFit
<1>4. QED
  BY <1>2, <1>3 DEF ResolveToken

(* A step of a request in its writes: the provider and its new tokens stay. *)
LEMMA SameTokensFit ==
    ASSUME NEW r \in Flows, NEW o \in FlowRecords, NEW row \in SessionRows, OauthInv,
           flow' = [flow EXCEPT ![r] = o], session' = [session EXCEPT ![r] = row],
           UNCHANGED <<secrets, oauthFaults, excuses>>, UNCHANGED <<live, redeemed>>,
           flow[r].at # "over", o.at # "over", FlowFits(r, o, row),
           \A t \in Flows \ {r} : flow[t].at # "over" => o.read # t,
           Rotating(r, flow[r], session[r]) <=> Rotating(r, o, row)
    PROVE  OauthInv'
<1>1. live' = live /\ live' \subseteq Makers /\ redeemed' \subseteq Makers
  BY FlowOf
<1>2. Rotating(r, flow[r], session[r]) => r \in live'
  BY <1>1 DEF OauthInv
<1>3. QED
  BY <1>1, <1>2, FlowStepFits

LEMMA SelectRowsFits ==
    ASSUME NEW r \in Flows, SelectRows(r), OauthInv
    PROVE  OauthInv'
<1>1. flow[r].at = "writing" /\ RowsKept /\ ProviderKept
  BY DEF SelectRows, FlowAt
<1>2. PICK picked \in SUBSET Makers :
          flow' = [flow EXCEPT ![r].selected = TRUE, ![r].picked = picked]
  BY DEF SelectRows, RowsOf
<1>3. PICK o : o = [flow[r] EXCEPT !.selected = TRUE, !.picked = picked]
  OBVIOUS
<1>4. flow[r] \in FlowRecords
  BY FlowOf
<1>5. /\ o \in FlowRecords /\ o.at = "writing" /\ o.read = flow[r].read
      /\ o.todo = flow[r].todo /\ o.next = flow[r].next
      /\ o.exchanged = flow[r].exchanged /\ o.patches = flow[r].patches
  BY <1>1, <1>3, <1>4 DEF FlowRecords
<1>6. flow' = [flow EXCEPT ![r] = o]
  BY <1>2, <1>3
<1>7. /\ FlowFits(r, o, session[r])
      /\ Rotating(r, flow[r], session[r]) <=> Rotating(r, o, session[r])
  BY <1>1, <1>5, FlowOf DEF FlowFits, Rotating, Sets, Settable
<1>8. session' = [session EXCEPT ![r] = session[r]]
  BY <1>1 DEF RowsKept, OauthInv, OauthShapes
<1>9. \A t \in Flows \ {r} : flow[t].at # "over" => o.read # t
  BY <1>5, FlowOf
<1>10. /\ UNCHANGED <<secrets, oauthFaults, excuses>> /\ UNCHANGED <<live, redeemed>>
       /\ session[r] \in SessionRows /\ flow[r].at # "over" /\ o.at # "over"
  BY <1>1, <1>5, FlowOf DEF RowsKept, ProviderKept
<1>11. QED
  BY <1>5, <1>6, <1>7, <1>8, <1>9, <1>10, SameTokensFit

-----------------------------------------------------------------------------
(* The tokens of an exchange begin to be written.                           *)
LEMMA GetsFit ==
    ASSUME NEW r \in Flows, OauthInv, flow[r].at \in Early, NEW rotated \in BOOLEAN,
           NEW todo \in Seq(Items), todo # <<>>,
           ItemsOf(StoreTokens(r, rotated)) \subseteq ItemsOf(todo),
           ItemsOf(todo) \subseteq ItemsOf(StoreTokens(r, rotated)) \cup {Delete("device")},
           Gets(r, todo), RowsKept, live' \subseteq Makers, redeemed' \subseteq Makers,
           rotated => r \in live', live \ {flow[r].read} \subseteq live',
           live \subseteq live' \/ rotated
    PROVE  OauthInv'
<1>1. flow[r] \in FlowRecords /\ session[r] \in SessionRows
  BY FlowOf
<1>2. PICK o : o = [flow[r] EXCEPT !.at = "writing", !.todo = todo, !.next = "closing",
                                   !.exchanged = TRUE]
  OBVIOUS
<1>3. /\ o \in FlowRecords /\ o.at = "writing" /\ o.read = flow[r].read
      /\ o.todo = todo /\ o.next = "closing"
      /\ o.exchanged /\ o.patches = flow[r].patches
  BY <1>1, <1>2 DEF FlowRecords
<1>4. flow' = [flow EXCEPT ![r] = o]
  BY <1>2 DEF Gets
<1>5. session' = [session EXCEPT ![r] = session[r]]
  BY DEF RowsKept, OauthInv, OauthShapes
<1>6. r # NoSecret
  BY OauthAssumption DEF Makers
<1>7. /\ <<"access", r>> \in ItemsOf(todo) /\ <<"expiry", r>> \in ItemsOf(todo)
      /\ rotated => <<"refresh", r>> \in ItemsOf(todo)
  BY TokenItems
<1>8. /\ <<"refresh", r>> \in ItemsOf(todo) => rotated
      /\ \A item \in ItemsOf(todo) :
             item[2] \in {NoSecret, r} /\ (item[2] = NoSecret => item[1] = "device")
  BY <1>6, TokenItems DEF Delete
<1>9. FlowFits(r, o, session[r])
  BY <1>3, <1>7, <1>8, EarlyFlow DEF FlowFits, Sets
<1>10. ~Rotating(r, flow[r], session[r])
  BY EarlyFlow DEF Rotating
<1>11. Rotating(r, o, session[r]) <=> rotated
  <2>1. \A i \in Makers : session[r]["refresh"][i] # r
    BY EarlyFlow DEF SecretKeys
  <2>2. QED
    BY <1>3, <1>7, <1>8, <2>1 DEF Rotating, Sets
<1>12. \A t \in Flows \ {r} : flow[t].at # "over" => o.read # t
  BY <1>3, FlowOf
<1>13. UNCHANGED <<secrets, oauthFaults, excuses>> /\ flow[r].at # "over" /\ o.at # "over"
  BY <1>3, EarlyFlow DEF RowsKept
<1>14. QED
  BY <1>1, <1>3, <1>4, <1>5, <1>9, <1>10, <1>11, <1>12, <1>13, FlowStepFits

LEMMA PollResultFits ==
    ASSUME NEW r \in Flows, PollResult(r), OauthInv
    PROVE  OauthInv'
<1>1. flow[r].at \in Early /\ RowsKept
  BY DEF PollResult, FlowAt, Early
<1>2. CASE Moves(r, "closing") /\ ProviderKept
  BY <1>1, <1>2, MovesFit
<1>3. CASE Writes(r, <<Delete("device")>>, "closing") /\ ProviderKept
  BY <1>1, <1>3, DeviceDeleted, WritesStep
<1>4. ASSUME redeemed' = redeemed \cup {flow[r].read}, flow[r].read \in Makers,
             NEW refreshable \in BOOLEAN,
             live' = IF refreshable THEN live \cup {r} ELSE live,
             Gets(r, StoreTokens(r, refreshable) \o <<Delete("device")>>)
      PROVE  OauthInv'
  <2>1. PICK all : all = StoreTokens(r, refreshable) \o <<Delete("device")>>
    OBVIOUS
  <2>2. /\ all \in Seq(Items)
        /\ ItemsOf(all) = ItemsOf(StoreTokens(r, refreshable)) \cup {Delete("device")}
    <3>1. PICK s \in Seq(Items) : s = StoreTokens(r, refreshable)
      BY TokenItems
    <3>2. PICK t \in Seq(Items) : t = <<Delete("device")>> /\ ItemsOf(t) = {Delete("device")}
      BY DeletedItems, OneItem
    <3>3. all = s \o t
      BY <2>1, <3>1, <3>2
    <3>4. s \o t \in Seq(Items) /\ ItemsOf(s \o t) = ItemsOf(s) \cup ItemsOf(t)
      BY JoinedItems
    <3>5. QED
      BY <3>1, <3>2, <3>3, <3>4
  <2>3. all # <<>>
    BY <2>2, NoItems
  <2>4. /\ live' \subseteq Makers /\ redeemed' \subseteq Makers /\ live \subseteq live'
        /\ refreshable => r \in live'
    BY <1>4, FlowOf DEF Makers
  <2>5. Gets(r, all)
    BY <1>4, <2>1
  <2>6. QED
    BY <1>1, <2>2, <2>3, <2>4, <2>5, GetsFit
<1>5. flow[r].read \in Makers
  BY FlowOf DEF PollResult, FlowAt, FlowFits
<1>6. QED
  BY <1>2, <1>3, <1>4, <1>5 DEF PollResult

LEMMA ExchangeFits ==
    ASSUME NEW r \in Flows, Exchange(r), OauthInv
    PROVE  OauthInv'
<1>1. flow[r].at \in Early /\ RowsKept /\ UNCHANGED redeemed
  BY DEF Exchange, FlowAt, Early
<1>2. CASE Moves(r, "failing") /\ UNCHANGED live
  BY <1>1, <1>2, MovesFit DEF ProviderKept
<1>3. ASSUME NEW rotated \in BOOLEAN,
             live' = IF rotated THEN (live \ {flow[r].read}) \cup {r} ELSE live,
             Gets(r, StoreTokens(r, rotated))
      PROVE  OauthInv'
  <2>1. /\ live' \subseteq Makers /\ redeemed' \subseteq Makers
        /\ live \ {flow[r].read} \subseteq live' /\ (live \subseteq live' \/ rotated)
        /\ rotated => r \in live'
    BY <1>1, <1>3, FlowOf DEF Makers
  <2>2. PICK all : all = StoreTokens(r, rotated)
    OBVIOUS
  <2>3. /\ all \in Seq(Items) /\ all # <<>>
        /\ ItemsOf(all) = ItemsOf(StoreTokens(r, rotated)) /\ Gets(r, all)
    BY <1>3, <2>2, TokenItems
  <2>4. QED
    BY <1>1, <2>1, <2>3, GetsFit
<1>4. QED
  BY <1>2, <1>3 DEF Exchange

-----------------------------------------------------------------------------
(* The session's rows after the first item of its list is written.          *)
Written(row, item, touched) ==
    [row EXCEPT ![item[1]] = [i \in Makers |-> IF i \in touched THEN item[2] ELSE @[i]]]

LEMMA WrittenRows ==
    ASSUME NEW r \in Flows, NEW row \in SessionRows, NEW item \in Items,
           NEW touched \in SUBSET Makers, item[2] \in {NoSecret, r}
    PROVE  /\ Written(row, item, touched) \in SessionRows
           /\ \A k \in SecretKeys, i \in Makers :
                  Written(row, item, touched)[k][i] =
                      IF k = item[1] /\ i \in touched THEN item[2] ELSE row[k][i]
<1>1. item[1] \in SecretKeys /\ item[2] \in Makers \cup {NoSecret, Kept}
  BY DEF Items, Makers
<1>2. \A k \in SecretKeys : row[k] \in [Makers -> Makers \cup {NoSecret, Kept}]
  BY DEF SessionRows
<1>3. PICK new : new = [i \in Makers |-> IF i \in touched THEN item[2] ELSE row[item[1]][i]]
  OBVIOUS
<1>4. new \in [Makers -> Makers \cup {NoSecret, Kept}]
  BY <1>1, <1>2, <1>3
<1>5. Written(row, item, touched) = [row EXCEPT ![item[1]] = new]
  BY <1>1, <1>3 DEF Written, SessionRows
<1>6. QED
  BY <1>1, <1>3, <1>4, <1>5 DEF SessionRows

(* What a write does to the keys that a session sets.                       *)
LEMMA WrittenSets ==
    ASSUME NEW r \in Flows, NEW o \in FlowRecords, NEW p \in FlowRecords,
           NEW row \in SessionRows, NEW new \in SessionRows, NEW item \in Items,
           NEW touched \in SUBSET Makers, NEW k \in SecretKeys,
           ItemsOf(p.todo) \subseteq ItemsOf(o.todo), item \in ItemsOf(o.todo),
           \A other \in ItemsOf(o.todo) : other = item \/ other \in ItemsOf(p.todo),
           item[2] = NoSecret \/ (item[2] = r /\ touched # {}),
           item[2] = NoSecret => item[1] # k,
           \A i \in Makers : new[k][i] =
               IF k = item[1] /\ i \in touched THEN item[2] ELSE row[k][i]
    PROVE  Sets(r, o, row, k) <=> Sets(r, p, new, k)
<1>1. item = <<item[1], item[2]>>
  BY DEF Items
<1>2. ASSUME <<k, r>> \in ItemsOf(o.todo)
      PROVE  Sets(r, p, new, k)
  <2>1. CASE <<k, r>> \in ItemsOf(p.todo)
    BY <2>1 DEF Sets
  <2>2. CASE <<k, r>> = item
    <3>1. item[1] = k /\ item[2] = r
      BY <2>2
    <3>2. PICK i \in touched : TRUE
      BY <3>1
    <3>3. new[k][i] = r
      BY <3>1, <3>2
    <3>4. QED
      BY <3>2, <3>3 DEF Sets
  <2>3. QED
    BY <1>2, <2>1, <2>2
<1>3. ASSUME NEW i \in Makers, row[k][i] = r
      PROVE  new[k][i] = r
  BY <1>3
<1>4. ASSUME NEW i \in Makers, new[k][i] = r, row[k][i] # r
      PROVE  <<k, r>> \in ItemsOf(o.todo)
  <2>1. k = item[1] /\ item[2] = r
    BY <1>4
  <2>2. QED
    BY <1>1, <2>1
<1>5. QED
  BY <1>2, <1>3, <1>4 DEF Sets

LEMMA WriteRowsFits ==
    ASSUME NEW r \in Flows, WriteRows(r), OauthInv
    PROVE  OauthInv'
<1> DEFINE key == Head(flow[r].todo)[1]
           v == Head(flow[r].todo)[2]
           rest == Tail(flow[r].todo)
           found == IF v # NoSecret /\ flow[r].picked = {} THEN {r}
                    ELSE flow[r].picked \cap RowsOf(r, key)
<1>1. /\ flow[r].at = "writing" /\ UNCHANGED <<secrets, oauthFaults, excuses>>
      /\ ProviderKept
  BY DEF WriteRows, FlowAt
<1>2. PICK q \in FlowRecords : q = flow[r]
  BY FlowOf
<1>3. PICK row \in SessionRows : row = session[r]
  BY FlowOf
<1>4. FlowFits(r, q, row) /\ q.at = "writing" /\ q.todo # <<>>
  BY <1>1, <1>2, <1>3, FlowOf DEF FlowFits
<1>5. PICK item \in Items : item = Head(q.todo) /\ item \in ItemsOf(q.todo)
  BY <1>4, TodoItems DEF FlowRecords
<1>6. item[2] \in {NoSecret, r} /\ r # NoSecret
  BY <1>4, <1>5, OauthAssumption DEF FlowFits, Makers
<1>7. PICK left \in Seq(Items) :
          /\ left = Tail(q.todo) /\ ItemsOf(left) \subseteq ItemsOf(q.todo)
          /\ \A other \in ItemsOf(q.todo) : other = item \/ other \in ItemsOf(left)
  BY <1>4, <1>5, TodoItems DEF FlowRecords
<1>8. \A t \in Flows \ {r} : flow[t].at # "over" => q.read # t
  BY <1>2, FlowOf
<1>9. CASE /\ ~AwaitsRow(r) /\ (v = NoSecret \/ found # {})
           /\ session' = [session EXCEPT ![r][key] = [i \in Makers |->
                              IF i \in found THEN v ELSE @[i]]]
           /\ flow' = [flow EXCEPT ![r].todo = rest, ![r].selected = FALSE,
                  ![r].picked = {},
                  ![r].at = IF rest = <<>> THEN flow[r].next ELSE @]
  <2>1. PICK touched \in SUBSET Makers : touched = found
    BY DEF RowsOf, Makers
  <2>2. item[2] = NoSecret \/ (item[2] = r /\ touched # {})
    BY <1>2, <1>5, <1>6, <1>9, <2>1
  <2>3. PICK new \in SessionRows :
            /\ new = Written(row, item, touched)
            /\ \A k \in SecretKeys, i \in Makers :
                   new[k][i] = IF k = item[1] /\ i \in touched THEN item[2] ELSE row[k][i]
    BY <1>6, WrittenRows
  <2>4. session' = [session EXCEPT ![r] = new]
    BY <1>2, <1>3, <1>5, <1>9, <2>1, <2>3 DEF Written
  <2>5. PICK at : at = IF left = <<>> THEN q.next ELSE "writing"
    OBVIOUS
  <2>6. PICK o : o = [q EXCEPT !.todo = left, !.selected = FALSE, !.picked = {}, !.at = at]
    OBVIOUS
  <2>7. /\ o \in FlowRecords /\ o.at = at /\ o.read = q.read
        /\ o.todo = left /\ o.next = q.next
        /\ o.exchanged = q.exchanged /\ o.patches = q.patches
    BY <2>5, <2>6 DEF FlowRecords
  <2>8. flow' = [flow EXCEPT ![r] = o]
    BY <1>1, <1>2, <1>7, <1>9, <2>5, <2>6
  <2>9. at \in {"writing", "closing", "renewing"}
    BY <2>5 DEF FlowRecords
  <2>10. \A k \in SecretKeys : (item[2] = NoSecret => item[1] # k) =>
             (Sets(r, q, row, k) <=> Sets(r, o, new, k))
    <3> SUFFICES ASSUME NEW k \in SecretKeys, item[2] = NoSecret => item[1] # k
                 PROVE  Sets(r, q, row, k) <=> Sets(r, o, new, k)
      OBVIOUS
    <3>1. \A i \in Makers :
              new[k][i] = IF k = item[1] /\ i \in touched THEN item[2] ELSE row[k][i]
      BY <2>3
    <3>2. /\ ItemsOf(o.todo) \subseteq ItemsOf(q.todo)
          /\ \A other \in ItemsOf(q.todo) : other = item \/ other \in ItemsOf(o.todo)
      BY <1>7, <2>7
    <3>3. QED
      BY <1>5, <2>2, <2>7, <3>1, <3>2, WrittenSets
  <2>11. q.exchanged => /\ item[2] = NoSecret => item[1] = "device"
                        /\ Sets(r, o, new, "access") /\ Sets(r, o, new, "expiry")
                        /\ Sets(r, q, row, "refresh") <=> Sets(r, o, new, "refresh")
    <3>1. ASSUME q.exchanged
          PROVE  item[2] = NoSecret => item[1] = "device"
      BY <1>4, <1>5, <3>1 DEF FlowFits
    <3>2. ASSUME q.exchanged, NEW k \in {"access", "expiry", "refresh"}
          PROVE  Sets(r, q, row, k) <=> Sets(r, o, new, k)
      BY <2>10, <3>1, <3>2 DEF SecretKeys
    <3>3. q.exchanged => Sets(r, q, row, "access") /\ Sets(r, q, row, "expiry")
      BY <1>4 DEF FlowFits
    <3>4. QED
      BY <3>1, <3>2, <3>3
  <2>12. FlowFits(r, o, new)
    <3>1. /\ o.at \notin {"idle", "over", "polling"}
          /\ o.at = "writing" => o.todo # <<>>
          /\ o.at \notin {"writing", "failing"} => o.todo = <<>>
      BY <2>5, <2>7, <2>9 DEF FlowRecords
    <3>2. \A k \in SecretKeys, i \in Makers : new[k][i] \in {Kept, NoSecret, r}
      BY <1>4, <1>6, <2>3 DEF FlowFits
    <3>3. \A other \in ItemsOf(o.todo) : other[2] \in {NoSecret, r}
      BY <1>4, <1>7, <2>7 DEF FlowFits
    <3>4. o.exchanged \/ o.patches =>
              o.next = "closing" /\ o.at \in {"writing", "closing", "failing"}
      BY <1>4, <2>5, <2>7 DEF FlowFits
    <3>5. ASSUME ~o.exchanged
          PROVE  /\ \A other \in ItemsOf(o.todo) :
                        other[2] = NoSecret \/ other[1] \in Settable(o)
                 /\ \A k \in SecretKeys \ Settable(o), i \in Makers : new[k][i] # r
      <4>1. Settable(o) = Settable(q) /\ ~q.exchanged
        BY <2>7, <3>5 DEF Settable
      <4>2. \A other \in ItemsOf(q.todo) : other[2] = NoSecret \/ other[1] \in Settable(q)
        BY <1>4, <4>1 DEF FlowFits
      <4>3. \A k \in SecretKeys \ Settable(q), i \in Makers : row[k][i] # r
        BY <1>4, <4>1 DEF FlowFits
      <4>4. \A k \in SecretKeys \ Settable(o), i \in Makers : new[k][i] # r
        BY <1>5, <1>6, <2>3, <4>1, <4>2, <4>3
      <4>5. QED
        BY <1>7, <2>7, <4>1, <4>2, <4>4
    <3>6. o.exchanged =>
              /\ \A other \in ItemsOf(o.todo) : other[2] = NoSecret => other[1] = "device"
              /\ Sets(r, o, new, "access") /\ Sets(r, o, new, "expiry")
      BY <1>4, <1>7, <2>7, <2>11 DEF FlowFits
    <3>7. QED
      BY <3>1, <3>2, <3>3, <3>4, <3>5, <3>6 DEF FlowFits
  <2>13. Rotating(r, q, row) <=> Rotating(r, o, new)
    BY <2>7, <2>11 DEF Rotating
  <2>14. UNCHANGED <<live, redeemed>> /\ o.at # "over" /\ q.at # "over"
    BY <1>1, <1>4, <2>7, <2>9 DEF ProviderKept
  <2>15. QED
    BY <1>1, <1>2, <1>3, <1>8, <2>4, <2>7, <2>8, <2>12, <2>13, <2>14, SameTokensFit
<1>10. CASE Moves(r, "failing") /\ UNCHANGED session
  <2>1. PICK o : o = [q EXCEPT !.at = "failing"]
    OBVIOUS
  <2>2. /\ o \in FlowRecords /\ o.at = "failing" /\ o.read = q.read
        /\ o.todo = q.todo /\ o.next = q.next
        /\ o.exchanged = q.exchanged /\ o.patches = q.patches
    BY <2>1 DEF FlowRecords
  <2>3. flow' = [flow EXCEPT ![r] = o]
    BY <1>2, <1>10, <2>1 DEF Moves
  <2>4. FlowFits(r, o, row) /\ (Rotating(r, q, row) <=> Rotating(r, o, row))
    BY <1>4, <2>2 DEF FlowFits, Rotating, Sets, Settable
  <2>5. session' = [session EXCEPT ![r] = row]
    BY <1>3, <1>10 DEF OauthInv, OauthShapes
  <2>6. UNCHANGED <<live, redeemed>> /\ o.at # "over" /\ q.at # "over"
    BY <1>1, <1>4, <2>2 DEF ProviderKept
  <2>7. QED
    BY <1>1, <1>2, <1>3, <1>8, <2>2, <2>3, <2>4, <2>5, <2>6, SameTokensFit
<1>11. QED
  BY <1>9, <1>10, Zenon DEF WriteRows

-----------------------------------------------------------------------------
LEMMA OverFits ==
    ASSUME NEW r \in Flows
    PROVE  /\ [NoFlow EXCEPT !.at = "over"] \in FlowRecords /\ Blank \in SessionRows
           /\ [NoFlow EXCEPT !.at = "over"].at = "over"
           /\ [NoFlow EXCEPT !.at = "over"].read = NoSecret
           /\ FlowFits(r, [NoFlow EXCEPT !.at = "over"], Blank)
           /\ ~Rotating(r, [NoFlow EXCEPT !.at = "over"], Blank)
<1>1. PICK o : o = [NoFlow EXCEPT !.at = "over"]
  OBVIOUS
<1>2. /\ o \in FlowRecords /\ o.at = "over" /\ o.read = NoSecret /\ o.todo = <<>>
      /\ o.next = "closing" /\ ~o.exchanged /\ ~o.patches
  <2>1. /\ NoFlow \in FlowRecords /\ NoFlow.read = NoSecret /\ NoFlow.todo = <<>>
        /\ NoFlow.next = "closing" /\ ~NoFlow.exchanged /\ ~NoFlow.patches
    BY DEF NoFlow, FlowRecords
  <2>2. QED
    BY <1>1, <2>1 DEF FlowRecords
<1>3. /\ Blank \in SessionRows
      /\ \A k \in SecretKeys, i \in Makers : Blank[k][i] = Kept
  BY DEF Blank, SessionRows
<1>4. r # Kept
  BY OauthAssumption DEF Makers
<1>5. FlowFits(r, o, Blank)
  BY <1>2, <1>3, <1>4, NoItems DEF FlowFits, Settable
<1>6. ~Rotating(r, o, Blank)
  BY <1>2 DEF Rotating
<1>7. QED
  BY <1>1, <1>2, <1>3, <1>5, <1>6

(* The end of a session.                                                    *)
LEMMA LeavesFits ==
    ASSUME NEW r \in Flows, OauthInv, Leaves(r), ProviderKept,
           secrets' \in SecretRows, oauthFaults' \in 0..MaxOauthFaults,
           \A t \in Flows \ {r} : flow[t].at # "over" =>
               \A k \in SecretKeys, i \in Makers : secrets'[k][i] # t,
           RefreshFits', ExpiryFits'
    PROVE  OauthInv'
<1>1. PICK o \in FlowRecords : o = [NoFlow EXCEPT !.at = "over"]
  BY OverFits
<1>2. /\ flow' = [flow EXCEPT ![r] = o] /\ session' = [session EXCEPT ![r] = Blank]
      /\ live' = live /\ redeemed' = redeemed
  BY <1>1 DEF Leaves, ProviderKept
<1>3. /\ o.at = "over" /\ o.read = NoSecret /\ Blank \in SessionRows
      /\ FlowFits(r, o, Blank) /\ ~Rotating(r, o, Blank)
  BY <1>1, OverFits
<1>4. OauthShapes'
  BY <1>2, <1>3 DEF OauthInv, OauthShapes
<1>5. /\ flow'[r] = o /\ session'[r] = Blank
      /\ \A t \in Flows : t # r => flow'[t] = flow[t] /\ session'[t] = session[t]
  BY <1>2 DEF OauthInv, OauthShapes
<1>6. OwnSecrets'
  <2>1. ASSUME NEW t \in Flows, flow'[t].at # "over"
        PROVE  t # r /\ flow[t].at # "over"
    BY <1>3, <1>5, <2>1
  <2>2. ASSUME NEW t \in Flows, flow'[t].at # "over", NEW s \in Flows \ {t}
        PROVE  flow'[s].read # t
    <3>1. CASE s = r
      BY <1>3, <1>5, <3>1, OauthAssumption DEF Makers
    <3>2. CASE s # r
      BY <1>5, <2>1, <2>2, <3>2 DEF OauthInv, OwnSecrets
    <3>3. QED
      BY <3>1, <3>2
  <2>3. QED
    BY <2>1, <2>2 DEF OwnSecrets
<1>7. ASSUME NEW t \in Flows
      PROVE  /\ FlowFits(t, flow'[t], session'[t])
             /\ Rotating(t, flow'[t], session'[t]) => t \in live'
  <2>1. CASE t = r
    BY <1>3, <1>5, <2>1
  <2>2. CASE t # r
    BY <1>2, <1>5, <2>2 DEF OauthInv
  <2>3. QED
    BY <2>1, <2>2
<1>8. QED
  BY <1>4, <1>6, <1>7 DEF OauthInv

(* Another request's rotated token awaits its commit as before.             *)
LEMMA OthersRotate ==
    ASSUME NEW r \in Flows, OauthInv, Leaves(r),
           NEW t \in Flows \ {r}, Rotating(t, flow[t], session[t])
    PROVE  \E s \in Flows : Rotating(s, flow'[s], session'[s])
<1>1. flow'[t] = flow[t] /\ session'[t] = session[t]
  BY DEF Leaves, OauthInv, OauthShapes
<1>2. QED
  BY <1>1

(* A key with at most one row shows one secret.                             *)
LEMMA OneRow ==
    ASSUME NEW r \in Flows, NEW k \in SecretKeys, ~(Cardinality(RowsOf(r, k)) > 1),
           NEW i \in Makers, Shown(r, k, i) = r, NEW j \in Makers
    PROVE  Shown(r, k, j) \in {NoSecret, r}
<1> SUFFICES ASSUME Shown(r, k, j) \notin {NoSecret, r}
             PROVE  FALSE
  OBVIOUS
<1>1. r # NoSecret /\ IsFiniteSet(Makers)
  <2>1. IsFiniteSet(Flows) /\ IsFiniteSet({Earlier})
    BY OauthAssumption, FS_Singleton
  <2>2. QED
    BY <2>1, OauthAssumption, FS_Union DEF Makers
<1>2. i \in RowsOf(r, k) /\ j \in RowsOf(r, k) /\ i # j
  BY <1>1 DEF RowsOf
<1>3. IsFiniteSet(RowsOf(r, k)) /\ {i, j} \subseteq RowsOf(r, k)
  BY <1>1, <1>2, FS_Subset DEF RowsOf
<1>4. Cardinality({i, j}) = 2
  <2>1. IsFiniteSet({i}) /\ Cardinality({i}) = 1
    BY FS_Singleton
  <2>2. Cardinality({i} \cup {j}) = 2
    <3>1. j \notin {i} /\ 1 + 1 = 2
      BY <1>2
    <3>2. Cardinality({i} \cup {j}) = Cardinality({i}) + 1
      BY <2>1, <3>1, FS_AddElement
    <3>3. QED
      BY <2>1, <3>1, <3>2
  <2>3. {i, j} = {i} \cup {j}
    OBVIOUS
  <2>4. QED
    BY <2>2, <2>3
<1>5. Cardinality({i, j}) <= Cardinality(RowsOf(r, k))
  BY <1>3, FS_Subset
<1>6. Cardinality(RowsOf(r, k)) \in Nat
  BY <1>3, FS_CardinalityType
<1>7. QED
  BY <1>4, <1>5, <1>6

(* The stored secrets of a key after a commit, as the session shows them.   *)
LEMMA CommittedRows ==
    ASSUME NEW r \in Flows, OauthInv, CommitSecrets(r), NEW k \in SecretKeys,
           "doubled rows" \notin excuses'
    PROVE  /\ Sets(r, flow[r], session[r], k) => Stored(k)' \subseteq {r}
           /\ ~Sets(r, flow[r], session[r], k) => Stored(k)' \subseteq Stored(k)
<1>1. flow[r].todo = <<>>
  BY FlowOf DEF CommitSecrets, FlowAt, FlowFits
<1>2. Sets(r, flow[r], session[r], k) <=> \E i \in Makers : session[r][k][i] = r
  BY <1>1, NoItems DEF Sets
<1>3. r # Kept /\ r # NoSecret
  BY OauthAssumption DEF Makers
<1>4. \A i \in Makers : secrets'[k][i] = Shown(r, k, i)
  BY DEF CommitSecrets
<1>5. ~(Cardinality(RowsOf(r, k)) > 1)
  BY DEF CommitSecrets
<1>6. ASSUME NEW i \in Makers, session[r][k][i] = r
      PROVE  Stored(k)' \subseteq {r}
  <2>1. Shown(r, k, i) = r
    BY <1>3, <1>6 DEF Shown
  <2>2. \A j \in Makers : Shown(r, k, j) \in {NoSecret, r}
    BY <1>5, <2>1, OneRow
  <2>3. QED
    BY <1>4, <2>2 DEF Stored
<1>7. ASSUME \A i \in Makers : session[r][k][i] # r
      PROVE  Stored(k)' \subseteq Stored(k)
  <2>1. \A i \in Makers : session[r][k][i] \in {Kept, NoSecret}
    <3>1. FlowFits(r, flow[r], session[r])
      BY FlowOf
    <3>2. QED
      BY <1>7, <3>1 DEF FlowFits
  <2>2. \A i \in Makers : Shown(r, k, i) \in {secrets[k][i], NoSecret}
    BY <2>1 DEF Shown
  <2>3. QED
    BY <1>4, <2>2 DEF Stored
<1>8. QED
  BY <1>2, <1>6, <1>7

LEMMA CommitSecretsFits ==
    ASSUME NEW r \in Flows, CommitSecrets(r), OauthInv
    PROVE  OauthInv'
<1>1. /\ flow[r].at = "closing" /\ Leaves(r) /\ ProviderKept /\ UNCHANGED oauthFaults
      /\ secrets' = [k \in SecretKeys |-> [i \in Makers |-> Shown(r, k, i)]]
  BY DEF CommitSecrets, FlowAt
<1>2. excuses \subseteq excuses' /\ (flow[r].patches => "patched access token" \in excuses')
  BY DEF CommitSecrets
<1>3. secrets' \in SecretRows
  BY <1>1, ShownRows DEF SecretRows
<1>4. \A t \in Flows \ {r} : flow[t].at # "over" =>
          \A k \in SecretKeys, i \in Makers : secrets'[k][i] # t
  BY <1>1, ShownRows
<1>5. flow[r].todo = <<>> /\ FlowFits(r, flow[r], session[r])
  BY <1>1, FlowOf DEF FlowFits
<1>6. {"access", "refresh", "expiry"} \subseteq SecretKeys
  BY DEF SecretKeys
<1>7. \A k \in {"access", "refresh", "expiry"} :
          ~flow[r].exchanged /\ (k = "access" => ~flow[r].patches) =>
              ~Sets(r, flow[r], session[r], k)
  BY <1>5, <1>6, NoItems DEF FlowFits, Sets, Settable
<1>8. RefreshFits'
  <2> SUFFICES ASSUME {"doubled rows", "lost tokens"} \cap excuses' = {}
               PROVE  \/ \E t \in Flows : Rotating(t, flow'[t], session'[t])
                      \/ Stored("refresh")' \subseteq live'
    BY DEF RefreshFits
  <2>1. "doubled rows" \notin excuses' /\ {"doubled rows", "lost tokens"} \cap excuses = {}
    BY <1>2
  <2>2. live' = live
    BY <1>1 DEF ProviderKept
  <2>3. CASE Rotating(r, flow[r], session[r])
    <3>1. r \in live
      BY <2>3 DEF OauthInv
    <3>2. Stored("refresh")' \subseteq {r}
      BY <1>6, <2>1, <2>3, CommittedRows DEF Rotating
    <3>3. QED
      BY <2>2, <3>1, <3>2
  <2>4. CASE ~Rotating(r, flow[r], session[r])
    <3>1. ~Sets(r, flow[r], session[r], "refresh")
      BY <1>7, <2>4 DEF Rotating
    <3>2. Stored("refresh")' \subseteq Stored("refresh")
      BY <1>6, <2>1, <3>1, CommittedRows
    <3>3. \/ \E t \in Flows : Rotating(t, flow[t], session[t])
          \/ Stored("refresh") \subseteq live
      BY <2>1 DEF OauthInv, RefreshFits
    <3>4. ASSUME NEW t \in Flows, Rotating(t, flow[t], session[t])
          PROVE  \E s \in Flows : Rotating(s, flow'[s], session'[s])
      <4>1. t \in Flows \ {r}
        BY <2>4, <3>4
      <4>2. QED
        BY <1>1, <3>4, <4>1, OthersRotate
    <3>5. QED
      BY <2>2, <3>2, <3>3, <3>4
  <2>5. QED
    BY <2>3, <2>4
<1>9. ExpiryFits'
  <2> SUFFICES ASSUME {"doubled rows", "patched access token"} \cap excuses' = {}
               PROVE  \A a \in Stored("access")', e \in Stored("expiry")' : a = e
    BY DEF ExpiryFits
  <2>1. /\ "doubled rows" \notin excuses' /\ ~flow[r].patches
        /\ {"doubled rows", "patched access token"} \cap excuses = {}
    BY <1>2
  <2>2. CASE flow[r].exchanged
    <3>1. Sets(r, flow[r], session[r], "access") /\ Sets(r, flow[r], session[r], "expiry")
      BY <1>5, <2>2 DEF FlowFits
    <3>2. Stored("access")' \subseteq {r} /\ Stored("expiry")' \subseteq {r}
      BY <1>6, <2>1, <3>1, CommittedRows
    <3>3. QED
      BY <3>2
  <2>3. CASE ~flow[r].exchanged
    <3>1. ~Sets(r, flow[r], session[r], "access") /\ ~Sets(r, flow[r], session[r], "expiry")
      BY <1>7, <2>1, <2>3
    <3>2. Stored("access")' \subseteq Stored("access") /\ Stored("expiry")' \subseteq Stored("expiry")
      BY <1>6, <2>1, <3>1, CommittedRows
    <3>3. \A a \in Stored("access"), e \in Stored("expiry") : a = e
      BY <2>1 DEF OauthInv, ExpiryFits
    <3>4. QED
      BY <3>2, <3>3
  <2>4. QED
    BY <2>2, <2>3
<1>10. oauthFaults' \in 0..MaxOauthFaults
  BY <1>1, FlowOf
<1>11. QED
  BY <1>1, <1>3, <1>4, <1>8, <1>9, <1>10, LeavesFits

LEMMA DropSecretsFits ==
    ASSUME NEW r \in Flows, DropSecrets(r), OauthInv
    PROVE  OauthInv'
<1>1. /\ Leaves(r) /\ ProviderKept /\ UNCHANGED secrets
      /\ excuses \subseteq excuses' /\ (flow[r].exchanged => "lost tokens" \in excuses')
  BY DEF DropSecrets
<1>2. oauthFaults' \in 0..MaxOauthFaults
  <2>1. oauthFaults \in Nat /\ oauthFaults <= MaxOauthFaults /\ MaxOauthFaults \in Nat
    BY FlowOf, OauthAssumption
  <2>2. \/ oauthFaults' = oauthFaults
        \/ oauthFaults < MaxOauthFaults /\ oauthFaults' = oauthFaults + 1
    BY DEF DropSecrets
  <2>3. QED
    BY <2>1, <2>2
<1>3. \A t \in Flows \ {r} : flow[t].at # "over" =>
          \A k \in SecretKeys, i \in Makers : secrets'[k][i] # t
  BY <1>1 DEF OauthInv, OwnSecrets
<1>4. Stored("refresh")' = Stored("refresh") /\ Stored("access")' = Stored("access")
      /\ Stored("expiry")' = Stored("expiry") /\ live' = live
  BY <1>1 DEF Stored, ProviderKept
<1>5. RefreshFits'
  <2> SUFFICES ASSUME {"doubled rows", "lost tokens"} \cap excuses' = {}
               PROVE  \/ \E t \in Flows : Rotating(t, flow'[t], session'[t])
                      \/ Stored("refresh")' \subseteq live'
    BY DEF RefreshFits
  <2>1. ~flow[r].exchanged /\ {"doubled rows", "lost tokens"} \cap excuses = {}
    BY <1>1
  <2>2. \/ \E t \in Flows : Rotating(t, flow[t], session[t])
        \/ Stored("refresh") \subseteq live
    BY <2>1 DEF OauthInv, RefreshFits
  <2>3. ASSUME NEW t \in Flows, Rotating(t, flow[t], session[t])
        PROVE  \E s \in Flows : Rotating(s, flow'[s], session'[s])
    <3>1. t \in Flows \ {r}
      BY <2>1, <2>3 DEF Rotating
    <3>2. QED
      BY <1>1, <2>3, <3>1, OthersRotate
  <2>4. QED
    BY <1>4, <2>2, <2>3
<1>6. ExpiryFits'
  BY <1>1, <1>4 DEF OauthInv, ExpiryFits
<1>7. secrets' \in SecretRows
  BY <1>1, FlowOf
<1>8. QED
  BY <1>1, <1>2, <1>3, <1>5, <1>6, <1>7, LeavesFits

-----------------------------------------------------------------------------
LEMMA OauthStarts == OauthInit => OauthInv
<1> SUFFICES ASSUME OauthInit
             PROVE  OauthInv
  OBVIOUS
<1>1. PICK known \in {{}, {"access", "refresh", "expiry"}, {"device"}} :
          /\ secrets = [k \in SecretKeys |-> [i \in Makers |->
                 IF k \in known /\ i = Earlier THEN Earlier ELSE NoSecret]]
          /\ live = IF "refresh" \in known THEN {Earlier} ELSE {}
  BY DEF OauthInit
<1>2. /\ NoFlow \in FlowRecords /\ NoFlow.at = "idle" /\ NoFlow.read = NoSecret
      /\ NoFlow.todo = <<>> /\ NoFlow.next = "closing"
      /\ ~NoFlow.exchanged /\ ~NoFlow.patches
  BY DEF NoFlow, FlowRecords
<1>3. /\ Blank \in SessionRows
      /\ \A k \in SecretKeys, i \in Makers : Blank[k][i] = Kept
  BY DEF Blank, SessionRows
<1>4. /\ \A r \in Flows : flow[r] = NoFlow /\ session[r] = Blank
      /\ flow \in [Flows -> FlowRecords] /\ session \in [Flows -> SessionRows]
      /\ redeemed = {} /\ oauthFaults = 0
  BY <1>2, <1>3 DEF OauthInit
<1>5. Earlier \in Makers /\ \A r \in Flows : r # Earlier /\ r # NoSecret /\ r # Kept
  BY OauthAssumption DEF Makers
<1>6. /\ secrets \in SecretRows /\ live \subseteq Makers
      /\ \A k \in SecretKeys, i \in Makers : secrets[k][i] \in {Earlier, NoSecret}
      /\ \A k \in SecretKeys, i \in Makers : secrets[k][i] = Earlier => k \in known
  BY <1>1, <1>5, OauthAssumption DEF SecretRows
<1>7. OauthShapes
  BY <1>4, <1>6, OauthAssumption DEF OauthShapes
<1>8. OwnSecrets
  BY <1>2, <1>4, <1>5, <1>6 DEF OwnSecrets
<1>9. ASSUME NEW r \in Flows
      PROVE  FlowFits(r, flow[r], session[r]) /\ ~Rotating(r, flow[r], session[r])
  <2>1. FlowFits(r, NoFlow, Blank)
    BY <1>2, <1>3, <1>5, NoItems DEF FlowFits, Settable
  <2>2. ~Rotating(r, NoFlow, Blank)
    BY <1>2 DEF Rotating
  <2>3. QED
    BY <1>4, <2>1, <2>2
<1>10. \A k \in SecretKeys : Stored(k) \subseteq (IF k \in known THEN {Earlier} ELSE {})
  BY <1>6 DEF Stored
<1>11. RefreshFits
  BY <1>1, <1>10 DEF RefreshFits, SecretKeys
<1>12. ExpiryFits
  <2>1. Stored("access") \subseteq {Earlier} /\ Stored("expiry") \subseteq {Earlier}
    BY <1>10 DEF SecretKeys
  <2>2. QED
    BY <2>1 DEF ExpiryFits
<1>13. QED
  BY <1>7, <1>8, <1>9, <1>11, <1>12 DEF OauthInv

LEMMA OauthSteps == OauthInv /\ [OauthNext]_oauthVars => OauthInv'
<1> SUFFICES ASSUME OauthInv, [OauthNext]_oauthVars
             PROVE  OauthInv'
  OBVIOUS
<1>1. ASSUME NEW r \in Flows,
             \/ Call(r) \/ ResolveCode(r) \/ PollResult(r) \/ Judge(r) \/ ResolveToken(r)
             \/ Exchange(r) \/ SelectRows(r) \/ WriteRows(r) \/ CommitSecrets(r)
             \/ DropSecrets(r)
      PROVE  OauthInv'
  BY <1>1, OauthCallFits, ResolveCodeFits, PollResultFits, JudgeFits, ResolveTokenFits,
     ExchangeFits, SelectRowsFits, WriteRowsFits, CommitSecretsFits, DropSecretsFits
<1>2. CASE UNCHANGED oauthVars
  <2>1. /\ secrets' = secrets /\ session' = session /\ flow' = flow /\ live' = live
        /\ redeemed' = redeemed /\ oauthFaults' = oauthFaults /\ excuses' = excuses
    BY <1>2 DEF oauthVars
  <2>2. OauthShapes' /\ OwnSecrets'
    BY <2>1 DEF OauthInv, OauthShapes, OwnSecrets
  <2>3. ASSUME NEW r \in Flows
        PROVE  /\ FlowFits(r, flow'[r], session'[r])
               /\ Rotating(r, flow'[r], session'[r]) => r \in live'
    BY <2>1 DEF OauthInv
  <2>4. \A k \in SecretKeys : Stored(k)' = Stored(k)
    BY <2>1 DEF Stored
  <2>5. RefreshFits' /\ ExpiryFits'
    BY <2>1, <2>4 DEF OauthInv, RefreshFits, ExpiryFits, SecretKeys
  <2>6. QED
    BY <2>2, <2>3, <2>5 DEF OauthInv
<1>3. QED
  BY <1>1, <1>2 DEF OauthNext

LEMMA OauthHolds == OauthSpec => []OauthInv
<1>1. OauthInit => OauthInv
  BY OauthStarts
<1>2. OauthInv /\ [OauthNext]_oauthVars => OauthInv'
  BY OauthSteps
<1>3. QED
  BY <1>1, <1>2, PTL DEF OauthSpec

(* The secrets, the tokens and the codes are of known requests, and a       *)
(* session that has not begun or is over has written no row.                *)
THEOREM OauthTypes == OauthSpec => []OauthTypeOK
<1>1. OauthInv => OauthTypeOK
  BY DEF OauthInv, OauthShapes, OauthTypeOK, FlowFits, SecretRows
<1>2. QED
  BY <1>1, OauthHolds, PTL

(* Whatever requests start, poll, refresh, patch and delete credentials at  *)
(* once, the stored refresh token is one that the provider honours once no  *)
(* exchange awaits its commit, and the expiry is that of the access token;  *)
(* but for lost sessions, patched access tokens and doubled rows.           *)
THEOREM TokensFit == OauthSpec => []StoredTokensFit
<1>1. OauthInv => StoredTokensFit
  BY DEF OauthInv, RefreshFits, ExpiryFits, Rotating, StoredTokensFit
<1>2. QED
  BY <1>1, OauthHolds, PTL

-----------------------------------------------------------------------------
(***************************************************************************)
(* The inductive invariant of report bundles: one request at a time in the *)
(* lane, and what the files hold, unless they were edited since, at every  *)
(* point of its work.                                                      *)
(***************************************************************************)
Texts == PageStates \cup {Missing, Bare, Broken}
Files == [Pages -> Texts]
PageRows == [Pages -> Texts \cup {Unseen}]
BundleOutcomes == {"none", "COMPLETED", "PARTIAL", "FAILED_NO_MUTATION"}

BundleRecords ==
    [at : {"idle", "failing", "preflight", "source", "owners", "verifying", "recording",
           "committing", "over"},
     verifies : BOOLEAN, read : PageRows, next : Nat, outcome : BundleOutcomes,
     revised : SUBSET Pages]

BundleShapes ==
    /\ markdown \in Files /\ indexed \in Files
    /\ drafts \in [Bundles -> PageRows] /\ bundle \in [Bundles -> BundleRecords]
    /\ checkpoint \in [status : BundleOutcomes, verifies : BOOLEAN]
    /\ revised \subseteq Pages /\ edits \in 0..MaxEdits
    /\ bundleFaults \in 0..MaxBundleFaults

InLane(o) == o.at \notin {"idle", "committing", "over"}
OneInLane ==
    \A r, s \in Bundles : InLane(bundle[r]) /\ InLane(bundle[s]) => r = s

(* What a request may rely on, where nobody edited the file since.          *)
OwnersRead(o) == \A n \in OwnerSet : o.read[n] \in PageStates
Works(o, texts) ==
    /\ o.at \in {"idle", "preflight", "source"} => o.next = 1
    /\ o.at = "source" => OwnersRead(o) /\ \A n \in Pages \ o.revised : texts[n] = o.read[n]
    /\ o.at = "owners" =>
          /\ OwnersRead(o) /\ o.next >= 1
          /\ \A n \in Pages \ o.revised : texts[n] = o.read[n] \/ Carries(texts[n])
          /\ \A i \in DOMAIN OwnerOrder :
                i < o.next /\ OwnerOrder[i] \notin o.revised => Carries(texts[OwnerOrder[i]])
    /\ o.at \in {"owners", "verifying"} => Source \in o.revised \/ Carries(texts[Source])
    /\ o.at = "verifying" /\ o.verifies =>
          \A n \in Pages \ o.revised : o.read[n] \in {texts[n], Broken}
    /\ o.at = "verifying" /\ ~o.verifies => \A n \in Pages \ o.revised : Carries(texts[n])
    /\ o.at = "recording" /\ o.outcome = "COMPLETED" =>
          \A n \in Pages \ o.revised : Carries(texts[n])

BundleFits(o, row, texts) ==
    Works(o, texts) /\ (o.at \in {"idle", "over"} => row = NoDrafts)

BundleInv ==
    /\ BundleShapes /\ OneInLane
    /\ \A r \in Bundles : BundleFits(bundle[r], drafts[r], markdown)
    /\ CompletedBundlesHold

LEMMA BundleOf ==
    ASSUME NEW r \in Bundles, BundleInv
    PROVE  /\ bundle[r] \in BundleRecords /\ drafts[r] \in PageRows
           /\ BundleFits(bundle[r], drafts[r], markdown)
           /\ markdown \in Files /\ indexed \in Files
           /\ bundleFaults \in 0..MaxBundleFaults
BY DEF BundleInv, BundleShapes

LEMMA NoDraftsIsARow ==
    NoDrafts \in PageRows /\ NoBundle \in BundleRecords /\ Source \in Pages
BY DEF NoDrafts, NoBundle, PageRows, BundleRecords, BundleOutcomes, Pages

(* A step that writes no file.                                              *)
LEMMA BundleStepFits ==
    ASSUME NEW r \in Bundles, NEW o \in BundleRecords, NEW row \in PageRows, BundleInv,
           bundle' = [bundle EXCEPT ![r] = o], drafts' = [drafts EXCEPT ![r] = row],
           UNCHANGED <<markdown, revised, edits, indexed, checkpoint>>,
           bundleFaults' \in 0..MaxBundleFaults, BundleFits(o, row, markdown),
           InLane(o) => \A s \in Bundles \ {r} : ~InLane(bundle[s])
    PROVE  BundleInv'
<1>1. BundleShapes'
  BY DEF BundleInv, BundleShapes
<1>2. /\ bundle'[r] = o /\ drafts'[r] = row
      /\ \A s \in Bundles : s # r => bundle'[s] = bundle[s] /\ drafts'[s] = drafts[s]
  BY DEF BundleInv, BundleShapes
<1>3. OneInLane'
  BY <1>2 DEF BundleInv, OneInLane
<1>4. \A s \in Bundles : BundleFits(bundle'[s], drafts'[s], markdown')
  BY <1>2 DEF BundleInv
<1>5. CompletedBundlesHold'
  BY DEF BundleInv, CompletedBundlesHold
<1>6. QED
  BY <1>1, <1>3, <1>4, <1>5 DEF BundleInv

(* The request in the lane writes a page that carries what it should.       *)
LEMMA BundleWriteFits ==
    ASSUME NEW r \in Bundles, NEW o \in BundleRecords, NEW row \in PageRows,
           NEW n \in Pages, NEW page \in PageStates, BundleInv,
           bundle' = [bundle EXCEPT ![r] = o], drafts' = [drafts EXCEPT ![r] = row],
           markdown' = [markdown EXCEPT ![n] = page], page.holds,
           UNCHANGED <<revised, edits, indexed, checkpoint, bundleFaults>>,
           BundleFits(o, row, [markdown EXCEPT ![n] = page]), InLane(bundle[r])
    PROVE  BundleInv'
<1> DEFINE texts == [markdown EXCEPT ![n] = page]
<1>1. /\ texts \in Files /\ texts[n] = page
      /\ \A m \in Pages : m # n => texts[m] = markdown[m]
  BY DEF BundleInv, BundleShapes, Files, Texts
<1>2. Carries(texts[n]) /\ \A m \in Pages : Carries(markdown[m]) => Carries(texts[m])
  BY <1>1 DEF Carries
<1>3. markdown' = texts
  OBVIOUS
<1> HIDE DEF texts
<1>4. BundleShapes'
  BY <1>1, <1>3 DEF BundleInv, BundleShapes
<1>5. /\ bundle'[r] = o /\ drafts'[r] = row
      /\ \A s \in Bundles : s # r => bundle'[s] = bundle[s] /\ drafts'[s] = drafts[s]
  BY DEF BundleInv, BundleShapes
<1>6. \A s \in Bundles : s # r => ~InLane(bundle[s])
  BY DEF BundleInv, OneInLane
<1>7. OneInLane'
  BY <1>5, <1>6 DEF OneInLane
<1>8. ASSUME NEW s \in Bundles
      PROVE  BundleFits(bundle'[s], drafts'[s], markdown')
  <2>1. CASE s = r
    BY <1>3, <1>5, <2>1 DEF texts
  <2>2. CASE s # r
    <3>1. PICK q : q = bundle[s]
      OBVIOUS
    <3>2. q.at \in {"idle", "committing", "over"} /\ BundleFits(q, drafts[s], markdown)
      BY <1>6, <2>2, <3>1, BundleOf DEF InLane
    <3>3. BundleFits(q, drafts[s], texts)
      BY <3>2 DEF BundleFits, Works
    <3>4. QED
      BY <1>3, <1>5, <2>2, <3>1, <3>3
  <2>3. QED
    BY <2>1, <2>2
<1>9. CompletedBundlesHold'
  <2>1. ASSUME checkpoint.status = "COMPLETED", NEW m \in Pages \ revised
        PROVE  Carries(texts[m])
    BY <1>2, <2>1 DEF BundleInv, CompletedBundlesHold, Carries
  <2>2. QED
    BY <1>3, <2>1 DEF CompletedBundlesHold, Carries
<1>10. QED
  BY <1>4, <1>7, <1>8, <1>9 DEF BundleInv

-----------------------------------------------------------------------------
LEMMA EditPageKeeps ==
    ASSUME NEW n \in Pages, BundleInv, EditPage(n)
    PROVE  BundleInv'
<1>1. PICK page : /\ page \in {[holds |-> h, edit |-> edits'] : h \in BOOLEAN}
                                 \cup {Missing, Bare, Broken}
                  /\ markdown' = [markdown EXCEPT ![n] = page]
  BY DEF EditPage
<1>2. /\ edits \in Nat /\ edits' = edits + 1 /\ edits < MaxEdits /\ edits' \in 0..MaxEdits
      /\ revised' = revised \cup {n}
      /\ UNCHANGED <<drafts, indexed, checkpoint, bundleFaults>>
  BY BundleAssumption DEF EditPage, RecordKept, BundleInv, BundleShapes
<1>3. page \in Texts
  BY <1>1, <1>2 DEF PageStates, Texts
<1>4. /\ markdown' \in Files /\ \A m \in Pages : m # n => markdown'[m] = markdown[m]
  BY <1>1, <1>3 DEF BundleInv, BundleShapes, Files
<1>5. ASSUME NEW r \in Bundles
      PROVE  /\ bundle'[r] \in BundleRecords
             /\ InLane(bundle'[r]) => InLane(bundle[r])
             /\ BundleFits(bundle'[r], drafts'[r], markdown')
  <2>1. PICK q \in BundleRecords : q = bundle[r]
    BY BundleOf
  <2>2. BundleFits(q, drafts[r], markdown)
    BY <2>1, BundleOf
  <2>3. CASE q.at \in {"idle", "over"}
    <3>1. bundle'[r] = q
      BY <2>1, <2>3 DEF EditPage
    <3>2. BundleFits(q, drafts[r], markdown')
      BY <2>2, <2>3 DEF BundleFits, Works
    <3>3. QED
      BY <1>2, <2>1, <3>1, <3>2
  <2>4. CASE q.at \notin {"idle", "over"}
    <3>1. PICK o : o = [q EXCEPT !.revised = @ \cup {n}]
      OBVIOUS
    <3>2. /\ o \in BundleRecords /\ o.at = q.at /\ o.next = q.next /\ o.read = q.read
          /\ o.verifies = q.verifies /\ o.outcome = q.outcome
          /\ o.revised = q.revised \cup {n}
      BY <3>1 DEF BundleRecords
    <3>3. bundle'[r] = o
      BY <2>1, <2>4, <3>1 DEF EditPage
    <3>4. \A m \in Pages \ o.revised : /\ m \in Pages \ q.revised
                                       /\ markdown'[m] = markdown[m]
      BY <1>4, <3>2
    <3>5. \A i \in DOMAIN OwnerOrder : OwnerOrder[i] \in Pages
      BY BundleAssumption DEF Pages, OwnerSet
    <3>6. \A m \in Pages \ o.revised : Carries(markdown[m]) => Carries(markdown'[m])
      BY <3>4 DEF Carries
    <3>7. Source \in o.revised \/ Source \in Pages \ o.revised
      BY DEF Pages
    <3>8. Works(q, markdown)
      BY <2>2 DEF BundleFits
    <3>9. OwnersRead(o) <=> OwnersRead(q)
      BY <3>2 DEF OwnersRead
    <3>10. o.at \in {"owners", "verifying"} => Source \in o.revised \/ Carries(markdown'[Source])
      BY <3>2, <3>6, <3>7, <3>8 DEF Works
    <3>11. o.at = "owners" =>
               /\ \A m \in Pages \ o.revised : markdown'[m] = o.read[m] \/ Carries(markdown'[m])
               /\ \A i \in DOMAIN OwnerOrder : i < o.next /\ OwnerOrder[i] \notin o.revised
                                                 => Carries(markdown'[OwnerOrder[i]])
      BY <3>2, <3>4, <3>5, <3>6, <3>8 DEF Works
    <3>12. Works(o, markdown')
      BY <3>2, <3>4, <3>6, <3>8, <3>9, <3>10, <3>11 DEF Works
    <3>13. QED
      BY <1>2, <2>1, <2>4, <3>2, <3>3, <3>12 DEF BundleFits, InLane
  <2>5. QED
    BY <2>3, <2>4
<1>6. BundleShapes'
  <2>1. bundle' = [r \in Bundles |-> bundle'[r]]
    BY DEF EditPage
  <2>2. bundle' \in [Bundles -> BundleRecords]
    BY <1>5, <2>1
  <2>3. QED
    BY <1>2, <1>4, <2>2 DEF BundleInv, BundleShapes
<1>7. OneInLane'
  BY <1>5 DEF BundleInv, OneInLane
<1>8. CompletedBundlesHold'
  <2>1. \A m \in Pages \ revised' : m \in Pages \ revised /\ markdown'[m] = markdown[m]
    BY <1>2, <1>4
  <2>2. QED
    BY <1>2, <2>1 DEF BundleInv, CompletedBundlesHold
<1>9. QED
  BY <1>5, <1>6, <1>7, <1>8 DEF BundleInv

(* The rows that a reindex or a lookup leaves in the session are copies of  *)
(* files, or error rows.                                                    *)
LEMMA SearchRows ==
    ASSUME NEW r \in Bundles, BundleInv, NEW looked \in Searches(r)
    PROVE  looked \in PageRows
<1>1. ASSUME NEW rejected \in SUBSET Pages
      PROVE  Refreshed(r, rejected) \in PageRows
  BY BundleOf DEF Refreshed, PageRows, Files, Texts
<1>2. QED
  BY <1>1 DEF Searches

LEMMA LookupRows ==
    ASSUME NEW r \in Bundles, BundleInv, NEW found, NEW looked,
           looked \in Lookups(r, found)
    PROVE  looked \in PageRows
BY BundleOf, SearchRows DEF Lookups

LEMMA AdmitKeeps ==
    ASSUME NEW r \in Bundles, BundleInv, Admit(r)
    PROVE  BundleInv'
<1>1. PICK verifies \in BOOLEAN :
      \E looked \in Lookups(r, Replays(verifies) => Indexed(r, Source) \in PageStates) :
      \E point \in Answer(verifies, looked) :
          /\ drafts' = [drafts EXCEPT ![r] = looked]
          /\ bundle' = [bundle EXCEPT ![r].verifies = verifies, ![r].at = point]
  BY DEF Admit
<1>2. PICK row \in Lookups(r, Replays(verifies) => Indexed(r, Source) \in PageStates) :
      \E point \in Answer(verifies, row) :
          /\ drafts' = [drafts EXCEPT ![r] = row]
          /\ bundle' = [bundle EXCEPT ![r].verifies = verifies, ![r].at = point]
  BY <1>1
<1>3. PICK at \in Answer(verifies, row) :
          /\ drafts' = [drafts EXCEPT ![r] = row]
          /\ bundle' = [bundle EXCEPT ![r].verifies = verifies, ![r].at = at]
  BY <1>2
<1>4. at \in {"failing", "committing", "preflight"} /\ row \in PageRows
  <2>1. at \in {"failing", "committing", "preflight"}
    BY <1>3 DEF Answer
  <2>2. row \in PageRows
    BY <1>2, LookupRows
  <2>3. QED
    BY <2>1, <2>2
<1>5. PICK q \in BundleRecords : q = bundle[r]
  BY BundleOf
<1>6. PICK o : o = [q EXCEPT !.verifies = verifies, !.at = at]
  OBVIOUS
<1>7. o \in BundleRecords /\ o.at = at /\ o.next = q.next
  BY <1>4, <1>6 DEF BundleRecords
<1>8. /\ bundle' = [bundle EXCEPT ![r] = o] /\ drafts' = [drafts EXCEPT ![r] = row]
      /\ UNCHANGED <<markdown, revised, edits, indexed, checkpoint>>
      /\ bundleFaults' \in 0..MaxBundleFaults
  <2>1. bundle' = [bundle EXCEPT ![r] = o]
    BY <1>3, <1>5, <1>6 DEF BundleInv, BundleShapes
  <2>2. QED
    BY <1>3, <2>1, BundleOf DEF Admit, FilesKept, RecordKept
<1>9. BundleFits(o, row, markdown)
  <2>1. q.at = "idle" /\ BundleFits(q, drafts[r], markdown)
    BY <1>5, BundleOf DEF Admit, BundleAt
  <2>2. QED
    BY <1>4, <1>7, <2>1 DEF BundleFits, Works
<1>10. \A s \in Bundles \ {r} : ~InLane(bundle[s])
  BY DEF Admit, InLane
<1>11. QED
  BY <1>4, <1>7, <1>8, <1>9, <1>10, BundleStepFits

(* A request in the lane is alone in it.                                    *)
LEMMA AloneInLane ==
    ASSUME NEW r \in Bundles, BundleInv, InLane(bundle[r])
    PROVE  \A s \in Bundles \ {r} : ~InLane(bundle[s])
BY DEF BundleInv, OneInLane

(* The outcome of a request that has not completed promises nothing.        *)
LEMMA ConcludesFits ==
    ASSUME NEW r \in Bundles, NEW row \in PageRows, BundleInv, InLane(bundle[r]),
           NEW outcome \in {"PARTIAL", "FAILED_NO_MUTATION"}, Concludes(r, outcome),
           drafts' = [drafts EXCEPT ![r] = row],
           UNCHANGED <<markdown, revised, edits, indexed, checkpoint, bundleFaults>>
    PROVE  BundleInv'
<1>1. PICK q \in BundleRecords : q = bundle[r]
  BY BundleOf
<1>2. PICK o : o = [q EXCEPT !.at = "recording", !.outcome = outcome]
  OBVIOUS
<1>3. o \in BundleRecords /\ o.at = "recording" /\ o.outcome = outcome
  BY <1>2 DEF BundleRecords, BundleOutcomes
<1>4. bundle' = [bundle EXCEPT ![r] = o]
  BY <1>1, <1>2 DEF Concludes, BundleInv, BundleShapes
<1>5. BundleFits(o, row, markdown)
  BY <1>3 DEF BundleFits, Works
<1>6. bundleFaults' \in 0..MaxBundleFaults
  BY BundleOf
<1>7. QED
  BY <1>3, <1>4, <1>5, <1>6, AloneInLane, BundleStepFits

LEMMA RowsUntouched ==
    ASSUME NEW r \in Bundles, BundleInv, UNCHANGED drafts
    PROVE  \E row \in PageRows : row = drafts[r] /\ drafts' = [drafts EXCEPT ![r] = row]
BY BundleOf DEF BundleInv, BundleShapes

(* A row, or the file it is a copy of, is a page that somebody wrote.       *)
LEMMA RowsOfPages ==
    ASSUME NEW looked \in PageRows, BundleInv, NEW n \in Pages
    PROVE  RowIn(looked, n) \in Texts
BY DEF RowIn, Files, PageRows, BundleInv, BundleShapes

LEMMA IndexedPages ==
    ASSUME NEW r \in Bundles, BundleInv, NEW n \in Pages
    PROVE  Indexed(r, n) \in Texts
BY BundleOf, RowsOfPages DEF Indexed

(* After a reindex a row is its file's copy or an error row, but for a file *)
(* without frontmatter.                                                     *)
LEMMA SearchedPages ==
    ASSUME NEW r \in Bundles, BundleInv, NEW looked \in Searches(r), looked \in PageRows
    PROVE  LET read == [n \in Pages |-> RowIn(looked, n)]
           IN  /\ read \in Files
               /\ \A n \in Pages : markdown[n] # Bare => read[n] \in {markdown[n], Broken}
<1>1. [n \in Pages |-> RowIn(looked, n)] \in Files
  BY RowsOfPages DEF Files
<1>2. ASSUME NEW n \in Pages, markdown[n] # Bare
      PROVE  RowIn(looked, n) \in {markdown[n], Broken}
  <2>1. PICK rejected : looked = Refreshed(r, rejected)
    BY DEF Searches
  <2>2. looked[n] \in {markdown[n], Broken}
    BY <1>2, <2>1 DEF Refreshed
  <2>3. looked[n] # Unseen
    BY <2>2, BundleOf, BundleAssumption DEF Files, Texts
  <2>4. QED
    BY <2>2, <2>3 DEF RowIn
<1>3. QED
  BY <1>1, <1>2

LEMMA PreflightKeeps ==
    ASSUME NEW r \in Bundles, BundleInv, Preflight(r)
    PROVE  BundleInv'
<1>1. InLane(bundle[r]) /\ bundle[r].at = "preflight"
  BY DEF Preflight, BundleAt, InLane
<1>2. UNCHANGED <<markdown, revised, edits, indexed, checkpoint, bundleFaults>>
  BY DEF Preflight, FilesKept, RecordKept
<1>3. PICK row \in Lookups(r, \A n \in OwnerSet : Indexed(r, n) # Missing) :
          /\ drafts' = [drafts EXCEPT ![r] = row]
          /\ \/ Concludes(r, "FAILED_NO_MUTATION")
             \/ Proceeds(r, "failing")
             \/ /\ \A n \in OwnerSet : markdown[n] \in PageStates
                /\ bundle' = [bundle EXCEPT ![r].at = "source", ![r].read = markdown,
                                            ![r].revised = {}]
  BY DEF Preflight
<1>4. row \in PageRows
  BY <1>3, LookupRows
<1>5. PICK q \in BundleRecords : q = bundle[r]
  BY BundleOf
<1>6. CASE Concludes(r, "FAILED_NO_MUTATION")
  BY <1>1, <1>2, <1>3, <1>4, <1>6, ConcludesFits
<1>7. CASE Proceeds(r, "failing")
  <2>1. PICK o : o = [q EXCEPT !.at = "failing"]
    OBVIOUS
  <2>2. o \in BundleRecords /\ o.at = "failing"
    BY <2>1 DEF BundleRecords
  <2>3. bundle' = [bundle EXCEPT ![r] = o]
    BY <1>5, <1>7, <2>1 DEF Proceeds, BundleInv, BundleShapes
  <2>4. BundleFits(o, row, markdown)
    BY <2>2 DEF BundleFits, Works
  <2>5. bundleFaults' \in 0..MaxBundleFaults
    BY <1>2, BundleOf
  <2>6. QED
    BY <1>1, <1>2, <1>3, <1>4, <2>2, <2>3, <2>4, <2>5, AloneInLane, BundleStepFits
<1>8. CASE /\ \A n \in OwnerSet : markdown[n] \in PageStates
           /\ bundle' = [bundle EXCEPT ![r].at = "source", ![r].read = markdown,
                                       ![r].revised = {}]
  <2>1. PICK read \in Files : read = markdown
    BY BundleOf
  <2>2. PICK o : o = [q EXCEPT !.at = "source", !.read = read, !.revised = {}]
    OBVIOUS
  <2>3. read \in PageRows
    BY DEF Files, PageRows
  <2>4. /\ o \in BundleRecords /\ o.at = "source" /\ o.read = read /\ o.next = q.next
        /\ o.revised = {}
    BY <2>2, <2>3 DEF BundleRecords
  <2>5. bundle' = [bundle EXCEPT ![r] = o]
    BY <1>5, <1>8, <2>1, <2>2 DEF BundleInv, BundleShapes
  <2>6. q.next = 1
    BY <1>1, <1>5, BundleOf DEF BundleFits, Works
  <2>7. BundleFits(o, row, markdown)
    BY <1>8, <2>1, <2>4, <2>6 DEF BundleFits, Works, OwnersRead
  <2>8. bundleFaults' \in 0..MaxBundleFaults
    BY <1>2, BundleOf
  <2>9. QED
    BY <1>1, <1>2, <1>3, <1>4, <2>4, <2>5, <2>7, <2>8, AloneInLane, BundleStepFits
<1>9. QED
  BY <1>3, <1>6, <1>7, <1>8

(* A request in the lane writes one of its pages and goes on, or stops.     *)
LEMMA WritesPageKeeps ==
    ASSUME NEW r \in Bundles, NEW n \in Pages, NEW page \in PageStates, page.holds,
           NEW looked \in PageRows, NEW proceeding \in BundleRecords, BundleInv,
           NEW outcome \in {"PARTIAL", "FAILED_NO_MUTATION"}, InLane(bundle[r]),
           InLane(proceeding), WritesPage(r, looked, n, page, proceeding, outcome),
           Works([proceeding EXCEPT !.revised = @ \ {n}], [markdown EXCEPT ![n] = page]),
           UNCHANGED <<revised, edits, indexed, checkpoint, bundleFaults>>
    PROVE  BundleInv'
<1>1. markdown' = [markdown EXCEPT ![n] = page] /\ bundleFaults' \in 0..MaxBundleFaults
  BY BundleOf DEF WritesPage
<1>2. ASSUME drafts' = [drafts EXCEPT ![r] = [looked EXCEPT ![n] = page]],
             bundle' = [bundle EXCEPT ![r] = [proceeding EXCEPT !.revised = @ \ {n}]]
      PROVE  BundleInv'
  <2>1. PICK row : row = [looked EXCEPT ![n] = page]
    OBVIOUS
  <2>2. row \in PageRows
    BY <2>1 DEF PageRows, Texts
  <2>3. PICK o : o = [proceeding EXCEPT !.revised = @ \ {n}]
    OBVIOUS
  <2>4. o \in BundleRecords /\ o.at = proceeding.at
    BY <2>3 DEF BundleRecords
  <2>5. BundleFits(o, row, [markdown EXCEPT ![n] = page])
    BY <2>3, <2>4 DEF BundleFits, InLane
  <2>6. QED
    BY <1>1, <1>2, <2>1, <2>2, <2>3, <2>4, <2>5, BundleWriteFits
<1>3. ASSUME NEW refused \in {looked[n], Broken}, Concludes(r, outcome),
             drafts' = [drafts EXCEPT ![r] = [looked EXCEPT ![n] = refused]]
      PROVE  BundleInv'
  <2>1. PICK row : row = [looked EXCEPT ![n] = refused]
    OBVIOUS
  <2>2. row \in PageRows
    BY <2>1 DEF PageRows, Texts
  <2>3. PICK q \in BundleRecords : q = bundle[r]
    BY BundleOf
  <2>4. PICK o : o = [q EXCEPT !.at = "recording", !.outcome = outcome]
    OBVIOUS
  <2>5. o \in BundleRecords /\ o.at = "recording" /\ o.outcome = outcome
    BY <2>4 DEF BundleRecords, BundleOutcomes
  <2>6. bundle' = [bundle EXCEPT ![r] = o]
    BY <1>3, <2>3, <2>4 DEF Concludes, BundleInv, BundleShapes
  <2>7. BundleFits(o, row, [markdown EXCEPT ![n] = page])
    BY <2>5 DEF BundleFits, Works
  <2>8. QED
    BY <1>1, <1>3, <2>1, <2>2, <2>5, <2>6, <2>7, BundleWriteFits
<1>4. QED
  BY <1>2, <1>3 DEF WritesPage

LEMMA WriteSourceKeeps ==
    ASSUME NEW r \in Bundles, BundleInv, WriteSource(r)
    PROVE  BundleInv'
<1>1. PICK q \in BundleRecords : q = bundle[r]
  BY BundleOf
<1>2. PICK proceeding : proceeding = [q EXCEPT !.at = "owners"]
  OBVIOUS
<1>3. PICK looked \in {drafts[r]} \cup Lookups(r, Indexed(r, Source) \in PageStates) :
      LET row == RowIn(looked, Source)
          report == [holds |-> TRUE, edit |-> IF row \in PageStates THEN row.edit ELSE 0]
      IN  \/ /\ Concludes(r, "FAILED_NO_MUTATION")
             /\ drafts' = [drafts EXCEPT ![r] = looked]
             /\ UNCHANGED markdown
          \/ /\ Carries(row)
             /\ bundle' = [bundle EXCEPT ![r] = [proceeding EXCEPT !.revised =
                               IF markdown[Source] = row THEN @ ELSE @ \cup {Source}]]
             /\ drafts' = [drafts EXCEPT ![r] = looked]
             /\ UNCHANGED markdown
          \/ WritesPage(r, looked, Source, report, proceeding, "FAILED_NO_MUTATION")
  BY <1>1, <1>2, Zenon DEF WriteSource
<1>4. looked \in PageRows
  BY <1>3, LookupRows, BundleOf
<1>5. PICK row : row = RowIn(looked, Source)
  OBVIOUS
<1>6. PICK report : report = [holds |-> TRUE,
                              edit |-> IF row \in PageStates THEN row.edit ELSE 0]
  OBVIOUS
<1>7. /\ InLane(bundle[r]) /\ q.at = "source"
      /\ UNCHANGED <<revised, edits, indexed, checkpoint, bundleFaults>>
      /\ Works(q, markdown) /\ markdown \in Files /\ bundleFaults' \in 0..MaxBundleFaults
  BY <1>1, BundleOf DEF WriteSource, BundleAt, InLane, RecordKept, BundleFits
<1>8. /\ q.next = 1 /\ OwnersRead(q)
      /\ \A n \in Pages \ q.revised : markdown[n] = q.read[n]
  BY <1>7 DEF Works
<1>9. report \in PageStates /\ report.holds
  <2>1. CASE row \in PageStates
    BY <1>6, <2>1 DEF PageStates
  <2>2. CASE row \notin PageStates
    BY <1>6, <2>2 DEF PageStates
  <2>3. QED
    BY <2>1, <2>2
<1>10. /\ proceeding \in BundleRecords /\ proceeding.at = "owners" /\ proceeding.next = 1
       /\ proceeding.read = q.read /\ proceeding.revised = q.revised
       /\ proceeding.verifies = q.verifies /\ proceeding.outcome = q.outcome
  BY <1>2, <1>8 DEF BundleRecords
<1>11. CASE /\ Concludes(r, "FAILED_NO_MUTATION") /\ drafts' = [drafts EXCEPT ![r] = looked]
            /\ UNCHANGED markdown
  BY <1>4, <1>7, <1>11, ConcludesFits
<1>12. CASE /\ Carries(row) /\ drafts' = [drafts EXCEPT ![r] = looked] /\ UNCHANGED markdown
            /\ bundle' = [bundle EXCEPT ![r] = [proceeding EXCEPT !.revised =
                              IF markdown[Source] = row THEN @ ELSE @ \cup {Source}]]
  <2>1. PICK since : since = IF markdown[Source] = row THEN q.revised
                             ELSE q.revised \cup {Source}
    OBVIOUS
  <2>2. /\ since \in SUBSET Pages /\ q.revised \subseteq since
        /\ Source \in since \/ Carries(markdown[Source])
    BY <1>12, <2>1, NoDraftsIsARow DEF BundleRecords
  <2>3. PICK o : o = [proceeding EXCEPT !.revised = since]
    OBVIOUS
  <2>4. /\ o \in BundleRecords /\ o.at = "owners" /\ o.revised = since /\ o.next = 1
        /\ o.read = q.read
    BY <1>10, <2>2, <2>3 DEF BundleRecords
  <2>5. bundle' = [bundle EXCEPT ![r] = o]
    BY <1>10, <1>12, <2>1, <2>3
  <2>6. OwnersRead(o)
    BY <1>8, <2>4 DEF OwnersRead
  <2>7. \A i \in DOMAIN OwnerOrder : ~(i < o.next)
    BY <2>4, BundleAssumption
  <2>8. BundleFits(o, looked, markdown)
    BY <1>8, <2>2, <2>4, <2>6, <2>7 DEF BundleFits, Works
  <2>9. QED
    BY <1>4, <1>7, <1>12, <2>4, <2>5, <2>8, AloneInLane, BundleStepFits
<1>13. CASE WritesPage(r, looked, Source, report, proceeding, "FAILED_NO_MUTATION")
  <2>1. PICK texts : texts = [markdown EXCEPT ![Source] = report]
    OBVIOUS
  <2>2. /\ \A n \in Pages : n # Source => texts[n] = markdown[n]
        /\ Carries(texts[Source])
    BY <1>7, <1>9, <2>1, NoDraftsIsARow DEF Files, Carries
  <2>3. PICK o : o = [proceeding EXCEPT !.revised = @ \ {Source}]
    OBVIOUS
  <2>4. /\ o.at = "owners" /\ o.revised = q.revised \ {Source} /\ o.next = 1
        /\ o.read = q.read
    BY <1>10, <2>3 DEF BundleRecords
  <2>5. OwnersRead(o) /\ \A i \in DOMAIN OwnerOrder : ~(i < o.next)
    BY <1>8, <2>4, BundleAssumption DEF OwnersRead
  <2>6. \A n \in Pages \ o.revised : texts[n] = o.read[n] \/ Carries(texts[n])
    BY <1>8, <2>2, <2>4
  <2>7. Works(o, texts)
    BY <2>2, <2>4, <2>5, <2>6 DEF Works
  <2>8. InLane(proceeding)
    BY <1>10 DEF InLane
  <2>9. QED
    BY <1>4, <1>7, <1>9, <1>10, <1>13, <2>1, <2>3, <2>7, <2>8, WritesPageKeeps,
       NoDraftsIsARow
<1>14. QED
  BY <1>3, <1>5, <1>6, <1>11, <1>12, <1>13

LEMMA UpdateOwnerKeeps ==
    ASSUME NEW r \in Bundles, BundleInv, UpdateOwner(r)
    PROVE  BundleInv'
<1>1. PICK q \in BundleRecords : q = bundle[r]
  BY BundleOf
<1>2. /\ InLane(bundle[r]) /\ q.at = "owners" /\ q.next <= Len(OwnerOrder)
      /\ UNCHANGED <<revised, edits, indexed, checkpoint, bundleFaults>>
      /\ Works(q, markdown) /\ markdown \in Files /\ bundleFaults' \in 0..MaxBundleFaults
  BY <1>1, BundleOf DEF UpdateOwner, BundleAt, InLane, RecordKept, BundleFits
<1>3. /\ q.next \in Nat /\ q.next >= 1 /\ OwnersRead(q)
      /\ \A m \in Pages \ q.revised : markdown[m] = q.read[m] \/ Carries(markdown[m])
      /\ \A i \in DOMAIN OwnerOrder :
            i < q.next /\ OwnerOrder[i] \notin q.revised => Carries(markdown[OwnerOrder[i]])
      /\ Source \in q.revised \/ Carries(markdown[Source])
  BY <1>2 DEF Works, BundleRecords
<1>4. PICK n \in OwnerSet : n = OwnerOrder[q.next]
  BY <1>2, <1>3, BundleAssumption DEF OwnerSet
<1>5. /\ n \in Pages /\ \A i \in DOMAIN OwnerOrder : OwnerOrder[i] \in Pages
      /\ Source \in Pages
  <2>1. n \in Pages /\ Source \in Pages
    BY DEF Pages
  <2>2. \A i \in DOMAIN OwnerOrder : OwnerOrder[i] \in Pages
    BY BundleAssumption DEF Pages, OwnerSet
  <2>3. QED
    BY <2>1, <2>2
<1>6. PICK next \in Nat : next = q.next + 1
  BY <1>3
<1>7. \A i \in DOMAIN OwnerOrder : i < next => i < q.next \/ OwnerOrder[i] = n
  BY <1>3, <1>4, <1>6, BundleAssumption
<1>8. PICK proceeding : proceeding = [q EXCEPT !.next = @ + 1]
  OBVIOUS
<1>9. /\ proceeding \in BundleRecords /\ proceeding.at = "owners"
      /\ proceeding.next = next /\ proceeding.read = q.read
      /\ proceeding.revised = q.revised
  BY <1>2, <1>6, <1>8 DEF BundleRecords
<1>10. PICK linked : linked = [q.read[n] EXCEPT !.holds = TRUE]
  OBVIOUS
<1>11. PICK looked \in Lookups(r, Indexed(r, n) \in PageStates) :
       \/ /\ Concludes(r, "PARTIAL")
          /\ drafts' = [drafts EXCEPT ![r] = looked]
          /\ UNCHANGED markdown
       \/ /\ q.read[n].holds
          /\ bundle' = [bundle EXCEPT ![r] = proceeding]
          /\ drafts' = [drafts EXCEPT ![r] = looked]
          /\ UNCHANGED markdown
       \/ WritesPage(r, looked, n, linked, proceeding, "PARTIAL")
  BY <1>1, <1>4, <1>8, <1>10, Zenon DEF UpdateOwner
<1>12. looked \in PageRows
  BY <1>11, LookupRows
<1>13. CASE /\ Concludes(r, "PARTIAL") /\ drafts' = [drafts EXCEPT ![r] = looked]
            /\ UNCHANGED markdown
  BY <1>2, <1>12, <1>13, ConcludesFits
<1>14. CASE /\ q.read[n].holds /\ bundle' = [bundle EXCEPT ![r] = proceeding]
            /\ drafts' = [drafts EXCEPT ![r] = looked] /\ UNCHANGED markdown
  <2>1. n \notin q.revised => Carries(markdown[n])
    BY <1>3, <1>4, <1>5, <1>14 DEF OwnersRead, Carries
  <2>2. \A i \in DOMAIN OwnerOrder :
            i < next /\ OwnerOrder[i] \notin q.revised => Carries(markdown[OwnerOrder[i]])
    BY <1>3, <1>7, <2>1
  <2>3. BundleFits(proceeding, looked, markdown)
    BY <1>3, <1>6, <1>9, <2>2 DEF BundleFits, Works, OwnersRead
  <2>4. QED
    BY <1>2, <1>9, <1>12, <1>14, <2>3, AloneInLane, BundleStepFits
<1>15. CASE WritesPage(r, looked, n, linked, proceeding, "PARTIAL")
  <2>1. linked \in PageStates /\ linked.holds
    <3>1. q.read[n] \in PageStates
      BY <1>3, <1>4 DEF OwnersRead
    <3>2. QED
      BY <1>10, <3>1 DEF PageStates
  <2>2. PICK o : o = [proceeding EXCEPT !.revised = @ \ {n}]
    OBVIOUS
  <2>3. /\ o.at = "owners" /\ o.revised = q.revised \ {n} /\ o.next = next
        /\ o.read = q.read
    BY <1>9, <2>2 DEF BundleRecords
  <2>4. PICK texts : texts = [markdown EXCEPT ![n] = linked]
    OBVIOUS
  <2>5. /\ \A m \in Pages : m # n => texts[m] = markdown[m]
        /\ Carries(texts[n]) /\ \A m \in Pages : Carries(markdown[m]) => Carries(texts[m])
    BY <1>2, <1>5, <2>1, <2>4 DEF Files, Carries
  <2>6. \A m \in Pages \ o.revised : texts[m] = o.read[m] \/ Carries(texts[m])
    BY <1>3, <2>3, <2>5
  <2>7. \A i \in DOMAIN OwnerOrder :
            i < o.next /\ OwnerOrder[i] \notin o.revised => Carries(texts[OwnerOrder[i]])
    BY <1>3, <1>5, <1>7, <2>3, <2>5
  <2>8. Source \in o.revised \/ Carries(texts[Source])
    BY <1>3, <1>5, <2>3, <2>5
  <2>9. Works(o, texts)
    BY <1>3, <1>6, <2>3, <2>6, <2>7, <2>8 DEF Works, OwnersRead
  <2>10. InLane(proceeding)
    BY <1>9 DEF InLane
  <2>11. QED
    BY <1>2, <1>5, <1>9, <1>12, <1>15, <2>1, <2>2, <2>4, <2>9, <2>10, WritesPageKeeps
<1>16. QED
  BY <1>11, <1>13, <1>14, <1>15

LEMMA ReindexVaultKeeps ==
    ASSUME NEW r \in Bundles, BundleInv, ReindexVault(r)
    PROVE  BundleInv'
<1>1. PICK q \in BundleRecords : q = bundle[r]
  BY BundleOf
<1>2. /\ InLane(bundle[r]) /\ q.at = "owners" /\ q.next > Len(OwnerOrder)
      /\ UNCHANGED <<markdown, revised, edits, indexed, checkpoint, bundleFaults>>
      /\ Works(q, markdown) /\ markdown \in Files /\ bundleFaults' \in 0..MaxBundleFaults
  BY <1>1, BundleOf
     DEF ReindexVault, BundleAt, InLane, RecordKept, FilesKept, BundleFits
<1>3. CASE Concludes(r, "PARTIAL") /\ UNCHANGED drafts
  <2>1. PICK row \in PageRows : drafts' = [drafts EXCEPT ![r] = row]
    BY <1>3, RowsUntouched
  <2>2. QED
    BY <1>2, <1>3, <2>1, ConcludesFits
<1>4. ASSUME NEW row \in Searches(r), drafts' = [drafts EXCEPT ![r] = row],
             bundle' = [bundle EXCEPT ![r] = Verifying(r, row)]
      PROVE  BundleInv'
  <2>1. row \in PageRows
    BY <1>4, SearchRows
  <2>2. PICK read : read = [n \in Pages |-> RowIn(row, n)]
    OBVIOUS
  <2>14. /\ read \in Files
         /\ \A n \in Pages : markdown[n] # Bare => read[n] \in {markdown[n], Broken}
    BY <1>2, <1>4, <2>1, <2>2, SearchedPages
  <2>3. PICK since : since = IF q.verifies THEN Overlooked(r) ELSE q.revised
    OBVIOUS
  <2>16. /\ since \subseteq q.revised
         /\ \A n \in q.revised : n \in since \/ (q.verifies /\ n # Source /\ markdown[n] # Bare)
    BY <1>1, <2>3 DEF Overlooked
  <2>15. ASSUME q.verifies, NEW n \in Pages \ since
         PROVE  read[n] \in {markdown[n], Broken}
    <3>1. CASE n \in q.revised
      BY <2>14, <2>15, <2>16, <3>1
    <3>2. CASE n \notin q.revised
      <4>1. markdown[n] \in PageStates
        BY <1>2, <2>15, <3>2 DEF Works, OwnersRead, Carries, Pages
      <4>2. QED
        BY <2>14, <2>15, <4>1, BundleAssumption
    <3>3. QED
      BY <3>1, <3>2
  <2>4. since \in SUBSET Pages
    BY <2>16 DEF BundleRecords
  <2>5. PICK o : o = [q EXCEPT !.at = "verifying", !.read = read, !.revised = since]
    OBVIOUS
  <2>6. read \in PageRows
    BY <2>14 DEF Files, PageRows
  <2>7. /\ o \in BundleRecords /\ o.at = "verifying" /\ o.read = read /\ o.revised = since
        /\ o.verifies = q.verifies
    BY <2>4, <2>5, <2>6 DEF BundleRecords
  <2>8. bundle' = [bundle EXCEPT ![r] = o]
    BY <1>1, <1>4, <2>2, <2>3, <2>5 DEF Verifying
  <2>9. Source \in o.revised \/ Carries(markdown[Source])
    BY <1>2, <2>7, <2>16 DEF Works
  <2>10. ASSUME ~o.verifies, NEW n \in Pages \ o.revised
         PROVE  Carries(markdown[n])
    <3>1. n \notin q.revised /\ (n = Source \/ n \in OwnerSet)
      BY <2>3, <2>7, <2>10 DEF Pages
    <3>2. ASSUME n \in OwnerSet
          PROVE  Carries(markdown[n])
      <4>1. PICK i \in DOMAIN OwnerOrder : OwnerOrder[i] = n
        BY <3>2, BundleAssumption DEF OwnerSet
      <4>2. i < q.next
        BY <1>2, <4>1, BundleAssumption DEF BundleRecords
      <4>3. QED
        BY <1>2, <3>1, <4>1, <4>2 DEF Works
    <3>3. QED
      BY <1>2, <3>1, <3>2 DEF Works
  <2>11. BundleFits(o, row, markdown)
    BY <2>7, <2>9, <2>10, <2>15 DEF BundleFits, Works
  <2>12. QED
    BY <1>2, <1>4, <2>1, <2>7, <2>8, <2>11, AloneInLane, BundleStepFits
<1>5. QED
  BY <1>3, <1>4 DEF ReindexVault

LEMMA VerifyLinksKeeps ==
    ASSUME NEW r \in Bundles, BundleInv, VerifyLinks(r)
    PROVE  BundleInv'
<1>1. PICK q \in BundleRecords : q = bundle[r]
  BY BundleOf
<1>2. /\ InLane(bundle[r]) /\ q.at = "verifying"
      /\ UNCHANGED <<markdown, revised, edits, indexed, checkpoint, bundleFaults>>
      /\ UNCHANGED drafts
      /\ Works(q, markdown) /\ bundleFaults' \in 0..MaxBundleFaults
  BY <1>1, BundleOf DEF VerifyLinks, BundleAt, InLane, RecordKept, FilesKept, BundleFits
<1>3. PICK row \in PageRows : drafts' = [drafts EXCEPT ![r] = row]
  BY <1>2, RowsUntouched
<1>4. CASE Concludes(r, "PARTIAL")
  BY <1>2, <1>3, <1>4, ConcludesFits
<1>5. CASE /\ q.verifies => LinksFound(r)
           /\ Concludes(r, "COMPLETED")
  <2>1. PICK o : o = [q EXCEPT !.at = "recording", !.outcome = "COMPLETED"]
    OBVIOUS
  <2>2. o \in BundleRecords /\ o.at = "recording" /\ o.revised = q.revised
    BY <2>1 DEF BundleRecords, BundleOutcomes
  <2>3. bundle' = [bundle EXCEPT ![r] = o]
    BY <1>1, <1>5, <2>1 DEF Concludes, BundleInv, BundleShapes
  <2>4. ASSUME NEW n \in Pages \ q.revised
        PROVE  Carries(markdown[n])
    <3>1. CASE ~q.verifies
      BY <1>2, <2>4, <3>1 DEF Works
    <3>2. CASE q.verifies /\ n = Source
      BY <1>2, <2>4, <3>2 DEF Works
    <3>3. CASE q.verifies /\ n \in OwnerSet
      <4>1. q.read[n] \in {markdown[n], Broken}
        BY <1>2, <2>4, <3>3 DEF Works
      <4>2. Carries(q.read[n])
        BY <1>1, <1>5, <3>3 DEF LinksFound
      <4>3. QED
        BY <4>1, <4>2, BundleAssumption DEF Carries
    <3>4. QED
      BY <2>4, <3>1, <3>2, <3>3 DEF Pages
  <2>5. BundleFits(o, row, markdown)
    BY <2>2, <2>4 DEF BundleFits, Works
  <2>6. QED
    BY <1>2, <1>3, <2>2, <2>3, <2>5, AloneInLane, BundleStepFits
<1>6. QED
  BY <1>1, <1>4, <1>5 DEF VerifyLinks

LEMMA SaveCheckpointKeeps ==
    ASSUME NEW r \in Bundles, BundleInv, SaveCheckpoint(r)
    PROVE  BundleInv'
<1>1. PICK q \in BundleRecords : q = bundle[r]
  BY BundleOf
<1>2. /\ q.at = "recording" /\ InLane(bundle[r]) /\ Works(q, markdown)
      /\ UNCHANGED <<markdown, edits, indexed, drafts, bundleFaults>>
      /\ checkpoint' = [status |-> q.outcome, verifies |-> q.verifies]
      /\ revised' = q.revised
  BY <1>1, BundleOf DEF SaveCheckpoint, BundleAt, InLane, BundleFits
<1>3. PICK o : o = [q EXCEPT !.at = "committing"]
  OBVIOUS
<1>4. o \in BundleRecords /\ o.at = "committing"
  BY <1>3 DEF BundleRecords
<1>5. bundle' = [bundle EXCEPT ![r] = o]
  BY <1>1, <1>3 DEF SaveCheckpoint, Proceeds, BundleInv, BundleShapes
<1>6. BundleShapes'
  BY <1>2, <1>4, <1>5 DEF BundleInv, BundleShapes, BundleRecords
<1>7. bundle'[r] = o /\ \A s \in Bundles : s # r => bundle'[s] = bundle[s]
  BY <1>5 DEF BundleInv, BundleShapes
<1>8. OneInLane'
  BY <1>4, <1>7 DEF BundleInv, OneInLane, InLane
<1>9. \A s \in Bundles : BundleFits(bundle'[s], drafts'[s], markdown')
  <2>1. BundleFits(o, drafts[r], markdown)
    BY <1>4 DEF BundleFits, Works
  <2>2. QED
    BY <1>2, <1>7, <2>1 DEF BundleInv
<1>10. CompletedBundlesHold'
  <2>1. checkpoint'.status = "COMPLETED" =>
            \A n \in Pages \ revised' : Carries(markdown[n])
    BY <1>2 DEF Works
  <2>2. QED
    BY <1>2, <2>1 DEF CompletedBundlesHold, Carries
<1>11. QED
  BY <1>6, <1>8, <1>9, <1>10 DEF BundleInv

LEMMA BundleOverFits ==
    \E o \in BundleRecords : /\ o = [NoBundle EXCEPT !.at = "over"] /\ ~InLane(o)
                             /\ \A texts : BundleFits(o, NoDrafts, texts)
<1>1. PICK o : o = [NoBundle EXCEPT !.at = "over"]
  OBVIOUS
<1>2. o \in BundleRecords /\ o.at = "over"
  BY <1>1, NoDraftsIsARow DEF BundleRecords
<1>3. QED
  BY <1>1, <1>2 DEF InLane, BundleFits, Works

LEMMA CommitBundleKeeps ==
    ASSUME NEW r \in Bundles, BundleInv, CommitBundle(r)
    PROVE  BundleInv'
<1>1. PICK o \in BundleRecords : /\ o = [NoBundle EXCEPT !.at = "over"] /\ ~InLane(o)
                                 /\ \A texts : BundleFits(o, NoDrafts, texts)
  BY BundleOverFits
<1>2. /\ bundle' = [bundle EXCEPT ![r] = o] /\ drafts' = [drafts EXCEPT ![r] = NoDrafts]
      /\ UNCHANGED <<markdown, revised, edits, checkpoint, bundleFaults>>
  BY <1>1 DEF CommitBundle
<1>3. indexed' \in Files
  <2>1. \A n \in Pages : Indexed(r, n) \in Texts
    BY IndexedPages
  <2>2. QED
    BY <2>1 DEF CommitBundle, Files
<1>4. BundleShapes'
  BY <1>2, <1>3, NoDraftsIsARow DEF BundleInv, BundleShapes
<1>5. /\ bundle'[r] = o /\ drafts'[r] = NoDrafts
      /\ \A s \in Bundles : s # r => bundle'[s] = bundle[s] /\ drafts'[s] = drafts[s]
  BY <1>2 DEF BundleInv, BundleShapes
<1>6. OneInLane'
  BY <1>1, <1>5 DEF BundleInv, OneInLane
<1>7. \A s \in Bundles : BundleFits(bundle'[s], drafts'[s], markdown')
  <2>1. BundleFits(o, NoDrafts, markdown)
    BY <1>1
  <2>2. QED
    BY <1>2, <1>5, <2>1 DEF BundleInv
<1>8. CompletedBundlesHold'
  BY <1>2 DEF BundleInv, CompletedBundlesHold
<1>9. QED
  BY <1>4, <1>6, <1>7, <1>8 DEF BundleInv

LEMMA AbandonBundleKeeps ==
    ASSUME NEW r \in Bundles, BundleInv, AbandonBundle(r)
    PROVE  BundleInv'
<1>1. PICK o \in BundleRecords : /\ o = [NoBundle EXCEPT !.at = "over"] /\ ~InLane(o)
                                 /\ \A texts : BundleFits(o, NoDrafts, texts)
  BY BundleOverFits
<1>2. /\ bundle' = [bundle EXCEPT ![r] = o] /\ drafts' = [drafts EXCEPT ![r] = NoDrafts]
      /\ UNCHANGED <<markdown, revised, edits, indexed, checkpoint>>
  BY <1>1 DEF AbandonBundle
<1>3. bundleFaults' \in 0..MaxBundleFaults
  BY BundleOf, BundleAssumption DEF AbandonBundle
<1>4. PICK row \in PageRows : row = NoDrafts
  BY NoDraftsIsARow
<1>5. BundleFits(o, row, markdown)
  BY <1>1, <1>4
<1>6. QED
  BY <1>1, <1>2, <1>3, <1>4, <1>5, BundleStepFits

-----------------------------------------------------------------------------
LEMMA StartsBundled == BundleInit => BundleInv
<1> SUFFICES ASSUME BundleInit
             PROVE  BundleInv
  OBVIOUS
<1>1. Old \in PageStates
  BY DEF Old, PageStates
<1>2. BundleShapes
  <2>1. /\ markdown \in Files /\ indexed = markdown
        /\ checkpoint \in [status : BundleOutcomes, verifies : BOOLEAN] /\ revised \subseteq Pages
    BY <1>1 DEF BundleInit, Files, Texts, NoCheckpoint, BundleOutcomes
  <2>2. edits \in 0..MaxEdits /\ bundleFaults \in 0..MaxBundleFaults
    <3>1. edits = 0 /\ bundleFaults = 0
      BY DEF BundleInit
    <3>2. QED
      BY <3>1, BundleAssumption
  <2>3. drafts \in [Bundles -> PageRows] /\ bundle \in [Bundles -> BundleRecords]
    BY NoDraftsIsARow DEF BundleInit
  <2>4. QED
    BY <2>1, <2>2, <2>3 DEF BundleShapes
<1>3. OneInLane
  BY DEF BundleInit, OneInLane, InLane, NoBundle
<1>4. \A r \in Bundles : BundleFits(bundle[r], drafts[r], markdown)
  BY DEF BundleInit, BundleFits, Works, NoBundle
<1>5. CompletedBundlesHold
  BY DEF BundleInit, CompletedBundlesHold, NoCheckpoint
<1>6. QED
  BY <1>2, <1>3, <1>4, <1>5 DEF BundleInv

LEMMA StaysBundled == BundleInv /\ [BundleNext]_bundleVars => BundleInv'
<1> SUFFICES ASSUME BundleInv, [BundleNext]_bundleVars
             PROVE  BundleInv'
  OBVIOUS
<1>1. CASE UNCHANGED bundleVars
  BY <1>1 DEF bundleVars, BundleInv, BundleShapes, OneInLane, CompletedBundlesHold
<1>2. ASSUME NEW r \in Bundles,
             \/ Admit(r) \/ Preflight(r) \/ WriteSource(r) \/ UpdateOwner(r)
             \/ ReindexVault(r) \/ VerifyLinks(r) \/ SaveCheckpoint(r)
             \/ CommitBundle(r) \/ AbandonBundle(r)
      PROVE  BundleInv'
  BY <1>2, AdmitKeeps, PreflightKeeps, WriteSourceKeeps, UpdateOwnerKeeps,
     ReindexVaultKeeps, VerifyLinksKeeps, SaveCheckpointKeeps, CommitBundleKeeps,
     AbandonBundleKeeps
<1>3. QED
  BY <1>1, <1>2, EditPageKeeps DEF BundleNext

LEMMA AlwaysBundled == BundleSpec => []BundleInv
BY StartsBundled, StaysBundled, PTL DEF BundleSpec

(* Checkpoints, sessions and counters keep their types, and a request that  *)
(* has not begun or is over has written no row (vault                       *)
(* report_bundle service and its checkpoint files).                         *)
THEOREM BundleTypes == BundleSpec => []BundleTypeOK
<1>1. BundleInv => BundleTypeOK
  <2> SUFFICES ASSUME BundleInv
               PROVE  BundleTypeOK
    OBVIOUS
  <2>1. \A r \in Bundles : bundle[r].at \in {"idle", "over"} => drafts[r] = NoDrafts
    BY BundleOf DEF BundleFits
  <2>2. checkpoint.status \in {"none", "COMPLETED", "PARTIAL", "FAILED_NO_MUTATION"}
    BY DEF BundleInv, BundleShapes, BundleOutcomes
  <2>3. QED
    BY <2>1, <2>2 DEF BundleInv, BundleShapes, BundleTypeOK
<1>2. QED
  BY <1>1, AlwaysBundled, PTL

(* A checkpoint that says COMPLETED is true of the files, for any number of *)
(* owners, requests, edits and rejected rows: the source carries the report *)
(* and every owner links it, unless the page was edited where the request   *)
(* does not look: later, or under a row that a reindex keeps.               *)
THEOREM CompletedBundles == BundleSpec => []CompletedBundlesHold
<1>1. BundleInv => CompletedBundlesHold
  BY DEF BundleInv
<1>2. QED
  BY <1>1, AlwaysBundled, PTL

(* Manifests, the lock, the indexes and requests keep their types.          *)
THEOREM RecoveryTypes == RecoverySpec => []RecoveryTypeOK
<1>1. RecoveryInv => RecoveryTypeOK
  BY DEF RecoveryInv
<1> QED
  BY <1>1, RecoveryInvariance, PTL

-----------------------------------------------------------------------------
(***************************************************************************)
(* The services side by side: each behaves as it does alone, so what is    *)
(* proved of it alone holds of it here.                                    *)
(***************************************************************************)
THEOREM ServicesBehave ==
  ServicesSpec => /\ ManifestSpec /\ LinksSpec /\ ApplySpec /\ RecoverySpec
                  /\ OauthSpec /\ BundleSpec /\ WorkflowSpec
<1>1. ServicesInit => /\ ManifestInit /\ LinksInit /\ ApplyInit /\ RecoveryInit
                      /\ OauthInit /\ BundleInit /\ WorkflowInit
  BY DEF ServicesInit
<1>2. ASSUME [ServicesNext]_servicesVars
      PROVE  /\ [ManifestNext]_scanned /\ [LinksNext]_linkVars /\ [ApplyNext]_applyVars
             /\ [RecoveryNext]_recoveryVars /\ [OauthNext]_oauthVars
             /\ [BundleNext]_bundleVars /\ [WorkflowNext]_workflowVars
  <2>1. CASE ServicesNext
    BY <2>1 DEF ServicesNext
  <2>2. CASE UNCHANGED servicesVars
    BY <2>2 DEF servicesVars
  <2> QED
    BY <1>2, <2>1, <2>2
<1> QED
  BY <1>1, <1>2, PTL DEF ServicesSpec, ManifestSpec, LinksSpec, ApplySpec, RecoverySpec,
                         OauthSpec, BundleSpec, WorkflowSpec

(* Every service of the composition keeps its types (ServicesTypeOK).       *)
THEOREM ServicesTypes == ServicesSpec => []ServicesTypeOK
<1>1. LinksTypeOK /\ ApplyTypeOK /\ RecoveryTypeOK /\ OauthTypeOK /\ BundleTypeOK
        /\ WorkflowTypeOK => ServicesTypeOK
  BY DEF ServicesTypeOK
<1> QED
  BY <1>1, ServicesBehave, LinksTypes, ApplyTypes, RecoveryTypes, OauthTypes, BundleTypes,
     WorkflowTypes, PTL
=============================================================================
