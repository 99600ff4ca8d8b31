------------------------------ MODULE MCServices ------------------------------
(***************************************************************************)
(* The request-driven services side by side.  They share no state in these *)
(* models, so each behaviour drives one of them and leaves the others be.  *)
(***************************************************************************)
EXTENDS ContextLinks, ReconciliationApply, RecoveryRun, ProviderOAuth,
        ReportBundle, LibrarianWorkflow

CONSTANTS
    Services,           \* the services that a run drives
    c1, c2, c3, r1, r2, r3, p1, p2, p3, p4, p5, a1, a2, a3

VARIABLE focus          \* the service that a behaviour drives

ThreeContexts == <<c1, c2, c3>>
CallsOfCallers == [r \in {r1, r2, r3} |->
    CASE r = r1 -> {"supersede", "save"}
      [] r = r2 -> {"supersede", "archive"}
      [] r = r3 -> {"reindex"}]
(* Two replacements with one text; two plans that contradict one claim with *)
(* the first replacement's candidate; and one that only adds evidence.      *)
PlanRelations == [p \in {p1, p2, p3, p4, p5} |->
    CASE p \in {p1, p2} -> "supersedes" [] p = p5 -> "supports" [] OTHER -> "contradicts"]
PlanCandidates == [p \in {p1, p2, p3, p4, p5} |-> IF p \in {p2, p5} THEN c2 ELSE c1]
PlanTexts == PlanRelations
OneClaim == [p \in {p1, p2, p3, p4, p5} |-> c3]

(* The bound of the exploration: requests alike start in the order of their *)
(* names, and the third apply after the two before it, which may overlap.   *)
InOrder ==
    /\ apply[a1].at = "idle" => apply[a2].at = "idle"
    /\ apply[a3].at # "idle" => ~Underway(a1) /\ apply[a2].at = "over"
    /\ bundle[r1].at = "idle" => bundle[r2].at = "idle"
    /\ ops[r1].at = "idle" => ops[r2].at = "idle"
    /\ ops[r2].at = "idle" => ops[r3].at = "idle"

FlowCalls == [r \in {r1, r2, r3} |->
    CASE r = r1 -> {"poll", "refresh"}
      [] r = r2 -> {"start", "refresh", "delete"}
      [] r = r3 -> {"poll", "refresh", "patch"}]
TwoOwners == <<c2, c3>>
ThreeActions == <<"save_transcript", "create_context_note", "ask_oauth_librarian">>

servicesVars ==
    <<scanned, linkVars, applyVars, recoveryVars, oauthVars, bundleVars, workflowVars,
      focus>>

ServicesInit ==
    /\ focus \in Services
    /\ ManifestInit /\ LinksInit /\ ApplyInit /\ RecoveryInit
    /\ OauthInit /\ BundleInit /\ WorkflowInit
    /\ focus # "oauth" => secrets["device"][Earlier] = NoSecret /\ live = {}
    /\ focus # "bundle" => \A n \in Pages : markdown[n] = Missing

(* Nothing is promised, nor explored, once a recovery run was interrupted   *)
(* while it executed.                                                       *)
ServicesNext ==
    /\ UNCHANGED focus
    /\ \/ focus = "manifest" /\ ManifestNext
       \/ focus # "manifest" /\ UNCHANGED scanned
    /\ \/ focus = "links" /\ LinksNext
       \/ focus # "links" /\ UNCHANGED linkVars
    /\ \/ focus = "apply" /\ ApplyNext
       \/ focus # "apply" /\ UNCHANGED applyVars
    /\ \/ focus = "recovery" /\ ~interrupted /\ RecoveryNext
       \/ interrupted /\ UNCHANGED recoveryVars
       \/ focus # "recovery" /\ UNCHANGED recoveryVars
    /\ \/ focus = "oauth" /\ OauthNext
       \/ focus # "oauth" /\ UNCHANGED oauthVars
    /\ \/ focus = "bundle" /\ BundleNext
       \/ focus # "bundle" /\ UNCHANGED bundleVars
    /\ \/ focus = "workflow" /\ WorkflowNext
       \/ focus # "workflow" /\ UNCHANGED workflowVars

ServicesSpec == ServicesInit /\ [][ServicesNext]_servicesVars

(* Every service's state keeps its type, and a session that is over holds   *)
(* no row.                                                                  *)
ServicesTypeOK ==
    /\ LinksTypeOK /\ ApplyTypeOK /\ RecoveryTypeOK
    /\ OauthTypeOK /\ BundleTypeOK /\ WorkflowTypeOK
=============================================================================
