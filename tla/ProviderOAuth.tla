---------------------------- MODULE ProviderOAuth ----------------------------
(***************************************************************************)
(* The OAuth credentials of one librarian provider.  Requests start and    *)
(* poll the device flow, refresh, patch and delete credentials; each reads *)
(* and writes secret rows in a session of its own, and exchanges tokens    *)
(* with the provider, which forgets a refresh token once it has replaced   *)
(* it.  Rows are written one after the other, committed together.          *)
(***************************************************************************)
EXTENDS Naturals, Sequences, FiniteSets

CONSTANTS
    Flows,              \* requests; one that gets a code or tokens names them
    FlowsOf,            \* the calls each request may make
    MaxOauthFaults,     \* bound: dying requests
    Earlier,            \* the code, the tokens and the rows of earlier times
    NoSecret,           \* no row
    Kept                \* a row the session has not touched

VARIABLES
    secrets,    \* committed rows: for each key, rows by the request that made them
    session,    \* each request's session: rows written, not committed
    flow,       \* each request: where it is and its local state
    live,       \* refresh tokens that the provider honours
    redeemed,   \* device codes that the provider has exchanged
    oauthFaults,
    excuses     \* history: why the stored tokens may not fit

oauthVars == <<secrets, session, flow, live, redeemed, oauthFaults, excuses>>

(* A token set's type and scope go with its expiry, a device code's expiry  *)
(* and interval with the code.                                              *)
SecretKeys == {"access", "refresh", "expiry", "device"}
Makers == Flows \cup {Earlier}

ASSUME OauthAssumption ==
    /\ IsFiniteSet(Flows) /\ Earlier \notin Flows
    /\ NoSecret \notin Makers /\ Kept \notin Makers \cup {NoSecret}
    /\ MaxOauthFaults \in Nat

Blank == [k \in SecretKeys |-> [i \in Makers |-> Kept]]

NoFlow == [at |-> "idle", read |-> NoSecret, todo |-> <<>>, next |-> "closing",
           selected |-> FALSE, picked |-> {}, exchanged |-> FALSE, patches |-> FALSE]

OauthInit ==
    /\ \E known \in {{}, {"access", "refresh", "expiry"}, {"device"}} :
          /\ secrets = [k \in SecretKeys |-> [i \in Makers |->
                 IF k \in known /\ i = Earlier THEN Earlier ELSE NoSecret]]
          /\ live = IF "refresh" \in known THEN {Earlier} ELSE {}
    /\ session = [r \in Flows |-> Blank]
    /\ flow = [r \in Flows |-> NoFlow]
    /\ redeemed = {}
    /\ oauthFaults = 0
    /\ excuses = {}

-----------------------------------------------------------------------------
Shown(r, k, i) == IF session[r][k][i] = Kept THEN secrets[k][i] ELSE session[r][k][i]
RowsOf(r, k) == {i \in Makers : Shown(r, k, i) # NoSecret}
Stored(k) == {secrets[k][i] : i \in Makers} \ {NoSecret}

Set(k, v) == <<k, v>>
Delete(k) == <<k, NoSecret>>

(* Mutant of StoreTokens: a rotated refresh token is not stored.            *)
StoreTokensUnrotated(r, rotated) == <<Set("access", r), Set("expiry", r)>>

StoreTokens(r, rotated) ==
    IF rotated THEN <<Set("access", r), Set("refresh", r), Set("expiry", r)>>
    ELSE <<Set("access", r), Set("expiry", r)>>

DeleteAll == <<Delete("access"), Delete("refresh"), Delete("expiry"), Delete("device")>>

FlowAt(r, point) == flow[r].at = point
Moves(r, point) == flow' = [flow EXCEPT ![r].at = point]
Writes(r, todo, next) ==
    flow' = [flow EXCEPT ![r].at = "writing", ![r].todo = todo, ![r].next = next]
Gets(r, todo) ==
    flow' = [flow EXCEPT ![r].at = "writing", ![r].todo = todo,
                         ![r].next = "closing", ![r].exchanged = TRUE]
RowsKept == UNCHANGED <<secrets, session, oauthFaults, excuses>>
ProviderKept == UNCHANGED <<live, redeemed>>

(* The call: a device flow's start, a poll, a refresh, the deletion of the  *)
(* credentials, or a patch that brings an access token, with or without a   *)
(* change of the provider's identity.                                       *)
Call(r) ==
    /\ FlowAt(r, "idle")
    /\ \/ "start" \in FlowsOf[r] /\ Writes(r, <<Set("device", r)>>, "closing")
       \/ "poll" \in FlowsOf[r] /\ Moves(r, "resolving")
       \/ "refresh" \in FlowsOf[r] /\ Moves(r, "judging")
       \/ "delete" \in FlowsOf[r] /\ Writes(r, DeleteAll, "closing")
       \/ /\ "patch" \in FlowsOf[r]
          /\ \E todo \in {<<>>, DeleteAll} :
                flow' = [flow EXCEPT ![r].at = "writing", ![r].patches = TRUE,
                                     ![r].todo = todo \o <<Set("access", r)>>]
    /\ RowsKept /\ ProviderKept

(* A poll reads the device code; the time may have run out.                 *)
ResolveCode(r) ==
    /\ FlowAt(r, "resolving")
    /\ \/ RowsOf(r, "device") = {} /\ Moves(r, "failing")
       \/ RowsOf(r, "device") # {} /\ Writes(r, <<Delete("device")>>, "closing")
       \/ \E i \in RowsOf(r, "device") :
             flow' = [flow EXCEPT ![r].at = "polling", ![r].read = Shown(r, "device", i)]
    /\ RowsKept /\ ProviderKept

(* Pending and failed polls change nothing, an expired one ends the flow; a *)
(* code is exchanged once, for tokens with or without a refresh token.      *)
PollResult(r) ==
    /\ FlowAt(r, "polling")
    /\ \/ Moves(r, "closing") /\ ProviderKept
       \/ Writes(r, <<Delete("device")>>, "closing") /\ ProviderKept
       \/ /\ flow[r].read \notin redeemed
          /\ redeemed' = redeemed \cup {flow[r].read}
          /\ \E refreshable \in BOOLEAN :
                /\ live' = IF refreshable THEN live \cup {r} ELSE live
                /\ Gets(r, StoreTokens(r, refreshable) \o <<Delete("device")>>)
    /\ RowsKept

(* A refresh first judges the connection: a pending flow, no tokens or good *)
(* tokens end it; a flow out of time is deleted on the way.                 *)
Judge(r) ==
    /\ FlowAt(r, "judging")
    /\ \/ Moves(r, "closing")
       \/ RowsOf(r, "device") # {} /\ Writes(r, <<Delete("device")>>, "renewing")
       \/ RowsOf(r, "device") = {} /\ RowsOf(r, "access") # {} /\ Moves(r, "renewing")
    /\ RowsKept /\ ProviderKept

ResolveToken(r) ==
    /\ FlowAt(r, "renewing")
    /\ \/ RowsOf(r, "refresh") = {} /\ Moves(r, "closing")
       \/ \E i \in RowsOf(r, "refresh") :
             flow' = [flow EXCEPT ![r].at = "exchanging", ![r].read = Shown(r, "refresh", i)]
    /\ RowsKept /\ ProviderKept

Exchange(r) ==
    /\ FlowAt(r, "exchanging")
    /\ IF flow[r].read \notin live THEN Moves(r, "failing") /\ UNCHANGED live
       ELSE \E rotated \in BOOLEAN :
               /\ live' = IF rotated THEN (live \ {flow[r].read}) \cup {r} ELSE live
               /\ Gets(r, StoreTokens(r, rotated))
    /\ UNCHANGED redeemed
    /\ RowsKept

-----------------------------------------------------------------------------
(* Every write first selects: one of the key's rows to update, or all of    *)
(* them to delete.                                                          *)
SelectRows(r) ==
    /\ FlowAt(r, "writing") /\ ~flow[r].selected
    /\ LET key == Head(flow[r].todo)[1]
           found == RowsOf(r, key)
       IN  \E picked \in SUBSET found :
              /\ IF Head(flow[r].todo) = Delete(key) THEN picked = found
                 ELSE Cardinality(picked) = (IF found = {} THEN 0 ELSE 1)
              /\ flow' = [flow EXCEPT ![r].selected = TRUE, ![r].picked = picked]
    /\ RowsKept /\ ProviderKept

AwaitsRow(r) ==
    /\ FlowAt(r, "writing") /\ flow[r].selected
    /\ \E s \in Flows \ {r}, i \in flow[r].picked :
          session[s][Head(flow[r].todo)[1]][i] # Kept

(* An update of a row that is gone fails, as does a session in a circle of  *)
(* sessions that wait for each other.                                       *)
WriteRows(r) ==
    LET key == Head(flow[r].todo)[1]
        v == Head(flow[r].todo)[2]
        rest == Tail(flow[r].todo)
        touched == IF v # NoSecret /\ flow[r].picked = {} THEN {r}
                   ELSE flow[r].picked \cap RowsOf(r, key)
    IN  /\ FlowAt(r, "writing") /\ flow[r].selected
        /\ \/ /\ ~AwaitsRow(r) /\ (v = NoSecret \/ touched # {})
              /\ session' = [session EXCEPT ![r][key] = [i \in Makers |->
                                 IF i \in touched THEN v ELSE @[i]]]
              /\ flow' = [flow EXCEPT ![r].todo = rest, ![r].selected = FALSE,
                     ![r].picked = {},
                     ![r].at = IF rest = <<>> THEN flow[r].next ELSE @]
           \/ /\ \/ ~AwaitsRow(r) /\ v # NoSecret /\ touched = {}
                 \/ AwaitsRow(r) /\ \E s \in Flows \ {r} : AwaitsRow(s)
              /\ Moves(r, "failing")
              /\ UNCHANGED session
    /\ UNCHANGED <<secrets, oauthFaults, excuses>> /\ ProviderKept

Leaves(r) ==
    /\ session' = [session EXCEPT ![r] = Blank]
    /\ flow' = [flow EXCEPT ![r] = [NoFlow EXCEPT !.at = "over"]]

CommitSecrets(r) ==
    /\ FlowAt(r, "closing")
    /\ secrets' = [k \in SecretKeys |-> [i \in Makers |-> Shown(r, k, i)]]
    /\ excuses' = excuses
           \cup (IF \E k \in SecretKeys : Cardinality(RowsOf(r, k)) > 1
                 THEN {"doubled rows"} ELSE {})
           \cup (IF flow[r].patches THEN {"patched access token"} ELSE {})
    /\ Leaves(r)
    /\ UNCHANGED oauthFaults /\ ProviderKept

(* The session is rolled back; what the provider has done stays done.       *)
DropSecrets(r) ==
    /\ \/ FlowAt(r, "failing") /\ UNCHANGED oauthFaults
       \/ /\ flow[r].at \notin {"idle", "over"} /\ oauthFaults < MaxOauthFaults
          /\ oauthFaults' = oauthFaults + 1
    /\ excuses' = IF flow[r].exchanged THEN excuses \cup {"lost tokens"} ELSE excuses
    /\ Leaves(r)
    /\ UNCHANGED secrets /\ ProviderKept

OauthNext ==
    \/ \E r \in Flows :
          \/ Call(r) \/ ResolveCode(r) \/ PollResult(r) \/ Judge(r) \/ ResolveToken(r)
          \/ Exchange(r) \/ SelectRows(r) \/ WriteRows(r) \/ CommitSecrets(r)
          \/ DropSecrets(r)
    \/ (\A r \in Flows : FlowAt(r, "over")) /\ UNCHANGED oauthVars

OauthSpec == OauthInit /\ [][OauthNext]_oauthVars

-----------------------------------------------------------------------------
(* The stored tokens fit together: once no exchange awaits its commit, the  *)
(* refresh token is one the provider honours, unless tokens were lost with  *)
(* a session; and the expiry is that of the access token, unless a patch    *)
(* brought one without.  Two first stores at once leave two rows of a key,  *)
(* and then neither is sure.                                                *)
StoredTokensFit ==
    "doubled rows" \notin excuses =>
        /\ ((\A r \in Flows : ~flow[r].exchanged) /\ "lost tokens" \notin excuses)
               => Stored("refresh") \subseteq live
        /\ "patched access token" \notin excuses =>
               \A a \in Stored("access"), e \in Stored("expiry") : a = e

(* Rows are of known requests; a session that is over has written none.     *)
OauthTypeOK ==
    /\ \A k \in SecretKeys, i \in Makers : secrets[k][i] \in Makers \cup {NoSecret}
    /\ live \subseteq Makers /\ redeemed \subseteq Makers
    /\ oauthFaults \in 0..MaxOauthFaults
    /\ \A r \in Flows : flow[r].at \in {"idle", "over"} => session[r] = Blank
=============================================================================
