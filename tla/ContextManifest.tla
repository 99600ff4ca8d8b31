--------------------------- MODULE ContextManifest ---------------------------
(***************************************************************************)
(* The validation of supersede links that precedes every reindex: which of *)
(* the scanned Contexts are accepted.  A scanned Context carries the id it *)
(* supersedes and the id it is superseded by.                              *)
(***************************************************************************)
EXTENDS Naturals, Sequences

CONSTANTS
    ContextOrder,       \* Context ids, in the order the scan finds them
    NoContext           \* no id in a link, no Context under an id

Contexts == {ContextOrder[k] : k \in DOMAIN ContextOrder}

VARIABLE scanned        \* a scan: each Context's links, or NoContext

Links == [sup : Contexts \cup {NoContext}, by : Contexts \cup {NoContext}]
Scans == [Contexts -> Links \cup {NoContext}]

ASSUME ManifestAssumption ==
    /\ ContextOrder \in Seq(Contexts) /\ ContextOrder # <<>>
    /\ \A j, k \in DOMAIN ContextOrder : ContextOrder[j] = ContextOrder[k] => j = k
    /\ NoContext \notin Contexts \cup Links

Found(s) == {c \in Contexts : s[c] # NoContext}

Before(c, d) ==
    \E j, k \in DOMAIN ContextOrder :
        j < k /\ ContextOrder[j] = c /\ ContextOrder[k] = d

(* The Contexts that may replace the target, and the one that does.         *)
Claims(s, target) ==
    {c \in Found(s) : s[c].sup = target /\ s[target].by \in {NoContext, c}}
Replaces(s, c) ==
    /\ s[c].sup \in Found(s)
    /\ c \in Claims(s, s[c].sup)
    /\ \A d \in Claims(s, s[c].sup) : ~Before(d, c)

Reciprocal(s, c) == s[c].by \in Found(s) /\ s[s[c].by].sup = c

(* The set holds what its members supersede.                                *)
TargetsIn(s, cs) == \A c \in cs : s[c].sup \in Found(s) => s[c].sup \in cs

(* Following supersedes links from c leads back to c.                       *)
OnCycle(s, c) ==
    /\ s[c].sup \in Found(s)
    /\ \A cs \in SUBSET Found(s) : s[c].sup \in cs /\ TargetsIn(s, cs) => c \in cs

Invalid(s) ==
    {c \in Found(s) : \/ s[c].sup # NoContext /\ ~Replaces(s, c)
                      \/ s[c].by # NoContext /\ ~Reciprocal(s, c)
                      \/ OnCycle(s, c)}

(* Mutant of Accepted: a rejected target does not reject its replacement.   *)
AcceptedAlone(s) == Found(s) \ Invalid(s)

(* A Context whose target is rejected is rejected too.                      *)
Accepted(s) == UNION {cs \in SUBSET (Found(s) \ Invalid(s)) : TargetsIn(s, cs)}

ManifestInit == scanned = [c \in Contexts |-> NoContext]

ManifestNext ==
    \/ Found(scanned) = {} /\ scanned' \in Scans
    \/ Found(scanned) # {} /\ UNCHANGED scanned

ManifestSpec == ManifestInit /\ [][ManifestNext]_scanned

-----------------------------------------------------------------------------
(* Chains whose links are all reciprocal, and which share no Context with   *)
(* others.                                                                  *)
Sound(s, cs) ==
    \A c \in cs : /\ s[c].sup # NoContext =>
                         s[c].sup \in cs /\ s[s[c].sup].by = c
                  /\ s[c].by # NoContext => s[c].by \in cs /\ s[s[c].by].sup = c
                  /\ ~OnCycle(s, c)

(* What is accepted is a set of chains: every target is there too, replaced *)
(* by nobody else, and no chain bites its tail.  And sound chains are       *)
(* accepted whatever else the vault holds.                                  *)
ChainsAreAccepted ==
    LET accepted == Accepted(scanned)
    IN  /\ \A c \in accepted : scanned[c].sup # NoContext =>
               /\ scanned[c].sup \in accepted
               /\ \A d \in accepted \ {c} : scanned[d].sup # scanned[c].sup
        /\ \A c \in accepted : ~OnCycle(scanned, c)
        /\ \A cs \in SUBSET Found(scanned) :
               Sound(scanned, cs) => cs \subseteq accepted
=============================================================================
