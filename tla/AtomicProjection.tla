-------------------------- MODULE AtomicProjection --------------------------
(***************************************************************************)
(* What complete_rebuild promises the readers of the graph projection:     *)
(* they see nothing, or the whole content of one run, and one step takes   *)
(* them from one whole content to the next.                                *)
(***************************************************************************)
EXTENDS Integers

CONSTANTS
    Runs,      \* identities of rebuild runs
    NoRun,     \* the projection has never been built
    Content    \* the whole content of a run

VARIABLE shown  \* what readers are shown: a run and its rows

Nothing == [run |-> NoRun, rows |-> {}]

Init == shown = Nothing

Publish(r) ==
    /\ r # shown.run
    /\ shown' = [run |-> r, rows |-> Content]

Next == \E r \in Runs : Publish(r)

Spec == Init /\ [][Next]_shown

=============================================================================
