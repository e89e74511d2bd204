----------------------------- MODULE MCTreeDiff -----------------------------
(* Instances of TreeDiff.  Notes are interchangeable. *)
EXTENDS TreeDiff, TLC

NoteSymmetry == Permutations(Notes)

\* Once the page may be out of step with the warm view, PageFollowsView says nothing.
InStep == inStep

\* A list of four notes out of more, and a browser that will ask for the whole
\* structure: what the page shows after ForgetView.
ShownRoots == CHOOSE roots \in SetToAllKPermutations(Notes) : Len(roots) = 4

ShownInit ==
    /\ lists = [Empty EXCEPT ![Root] = ShownRoots] /\ collapsed = {} /\ news = "none"
    /\ warm = BuildView /\ forgotten = TRUE /\ response = NoResponse
    /\ page = lists /\ shut = {} /\ fading = {} /\ inStep = TRUE

ShownSpec == ShownInit /\ [][Next]_vars
=============================================================================
