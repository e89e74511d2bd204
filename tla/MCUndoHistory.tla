---------------------------- MODULE MCUndoHistory ----------------------------
(***************************************************************************)
(* UndoHistory on a small vault, with one or two windows.                    *)
(***************************************************************************)
EXTENDS UndoHistory, TLC

\* Note ids are interchangeable.
IdSymmetry == Permutations(Notes)

\* And so are windows.
WindowSymmetry == Permutations(Notes) \cup Permutations(Clients)

\* The auxiliary fields of the entries guard no action, so the runs that check no
\* history property need not tell states apart by them.
OnlyOperations(q) == [i \in DOMAIN q |-> q[i].op]

OnlyOperationsOf(all) ==
    [c \in Clients |-> <<OnlyOperations(all[c].history), OnlyOperations(all[c].redo)>>]

WithoutAuxiliary ==
    <<store, rows, db, phase, serving, OnlyOperationsOf(stacks), OnlyOperationsOf(captured)>>

\* A bound: no note is ever folded (folding reads and writes no link).
NothingFolded == \A n \in Notes : ~store.collapsed[n]
=============================================================================
