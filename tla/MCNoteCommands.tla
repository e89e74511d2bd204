--------------------------- MODULE MCNoteCommands ---------------------------
(***************************************************************************)
(* NoteCommands on a small vault, and its refinement of SiblingLists.        *)
(***************************************************************************)
EXTENDS NoteCommands, TLC

\* Note ids are interchangeable.
IdSymmetry == Permutations(Notes)

Lists == INSTANCE SiblingLists WITH
            lists <- [p \in NoteOrNull |-> Children(Hydrated(db), p)]

\* Seen from the database, every request is one atomic change of one note's place
\* (or one regrouping of the roots), and a failed request, a rollback and a
\* restart change no sibling list: the commit in app/db/session.py is the point
\* where a command of app/usecases happens, with all of it or nothing.
ImplementsSiblingLists == Lists!Spec
=============================================================================
