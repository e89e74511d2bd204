---------------------------- MODULE NoteCommands ----------------------------
(***************************************************************************)
(* The structural commands of MetaList: create, move, indent, outdent,       *)
(* delete, collapse and prioritize, as the server runs them.                 *)
(*                                                                         *)
(* A mutating request holds bulk_operation_guard.lock and one database        *)
(* transaction from its first statement to its end, so requests do not        *)
(* interleave; but the in-memory store is changed before the transaction      *)
(* commits, and the request can still fail, or the process stop, between the  *)
(* two.  A request is therefore two steps: the command applies its change to  *)
(* the store and to the rows of the open transaction, and then the            *)
(* transaction commits, or it is rolled back and the store is loaded again    *)
(* from the database (app/services/request_recovery.py).                      *)
(***************************************************************************)
EXTENDS NoteOrdering

VARIABLES
    store,      \* NoteStore: records and the head/tail index, in memory
    rows,       \* the notes table as the open transaction sees it
    db,         \* the notes table as committed
    phase,      \* the request in progress: see Phases
    serving     \* FALSE once recovery failed and every request is refused

storeVars == <<store, rows, db, phase, serving>>

Phases ==
    {"idle",     \* no request in progress
     "applied",  \* a command changed store and rows, and has not committed
     "raised",   \* the command failed after it began to write
     "refused"}  \* the command failed before it wrote anything

TypeOK ==
    /\ store \in Stores
    /\ rows \in Tables
    /\ db \in Tables
    /\ phase \in Phases
    /\ serving \in BOOLEAN

StoreInit ==
    /\ store = Hydrated(EmptyTable)
    /\ rows = EmptyTable
    /\ db = EmptyTable
    /\ phase = "idle"
    /\ serving = TRUE

-----------------------------------------------------------------------------
(***************************************************************************)
(* The apply_* functions the commands, undo and redo share.                  *)
(***************************************************************************)
Applied == phase' = "applied" /\ UNCHANGED <<db, serving>>

\* The exception leaves the request; nothing of it will be kept.
Raise == phase' = "raised" /\ UNCHANGED <<store, rows, db, serving>>

Refuse == phase' = "refused" /\ UNCHANGED <<store, rows, db, serving>>

\* The next note store.py derives from a previous one: the first child when the
\* note goes first.
NextAfter(s, p, prev) == IF prev = Null THEN s.heads[p] ELSE s.next[prev]

\* apply_insert_note: the row with the anchors as given, the record after prev.
InsertNote(n, p, prev, next) ==
    LET added == AddNote(store, n, p, Expanded)
        after == NextAfter(store, p, prev)
    IN  IF CanLinkIn(added, n, p, ResolvedPrev(added, p, prev, after),
                     ResolvedNext(added, p, prev, after))
        THEN /\ rows' = InsertRow(rows, n, p, prev, next, Expanded)
             /\ store' = LinkIn(added, n, p, ResolvedPrev(added, p, prev, after),
                                ResolvedNext(added, p, prev, after))
             /\ Applied
        ELSE Raise

\* NoteStore.move_note: out of the old list, then into the new one.
Detached(s, n, p) == [LinkOut(s, n) EXCEPT !.parent = [@ EXCEPT ![n] = p]]

MoveTarget(s, n, p, prev) ==
    LET after == NextAfter(s, p, prev)
    IN  IF after = n THEN s.next[n] ELSE after

\* apply_move and the neighbour check after it.
CanMove(n, p, prev, next) ==
    LET out == Detached(store, n, p)
        after == MoveTarget(store, n, p, prev)
    IN  /\ ParentAllowed(rows, n, p)
        /\ prev # Null => prev \in store.ids /\ store.parent[prev] = p
        /\ CanLinkOut(store, n)
        /\ ResolvedPrev(out, p, prev, after) = prev
        /\ ResolvedNext(out, p, prev, after) = next
        /\ CanLinkIn(out, n, p, prev, next)

MoveNote(n, p, prev, next) ==
    IF n \notin store.ids THEN Refuse
    ELSE IF CanMove(n, p, prev, next)
    THEN /\ rows' = MoveRow(rows, n, store.prev[n], store.next[n], p, prev, next)
         /\ store' = LinkIn(Detached(store, n, p), n, p, prev, next)
         /\ Applied
    ELSE Raise

\* apply_delete_subtree.
DeleteSubtree(n) ==
    IF n \notin store.ids THEN Refuse
    ELSE IF CanLinkOut(store, n)
    THEN LET D == Subtree(store, n)
         IN  /\ rows' = DeleteRows(rows, D, store.prev[n], store.next[n])
             /\ store' = DropLists(DropNotes(LinkOut(store, n), D), D)
             /\ Applied
    ELSE Raise

\* apply_set_collapse, for a note that shows its own content.
CollapseNote(n, value) ==
    IF n \notin store.ids THEN Refuse
    ELSE /\ rows' = SetCollapsed(rows, n, value)
         /\ store' = SetCollapsed(store, n, value)
         /\ Applied

-----------------------------------------------------------------------------
(***************************************************************************)
(* The commands.  Each runs in a request of its own.                         *)
(***************************************************************************)
Ready == serving /\ phase = "idle"

\* A uuid4 the vault has not seen; UndoHistory narrows it to ids no undo step names.
NewId(n) == n \notin store.ids

\* CmdCreateNote: before the first root the view shows, or first of all roots.
CreateNote(n) ==
    /\ Ready /\ NewId(n)
    /\ \/ InsertNote(n, Null, Null, store.heads[Null])
       \/ \E first \in Siblings(store, Null) :
              InsertNote(n, Null, store.prev[first], first)

\* CmdCreateChild: the first child.
CreateChild(n, p) ==
    /\ Ready /\ NewId(n) /\ p \in store.ids
    /\ NewParentAllowed(rows, p)
    /\ InsertNote(n, p, Null, store.heads[p])

\* CmdCreateSibling: right after the reference note.
CreateSibling(n, ref) ==
    /\ Ready /\ NewId(n) /\ ref \in store.ids
    /\ NewParentAllowed(rows, store.parent[ref])
    /\ InsertNote(n, store.parent[ref], ref, store.next[ref])

\* CmdCreateFilePreviewChild: the last child.
CreateFilePreviewChild(n, p) ==
    /\ Ready /\ NewId(n) /\ p \in store.ids
    /\ NewParentAllowed(rows, p)
    /\ InsertNote(n, p, store.tails[p], Null)

\* CmdDeleteSubtree.
Delete(n) ==
    /\ Ready /\ n \in store.ids
    /\ DeleteSubtree(n)

\* CmdMove: beside another note, under that note's parent.
Move(n, sibling) ==
    /\ Ready /\ n \in store.ids /\ sibling \in store.ids \ {n}
    /\ ParentAllowed(rows, n, store.parent[sibling])
    /\ \/ /\ store.prev[sibling] # n
          /\ MoveNote(n, store.parent[sibling], store.prev[sibling], sibling)
       \/ /\ store.next[sibling] # n
          /\ MoveNote(n, store.parent[sibling], sibling, store.next[sibling])

\* CmdIndent: last under an earlier sibling, which is expanded if it was collapsed.
Indent(n, visiblePrev) ==
    /\ Ready /\ n \in store.ids /\ visiblePrev \in Siblings(store, store.parent[n])
    /\ n \in LaterSiblings(store, visiblePrev)
    /\ ParentAllowed(rows, n, visiblePrev)
    /\ LET prev == store.tails[visiblePrev]
           out == Detached(store, n, visiblePrev)
       IN  IF CanMove(n, visiblePrev, prev, Null)
           THEN /\ rows' = SetCollapsed(MoveRow(rows, n, store.prev[n], store.next[n],
                                                visiblePrev, prev, Null),
                                        visiblePrev, Expanded)
                /\ store' = SetCollapsed(LinkIn(out, n, visiblePrev, prev, Null),
                                         visiblePrev, Expanded)
                /\ Applied
           ELSE Raise

\* CmdOutdent: right after its parent.
Outdent(n) ==
    /\ Ready /\ n \in store.ids /\ store.parent[n] # Null
    /\ LET parent == store.parent[n]
       IN  MoveNote(n, store.parent[parent], parent, store.next[parent])

\* CmdMoveToTop: before the first sibling, or before the first root a search shows.
MoveToTop(n) ==
    /\ Ready /\ n \in store.ids
    /\ LET parent == store.parent[n]
       IN  \E first \in Siblings(store, parent) :
              /\ parent # Null => first = store.heads[parent]
              /\ n \in LaterSiblings(store, first)
              /\ MoveNote(n, parent, store.prev[first], first)

\* CmdMoveToBottom: after the last sibling, or after the last root a search shows.
MoveToBottom(n) ==
    /\ Ready /\ n \in store.ids
    /\ LET parent == store.parent[n]
       IN  \E last \in LaterSiblings(store, n) :
              /\ parent # Null => last = store.tails[parent]
              /\ MoveNote(n, parent, last, store.next[last])

\* CmdPrioritize: the roots a tag matches go before (or after) all other roots,
\* both keeping their order; NoteStore.move_notes validates before it publishes.
Prioritize(Matching) ==
    LET roots == Siblings(store, Null)
        Reordered(target) ==
            LET next == LinkInOrder(store, target)
            IN  /\ next # store
                /\ IF Ordered(next, next.ids)
                   THEN /\ rows' = LinkInOrder(rows, target)
                        /\ store' = Hydrated(next)
                        /\ Applied
                   ELSE Raise
    IN  /\ Ready /\ roots \cap Matching # {}
        /\ \E First \in {Matching, Notes \ Matching} :
               \E target \in Regrouped(store, roots, First) : Reordered(target)

\* CmdCollapse and CmdExpand: nothing happens when the flag is already so.
SetCollapse(n, value) ==
    /\ Ready /\ n \in store.ids /\ store.collapsed[n] # value
    /\ CollapseNote(n, value)

-----------------------------------------------------------------------------
(***************************************************************************)
(* The end of a request, and of the process.                                 *)
(***************************************************************************)
Commit ==
    /\ phase = "applied"
    /\ db' = rows
    /\ phase' = "idle"
    /\ UNCHANGED <<store, rows, serving>>

\* reload_runtime_from_database, or the first load of a started process.  When
\* the rows do not load, the store is reset and the server stays in maintenance.
Reload ==
    /\ rows' = db
    /\ phase' = "idle"
    /\ serving' = Loadable(db)
    /\ store' = Hydrated(IF Loadable(db) THEN db ELSE EmptyTable)
    /\ db' = db

\* Mutated Rollback: memory is not loaded again.
RollbackWithoutReload ==
    /\ phase \in {"applied", "raised"}
    /\ rows' = db /\ phase' = "idle"
    /\ UNCHANGED <<store, db, serving>>

\* The request fails: its command raised, or an error came after the command
\* and before the commit.
Rollback == phase \in {"applied", "raised"} /\ Reload

\* The failed request had written nothing, and memory is not loaded again.  Only
\* undo and redo come here: the commands are not asked about notes that are gone.
RollbackNothing ==
    phase = "refused" /\ phase' = "idle" /\ UNCHANGED <<store, rows, db, serving>>

\* The process stops at any time; a new one loads what was committed.
Restart == Reload

Command ==
    \/ \E n \in Notes : CreateNote(n)
    \/ \E n \in Notes, m \in Notes : CreateChild(n, m)
    \/ \E n \in Notes, m \in Notes : CreateSibling(n, m)
    \/ \E n \in Notes, m \in Notes : CreateFilePreviewChild(n, m)
    \/ \E n \in Notes : Delete(n)
    \/ \E n \in Notes, m \in Notes : Move(n, m)
    \/ \E n \in Notes, m \in Notes : Indent(n, m)
    \/ \E n \in Notes : Outdent(n)
    \/ \E n \in Notes : MoveToTop(n)
    \/ \E n \in Notes : MoveToBottom(n)
    \/ \E S \in SUBSET Notes : Prioritize(S)
    \/ \E n \in Notes, value \in BOOLEAN : SetCollapse(n, value)

StoreNext == Command \/ Commit \/ Rollback \/ Restart

StoreSpec == StoreInit /\ [][StoreNext]_storeVars

-----------------------------------------------------------------------------
(***************************************************************************)
(* Properties.                                                               *)
(***************************************************************************)

\* What is committed always loads: the hierarchy is a forest within MaxDepth and
\* every sibling list is one chain.  load_from_db raises on anything else, after
\* which the vault cannot be opened (app/services/note_store.py, load_from_db).
CommittedTreeLoads == Loadable(db)

\* Memory is what a load of the transaction's rows would build: the incremental
\* relinking of store.py and note_ordering.py and the SQL updates of the usecases
\* never disagree, on any column or on the head/tail index.
MemoryMatchesRows == serving => store = Hydrated(rows)

\* No command finds the neighbours it expects missing: the assertions of
\* note_ordering.py and the neighbour check after a move never fail.
NoAssertionFails == phase \notin {"raised", "refused"}

\* A rollback or a restart never leaves the server refusing every request.
RecoverySucceeds == serving
=============================================================================
