----------------------------- MODULE UndoHistory -----------------------------
(***************************************************************************)
(* Undo and redo on top of NoteCommands (app/services/undo_state.py).        *)
(*                                                                         *)
(* Each browser window is a client with its own history and redo stack, held  *)
(* in server memory.  A command pushes the operation that reverses it, with   *)
(* the positions it saw; undo applies the operation to whatever the vault     *)
(* has become.  A failed request gets the stacks back as they were when it    *)
(* began (request_recovery.py).                                               *)
(***************************************************************************)
EXTENDS NoteCommands

CONSTANTS
    Clients,            \* the browser windows
    UndoOperations      \* UNDO_OPERATIONS: the longest history kept

ASSUME UndoOperationsAssumption == UndoOperations \in Nat \ {0}

VARIABLES
    stacks,     \* client -> its history and redo stack, newest operation last
    captured    \* the stacks when the request began (capture_undo_state)

undoVars == <<store, rows, db, phase, serving, stacks, captured>>

-----------------------------------------------------------------------------
(***************************************************************************)
(* What an operation remembers.                                              *)
(***************************************************************************)
Place(s, n) == [parent |-> s.parent[n], prev |-> s.prev[n], next |-> s.next[n]]

RecordOf(s, n) ==
    [id |-> n, place |-> Place(s, n), collapsed |-> s.collapsed[n]]

\* _snapshot_subtree: the records of a subtree in preorder.  After a note come
\* its first child's walk and then its next sibling's.
SubtreeRecords(s, n) ==
    LET walk[m \in s.ids \cup {Null}] ==
            IF m = Null THEN << >>
            ELSE <<RecordOf(s, m)>> \o walk[s.heads[m]] \o walk[s.next[m]]
    IN  <<RecordOf(s, n)>> \o walk[s.heads[n]]

\* The order and nesting of all notes; what the history properties compare.
Order(t) == [ids |-> t.ids, parent |-> t.parent, prev |-> t.prev, next |-> t.next]

\* An operation as the code keeps it, and two auxiliary fields for the
\* properties: the order of the vault before and after the command.
Entry(op) == [op |-> op, was |-> Order(store), became |-> Order(store')]

PlaceIds(place) == {place.parent, place.prev, place.next} \ {Null}

RecordIds(r) == {r.id} \cup PlaceIds(r.place)

NotesNamed(op) ==
    CASE op.type = "create_note" -> RecordIds(op.record)
      [] op.type = "delete_subtree" -> UNION {RecordIds(op.records[i]) : i \in DOMAIN op.records}
      [] op.type = "move" -> {op.note} \cup PlaceIds(op.before) \cup PlaceIds(op.after)
      [] op.type = "collapse" -> {op.note}

NoStacks == [c \in Clients |-> [history |-> << >>, redo |-> << >>]]

KnownIds ==
    UNION {UNION {NotesNamed(entry.op) :
                     entry \in {stacks[c].history[i] : i \in DOMAIN stacks[c].history}
                          \cup {stacks[c].redo[i] : i \in DOMAIN stacks[c].redo}} :
              c \in Clients}

\* uuid4: an id is new when no note and no undo step has it.
Unused(n) == NewId(n) /\ n \notin KnownIds

-----------------------------------------------------------------------------
(***************************************************************************)
(* Recording, once the command has applied.                                  *)
(***************************************************************************)
\* Mutated Newest: a full history drops the operation just made.
Oldest(q) == IF Len(q) > UndoOperations THEN SubSeq(q, 1, UndoOperations) ELSE q

Newest(q) == IF Len(q) > UndoOperations THEN SubSeq(q, Len(q) - UndoOperations + 1, Len(q)) ELSE q

\* Mutated Record: a new operation leaves the redo stack alone.
RecordKeepingRedo(c, op) ==
    /\ stacks' = IF phase' = "applied"
                 THEN [stacks EXCEPT ![c].history = Newest(Append(@, Entry(op)))]
                 ELSE stacks
    /\ UNCHANGED captured

Record(c, op) ==
    /\ stacks' = IF phase' = "applied"
                 THEN [stacks EXCEPT ![c] =
                          [history |-> Newest(Append(stacks[c].history, Entry(op))),
                           redo |-> << >>]]
                 ELSE stacks
    /\ UNCHANGED captured

ClearStacks(c) == stacks' = [stacks EXCEPT ![c] = [history |-> << >>, redo |-> << >>]]

CreateBy(c) ==
    \E n \in Notes :
        /\ Unused(n)
        /\ \/ CreateNote(n)
           \/ \E m \in Notes :
                  CreateChild(n, m) \/ CreateSibling(n, m) \/ CreateFilePreviewChild(n, m)
        /\ Record(c, [type |-> "create_note", record |-> RecordOf(store', n)])

DeleteBy(c) ==
    \E n \in Notes :
        /\ Delete(n)
        /\ Record(c, [type |-> "delete_subtree", records |-> SubtreeRecords(store, n)])

MoveBy(c) ==
    \E n \in Notes :
        /\ \/ \E m \in Notes : Move(n, m) \/ Indent(n, m)
           \/ Outdent(n)
           \/ MoveToTop(n)
           \/ MoveToBottom(n)
        /\ Record(c, [type |-> "move", note |-> n,
                      before |-> Place(store, n), after |-> Place(store', n)])

CollapseBy(c) ==
    \E n \in Notes, value \in BOOLEAN :
        /\ SetCollapse(n, value)
        /\ Record(c, [type |-> "collapse", note |-> n, after |-> value])

\* Not undoable: CmdPrioritize resets the stacks of the window that asked.
PrioritizeBy(c) ==
    /\ \E S \in SUBSET Notes : Prioritize(S)
    /\ ClearStacks(c)
    /\ UNCHANGED captured

-----------------------------------------------------------------------------
(***************************************************************************)
(* apply_restore_records.  The rows get the anchors as they were recorded;    *)
(* the store gets them through NoteOrdering.insert, an anchor that is restored *)
(* later in the same batch left out.                                          *)
(***************************************************************************)
RestoreStep(records, done, i) ==
    LET r == records[i]
        p == r.place.parent
        Later == {records[j].id : j \in (i + 1)..Len(records)}
        added == AddNote(done.store, r.id, p, r.collapsed)
        next == IF r.place.next \in Later THEN Null ELSE r.place.next
        before == ResolvedPrev(added, p, r.place.prev, next)
        after == ResolvedNext(added, p, r.place.prev, next)
    IN  IF /\ done.ok
           /\ r.id \notin done.rows.ids      \* the primary key
           /\ NewParentAllowed(done.rows, p)
           /\ CanLinkIn(added, r.id, p, before, after)
        THEN [ok |-> TRUE,
              rows |-> InsertRow(done.rows, r.id, p, r.place.prev, r.place.next, r.collapsed),
              store |-> LinkIn(added, r.id, p, before, after)]
        ELSE [done EXCEPT !.ok = FALSE]

Restored(records) ==
    LET after[i \in 0..Len(records)] ==
            IF i = 0 THEN [ok |-> TRUE, rows |-> rows, store |-> store]
            ELSE RestoreStep(records, after[i - 1], i)
    IN  after[Len(records)]

RestoreRecords(records) ==
    LET done == Restored(records)
    IN  IF done.ok
        THEN rows' = done.rows /\ store' = done.store /\ Applied
        ELSE Raise

\* Undoing a creation focuses the note before it, or its parent.
FocusAfterUndoneCreate(r) ==
    IF r.place.prev # Null THEN r.place.prev ELSE r.place.parent

\* Repeating a deletion focuses the note after it, or the one before.
FocusAfterRedoneDelete(r) ==
    IF r.place.next # Null THEN r.place.next ELSE r.place.prev

\* The response looks up the root above the note to focus, which raises when the
\* deletion took that note along or it was gone before.
DeleteAndFocus(n, focus) ==
    IF n \in store.ids /\ focus # Null /\ focus \notin store.ids \ Subtree(store, n)
    THEN Raise
    ELSE DeleteSubtree(n)

ApplyInverse(op) ==
    CASE op.type = "create_note" ->
            DeleteAndFocus(op.record.id, FocusAfterUndoneCreate(op.record))
      [] op.type = "delete_subtree" -> RestoreRecords(op.records)
      [] op.type = "move" ->
            MoveNote(op.note, op.before.parent, op.before.prev, op.before.next)
      [] op.type = "collapse" -> CollapseNote(op.note, ~op.after)

ApplyAgain(op) ==
    CASE op.type = "create_note" -> RestoreRecords(<<op.record>>)
      [] op.type = "delete_subtree" ->
            DeleteAndFocus(op.records[1].id, FocusAfterRedoneDelete(op.records[1]))
      [] op.type = "move" ->
            MoveNote(op.note, op.after.parent, op.after.prev, op.after.next)
      [] op.type = "collapse" -> CollapseNote(op.note, op.after)

Undo(c) ==
    LET history == stacks[c].history
        entry == history[Len(history)]
    IN  /\ Ready /\ history # << >>
        /\ ApplyInverse(entry.op)
        /\ stacks' = [stacks EXCEPT ![c] =
                         [history |-> SubSeq(history, 1, Len(history) - 1),
                          redo |-> Append(stacks[c].redo, entry)]]
        /\ UNCHANGED captured

Redo(c) ==
    LET redo == stacks[c].redo
        entry == redo[Len(redo)]
    IN  /\ Ready /\ redo # << >>
        /\ ApplyAgain(entry.op)
        /\ stacks' = [stacks EXCEPT ![c] =
                         [history |-> Newest(Append(stacks[c].history, entry)),
                          redo |-> SubSeq(redo, 1, Len(redo) - 1)]]
        /\ UNCHANGED captured

-----------------------------------------------------------------------------
(***************************************************************************)
(* The stacks outside a command.                                             *)
(***************************************************************************)

\* A view or a request with another undo context (another tab, another search),
\* or the idle limit: the window's stacks are dropped.
ForgetHistory(c) ==
    /\ Ready
    /\ stacks[c] # [history |-> << >>, redo |-> << >>]
    /\ ClearStacks(c)
    /\ captured' = stacks'
    /\ UNCHANGED storeVars

CommitRequest == Commit /\ captured' = stacks /\ UNCHANGED stacks

\* Mutated RollbackRequest: the stacks keep what the failed request did to them.
RollbackRequestKeepingStacks == (Rollback \/ RollbackNothing) /\ UNCHANGED <<stacks, captured>>

RollbackRequest == (Rollback \/ RollbackNothing) /\ stacks' = captured /\ UNCHANGED captured

RestartServer == Restart /\ stacks' = NoStacks /\ captured' = NoStacks

UndoInit == StoreInit /\ stacks = NoStacks /\ captured = NoStacks

UndoNext ==
    \/ \E c \in Clients : CreateBy(c)
    \/ \E c \in Clients : DeleteBy(c)
    \/ \E c \in Clients : MoveBy(c)
    \/ \E c \in Clients : CollapseBy(c)
    \/ \E c \in Clients : PrioritizeBy(c)
    \/ \E c \in Clients : Undo(c)
    \/ \E c \in Clients : Redo(c)
    \/ \E c \in Clients : ForgetHistory(c)
    \/ CommitRequest
    \/ RollbackRequest
    \/ RestartServer

UndoSpec == UndoInit /\ [][UndoNext]_undoVars

-----------------------------------------------------------------------------
(***************************************************************************)
(* Properties.                                                               *)
(***************************************************************************)
NewestEntry(q) == q[Len(q)]

Undone(c) ==
    /\ phase = "idle" /\ phase' = "applied"
    /\ stacks[c].history # << >> /\ stacks'[c].redo # << >>
    /\ Len(stacks'[c].redo) = Len(stacks[c].redo) + 1

Redone(c) ==
    /\ phase = "idle" /\ phase' = "applied"
    /\ stacks[c].redo # << >>
    /\ Len(stacks'[c].redo) = Len(stacks[c].redo) - 1
    /\ Len(stacks'[c].history) > 0
    /\ NewestEntry(stacks'[c].history) = NewestEntry(stacks[c].redo)

\* Undo gives back exactly the order and nesting the vault had before the command
\* it reverses, whatever was undone, redone, failed and rolled back in between.
UndoRestoresOrder ==
    [][\A c \in Clients :
          Undone(c) => Order(store') = NewestEntry(stacks[c].history).was]_undoVars

\* Redo gives back exactly the order and nesting the command had produced.
RedoRestoresOrder ==
    [][\A c \in Clients :
          Redone(c) => Order(store') = NewestEntry(stacks[c].redo).became]_undoVars

\* In memory the hierarchy stays a forest of single chains with a matching index,
\* even when an operation is undone in a vault another window has changed.
MemoryStaysOrdered ==
    /\ HierarchyValid(store)
    /\ Ordered(store, store.ids)
    /\ IndexMatches(store, store.ids)
=============================================================================
