------------------------ MODULE UndoHistory_proofs --------------------------
(***************************************************************************)
(* What undo and redo keep true of the hierarchy in memory, in every vault   *)
(* and with any number of windows.                                           *)
(*                                                                         *)
(* An undo applies a remembered operation to whatever the vault has become,   *)
(* so nothing is known of the places it names; and a restored row keeps the   *)
(* anchors it was recorded with, so rows and store may differ in their links. *)
(* What is left of the invariant of NoteCommands is that the store is sound   *)
(* and that the rows have its notes and its nesting, from which the database  *)
(* checks of a parent are answered.                                          *)
(*                                                                         *)
(* With one window only, everything NoteCommands promises holds beside undo   *)
(* and redo too, and each gives back exactly the order it should.             *)
(***************************************************************************)
EXTENDS UndoHistory, NoteCommands_proofs, SequenceTheorems

-----------------------------------------------------------------------------
(***************************************************************************)
(* Each apply_* function keeps the store sound and the rows nested like it,  *)
(* whatever places it is given.                                              *)
(***************************************************************************)
TreeInv == TypeOK /\ Sound(store) /\ SameTree

\* insert, wherever its own checks let it: the anchors it accepts are a gap.
LEMMA LinkInSound ==
  ASSUME NEW s, Sound(s), NEW n \in Notes \ s.ids, NEW p \in NoteOrNull, NEW c \in BOOLEAN,
         NewParentAllowed(s, p), NEW added, added = AddNote(s, n, p, c),
         NEW prev, NEW next, NEW before, NEW after,
         before = ResolvedPrev(added, p, prev, next), after = ResolvedNext(added, p, prev, next),
         CanLinkIn(added, n, p, before, after)
  PROVE  LET linked == LinkIn(added, n, p, before, after)
         IN  /\ Sound(linked)
             /\ linked.ids = s.ids \cup {n} /\ linked.parent = [s.parent EXCEPT ![n] = p]
             /\ before \in NoteOrNull /\ after \in NoteOrNull
<1> DEFINE linked == LinkIn(added, n, p, before, after)
<1>1. /\ s \in Stores /\ s.ids \in SUBSET Notes /\ HierarchyValid(s)
      /\ Ordered(s, s.ids) /\ IndexMatches(s, s.ids) /\ Null \notin Notes
  BY NullAssumption DEF Sound, Stores
<1>2. added \in Stores
  BY <1>1, AddNoteType
<1>3. /\ added.ids = s.ids \cup {n} /\ added.parent = [s.parent EXCEPT ![n] = p]
      /\ added.prev = s.prev /\ added.next = s.next
      /\ added.heads = s.heads /\ added.tails = s.tails
  BY <1>1 DEF AddNote, Stores
<1>4. added.parent[n] = p /\ \A m \in s.ids : added.parent[m] = s.parent[m]
  BY <1>1, <1>3 DEF Stores
<1>5. Ordered(added, s.ids)
  BY <1>1, <1>3, <1>4 DEF Ordered, Reciprocal, SingleBoundaries, NoRings
<1>6. IndexMatches(added, s.ids)
  <2>1. \A q \in NoteOrNull : {m \in s.ids : added.parent[m] = q} = {m \in s.ids : s.parent[m] = q}
    BY <1>4
  <2>2. QED
    BY <1>1, <1>3, <2>1 DEF IndexMatches
<1>7. before \in NoteOrNull /\ after \in NoteOrNull
  BY <1>1, <1>3 DEF CanLinkIn, NoteOrNull
<1>8. Gap(added, s.ids, p, before, after)
  <2>1. /\ before # Null => /\ before \in s.ids /\ added.parent[before] = p
                            /\ added.next[before] = after
        /\ after # Null => /\ after \in s.ids /\ added.parent[after] = p
                           /\ added.prev[after] = before
    BY <1>3 DEF CanLinkIn
  <2>2. ASSUME before = Null, after = Null PROVE added.tails[p] = Null
    BY <2>2 DEF ResolvedPrev, ResolvedNext
  <2>3. ASSUME added.tails[p] = Null PROVE \A m \in s.ids : added.parent[m] # p
    BY <1>1, <1>6, <2>3 DEF IndexMatches
  <2>4. QED
    BY <2>1, <2>2, <2>3 DEF Gap
<1>9. Ordered(linked, s.ids \cup {n}) /\ IndexMatches(linked, s.ids \cup {n})
  BY <1>1, <1>2, <1>4, <1>5, <1>6, <1>7, <1>8, LinkInOrdered, LinkInIndex
<1>10. linked \in Stores /\ linked.ids = added.ids /\ linked.parent = added.parent
  <2>1. linked \in Stores
    BY <1>2, <1>7, LinkInType
  <2>2. linked.ids = added.ids /\ linked.parent = added.parent
    <3>1. ASSUME NEW u, u = linked PROVE u.ids = added.ids /\ u.parent = added.parent
      BY <1>2, <1>7, <3>1, LinkInFields
    <3>2. QED
      BY <3>1
  <2>3. QED
    BY <2>1, <2>2
<1> HIDE DEF linked
<1>11. HierarchyValid(linked)
  <2>1. /\ linked.ids = s.ids \cup {n} /\ linked.parent[n] = p
        /\ \A m \in s.ids : linked.parent[m] = s.parent[m]
    BY <1>3, <1>4, <1>10
  <2>2. QED
    BY <1>1, <2>1, HierarchyWithNew
<1>12. QED
  BY <1>3, <1>7, <1>9, <1>10, <1>11 DEF Sound, linked

\* A move leaves the notes and changes one parent, in the store and in the rows.
LEMMA MovedTree ==
  ASSUME NEW s \in Stores, NEW n \in Notes, NEW p \in NoteOrNull,
         NEW prev \in NoteOrNull, NEW next \in NoteOrNull,
         NEW u, u = LinkIn(Detached(s, n, p), n, p, prev, next)
  PROVE  u.ids = s.ids /\ u.parent = [s.parent EXCEPT ![n] = p]
<1>1. Detached(s, n, p) \in Stores
  BY DetachedType
<1> DEFINE out == LinkOut(s, n)
<1>2. out \in Stores /\ out.ids = s.ids /\ out.parent = s.parent
  BY LinkOutType, LinkOutFields
<1> HIDE DEF out
<1>3. Detached(s, n, p).ids = s.ids /\ Detached(s, n, p).parent = [s.parent EXCEPT ![n] = p]
  BY <1>2 DEF Detached, Stores, out
<1>4. QED
  BY <1>1, <1>3, LinkInFields

\* The SQL statements, read for the ids and parents they leave.
LEMMA UpdatedTree ==
  ASSUME NEW t \in Tables, NEW n, NEW value
  PROVE  /\ UpdatePrev(t, n, value).ids = t.ids /\ UpdatePrev(t, n, value).parent = t.parent
         /\ UpdateNext(t, n, value).ids = t.ids /\ UpdateNext(t, n, value).parent = t.parent
BY UpdateFields

\* INSERT adds the note under the parent.
LEMMA InsertedRowTree ==
  ASSUME NEW t \in Tables, NEW n \in Notes, NEW p \in NoteOrNull,
         NEW prev \in NoteOrNull, NEW next \in NoteOrNull, NEW c \in BOOLEAN
  PROVE  LET u == InsertRow(t, n, p, prev, next, c)
         IN  u.ids = t.ids \cup {n} /\ u.parent = [t.parent EXCEPT ![n] = p]
<1> DEFINE row == [AddNote(t, n, p, c) EXCEPT !.prev = [@ EXCEPT ![n] = prev],
                                              !.next = [@ EXCEPT ![n] = next]]
           v == UpdateNext(row, prev, n)
<1>1. row \in Tables /\ row.ids = t.ids \cup {n} /\ row.parent = [t.parent EXCEPT ![n] = p]
  BY DEF AddNote, Tables
<1>2. n \in NoteOrNull
  BY DEF NoteOrNull
<1> HIDE DEF row
<1>3. v \in Tables /\ v.ids = row.ids /\ v.parent = row.parent
  BY <1>1, <1>2, UpdateType, UpdatedTree
<1> HIDE DEF v
<1>4. UpdatePrev(v, next, n).ids = v.ids /\ UpdatePrev(v, next, n).parent = v.parent
  BY <1>3, UpdatedTree
<1>5. QED
  BY <1>1, <1>3, <1>4 DEF InsertRow, row, v

\* A move changes one parent.
LEMMA MovedRowTree ==
  ASSUME NEW t \in Tables, NEW s \in Stores, NEW n \in Notes, NEW p \in NoteOrNull,
         NEW prev \in NoteOrNull, NEW next \in NoteOrNull
  PROVE  /\ MoveRow(t, n, s.prev[n], s.next[n], p, prev, next).ids = t.ids
         /\ MoveRow(t, n, s.prev[n], s.next[n], p, prev, next).parent = [t.parent EXCEPT ![n] = p]
<1> DEFINE oldPrev == s.prev[n]
           oldNext == s.next[n]
           open == UpdateNext(t, oldPrev, oldNext)
           closed == UpdatePrev(open, oldNext, oldPrev)
           placed == [closed EXCEPT !.parent = [@ EXCEPT ![n] = p],
                                    !.prev = [@ EXCEPT ![n] = prev],
                                    !.next = [@ EXCEPT ![n] = next]]
           v == UpdateNext(placed, prev, n)
<1>0. oldPrev \in NoteOrNull /\ oldNext \in NoteOrNull
  BY DEF Stores
<1> HIDE DEF oldPrev, oldNext
<1>1. open \in Tables /\ open.ids = t.ids /\ open.parent = t.parent
  BY <1>0, UpdateType, UpdatedTree
<1> HIDE DEF open
<1>2. closed \in Tables /\ closed.ids = t.ids /\ closed.parent = t.parent
  BY <1>0, <1>1, UpdateType, UpdatedTree
<1> HIDE DEF closed
<1>3. placed \in Tables /\ placed.ids = t.ids /\ placed.parent = [t.parent EXCEPT ![n] = p]
  BY <1>2 DEF Tables
<1>4. n \in NoteOrNull
  BY DEF NoteOrNull
<1> HIDE DEF placed
<1>5. v \in Tables /\ v.ids = placed.ids /\ v.parent = placed.parent
  BY <1>3, <1>4, UpdateType, UpdatedTree
<1> HIDE DEF v
<1>6. UpdatePrev(v, next, n).ids = v.ids /\ UpdatePrev(v, next, n).parent = v.parent
  BY <1>5, UpdatedTree
<1>7. QED
  BY <1>3, <1>5, <1>6 DEF MoveRow, v, placed, closed, open, oldPrev, oldNext

\* DELETE takes the notes and resets their columns.
LEMMA DeletedRowsTree ==
  ASSUME NEW t \in Tables, NEW s \in Stores, NEW n \in Notes, NEW D
  PROVE  /\ DeleteRows(t, D, s.prev[n], s.next[n]).ids = t.ids \ D
         /\ DeleteRows(t, D, s.prev[n], s.next[n]).parent
              = [m \in Notes |-> IF m \in D THEN Null ELSE t.parent[m]]
<1> DEFINE oldPrev == s.prev[n]
           oldNext == s.next[n]
           open == UpdateNext(t, oldPrev, oldNext)
           closed == UpdatePrev(open, oldNext, oldPrev)
<1>0. oldPrev \in NoteOrNull /\ oldNext \in NoteOrNull
  BY DEF Stores
<1> HIDE DEF oldPrev, oldNext
<1>1. open \in Tables /\ open.ids = t.ids /\ open.parent = t.parent
  BY <1>0, UpdateType, UpdatedTree
<1> HIDE DEF open
<1>2. closed \in Tables /\ closed.ids = t.ids /\ closed.parent = t.parent
  BY <1>0, <1>1, UpdateType, UpdatedTree
<1> HIDE DEF closed
<1>3. /\ DropNotes(closed, D).ids = t.ids \ D
      /\ DropNotes(closed, D).parent = [m \in Notes |-> IF m \in D THEN Null ELSE t.parent[m]]
  BY <1>2 DEF DropNotes, Tables
<1>4. QED
  BY <1>3 DEF DeleteRows, closed, open, oldPrev, oldNext

\* Rows that are nested like the store answer validate_database_parent as it would.
LEMMA SameAnswers ==
  ASSUME NEW t, NEW s, t.ids = s.ids, t.parent = s.parent, NEW p
  PROVE  NewParentAllowed(t, p) <=> NewParentAllowed(s, p)
BY SameHierarchy DEF NewParentAllowed

\* apply_insert_note.
LEMMA InsertNoteTree ==
  ASSUME TreeInv, NEW n \in Notes \ store.ids, NEW p \in NoteOrNull, NewParentAllowed(rows, p),
         NEW prev \in NoteOrNull, NEW next \in NoteOrNull, InsertNote(n, p, prev, next)
  PROVE  TreeInv'
<1> DEFINE added == AddNote(store, n, p, Expanded)
           near == NextAfter(store, p, prev)
           before == ResolvedPrev(added, p, prev, near)
           after == ResolvedNext(added, p, prev, near)
<1>1. TypeOK'
  BY InsertNoteType DEF TreeInv
<1>2. CASE CanLinkIn(added, n, p, before, after)
  <2> DEFINE linked == LinkIn(added, n, p, before, after)
  <2>1. rows' = InsertRow(rows, n, p, prev, next, Expanded) /\ store' = linked
    BY <1>2 DEF InsertNote
  <2>2. NewParentAllowed(store, p)
    BY SameAnswers DEF TreeInv, SameTree
  <2>3. /\ Sound(linked) /\ linked.ids = store.ids \cup {n}
        /\ linked.parent = [store.parent EXCEPT ![n] = p]
    <3> HIDE DEF added, near
    <3>1. added = AddNote(store, n, p, Expanded)
      BY DEF added
    <3> HIDE DEF before, after
    <3>2. before = ResolvedPrev(added, p, prev, near) /\ after = ResolvedNext(added, p, prev, near)
      BY DEF before, after
    <3>3. QED
      BY <1>2, <2>2, <3>1, <3>2, ExpandedType, LinkInSound DEF TreeInv
  <2>4. rows'.ids = rows.ids \cup {n} /\ rows'.parent = [rows.parent EXCEPT ![n] = p]
    BY <2>1, ExpandedType, InsertedRowTree DEF TreeInv, TypeOK
  <2> HIDE DEF linked
  <2>5. QED
    BY <1>1, <2>1, <2>3, <2>4 DEF TreeInv, SameTree
<1>3. CASE ~CanLinkIn(added, n, p, before, after)
  BY <1>1, <1>3 DEF InsertNote, Raise, TreeInv, SameTree
<1>4. QED
  BY <1>2, <1>3

\* MoveNote and Indent make the same two changes.
LEMMA MovedBoth ==
  ASSUME TreeInv, NEW n \in store.ids, NEW p \in NoteOrNull,
         NEW prev \in NoteOrNull, NEW next \in NoteOrNull, CanMove(n, p, prev, next),
         NEW moved, moved = MoveRow(rows, n, store.prev[n], store.next[n], p, prev, next),
         NEW linked, linked = LinkIn(Detached(store, n, p), n, p, prev, next)
  PROVE  Sound(linked) /\ moved.ids = linked.ids /\ moved.parent = linked.parent
<1>1. /\ n \in Notes /\ store \in Stores /\ rows \in Tables
      /\ store.prev[n] \in NoteOrNull /\ store.next[n] \in NoteOrNull
  BY DEF TreeInv, TypeOK, Stores
<1>2. Sound(linked)
  BY <1>1, MoveSound DEF TreeInv
<1>3. linked.ids = store.ids /\ linked.parent = [store.parent EXCEPT ![n] = p]
  BY <1>1, MovedTree
<1>4. moved.ids = rows.ids /\ moved.parent = [rows.parent EXCEPT ![n] = p]
  BY <1>1, MovedRowTree
<1>5. QED
  BY <1>2, <1>3, <1>4 DEF TreeInv, SameTree

\* apply_move.
LEMMA MoveNoteTree ==
  ASSUME TreeInv, NEW n \in Notes, NEW p \in NoteOrNull,
         NEW prev \in NoteOrNull, NEW next \in NoteOrNull, MoveNote(n, p, prev, next)
  PROVE  TreeInv'
<1>1. TypeOK'
  BY MoveNoteType DEF TreeInv
<1>2. CASE n \in store.ids /\ CanMove(n, p, prev, next)
  <2>1. /\ rows' = MoveRow(rows, n, store.prev[n], store.next[n], p, prev, next)
        /\ store' = LinkIn(Detached(store, n, p), n, p, prev, next)
    BY <1>2 DEF MoveNote
  <2>2. Sound(store') /\ rows'.ids = store'.ids /\ rows'.parent = store'.parent
    BY <1>2, <2>1, MovedBoth
  <2>3. QED
    BY <1>1, <2>2 DEF TreeInv, SameTree
<1>3. CASE ~(n \in store.ids /\ CanMove(n, p, prev, next))
  BY <1>1, <1>3 DEF MoveNote, Raise, Refuse, TreeInv, SameTree
<1>4. QED
  BY <1>2, <1>3

\* The flag is on no link and on no parent.
LEMMA FoldedTree ==
  ASSUME NEW s, Sound(s), NEW t \in Tables, t.ids = s.ids, t.parent = s.parent,
         NEW n \in Notes, NEW c \in BOOLEAN
  PROVE  /\ Sound(SetCollapsed(s, n, c))
         /\ SetCollapsed(t, n, c).ids = SetCollapsed(s, n, c).ids
         /\ SetCollapsed(t, n, c).parent = SetCollapsed(s, n, c).parent
<1>1. Sound(SetCollapsed(s, n, c))
  BY SetCollapsedSound
<1>2. SetCollapsed(s, n, c).ids = s.ids /\ SetCollapsed(s, n, c).parent = s.parent
  BY DEF SetCollapsed, Sound, Stores
<1>3. SetCollapsed(t, n, c).ids = t.ids /\ SetCollapsed(t, n, c).parent = t.parent
  BY DEF SetCollapsed, Tables
<1>4. QED
  BY <1>1, <1>2, <1>3

\* apply_set_collapse.
LEMMA CollapseNoteTree ==
  ASSUME TreeInv, NEW n \in Notes, NEW c \in BOOLEAN, CollapseNote(n, c)
  PROVE  TreeInv'
<1>1. CASE n \in store.ids
  <2>1. /\ rows' = SetCollapsed(rows, n, c) /\ store' = SetCollapsed(store, n, c) /\ Applied
    BY <1>1 DEF CollapseNote
  <2>2. TypeOK'
    BY <2>1, SetCollapsedType DEF TreeInv, TypeOK, Applied, Phases
  <2>3. Sound(store') /\ rows'.ids = store'.ids /\ rows'.parent = store'.parent
    BY <2>1, FoldedTree DEF TreeInv, TypeOK, SameTree
  <2>4. QED
    BY <2>2, <2>3 DEF TreeInv, SameTree
<1>2. CASE n \notin store.ids
  BY <1>2 DEF CollapseNote, Refuse, TreeInv, TypeOK, Phases, SameTree
<1>3. QED
  BY <1>1, <1>2

\* An indent moves the note and unfolds its new parent.
LEMMA IndentTree ==
  ASSUME TreeInv, NEW n \in Notes, NEW m \in Notes, Indent(n, m)
  PROVE  TreeInv'
<1> DEFINE prev == store.tails[m]
           linked == LinkIn(Detached(store, n, m), n, m, prev, Null)
           moved == MoveRow(rows, n, store.prev[n], store.next[n], m, prev, Null)
<1>1. TypeOK'
  BY IndentType DEF TreeInv
<1>2. m \in NoteOrNull /\ Null \in NoteOrNull /\ prev \in NoteOrNull /\ n \in store.ids
  BY DEF TreeInv, Sound, Stores, NoteOrNull, Indent
<1>3. CASE CanMove(n, m, prev, Null)
  <2>1. Sound(linked) /\ moved.ids = linked.ids /\ moved.parent = linked.parent
    BY <1>2, <1>3, MovedBoth
  <2>2. rows' = SetCollapsed(moved, m, Expanded) /\ store' = SetCollapsed(linked, m, Expanded)
    BY <1>3 DEF Indent
  <2>3. moved \in Tables
    BY <1>2, MoveRowType DEF TreeInv, TypeOK, Stores
  <2> HIDE DEF linked, moved
  <2>4. Sound(store') /\ rows'.ids = store'.ids /\ rows'.parent = store'.parent
    BY <2>1, <2>2, <2>3, FoldedTree, ExpandedType
  <2>5. QED
    BY <1>1, <2>4 DEF TreeInv, SameTree
<1>4. CASE ~CanMove(n, m, prev, Null)
  BY <1>1, <1>4 DEF Indent, Raise, TreeInv, SameTree
<1>5. QED
  BY <1>3, <1>4

\* apply_delete_subtree.
LEMMA DeleteSubtreeTree ==
  ASSUME TreeInv, NEW n, DeleteSubtree(n)
  PROVE  TreeInv'
<1>1. CASE n \in store.ids /\ CanLinkOut(store, n)
  <2> DEFINE D == Subtree(store, n)
             left == DropLists(DropNotes(LinkOut(store, n), D), D)
  <2>1. rows' = DeleteRows(rows, D, store.prev[n], store.next[n]) /\ store' = left
    BY <1>1 DEF DeleteSubtree
  <2>2. /\ Sound(left) /\ left.ids = store.ids \ D
        /\ left.parent = [m \in Notes |-> IF m \in D THEN Null ELSE store.parent[m]]
    BY <1>1, DeleteSound DEF TreeInv
  <2>3. n \in Notes /\ store.prev[n] \in NoteOrNull /\ store.next[n] \in NoteOrNull
    BY <1>1 DEF TreeInv, Sound, Stores
  <2>4. TypeOK'
    BY <2>3, DeleteSubtreeType DEF TreeInv
  <2> HIDE DEF left, D
  <2>5. /\ rows'.ids = rows.ids \ D
        /\ rows'.parent = [m \in Notes |-> IF m \in D THEN Null ELSE rows.parent[m]]
    <3> DEFINE kept == DeleteRows(rows, D, store.prev[n], store.next[n])
    <3>1. rows \in Tables /\ store \in Stores /\ n \in Notes
      BY <2>3 DEF TreeInv, TypeOK
    <3>2. /\ kept.ids = rows.ids \ D
          /\ kept.parent = [m \in Notes |-> IF m \in D THEN Null ELSE rows.parent[m]]
      BY <3>1, DeletedRowsTree
    <3>3. rows' = kept
      BY <2>1
    <3> HIDE DEF kept
    <3>4. QED
      BY <3>2, <3>3
  <2>6. QED
    BY <2>1, <2>2, <2>4, <2>5 DEF TreeInv, SameTree
<1>2. CASE ~(n \in store.ids /\ CanLinkOut(store, n))
  BY <1>2 DEF DeleteSubtree, Raise, Refuse, TreeInv, TypeOK, Phases, SameTree
<1>3. QED
  BY <1>1, <1>2

\* CmdPrioritize gives the roots a new order.
LEMMA PrioritizeTree ==
  ASSUME TreeInv, NEW S \in SUBSET Notes, Prioritize(S)
  PROVE  TreeInv'
<1> DEFINE roots == Siblings(store, Null)
<1>1. TypeOK'
  BY PrioritizeType DEF TreeInv
<1>2. roots \in SUBSET Notes
  BY DEF Siblings, TreeInv, Sound, Stores
<1>3. PICK q \in Orders(roots) :
        \/ /\ Ordered(LinkInOrder(store, q), LinkInOrder(store, q).ids)
           /\ rows' = LinkInOrder(rows, q)
           /\ store' = Hydrated(LinkInOrder(store, q))
        \/ Raise
  BY DEF Prioritize, Regrouped
<1> DEFINE next == LinkInOrder(store, q)
<1>4. CASE Raise
  BY <1>1, <1>4 DEF Raise, TreeInv, SameTree
<1>5. CASE Ordered(next, next.ids) /\ rows' = LinkInOrder(rows, q) /\ store' = Hydrated(next)
  <2> HIDE DEF next, roots
  <2>1. next = LinkInOrder(store, q)
    BY DEF next
  <2>2. Sound(Hydrated(next)) /\ next.ids = store.ids /\ next.parent = store.parent
    BY <1>2, <1>5, <2>1, ReorderSound DEF TreeInv
  <2>3. store'.ids = store.ids /\ store'.parent = store.parent
    BY <1>5, <2>2 DEF Hydrated
  <2>4. rows'.ids = rows.ids /\ rows'.parent = rows.parent
    BY <1>5 DEF LinkInOrder, TreeInv, TypeOK, Tables
  <2>5. QED
    BY <1>1, <1>5, <2>2, <2>3, <2>4 DEF TreeInv, SameTree
<1>6. QED
  BY <1>3, <1>4, <1>5

\* The commands.
LEMMA CommandTree ==
  ASSUME TreeInv, Command
  PROVE  TreeInv'
<1>1. /\ \A x \in Notes : /\ x \in NoteOrNull /\ store.parent[x] \in NoteOrNull
                          /\ store.prev[x] \in NoteOrNull /\ store.next[x] \in NoteOrNull
      /\ \A x \in NoteOrNull : store.heads[x] \in NoteOrNull /\ store.tails[x] \in NoteOrNull
      /\ store.ids \subseteq Notes /\ Null \in NoteOrNull
  BY DEF TreeInv, Sound, Stores, NoteOrNull
<1>2. ASSUME NEW n \in Notes, CreateNote(n) PROVE TreeInv'
  <2>1. NewParentAllowed(rows, Null)
    BY MaxDepthAssumption DEF NewParentAllowed, DepthOf
  <2>2. n \in Notes \ store.ids
    BY <1>2 DEF CreateNote, NewId
  <2>3. CASE InsertNote(n, Null, Null, store.heads[Null])
    BY <1>1, <2>1, <2>2, <2>3, InsertNoteTree
  <2>4. CASE \E first \in Siblings(store, Null) : InsertNote(n, Null, store.prev[first], first)
    <3>1. PICK first \in Siblings(store, Null) : InsertNote(n, Null, store.prev[first], first)
      BY <2>4
    <3>2. first \in Notes
      BY <1>1 DEF Siblings
    <3>3. QED
      BY <1>1, <2>1, <2>2, <3>1, <3>2, InsertNoteTree
  <2>5. QED
    BY <1>2, <2>3, <2>4 DEF CreateNote
<1>3. ASSUME NEW n \in Notes, NEW m \in Notes,
             CreateChild(n, m) \/ CreateSibling(n, m) \/ CreateFilePreviewChild(n, m)
      PROVE  TreeInv'
  <2>1. n \in Notes \ store.ids
    BY <1>3 DEF CreateChild, CreateSibling, CreateFilePreviewChild, NewId
  <2>2. CASE CreateChild(n, m)
    BY <1>1, <2>1, <2>2, InsertNoteTree DEF CreateChild
  <2>3. CASE CreateSibling(n, m)
    BY <1>1, <2>1, <2>3, InsertNoteTree DEF CreateSibling
  <2>4. CASE CreateFilePreviewChild(n, m)
    BY <1>1, <2>1, <2>4, InsertNoteTree DEF CreateFilePreviewChild
  <2>5. QED
    BY <1>3, <2>2, <2>3, <2>4
<1>4. ASSUME NEW n \in Notes, Delete(n) PROVE TreeInv'
  BY <1>4, DeleteSubtreeTree DEF Delete
<1>5. ASSUME NEW n \in Notes, NEW m \in Notes, Move(n, m) PROVE TreeInv'
  <2>1. \/ MoveNote(n, store.parent[m], store.prev[m], m)
        \/ MoveNote(n, store.parent[m], m, store.next[m])
    BY <1>5 DEF Move
  <2>2. QED
    BY <1>1, <2>1, MoveNoteTree
<1>6. ASSUME NEW n \in Notes, NEW m \in Notes, Indent(n, m) PROVE TreeInv'
  BY <1>6, IndentTree
<1>7. ASSUME NEW n \in Notes, Outdent(n) PROVE TreeInv'
  <2>1. store.parent[n] \in Notes
    BY <1>1, <1>7 DEF Outdent, NoteOrNull
  <2>2. MoveNote(n, store.parent[store.parent[n]], store.parent[n], store.next[store.parent[n]])
    BY <1>7 DEF Outdent
  <2>3. QED
    BY <1>1, <2>1, <2>2, MoveNoteTree
<1>8. ASSUME NEW n \in Notes, MoveToTop(n) PROVE TreeInv'
  <2>1. PICK first \in Siblings(store, store.parent[n]) :
               MoveNote(n, store.parent[n], store.prev[first], first)
    BY <1>8 DEF MoveToTop
  <2>2. first \in Notes
    BY <1>1 DEF Siblings
  <2>3. QED
    BY <1>1, <2>1, <2>2, MoveNoteTree
<1>9. ASSUME NEW n \in Notes, MoveToBottom(n) PROVE TreeInv'
  <2>1. PICK last \in LaterSiblings(store, n) :
               MoveNote(n, store.parent[n], last, store.next[last])
    BY <1>9 DEF MoveToBottom
  <2>2. last \in Notes
    BY <1>1 DEF LaterSiblings
  <2>3. QED
    BY <1>1, <2>1, <2>2, MoveNoteTree
<1>10. ASSUME NEW S \in SUBSET Notes, Prioritize(S) PROVE TreeInv'
  BY <1>10, PrioritizeTree
<1>11. ASSUME NEW n \in Notes, NEW c \in BOOLEAN, SetCollapse(n, c) PROVE TreeInv'
  BY <1>11, CollapseNoteTree DEF SetCollapse
<1>12. QED
  BY <1>2, <1>3, <1>4, <1>5, <1>6, <1>7, <1>8, <1>9, <1>10, <1>11 DEF Command

-----------------------------------------------------------------------------
(***************************************************************************)
(* What the stacks hold.                                                     *)
(***************************************************************************)
Places == [parent : NoteOrNull, prev : NoteOrNull, next : NoteOrNull]

Records == [id : Notes, place : Places, collapsed : BOOLEAN]

Operations ==
    [type : {"create_note"}, record : Records]
      \cup [type : {"delete_subtree"}, records : Seq(Records)]
      \cup [type : {"move"}, note : Notes, before : Places, after : Places]
      \cup [type : {"collapse"}, note : Notes, after : BOOLEAN]

Orderings ==
    [ids : SUBSET Notes, parent : [Notes -> NoteOrNull],
     prev : [Notes -> NoteOrNull], next : [Notes -> NoteOrNull]]

Entries == [op : Operations, was : Orderings, became : Orderings]

StacksFit(all) == all \in [Clients -> [history : Seq(Entries), redo : Seq(Entries)]]

\* A record is what the store says of the note.
LEMMA RecordType ==
  ASSUME NEW s \in Stores, NEW n \in Notes
  PROVE  Place(s, n) \in Places /\ RecordOf(s, n) \in Records
BY DEF Stores, Place, RecordOf, Places, Records

\* A set of numbers has a least member.
LEMMA LeastNumber ==
  ASSUME NEW S \in SUBSET Nat, S # {}
  PROVE  \E i \in S : \A j \in S : i <= j
<1>1. PICK i \in S : \A j \in S : <<j, i>> \notin OpToRel(<, Nat)
  BY NatLessThanWellFounded, WFMin
<1>2. \A j \in S : ~(j < i)
  BY <1>1, Zenon DEF OpToRel
<1>3. QED
  BY <1>2

-----------------------------------------------------------------------------
(***************************************************************************)
(* The walk of _snapshot_subtree ends: wherever it has not been yet, there is *)
(* a note whose first child and next sibling are both behind it (the last of  *)
(* the deepest).  So the recursion of SubtreeRecords has a solution, and      *)
(* every solution is made of records.                                        *)
(***************************************************************************)
\* The last of the deepest notes of any set.
LEMMA LastOfDeepest ==
  ASSUME NEW s, Sound(s), NEW S \in SUBSET s.ids, S # {}
  PROVE  \E m \in S : s.heads[m] \notin S /\ s.next[m] \notin S
<1> DEFINE d == Depths(s)
           Reached == {d[m] : m \in S}
<1>1. /\ s \in Stores /\ s.ids \in SUBSET Notes /\ HierarchyValid(s) /\ Ordered(s, s.ids)
      /\ IndexMatches(s, s.ids) /\ Null \notin Notes
  BY NullAssumption DEF Sound, Stores
<1>2. d \in [s.ids -> 1..MaxDepth] /\ IsDepthMap(s, d)
  BY <1>1, DepthsDefined
<1>3. \A m \in s.ids : s.parent[m] # Null => s.parent[m] \in s.ids
  BY <1>1 DEF HierarchyValid
<1> HIDE DEF d
<1>4. Reached \in SUBSET (1..MaxDepth) /\ Reached # {}
  BY <1>2
<1>5. PICK k \in Reached : \A j \in Reached : j <= k
  <2> HIDE DEF Reached
  <2>1. MaxDepth \in Nat
    BY MaxDepthAssumption
  <2>2. QED
    BY <1>4, <2>1, LeastAndGreatest
<1> DEFINE Deepest == {m \in S : d[m] = k}
<1>6. Deepest \in SUBSET s.ids /\ Deepest # {}
  BY <1>5
<1>7. PICK m \in Deepest : s.next[m] \notin Deepest
  <2> HIDE DEF Deepest
  <2>1. QED
    BY <1>1, <1>6 DEF Ordered, NoRings
<1>8. m \in S /\ m \in s.ids /\ d[m] = k
  OBVIOUS
<1>9. s.next[m] \notin S
  <2> SUFFICES ASSUME s.next[m] \in S PROVE FALSE
    OBVIOUS
  <2>1. s.next[m] \in s.ids /\ s.next[m] # Null /\ s.parent[s.next[m]] = s.parent[m]
    BY <1>1, <1>8 DEF Ordered, Reciprocal
  <2>2. d[s.next[m]] = d[m]
    BY <1>2, <1>8, <2>1 DEF IsDepthMap
  <2>3. QED
    BY <1>7, <1>8, <2>2
<1>10. s.heads[m] \notin S
  <2> SUFFICES ASSUME s.heads[m] \in S PROVE FALSE
    OBVIOUS
  <2>1. m \in NoteOrNull /\ s.heads[m] # Null /\ m # Null
    BY <1>1, <1>8 DEF NoteOrNull
  <2>2. s.heads[m] \in s.ids /\ s.parent[s.heads[m]] = m
    BY <1>1, <2>1 DEF IndexMatches
  <2>3. d[s.heads[m]] = d[m] + 1
    BY <1>2, <2>1, <2>2 DEF IsDepthMap
  <2>4. d[s.heads[m]] <= k
    BY <1>5
  <2>5. d[m] \in 1..MaxDepth /\ MaxDepth \in Nat
    BY <1>2, <1>8, MaxDepthAssumption
  <2>6. QED
    BY <1>8, <2>3, <2>4, <2>5
<1>11. QED
  BY <1>8, <1>9, <1>10

\* Where the walk goes on from a note of the store is in the store or nowhere.
LEMMA WalkStays ==
  ASSUME NEW s, Sound(s), NEW m \in s.ids
  PROVE  s.heads[m] \in s.ids \cup {Null} /\ s.next[m] \in s.ids \cup {Null}
<1>1. m \in NoteOrNull
  BY DEF Sound, Stores, NoteOrNull
<1>2. s.heads[m] \in s.ids \cup {Null}
  BY <1>1 DEF Sound, IndexMatches
<1>3. s.next[m] \in s.ids \cup {Null}
  BY DEF Sound, Ordered, Reciprocal
<1>4. QED
  BY <1>2, <1>3

\* One step of the walk, with f for what comes after.
WalkFrom(s, f, m) ==
    IF m = Null THEN << >> ELSE <<RecordOf(s, m)>> \o f[s.heads[m]] \o f[s.next[m]]

\* Every solution is made of records.
LEMMA WalkType ==
  ASSUME NEW s, Sound(s), NEW f, f = [m \in s.ids \cup {Null} |-> WalkFrom(s, f, m)]
  PROVE  \A m \in s.ids \cup {Null} : f[m] \in Seq(Records)
<1> DEFINE Bad == {m \in s.ids : f[m] \notin Seq(Records)}
<1>1. s \in Stores /\ s.ids \in SUBSET Notes /\ Null \notin Notes
  BY NullAssumption DEF Sound, Stores
<1>2. \A m \in s.ids \cup {Null} : f[m] = WalkFrom(s, f, m)
  OBVIOUS
<1>3. f[Null] \in Seq(Records)
  BY <1>2, EmptySeq DEF WalkFrom
<1>4. CASE Bad # {}
  <2>1. PICK m \in Bad : s.heads[m] \notin Bad /\ s.next[m] \notin Bad
    <3>1. Bad \in SUBSET s.ids
      OBVIOUS
    <3> HIDE DEF Bad
    <3>2. QED
      BY <1>4, <3>1, LastOfDeepest
  <2>2. m \in s.ids /\ m # Null
    BY <1>1
  <2>3. f[s.heads[m]] \in Seq(Records) /\ f[s.next[m]] \in Seq(Records)
    BY <1>3, <2>1, <2>2, WalkStays
  <2>4. <<RecordOf(s, m)>> \in Seq(Records)
    BY <1>1, <2>2, RecordType
  <2>5. <<RecordOf(s, m)>> \o f[s.heads[m]] \o f[s.next[m]] \in Seq(Records)
    BY <2>3, <2>4, ConcatProperties
  <2>6. QED
    BY <1>2, <2>1, <2>2, <2>5 DEF WalkFrom
<1>5. CASE Bad = {}
  BY <1>3, <1>5
<1>6. QED
  BY <1>4, <1>5

\* A part of the store the walk never leaves, with what it gives there.
WalkedPart(s, C) ==
    /\ C \in SUBSET (s.ids \cup {Null}) /\ Null \in C
    /\ \A m \in C \ {Null} : s.heads[m] \in C /\ s.next[m] \in C
    /\ \E f : f = [m \in C |-> WalkFrom(s, f, m)]

\* A part that is not the whole store can take one more note.
LEMMA PartGrows ==
  ASSUME NEW s, Sound(s), NEW C, WalkedPart(s, C), C # s.ids \cup {Null}
  PROVE  \E m \in s.ids \ C : WalkedPart(s, C \cup {m})
<1> DEFINE S == s.ids \ C
<1>1. s.ids \in SUBSET Notes /\ Null \notin Notes
  BY NullAssumption DEF Sound, Stores
<1>2. C \in SUBSET (s.ids \cup {Null}) /\ Null \in C
      /\ \A m \in C \ {Null} : s.heads[m] \in C /\ s.next[m] \in C
  BY DEF WalkedPart
<1>3. S # {} /\ S \in SUBSET s.ids
  BY <1>2
<1>4. PICK m \in S : s.heads[m] \notin S /\ s.next[m] \notin S
  <2> HIDE DEF S
  <2>1. QED
    BY <1>3, LastOfDeepest
<1>5. m \in s.ids /\ m \notin C /\ m # Null
  BY <1>1
<1>6. s.heads[m] \in C /\ s.next[m] \in C
  BY <1>2, <1>4, <1>5, WalkStays
<1>7. PICK f : f = [x \in C |-> WalkFrom(s, f, x)]
  BY DEF WalkedPart
<1> DEFINE E == C \cup {m}
           g == [x \in E |-> IF x = m THEN WalkFrom(s, f, m) ELSE f[x]]
<1>8. \A x \in C : g[x] = f[x] /\ f[x] = WalkFrom(s, f, x)
  BY <1>5, <1>7
<1>9. g[m] = WalkFrom(s, f, m)
  OBVIOUS
<1>10. \A x \in E : g[x] = WalkFrom(s, g, x)
  <2> SUFFICES ASSUME NEW x \in E PROVE g[x] = WalkFrom(s, g, x)
    OBVIOUS
  <2>1. g[x] = WalkFrom(s, f, x)
    BY <1>8, <1>9
  <2>2. x # Null => s.heads[x] \in C /\ s.next[x] \in C
    BY <1>2, <1>6
  <2>3. x # Null => g[s.heads[x]] = f[s.heads[x]] /\ g[s.next[x]] = f[s.next[x]]
    BY <1>8, <2>2
  <2> HIDE DEF g
  <2>4. QED
    BY <2>1, <2>3 DEF WalkFrom
<1>11. g = [x \in E |-> g[x]]
  OBVIOUS
<1>12. g = [x \in E |-> WalkFrom(s, g, x)]
  <2> HIDE DEF g, E
  <2>1. QED
    BY <1>10, <1>11
<1>13. WalkedPart(s, E)
  <2>1. E \in SUBSET (s.ids \cup {Null}) /\ Null \in E
    BY <1>2, <1>5
  <2>2. \A x \in E \ {Null} : s.heads[x] \in E /\ s.next[x] \in E
    BY <1>2, <1>6
  <2>3. \E h : h = [x \in E |-> WalkFrom(s, h, x)]
    BY <1>12
  <2> HIDE DEF E
  <2>4. QED
    BY <2>1, <2>2, <2>3 DEF WalkedPart
<1>14. QED
  BY <1>5, <1>13

\* The walk exists: a largest part that is walked is the whole store.
LEMMA WalkExists ==
  ASSUME NEW s, Sound(s)
  PROVE  \E f : f = [m \in s.ids \cup {Null} |-> WalkFrom(s, f, m)]
<1> DEFINE Left == {Cardinality(s.ids \ C) : C \in {X \in SUBSET (s.ids \cup {Null}) : WalkedPart(s, X)}}
<1>1. IsFiniteSet(s.ids)
  BY NotesAssumption, FS_Subset DEF Sound, Stores
<1>2. \A C : IsFiniteSet(s.ids \ C) /\ Cardinality(s.ids \ C) \in Nat
  BY <1>1, FS_Difference, FS_CardinalityType
<1>3. WalkedPart(s, {Null})
  <2> DEFINE f == [m \in {Null} |-> << >>]
  <2>1. f = [m \in {Null} |-> WalkFrom(s, f, m)]
    BY DEF WalkFrom
  <2>2. \E h : h = [m \in {Null} |-> WalkFrom(s, h, m)]
    BY <2>1
  <2>3. QED
    BY <2>2 DEF WalkedPart
<1>4. Left \in SUBSET Nat
  BY <1>2
<1>5. Left # {}
  <2>1. Cardinality(s.ids \ {Null}) \in Left
    BY <1>3
  <2>2. QED
    BY <2>1
<1>6. PICK k \in Left : \A j \in Left : k <= j
  <2> HIDE DEF Left
  <2>1. QED
    BY <1>4, <1>5, LeastNumber
<1>7. PICK C \in SUBSET (s.ids \cup {Null}) : WalkedPart(s, C) /\ k = Cardinality(s.ids \ C)
  OBVIOUS
<1>8. C = s.ids \cup {Null}
  <2> SUFFICES ASSUME C # s.ids \cup {Null} PROVE FALSE
    OBVIOUS
  <2>1. PICK m \in s.ids \ C : WalkedPart(s, C \cup {m})
    BY <1>7, PartGrows
  <2>2. C \cup {m} \in SUBSET (s.ids \cup {Null})
    OBVIOUS
  <2>3. Cardinality(s.ids \ (C \cup {m})) \in Left
    BY <2>1, <2>2
  <2>4. s.ids \ (C \cup {m}) = (s.ids \ C) \ {m} /\ m \in s.ids \ C
    OBVIOUS
  <2>5. Cardinality(s.ids \ (C \cup {m})) = k - 1
    <3> DEFINE T == s.ids \ C
    <3>1. IsFiniteSet(T) /\ m \in T /\ k = Cardinality(T)
      BY <1>2, <1>7
    <3> HIDE DEF T
    <3>2. Cardinality(T \ {m}) = Cardinality(T) - 1
      BY <3>1, FS_RemoveElement
    <3>3. QED
      BY <2>4, <3>1, <3>2 DEF T
  <2>6. k \in Nat
    BY <1>2, <1>7
  <2> HIDE DEF Left
  <2>7. QED
    BY <1>6, <2>3, <2>5, <2>6
<1>9. QED
  BY <1>7, <1>8 DEF WalkedPart

\* What a deletion records is a sequence of records.
LEMMA SubtreeRecordsType ==
  ASSUME NEW s, Sound(s), NEW n \in s.ids
  PROVE  SubtreeRecords(s, n) \in Seq(Records)
<1> DEFINE walk[m \in s.ids \cup {Null}] ==
             IF m = Null THEN << >>
             ELSE <<RecordOf(s, m)>> \o walk[s.heads[m]] \o walk[s.next[m]]
<1>1. walk = CHOOSE f : f = [m \in s.ids \cup {Null} |-> WalkFrom(s, f, m)]
  BY DEF WalkFrom
<1>2. walk = [m \in s.ids \cup {Null} |-> WalkFrom(s, walk, m)]
  <2> HIDE DEF walk
  <2>1. QED
    BY <1>1, WalkExists
<1>3. SubtreeRecords(s, n) = <<RecordOf(s, n)>> \o walk[s.heads[n]]
  BY DEF SubtreeRecords
<1> HIDE DEF walk
<1>4. s.heads[n] \in s.ids \cup {Null}
  BY WalkStays
<1>5. walk[s.heads[n]] \in Seq(Records)
  BY <1>2, <1>4, WalkType
<1>6. <<RecordOf(s, n)>> \in Seq(Records)
  BY RecordType DEF Sound, Stores
<1>7. QED
  BY <1>3, <1>5, <1>6, ConcatProperties

-----------------------------------------------------------------------------
(***************************************************************************)
(* apply_restore_records: one record keeps what the next one relies on.      *)
(***************************************************************************)
RestoreFits(done) ==
    /\ done \in [ok : BOOLEAN, rows : Tables, store : Stores]
    /\ Sound(done.store)
    /\ done.rows.ids = done.store.ids /\ done.rows.parent = done.store.parent

\* One record of a batch.
LEMMA RestoreStepFits ==
  ASSUME NEW records \in Seq(Records), NEW i \in 1..Len(records), NEW done, RestoreFits(done)
  PROVE  RestoreFits(RestoreStep(records, done, i))
<1> DEFINE r == records[i]
           p == r.place.parent
           Later == {records[j].id : j \in (i + 1)..Len(records)}
           added == AddNote(done.store, r.id, p, r.collapsed)
           next == IF r.place.next \in Later THEN Null ELSE r.place.next
           before == ResolvedPrev(added, p, r.place.prev, next)
           after == ResolvedNext(added, p, r.place.prev, next)
           linked == LinkIn(added, r.id, p, before, after)
           row == InsertRow(done.rows, r.id, p, r.place.prev, r.place.next, r.collapsed)
           ok == /\ done.ok /\ r.id \notin done.rows.ids
                 /\ NewParentAllowed(done.rows, p) /\ CanLinkIn(added, r.id, p, before, after)
<1>1. RestoreStep(records, done, i) = IF ok THEN [ok |-> TRUE, rows |-> row, store |-> linked]
                                            ELSE [done EXCEPT !.ok = FALSE]
  BY DEF RestoreStep
<1>2. r \in Records
  BY ElementOfSeq
<1>3. /\ r.id \in Notes /\ p \in NoteOrNull /\ r.collapsed \in BOOLEAN
      /\ r.place.prev \in NoteOrNull /\ r.place.next \in NoteOrNull
  <2> HIDE DEF r
  <2>1. QED
    BY <1>2 DEF Records, Places
<1>4. CASE ok
  <2>1. /\ done.rows \in Tables /\ done.store \in Stores /\ Sound(done.store)
        /\ done.rows.ids = done.store.ids /\ done.rows.parent = done.store.parent
    BY DEF RestoreFits
  <2>2. r.id \in Notes \ done.store.ids /\ NewParentAllowed(done.store, p)
    BY <1>3, <1>4, <2>1, SameAnswers
  <2>3. /\ Sound(linked) /\ linked.ids = done.store.ids \cup {r.id}
        /\ linked.parent = [done.store.parent EXCEPT ![r.id] = p]
    <3> DEFINE n == r.id
               c == r.collapsed
               prev == r.place.prev
    <3>1. /\ n \in Notes \ done.store.ids /\ c \in BOOLEAN /\ p \in NoteOrNull
          /\ NewParentAllowed(done.store, p)
      BY <1>3, <2>2
    <3>2. added = AddNote(done.store, n, p, c)
      OBVIOUS
    <3>3. /\ before = ResolvedPrev(added, p, prev, next)
          /\ after = ResolvedNext(added, p, prev, next)
      OBVIOUS
    <3>4. CanLinkIn(added, n, p, before, after)
      BY <1>4
    <3>5. linked = LinkIn(added, n, p, before, after)
      OBVIOUS
    <3> HIDE DEF n, c, prev, p, next, before, after, added, linked
    <3>6. /\ Sound(LinkIn(added, n, p, before, after))
          /\ LinkIn(added, n, p, before, after).ids = done.store.ids \cup {n}
          /\ LinkIn(added, n, p, before, after).parent = [done.store.parent EXCEPT ![n] = p]
      BY <2>1, <3>1, <3>2, <3>3, <3>4, LinkInSound
    <3>7. QED
      BY <3>5, <3>6 DEF n
  <2>4. /\ row \in Tables /\ row.ids = done.rows.ids \cup {r.id}
        /\ row.parent = [done.rows.parent EXCEPT ![r.id] = p]
    <3> DEFINE n == r.id
               c == r.collapsed
               prev == r.place.prev
               last == r.place.next
               t == done.rows
    <3>1. /\ n \in Notes /\ c \in BOOLEAN /\ p \in NoteOrNull
          /\ prev \in NoteOrNull /\ last \in NoteOrNull /\ t \in Tables
      BY <1>3, <2>1
    <3>2. row = InsertRow(t, n, p, prev, last, c)
      OBVIOUS
    <3> HIDE DEF n, c, prev, last, p, t, row
    <3>3. row \in Tables
      BY <3>1, <3>2, InsertRowType
    <3>4. row.ids = t.ids \cup {n} /\ row.parent = [t.parent EXCEPT ![n] = p]
      BY <3>1, <3>2, InsertedRowTree, SMTT(30)
    <3>5. QED
      BY <3>3, <3>4 DEF n, t
  <2>5. linked \in Stores
    BY <2>3 DEF Sound
  <2>6. RestoreStep(records, done, i) = [ok |-> TRUE, rows |-> row, store |-> linked]
    BY <1>1, <1>4
  <2> HIDE DEF row, linked
  <2> DEFINE new == [ok |-> TRUE, rows |-> row, store |-> linked]
  <2>7. new \in [ok : BOOLEAN, rows : Tables, store : Stores]
    BY <2>4, <2>5
  <2>8. new.rows = row /\ new.store = linked
    OBVIOUS
  <2>9. row.ids = linked.ids /\ row.parent = linked.parent
    <3> HIDE DEF r, p
    <3>1. QED
      BY <2>1, <2>3, <2>4
  <2> HIDE DEF new
  <2>10. QED
    BY <2>3, <2>6, <2>7, <2>8, <2>9 DEF RestoreFits, new
<1>5. CASE ~ok
  <2>1. RestoreStep(records, done, i) = [done EXCEPT !.ok = FALSE]
    BY <1>1, <1>5
  <2>2. QED
    BY <2>1 DEF RestoreFits
<1>6. QED
  BY <1>4, <1>5

\* The steps of a batch, each from the one before.
RestoreFrom(records, f, i) ==
    IF i = 0 THEN [ok |-> TRUE, rows |-> rows, store |-> store]
    ELSE RestoreStep(records, f[i - 1], i)

\* The batch has a last step, because every shorter one has.
LEMMA BatchExists ==
  ASSUME NEW records \in Seq(Records), NEW N \in Nat
  PROVE  \E f : f = [i \in 0..N |-> RestoreFrom(records, f, i)]
<1> DEFINE Solved(k) == \E f : f = [i \in 0..k |-> RestoreFrom(records, f, i)]
           Bad == {k \in Nat : ~Solved(k)}
<1>1. Solved(0)
  <2> DEFINE base == [ok |-> TRUE, rows |-> rows, store |-> store]
             f == [i \in 0..0 |-> base]
  <2>1. \A i \in 0..0 : RestoreFrom(records, f, i) = base
    BY DEF RestoreFrom
  <2>2. f = [i \in 0..0 |-> RestoreFrom(records, f, i)]
    BY <2>1
  <2>3. QED
    BY <2>2
<1>2. ASSUME NEW k \in Nat, Solved(k) PROVE Solved(k + 1)
  <2>1. PICK f : f = [i \in 0..k |-> RestoreFrom(records, f, i)]
    BY <1>2
  <2> DEFINE g == [i \in 0..(k + 1) |-> IF i = k + 1 THEN RestoreStep(records, f[k], k + 1) ELSE f[i]]
  <2>2. \A i \in 0..k : g[i] = f[i] /\ f[i] = RestoreFrom(records, f, i)
    <3>1. \A i \in 0..k : i \in 0..(k + 1) /\ i # k + 1
      OBVIOUS
    <3>2. \A i \in 0..k : g[i] = f[i]
      BY <3>1
    <3> HIDE DEF g
    <3>3. QED
      BY <2>1, <3>2
  <2>3. g[k + 1] = RestoreStep(records, f[k], k + 1)
    OBVIOUS
  <2>4. \A i \in 0..(k + 1) : g[i] = RestoreFrom(records, g, i)
    <3> SUFFICES ASSUME NEW i \in 0..(k + 1) PROVE g[i] = RestoreFrom(records, g, i)
      OBVIOUS
    <3>1. CASE i = k + 1
      <4> HIDE DEF g
      <4>1. k \in 0..k /\ i # 0 /\ i - 1 = k
        BY <3>1
      <4>2. QED
        BY <2>2, <2>3, <3>1, <4>1 DEF RestoreFrom
    <3>2. CASE i # k + 1
      <4> HIDE DEF g
      <4>1. i \in 0..k /\ (i # 0 => i - 1 \in 0..k)
        BY <3>2
      <4>2. QED
        BY <2>2, <4>1 DEF RestoreFrom
    <3>3. QED
      BY <3>1, <3>2
  <2>5. g = [i \in 0..(k + 1) |-> g[i]]
    OBVIOUS
  <2> HIDE DEF g
  <2>6. g = [i \in 0..(k + 1) |-> RestoreFrom(records, g, i)]
    BY <2>4, <2>5
  <2>7. QED
    BY <2>6
<1> HIDE DEF Solved
<1>3. CASE Bad # {}
  <2>1. PICK k \in Bad : \A j \in Bad : k <= j
    <3>1. Bad \in SUBSET Nat
      OBVIOUS
    <3> HIDE DEF Bad
    <3>2. QED
      BY <1>3, <3>1, LeastNumber
  <2>2. k # 0 /\ k \in Nat /\ ~Solved(k)
    BY <1>1
  <2>3. k - 1 \in Nat /\ k - 1 \notin Bad
    BY <2>1, <2>2
  <2>4. Solved(k - 1)
    BY <2>3
  <2>5. QED
    BY <1>2, <2>2, <2>3, <2>4
<1>4. CASE Bad = {}
  BY <1>4 DEF Solved
<1>5. QED
  BY <1>3, <1>4

\* What a batch leaves is as sound as what it found.
LEMMA RestoredFits ==
  ASSUME TreeInv, NEW records \in Seq(Records)
  PROVE  RestoreFits(Restored(records))
<1> DEFINE N == Len(records)
           after[i \in 0..N] ==
             IF i = 0 THEN [ok |-> TRUE, rows |-> rows, store |-> store]
             ELSE RestoreStep(records, after[i - 1], i)
<1>1. Restored(records) = after[N]
  BY DEF Restored
<1>2. after = CHOOSE f : f = [i \in 0..N |-> RestoreFrom(records, f, i)]
  BY DEF RestoreFrom
<1>3. N \in Nat
  BY LenProperties
<1> HIDE DEF after, N
<1>4. after = [i \in 0..N |-> RestoreFrom(records, after, i)]
  BY <1>2, <1>3, BatchExists
<1>5. \A i \in 0..N : after[i] = RestoreFrom(records, after, i)
  BY <1>4
<1>6. RestoreFits([ok |-> TRUE, rows |-> rows, store |-> store])
  BY DEF RestoreFits, TreeInv, TypeOK, SameTree
<1> DEFINE Bad == {i \in 0..N : ~RestoreFits(after[i])}
<1>7. CASE Bad # {}
  <2>1. PICK i \in Bad : \A j \in Bad : i <= j
    <3>1. Bad \in SUBSET Nat
      OBVIOUS
    <3> HIDE DEF Bad
    <3>2. QED
      BY <1>7, <3>1, LeastNumber
  <2>2. i \in 0..N /\ ~RestoreFits(after[i])
    OBVIOUS
  <2>3. i # 0
    BY <1>5, <1>6, <2>2 DEF RestoreFrom
  <2>4. i - 1 \in 0..N /\ i - 1 < i /\ i \in 1..N
    BY <1>3, <2>2, <2>3
  <2>5. RestoreFits(after[i - 1])
    BY <2>1, <2>4
  <2>6. RestoreFits(RestoreStep(records, after[i - 1], i))
    BY <2>4, <2>5, RestoreStepFits DEF N
  <2>7. after[i] = RestoreStep(records, after[i - 1], i)
    BY <1>5, <2>2, <2>3 DEF RestoreFrom
  <2>8. QED
    BY <2>2, <2>6, <2>7
<1>8. CASE Bad = {}
  BY <1>1, <1>3, <1>8
<1>9. QED
  BY <1>7, <1>8

\* A batch is restored whole or not at all.
LEMMA RestoreRecordsTree ==
  ASSUME TreeInv, NEW records \in Seq(Records), RestoreRecords(records)
  PROVE  TreeInv'
<1> DEFINE done == Restored(records)
<1>1. RestoreFits(done)
  BY RestoredFits
<1>2. CASE done.ok
  <2>1. rows' = done.rows /\ store' = done.store /\ Applied
    BY <1>2 DEF RestoreRecords
  <2> HIDE DEF done
  <2>2. QED
    BY <1>1, <2>1 DEF RestoreFits, TreeInv, TypeOK, Applied, Phases, SameTree
<1>3. CASE ~done.ok
  BY <1>3 DEF RestoreRecords, Raise, TreeInv, TypeOK, Phases, SameTree
<1>4. QED
  BY <1>2, <1>3

-----------------------------------------------------------------------------
(***************************************************************************)
(* The stacks keep their shape.                                              *)
(***************************************************************************)
\* An operation has the fields of its type.
LEMMA OperationShapes ==
  ASSUME NEW op \in Operations
  PROVE  /\ op.type \in {"create_note", "delete_subtree", "move", "collapse"}
         /\ op.type = "create_note" => op.record \in Records
         /\ op.type = "delete_subtree" => op.records \in Seq(Records)
         /\ op.type = "move" => op.note \in Notes /\ op.before \in Places /\ op.after \in Places
         /\ op.type = "collapse" => op.note \in Notes /\ op.after \in BOOLEAN
<1>1. CASE op \in [type : {"create_note"}, record : Records]
  BY <1>1
<1>2. CASE op \in [type : {"delete_subtree"}, records : Seq(Records)]
  BY <1>2
<1>3. CASE op \in [type : {"move"}, note : Notes, before : Places, after : Places]
  BY <1>3
<1>4. CASE op \in [type : {"collapse"}, note : Notes, after : BOOLEAN]
  BY <1>4
<1>5. QED
  BY <1>1, <1>2, <1>3, <1>4 DEF Operations

\* A stack that is cut to its newest operations.
LEMMA NewestType ==
  ASSUME NEW S, NEW q \in Seq(S)
  PROVE  Newest(q) \in Seq(S)
<1> DEFINE k == Len(q) - UndoOperations + 1
<1>1. Len(q) \in Nat /\ UndoOperations \in Nat \ {0}
  BY LenProperties, UndoOperationsAssumption
<1>2. CASE Len(q) > UndoOperations
  <2>1. k \in Int /\ Len(q) \in Int /\ \A i \in k..Len(q) : i \in 1..Len(q)
    BY <1>1, <1>2
  <2> HIDE DEF k
  <2>2. \A i \in k..Len(q) : q[i] \in S
    BY <2>1, ElementOfSeq
  <2>3. SubSeq(q, k, Len(q)) \in Seq(S)
    BY <2>1, <2>2, SubSeqProperties
  <2>4. QED
    BY <1>2, <2>3 DEF Newest, k
<1>3. CASE ~(Len(q) > UndoOperations)
  BY <1>3 DEF Newest
<1>4. QED
  BY <1>2, <1>3

\* All but the last operation of a stack.
LEMMA ShorterType ==
  ASSUME NEW S, NEW q \in Seq(S), q # << >>
  PROVE  SubSeq(q, 1, Len(q) - 1) \in Seq(S) /\ q[Len(q)] \in S
<1>1. Len(q) \in Nat \ {0}
  BY EmptySeq
<1>2. Len(q) \in 1..Len(q) /\ Len(q) - 1 \in Int /\ \A i \in 1..(Len(q) - 1) : i \in 1..Len(q)
  BY <1>1
<1>3. \A i \in 1..(Len(q) - 1) : q[i] \in S
  BY <1>2, ElementOfSeq
<1>4. q[Len(q)] \in S
  BY <1>2, ElementOfSeq
<1>5. SubSeq(q, 1, Len(q) - 1) \in Seq(S)
  BY <1>2, <1>3, SubSeqProperties
<1>6. QED
  BY <1>4, <1>5

\* One window's stacks are replaced.
LEMMA ReplacedFit ==
  ASSUME NEW all, StacksFit(all), NEW c \in Clients,
         NEW history \in Seq(Entries), NEW redo \in Seq(Entries)
  PROVE  StacksFit([all EXCEPT ![c] = [history |-> history, redo |-> redo]])
BY DEF StacksFit

\* Empty stacks.
LEMMA EmptyStacksFit == StacksFit(NoStacks)
<1>1. << >> \in Seq(Entries)
  BY EmptySeq
<1>2. QED
  BY <1>1 DEF StacksFit, NoStacks

\* A recorded operation goes on the history of its window.
LEMMA RecordFits ==
  ASSUME StacksFit(stacks), StacksFit(captured), store \in Stores, store' \in Stores,
         NEW c \in Clients, NEW op, phase' = "applied" => op \in Operations, Record(c, op)
  PROVE  StacksFit(stacks)' /\ StacksFit(captured)'
<1>1. StacksFit(captured)'
  BY DEF Record, StacksFit
<1>2. CASE phase' = "applied"
  <2> DEFINE entry == Entry(op)
             history == stacks[c].history
             longer == Newest(Append(history, entry))
  <2>1. Order(store) \in Orderings /\ Order(store') \in Orderings
    BY DEF Order, Orderings, Stores
  <2>2. entry \in Entries
    BY <1>2, <2>1 DEF Entry, Entries
  <2>3. history \in Seq(Entries)
    BY DEF StacksFit
  <2>4. stacks' = [stacks EXCEPT ![c] = [history |-> longer, redo |-> << >>]]
    BY <1>2 DEF Record
  <2> HIDE DEF entry, history
  <2>5. Append(history, entry) \in Seq(Entries) /\ << >> \in Seq(Entries)
    BY <2>2, <2>3, AppendProperties, EmptySeq
  <2>6. longer \in Seq(Entries)
    BY <2>5, NewestType
  <2> HIDE DEF longer
  <2>7. StacksFit(stacks')
    BY <2>4, <2>5, <2>6, ReplacedFit
  <2>8. QED
    BY <1>1, <2>7 DEF StacksFit
<1>3. CASE phase' # "applied"
  BY <1>1, <1>3 DEF Record, StacksFit
<1>4. QED
  BY <1>2, <1>3

\* Dropped stacks.
LEMMA ClearFits ==
  ASSUME StacksFit(stacks), NEW c \in Clients, ClearStacks(c)
  PROVE  StacksFit(stacks)'
<1>1. << >> \in Seq(Entries)
  BY EmptySeq
<1>2. StacksFit(stacks')
  BY <1>1, ReplacedFit DEF ClearStacks
<1>3. QED
  BY <1>2 DEF StacksFit

-----------------------------------------------------------------------------
(***************************************************************************)
(* The inductive invariant.  Beside the store it keeps the shape of what the *)
(* stacks remember, from which the notes of an undone deletion are made; the  *)
(* rows matter only while the server serves.                                 *)
(***************************************************************************)
UndoInv ==
    /\ TypeOK
    /\ Sound(store)
    /\ serving => SameTree
    /\ StacksFit(stacks)
    /\ StacksFit(captured)

\* A deletion that undo or redo asks for, refused or not.
LEMMA DeleteAndFocusTree ==
  ASSUME TreeInv, NEW n, NEW focus, DeleteAndFocus(n, focus)
  PROVE  TreeInv'
<1>1. CASE Raise
  BY <1>1 DEF Raise, TreeInv, TypeOK, Phases, SameTree
<1>2. CASE DeleteSubtree(n)
  BY <1>2, DeleteSubtreeTree
<1>3. QED
  BY <1>1, <1>2 DEF DeleteAndFocus

\* A batch of one.
LEMMA OneRecordType ==
  ASSUME NEW r \in Records
  PROVE  <<r>> \in Seq(Records)
OBVIOUS

\* Undo.
LEMMA InverseTree ==
  ASSUME TreeInv, NEW op \in Operations, ApplyInverse(op)
  PROVE  TreeInv'
<1>1. CASE op.type = "create_note"
  <2>1. DeleteAndFocus(op.record.id, FocusAfterUndoneCreate(op.record))
    BY <1>1 DEF ApplyInverse
  <2>2. QED
    BY <2>1, DeleteAndFocusTree
<1>2. CASE op.type = "delete_subtree"
  <2>1. RestoreRecords(op.records)
    BY <1>2 DEF ApplyInverse
  <2>2. QED
    BY <1>2, <2>1, OperationShapes, RestoreRecordsTree
<1>3. CASE op.type = "move"
  <2>1. MoveNote(op.note, op.before.parent, op.before.prev, op.before.next)
    BY <1>3 DEF ApplyInverse
  <2>2. op.note \in Notes /\ op.before \in Places
    BY <1>3, OperationShapes
  <2> HIDE DEF Operations
  <2>3. /\ op.before.parent \in NoteOrNull
        /\ op.before.prev \in NoteOrNull /\ op.before.next \in NoteOrNull
    BY <2>2 DEF Places
  <2>4. QED
    BY <2>1, <2>2, <2>3, MoveNoteTree
<1>4. CASE op.type = "collapse"
  <2>1. CollapseNote(op.note, ~op.after)
    BY <1>4 DEF ApplyInverse
  <2>2. op.note \in Notes /\ op.after \in BOOLEAN
    BY <1>4, OperationShapes
  <2>3. (~op.after) \in BOOLEAN
    OBVIOUS
  <2>4. QED
    BY <2>1, <2>2, <2>3, CollapseNoteTree
<1>5. QED
  BY <1>1, <1>2, <1>3, <1>4, OperationShapes

\* Redo.
LEMMA AgainTree ==
  ASSUME TreeInv, NEW op \in Operations, ApplyAgain(op)
  PROVE  TreeInv'
<1>1. CASE op.type = "create_note"
  <2>1. RestoreRecords(<<op.record>>)
    BY <1>1 DEF ApplyAgain
  <2>2. <<op.record>> \in Seq(Records)
    BY <1>1, OperationShapes, OneRecordType
  <2>3. QED
    BY <2>1, <2>2, RestoreRecordsTree
<1>2. CASE op.type = "delete_subtree"
  <2>1. DeleteAndFocus(op.records[1].id, FocusAfterRedoneDelete(op.records[1]))
    BY <1>2 DEF ApplyAgain
  <2>2. QED
    BY <2>1, DeleteAndFocusTree
<1>3. CASE op.type = "move"
  <2>1. MoveNote(op.note, op.after.parent, op.after.prev, op.after.next)
    BY <1>3 DEF ApplyAgain
  <2>2. op.note \in Notes /\ op.after \in Places
    BY <1>3, OperationShapes
  <2>3. op.after.parent \in NoteOrNull /\ op.after.prev \in NoteOrNull /\ op.after.next \in NoteOrNull
    BY <2>2 DEF Places
  <2>4. QED
    BY <2>1, <2>2, <2>3, MoveNoteTree
<1>4. CASE op.type = "collapse"
  <2>1. CollapseNote(op.note, op.after)
    BY <1>4 DEF ApplyAgain
  <2>2. op.note \in Notes /\ op.after \in BOOLEAN
    BY <1>4, OperationShapes
  <2>3. QED
    BY <2>1, <2>2, CollapseNoteTree
<1>5. QED
  BY <1>1, <1>2, <1>3, <1>4, OperationShapes

\* A command of a window, and what it records.
LEMMA CommandByInv ==
  ASSUME UndoInv, NEW c \in Clients,
         CreateBy(c) \/ DeleteBy(c) \/ MoveBy(c) \/ CollapseBy(c) \/ PrioritizeBy(c)
  PROVE  UndoInv'
<1>0. store \in Stores /\ StacksFit(stacks) /\ StacksFit(captured)
  BY DEF UndoInv, TypeOK
<1>1. TreeInv
  BY DEF CreateBy, DeleteBy, MoveBy, CollapseBy, PrioritizeBy, CreateNote, CreateChild,
         CreateSibling, CreateFilePreviewChild, Delete, Move, Indent, Outdent, MoveToTop,
         MoveToBottom, SetCollapse, Prioritize, Ready, UndoInv, TreeInv
<1>2. Command
  BY DEF CreateBy, DeleteBy, MoveBy, CollapseBy, PrioritizeBy, Command
<1>3. TreeInv'
  BY <1>1, <1>2, CommandTree
<1>4. store' \in Stores
  BY <1>3 DEF TreeInv, TypeOK
<1>5. StacksFit(stacks)' /\ StacksFit(captured)'
  <2>1. CASE CreateBy(c)
    <3>1. PICK n \in Notes : Record(c, [type |-> "create_note", record |-> RecordOf(store', n)])
      BY <2>1 DEF CreateBy
    <3>2. RecordOf(store', n) \in Records
      BY <1>4, RecordType
    <3>3. [type |-> "create_note", record |-> RecordOf(store', n)] \in Operations
      BY <3>2 DEF Operations
    <3>4. QED
      BY <1>0, <1>4, <3>1, <3>3, RecordFits
  <2>2. CASE DeleteBy(c)
    <3>1. PICK n \in Notes :
             /\ n \in store.ids
             /\ Record(c, [type |-> "delete_subtree", records |-> SubtreeRecords(store, n)])
      BY <2>2 DEF DeleteBy, Delete
    <3>2. SubtreeRecords(store, n) \in Seq(Records)
      BY <1>1, <3>1, SubtreeRecordsType DEF TreeInv
    <3>3. [type |-> "delete_subtree", records |-> SubtreeRecords(store, n)] \in Operations
      BY <3>2 DEF Operations
    <3>4. QED
      BY <1>0, <1>4, <3>1, <3>3, RecordFits
  <2>3. CASE MoveBy(c)
    <3>1. PICK n \in Notes :
             Record(c, [type |-> "move", note |-> n,
                        before |-> Place(store, n), after |-> Place(store', n)])
      BY <2>3 DEF MoveBy
    <3>2. Place(store, n) \in Places /\ Place(store', n) \in Places
      BY <1>0, <1>4, RecordType
    <3>3. [type |-> "move", note |-> n,
           before |-> Place(store, n), after |-> Place(store', n)] \in Operations
      BY <3>2 DEF Operations
    <3>4. QED
      BY <1>0, <1>4, <3>1, <3>3, RecordFits
  <2>4. CASE CollapseBy(c)
    <3>1. PICK n \in Notes, value \in BOOLEAN :
             Record(c, [type |-> "collapse", note |-> n, after |-> value])
      BY <2>4 DEF CollapseBy
    <3>2. [type |-> "collapse", note |-> n, after |-> value] \in Operations
      BY DEF Operations
    <3>3. QED
      BY <1>0, <1>4, <3>1, <3>2, RecordFits
  <2>5. CASE PrioritizeBy(c)
    BY <1>0, <2>5, ClearFits DEF PrioritizeBy, StacksFit
  <2>6. QED
    BY <2>1, <2>2, <2>3, <2>4, <2>5
<1>6. QED
  BY <1>3, <1>5 DEF TreeInv, UndoInv

\* Undo and redo.
LEMMA UndoneInv ==
  ASSUME UndoInv, NEW c \in Clients, Undo(c) \/ Redo(c)
  PROVE  UndoInv'
<1> DEFINE history == stacks[c].history
           redo == stacks[c].redo
<1>1. TreeInv
  BY DEF Undo, Redo, Ready, UndoInv, TreeInv
<1>2. history \in Seq(Entries) /\ redo \in Seq(Entries)
  BY DEF UndoInv, StacksFit
<1>3. CASE Undo(c)
  <2> DEFINE entry == history[Len(history)]
             left == SubSeq(history, 1, Len(history) - 1)
  <2>1. /\ history # << >> /\ ApplyInverse(entry.op) /\ UNCHANGED captured
        /\ stacks' = [stacks EXCEPT ![c] = [history |-> left, redo |-> Append(redo, entry)]]
    BY <1>3 DEF Undo
  <2> HIDE DEF history, redo
  <2>2. entry \in Entries /\ left \in Seq(Entries)
    BY <1>2, <2>1, ShorterType
  <2> HIDE DEF entry, left
  <2>3. entry.op \in Operations
    BY <2>2 DEF Entries
  <2>4. TreeInv'
    BY <1>1, <2>1, <2>3, InverseTree
  <2>5. Append(redo, entry) \in Seq(Entries)
    BY <1>2, <2>2, AppendProperties
  <2>6. StacksFit(stacks')
    BY <2>1, <2>2, <2>5, ReplacedFit DEF UndoInv
  <2>7. QED
    BY <2>1, <2>4, <2>6 DEF TreeInv, UndoInv, StacksFit
<1>4. CASE Redo(c)
  <2> DEFINE entry == redo[Len(redo)]
             left == SubSeq(redo, 1, Len(redo) - 1)
             longer == Newest(Append(history, entry))
  <2>1. /\ redo # << >> /\ ApplyAgain(entry.op) /\ UNCHANGED captured
        /\ stacks' = [stacks EXCEPT ![c] = [history |-> longer, redo |-> left]]
    BY <1>4 DEF Redo
  <2> HIDE DEF history, redo
  <2>2. entry \in Entries /\ left \in Seq(Entries)
    BY <1>2, <2>1, ShorterType
  <2> HIDE DEF entry, left
  <2>3. entry.op \in Operations
    BY <2>2 DEF Entries
  <2>4. TreeInv'
    BY <1>1, <2>1, <2>3, AgainTree
  <2>5. longer \in Seq(Entries)
    BY <1>2, <2>2, AppendProperties, NewestType
  <2> HIDE DEF longer
  <2>6. StacksFit(stacks')
    BY <2>1, <2>2, <2>5, ReplacedFit DEF UndoInv
  <2>7. QED
    BY <2>1, <2>4, <2>6 DEF TreeInv, UndoInv, StacksFit
<1>5. QED
  BY <1>3, <1>4

\* What a load leaves, also when the rows are refused and the store is reset.
LEMMA ReloadTree ==
  ASSUME UndoInv, Reload
  PROVE  TypeOK' /\ Sound(store') /\ (serving' => SameTree')
<1>1. db \in Tables
  BY DEF UndoInv, TypeOK
<1>2. /\ rows' = db /\ phase' = "idle" /\ db' = db /\ serving' = Loadable(db)
      /\ store' = Hydrated(IF Loadable(db) THEN db ELSE EmptyTable)
  BY DEF Reload
<1>3. serving' \in BOOLEAN
  BY <1>2 DEF Loadable, HierarchyValid
<1>4. CASE Loadable(db)
  <2>1. store' = Hydrated(db)
    BY <1>2, <1>4
  <2>2. Sound(store')
    BY <1>1, <1>4, <2>1, HydratedSound
  <2>3. store'.ids = db.ids /\ store'.parent = db.parent
    BY <2>1 DEF Hydrated
  <2>4. QED
    BY <1>1, <1>2, <1>3, <2>2, <2>3 DEF TypeOK, Phases, SameTree, Sound
<1>5. CASE ~Loadable(db)
  <2>1. store' = Hydrated(EmptyTable)
    BY <1>2, <1>5
  <2>2. Sound(store')
    BY <2>1, EmptyTableType, EmptySound, HydratedSound
  <2>3. QED
    BY <1>1, <1>2, <1>3, <1>5, <2>2 DEF TypeOK, Phases, Sound
<1>6. QED
  BY <1>4, <1>5

\* The invariant holds from the empty vault on, through commits, rollbacks, restarts
\* and loads that are refused.
THEOREM UndoInvariant == UndoSpec => []UndoInv
<1>1. UndoInit => UndoInv
  <2> SUFFICES ASSUME UndoInit PROVE UndoInv
    OBVIOUS
  <2>1. TypeOK
    BY EmptyTableType, HydratedType DEF UndoInit, StoreInit, TypeOK, Phases
  <2>2. Sound(store)
    BY EmptyTableType, EmptySound, HydratedSound DEF UndoInit, StoreInit
  <2>3. SameTree
    BY DEF UndoInit, StoreInit, SameTree, Hydrated
  <2>4. StacksFit(stacks) /\ StacksFit(captured)
    BY EmptyStacksFit DEF UndoInit
  <2>5. QED
    BY <2>1, <2>2, <2>3, <2>4 DEF UndoInv
<1>2. UndoInv /\ [UndoNext]_undoVars => UndoInv'
  <2> SUFFICES ASSUME UndoInv, [UndoNext]_undoVars PROVE UndoInv'
    OBVIOUS
  <2>1. ASSUME NEW c \in Clients,
               CreateBy(c) \/ DeleteBy(c) \/ MoveBy(c) \/ CollapseBy(c) \/ PrioritizeBy(c)
        PROVE  UndoInv'
    BY <2>1, CommandByInv
  <2>2. ASSUME NEW c \in Clients, Undo(c) \/ Redo(c) PROVE UndoInv'
    BY <2>2, UndoneInv
  <2>3. ASSUME NEW c \in Clients, ForgetHistory(c) PROVE UndoInv'
    <3>1. StacksFit(stacks)' /\ captured' = stacks' /\ UNCHANGED storeVars
      BY <2>3, ClearFits DEF ForgetHistory, UndoInv
    <3>2. QED
      BY <3>1 DEF UndoInv, storeVars, TypeOK, SameTree, StacksFit
  <2>4. CASE CommitRequest
    BY <2>4 DEF CommitRequest, Commit, UndoInv, TypeOK, Phases, SameTree, StacksFit
  <2>5. CASE RollbackRequest
    <3>1. StacksFit(stacks)' /\ StacksFit(captured)'
      BY <2>5 DEF RollbackRequest, UndoInv, StacksFit
    <3>2. CASE Rollback
      BY <3>1, <3>2, ReloadTree DEF Rollback, UndoInv
    <3>3. CASE RollbackNothing
      BY <3>1, <3>3 DEF RollbackNothing, UndoInv, TypeOK, Phases, SameTree
    <3>4. QED
      BY <2>5, <3>2, <3>3 DEF RollbackRequest
  <2>6. CASE RestartServer
    <3>1. StacksFit(stacks)' /\ StacksFit(captured)'
      BY <2>6, EmptyStacksFit DEF RestartServer, StacksFit
    <3>2. QED
      BY <2>6, <3>1, ReloadTree DEF RestartServer, Restart, UndoInv
  <2>7. CASE UNCHANGED undoVars
    BY <2>7 DEF undoVars, UndoInv, TypeOK, SameTree, StacksFit
  <2>8. QED
    BY <2>1, <2>2, <2>3, <2>4, <2>5, <2>6, <2>7 DEF UndoNext
<1>3. QED
  BY <1>1, <1>2, PTL DEF UndoSpec

\* In memory the hierarchy stays a forest of single chains with a matching index
\* (MemoryStaysOrdered of UndoHistory), whatever windows undo and redo in a vault
\* that others have changed, and whatever fails and is rolled back in between.
THEOREM MemoryAlwaysOrdered == UndoSpec => []MemoryStaysOrdered
<1>1. UndoInv => MemoryStaysOrdered
  BY DEF UndoInv, Sound, MemoryStaysOrdered
<1>2. QED
  BY <1>1, UndoInvariant, PTL

-----------------------------------------------------------------------------
(***************************************************************************)
(* With one window, undo is exact.  The orders two commands leave behind, and *)
(* the notes that a command creates, deletes or moves between them.           *)
(***************************************************************************)
\* An order of the vault that load_from_db accepts, with nothing at other ids.
GoodOrder(o) ==
    o \in Orderings /\ HierarchyValid(o) /\ Ordered(o, o.ids) /\ Clean(o)

\* The columns prev and next when a note has left its list.
PrevWithout(o, n, m) == IF m = o.next[n] THEN o.prev[n] ELSE o.prev[m]
NextWithout(o, n, m) == IF m = o.prev[n] THEN o.next[n] ELSE o.next[m]

\* Order b is order a without the subtree of n.
Lost(a, b, n) ==
    /\ n \in a.ids /\ b.ids = a.ids \ Subtree(a, n)
    /\ \A m \in Notes :
          /\ b.parent[m] = IF m \in Subtree(a, n) THEN Null ELSE a.parent[m]
          /\ b.prev[m] = IF m \in Subtree(a, n) THEN Null ELSE PrevWithout(a, n, m)
          /\ b.next[m] = IF m \in Subtree(a, n) THEN Null ELSE NextWithout(a, n, m)

\* Orders a and b differ in the place of n.
Exchanged(a, b, n) ==
    /\ n \in a.ids /\ b.ids = a.ids
    /\ \A m \in Notes \ {n} :
          /\ b.parent[m] = a.parent[m]
          /\ PrevWithout(b, n, m) = PrevWithout(a, n, m)
          /\ NextWithout(b, n, m) = NextWithout(a, n, m)

\* The records of the subtree of n in order a: each note once, its parent and the
\* note before it earlier, the note after it later.
Listing(a, n, q) ==
    /\ q \in Seq(Records) /\ Len(q) \in Nat \ {0} /\ q[1].id = n
    /\ \A i \in 1..Len(q) : q[i].place = Place(a, q[i].id)
    /\ \A i, j \in 1..Len(q) : q[i].id = q[j].id => i = j
    /\ \A m : m \in Subtree(a, n) <=> \E i \in 1..Len(q) : q[i].id = m
    /\ \A i \in 2..Len(q) :
          /\ \E j \in 1..(i - 1) : q[j].id = a.parent[q[i].id]
          /\ a.prev[q[i].id] # Null => \E j \in 1..(i - 1) : q[j].id = a.prev[q[i].id]
          /\ a.next[q[i].id] # Null => \E j \in (i + 1)..Len(q) : q[j].id = a.next[q[i].id]

\* An operation tells apart, exactly, the orders before and after its command.
Reverses(entry) ==
    LET op == entry.op
        a == entry.was
        b == entry.became
    IN  /\ op \in Operations /\ GoodOrder(a) /\ GoodOrder(b)
        /\ op.type = "create_note" => /\ Lost(b, a, op.record.id)
                                      /\ Listing(b, op.record.id, <<op.record>>)
        /\ op.type = "delete_subtree" => /\ Lost(a, b, op.records[1].id)
                                         /\ Listing(a, op.records[1].id, op.records)
        /\ op.type = "move" => /\ Exchanged(a, b, op.note)
                               /\ op.before = Place(a, op.note)
                               /\ op.after = Place(b, op.note)
        /\ op.type = "collapse" => op.note \in a.ids /\ a = b

\* What a store says of the order of its notes.
LEMMA OrderFields ==
  ASSUME NEW t
  PROVE  /\ Order(t).ids = t.ids /\ Order(t).parent = t.parent
         /\ Order(t).prev = t.prev /\ Order(t).next = t.next
         /\ \A n : Place(Order(t), n) = Place(t, n)
         /\ \A n : Subtree(Order(t), n) = Subtree(t, n)
         /\ HierarchyValid(Order(t)) = HierarchyValid(t)
         /\ \A I : Ordered(Order(t), I) = Ordered(t, I)
         /\ Clean(Order(t)) = Clean(t)
<1>1. /\ Order(t).ids = t.ids /\ Order(t).parent = t.parent
      /\ Order(t).prev = t.prev /\ Order(t).next = t.next
  BY DEF Order
<1>2. \A n : Place(Order(t), n) = Place(t, n)
  BY <1>1 DEF Place
<1>3. HierarchyValid(Order(t)) = HierarchyValid(t) /\ \A n : Subtree(Order(t), n) = Subtree(t, n)
  BY <1>1, SameHierarchy
<1>4. \A I : Ordered(Order(t), I) = Ordered(t, I)
  BY <1>1 DEF Ordered, Reciprocal, SingleBoundaries, NoRings
<1>5. Clean(Order(t)) = Clean(t)
  BY <1>1 DEF Clean
<1>6. QED
  BY <1>1, <1>2, <1>3, <1>4, <1>5

\* The order of a sound store is a good one.
LEMMA SoundOrder ==
  ASSUME NEW s, Sound(s), Clean(s)
  PROVE  GoodOrder(Order(s))
<1>1. Order(s) \in Orderings
  BY DEF Sound, Stores, Order, Orderings
<1>2. QED
  BY <1>1, OrderFields DEF Sound, GoodOrder

\* Orders are equal when their columns are.
LEMMA OrderEquality ==
  ASSUME NEW a \in Orderings, NEW b \in Orderings, a.ids = b.ids,
         \A m \in Notes : /\ a.parent[m] = b.parent[m]
                          /\ a.prev[m] = b.prev[m] /\ a.next[m] = b.next[m]
  PROVE  a = b
<1>1. a.parent = b.parent /\ a.prev = b.prev /\ a.next = b.next
  BY DEF Orderings
<1>2. QED
  BY <1>1 DEF Orderings

\* There is one order without a subtree.
LEMMA LostUnique ==
  ASSUME NEW a, NEW b \in Orderings, NEW c \in Orderings, NEW n, Lost(a, b, n), Lost(a, c, n)
  PROVE  b = c
<1>1. b.ids = c.ids
  BY DEF Lost
<1>2. \A m \in Notes : b.parent[m] = c.parent[m] /\ b.prev[m] = c.prev[m] /\ b.next[m] = c.next[m]
  BY DEF Lost
<1>3. QED
  BY <1>1, <1>2, OrderEquality

\* The columns without a note that is back.
LEMMA ExchangedBack ==
  ASSUME NEW a, NEW b, NEW n, Exchanged(a, b, n)
  PROVE  Exchanged(b, a, n)
  BY DEF Exchanged

\* Notes outside a subtree: the parent of its root, and the root's neighbours.
LEMMA AroundSubtree ==
  ASSUME NEW a, GoodOrder(a), NEW n \in a.ids
  PROVE  /\ a.parent[n] \in (a.ids \cup {Null}) \ Subtree(a, n)
         /\ a.prev[n] \in (a.ids \cup {Null}) \ Subtree(a, n)
         /\ a.next[n] \in (a.ids \cup {Null}) \ Subtree(a, n)
<1> DEFINE D == Subtree(a, n)
           I == a.ids
<1>1. I \in SUBSET Notes /\ Null \notin I /\ HierarchyValid(a) /\ n \in I
  BY NullAssumption DEF GoodOrder, Orderings
<1>2. a.parent[n] \in (I \cup {Null}) \ D
  BY <1>1, ParentNotBelow
<1>3. /\ a.prev[n] # Null => a.prev[n] \in I /\ a.parent[a.prev[n]] = a.parent[n] /\ a.next[a.prev[n]] = n
      /\ a.next[n] # Null => a.next[n] \in I /\ a.parent[a.next[n]] = a.parent[n] /\ a.prev[a.next[n]] = n
  BY DEF GoodOrder, Ordered, Reciprocal
<1>4. D \subseteq I
  BY <1>1, SubtreeClosed
<1>5. \A m \in D \ {n} : a.parent[m] \in D
  BY <1>1, SubtreeUnder
<1>6. \A S \in SUBSET I : S # {} => (\E m \in S : a.prev[m] \notin S) /\ (\E m \in S : a.next[m] \notin S)
  BY DEF GoodOrder, Ordered, NoRings
<1>7. a.prev[n] # n /\ a.next[n] # n
  <2>1. {n} \in SUBSET I
    BY <1>1
  <2>2. QED
    BY <1>6, <2>1
<1> HIDE DEF D, I
<1>8. a.prev[n] \in (I \cup {Null}) \ D /\ a.next[n] \in (I \cup {Null}) \ D
  BY <1>1, <1>2, <1>3, <1>4, <1>5, <1>7
<1>9. QED
  BY <1>2, <1>8 DEF D, I

-----------------------------------------------------------------------------
(***************************************************************************)
(* What the commands do to the order.                                        *)
(***************************************************************************)
\* Relations of orders are read off the columns.
LEMMA OrderRelations ==
  ASSUME NEW s, NEW u, NEW n
  PROVE  /\ Lost(Order(s), Order(u), n) = Lost(s, u, n)
         /\ Exchanged(Order(s), Order(u), n) = Exchanged(s, u, n)
         /\ \A q : Listing(Order(s), n, q) = Listing(s, n, q)
<1>1. \A t : /\ Order(t).ids = t.ids /\ Order(t).parent = t.parent
             /\ Order(t).prev = t.prev /\ Order(t).next = t.next
  BY OrderFields
<1>2. \A t : Subtree(Order(t), n) = Subtree(t, n) /\ \A m : Place(Order(t), m) = Place(t, m)
  BY OrderFields
<1>3. Lost(Order(s), Order(u), n) = Lost(s, u, n)
  BY <1>1, <1>2 DEF Lost, PrevWithout, NextWithout
<1>4. Exchanged(Order(s), Order(u), n) = Exchanged(s, u, n)
  BY <1>1 DEF Exchanged, PrevWithout, NextWithout
<1>5. ASSUME NEW q PROVE Listing(Order(s), n, q) = Listing(s, n, q)
  BY <1>1, <1>2 DEF Listing
<1>6. QED
  BY <1>3, <1>4, <1>5

\* A created note is all of its subtree, and the vault had the rest.
LEMMA CreatedIsLost ==
  ASSUME NEW s, Sound(s), Clean(s), NEW u,
         NEW n, NEW p, NEW prev, NEW next, Created(s, u, n, p, prev, next)
  PROVE  Lost(u, s, n) /\ Subtree(u, n) = {n}
<1> DEFINE I == s.ids
<1>1. /\ n \in Notes \ I /\ p \in I \cup {Null} /\ prev \in I \cup {Null}
      /\ next \in I \cup {Null}
      /\ u.ids = I \cup {n} /\ u.parent[n] = p
      /\ \A m \in Notes \ {n} : u.parent[m] = s.parent[m]
  BY DEF Created, Gap
<1>2. /\ prev # Null => s.next[prev] = next
      /\ next # Null => s.prev[next] = prev
  BY DEF Created, Gap
<1>3. \A m \in Notes :
        /\ u.prev[m] = IF m = n THEN prev ELSE IF m = next THEN n ELSE s.prev[m]
        /\ u.next[m] = IF m = n THEN next ELSE IF m = prev THEN n ELSE s.next[m]
  BY DEF Created, Inserted
<1>4. /\ I \in SUBSET Notes /\ Null \notin Notes
      /\ \A m \in I : s.parent[m] # Null => s.parent[m] \in I
      /\ \A m \in Notes \ I : s.parent[m] = Null /\ s.prev[m] = Null /\ s.next[m] = Null
  BY NullAssumption DEF Sound, Stores, Clean, HierarchyValid
<1>5. \A c \in u.ids : u.parent[c] # n
  BY <1>1, <1>4
<1>6. Subtree(u, n) = {n}
  <2>1. n \in Subtree(u, n)
    BY <1>1, <1>4, SubtreeClosed
  <2>2. {n} \in SUBSET Notes /\ \A c \in u.ids : u.parent[c] \in {n} => c \in {n}
    BY <1>1, <1>5
  <2>3. Subtree(u, n) \subseteq {n}
    BY <2>2, SubtreeLeast
  <2>4. QED
    BY <2>1, <2>3
<1>7. ASSUME NEW m \in Notes
      PROVE  /\ s.parent[m] = IF m = n THEN Null ELSE u.parent[m]
             /\ s.prev[m] = IF m = n THEN Null ELSE PrevWithout(u, n, m)
             /\ s.next[m] = IF m = n THEN Null ELSE NextWithout(u, n, m)
  <2>1. u.prev[n] = prev /\ u.next[n] = next
    BY <1>1, <1>3
  <2>2. s.parent[m] = IF m = n THEN Null ELSE u.parent[m]
    BY <1>1, <1>4
  <2>3. s.prev[m] = IF m = n THEN Null ELSE IF m = next THEN prev ELSE u.prev[m]
    BY <1>1, <1>2, <1>3, <1>4
  <2>4. s.next[m] = IF m = n THEN Null ELSE IF m = prev THEN next ELSE u.next[m]
    BY <1>1, <1>2, <1>3, <1>4
  <2>5. QED
    BY <2>1, <2>2, <2>3, <2>4 DEF PrevWithout, NextWithout
<1>8. n \in u.ids /\ s.ids = u.ids \ {n}
  BY <1>1
<1> HIDE DEF I
<1>9. QED
  BY <1>6, <1>7, <1>8 DEF Lost

\* The record of a created note lists its subtree.
LEMMA OneListed ==
  ASSUME NEW a, NEW n, Subtree(a, n) = {n}, NEW r \in Records, r.id = n, r.place = Place(a, n)
  PROVE  Listing(a, n, <<r>>)
<1>1. <<r>> \in Seq(Records) /\ Len(<<r>>) = 1 /\ <<r>>[1] = r
  BY OneRecordType
<1>2. \A i \in 1..1 : i = 1
  OBVIOUS
<1>3. \A i \in 2..1 : FALSE
  OBVIOUS
<1> DEFINE q == <<r>>
<1> HIDE DEF q
<1>4. q \in Seq(Records) /\ Len(q) = 1 /\ q[1] = r
  BY <1>1 DEF q
<1>5. Listing(a, n, q)
  BY <1>2, <1>3, <1>4 DEF Listing
<1>6. QED
  BY <1>5 DEF q

\* What a deletion leaves.
LEMMA DeletedIsLost ==
  ASSUME NEW s, Sound(s), NEW u, NEW n, Deleted(s, u, n)
  PROVE  Lost(s, u, n)
<1> DEFINE D == Subtree(s, n)
           d == LinkOut(s, n)
<1>1. n \in s.ids /\ u = DropLists(DropNotes(d, D), D) /\ s \in Stores /\ n \in Notes
  BY DEF Deleted, Sound, Stores
<1>2. d \in Stores
  BY <1>1, LinkOutType
<1>3. d = LinkOut(s, n)
  OBVIOUS
<1> HIDE DEF d
<1>4. /\ d.ids = s.ids /\ d.parent = s.parent
      /\ \A m \in Notes : /\ d.prev[m] = IF m = s.next[n] THEN s.prev[n] ELSE s.prev[m]
                          /\ d.next[m] = IF m = s.prev[n] THEN s.next[n] ELSE s.next[m]
  BY <1>1, <1>3, LinkOutFields
<1>5. /\ u.ids = s.ids \ D
      /\ \A m \in Notes : /\ u.parent[m] = IF m \in D THEN Null ELSE d.parent[m]
                          /\ u.prev[m] = IF m \in D THEN Null ELSE d.prev[m]
                          /\ u.next[m] = IF m \in D THEN Null ELSE d.next[m]
  BY <1>1, <1>2, <1>4 DEF DropLists, DropNotes, Stores
<1>6. QED
  BY <1>1, <1>4, <1>5 DEF Lost, PrevWithout, NextWithout

\* What a move leaves.
LEMMA MovedIsExchanged ==
  ASSUME NEW s, Sound(s), NEW u,
         NEW n, NEW p, NEW prev, NEW next, Moved(s, u, n, p, prev, next)
  PROVE  Exchanged(s, u, n)
<1> DEFINE d == Detached(s, n, p)
<1>1. /\ s \in Stores /\ n \in s.ids /\ s.ids \in SUBSET Notes /\ n \in Notes /\ u.ids = s.ids
      /\ prev \in s.ids \cup {Null} /\ Gap(d, s.ids \ {n}, p, prev, next)
      /\ \A m \in Notes \ {n} : u.parent[m] = s.parent[m]
      /\ \A m \in Notes :
            /\ u.prev[m] = IF m = n THEN prev ELSE IF m = next THEN n ELSE d.prev[m]
            /\ u.next[m] = IF m = n THEN next ELSE IF m = prev THEN n ELSE d.next[m]
  BY DEF Sound, Stores, Moved, Inserted
<1>2. /\ prev # Null => d.next[prev] = next
      /\ next # Null => d.prev[next] = prev
  BY <1>1 DEF Gap
<1>3. \A m \in Notes : /\ d.prev[m] = PrevWithout(s, n, m)
                       /\ d.next[m] = NextWithout(s, n, m)
  <2>1. LinkOut(s, n) \in Stores
    BY <1>1, LinkOutType
  <2>2. d.prev = LinkOut(s, n).prev /\ d.next = LinkOut(s, n).next
    BY <2>1 DEF Detached, Stores
  <2>3. \A m \in Notes :
          /\ LinkOut(s, n).prev[m] = IF m = s.next[n] THEN s.prev[n] ELSE s.prev[m]
          /\ LinkOut(s, n).next[m] = IF m = s.prev[n] THEN s.next[n] ELSE s.next[m]
    BY <1>1, LinkOutFields
  <2>4. QED
    BY <2>2, <2>3 DEF PrevWithout, NextWithout
<1> HIDE DEF d
<1>4. ASSUME NEW m \in Notes \ {n}
      PROVE  PrevWithout(u, n, m) = d.prev[m] /\ NextWithout(u, n, m) = d.next[m]
  <2>1. u.prev[n] = prev /\ u.next[n] = next
    BY <1>1
  <2>2. /\ PrevWithout(u, n, m) = IF m = next THEN prev ELSE u.prev[m]
        /\ NextWithout(u, n, m) = IF m = prev THEN next ELSE u.next[m]
    BY <2>1 DEF PrevWithout, NextWithout
  <2>3. m # Null
    BY NullAssumption
  <2>4. QED
    BY <1>1, <1>2, <2>2, <2>3
<1>5. QED
  BY <1>1, <1>3, <1>4 DEF Exchanged

-----------------------------------------------------------------------------
(***************************************************************************)
(* A move back is applied and gives the order back.                          *)
(***************************************************************************)
\* A note may move into every gap that its list has without it.
LEMMA GapWithoutAcceptsMove ==
  ASSUME StoreInv, NEW n \in store.ids, NEW p \in NoteOrNull,
         NEW prev \in NoteOrNull, NEW next \in NoteOrNull,
         Gap(Detached(store, n, p), store.ids \ {n}, p, prev, next),
         ParentAllowed(rows, n, p)
  PROVE  CanMove(n, p, prev, next)
<1> DEFINE out == Detached(store, n, p)
           u == LinkOut(store, n)
           J == store.ids \ {n}
           list == {m \in J : u.parent[m] = p}
<1>1. /\ store \in Stores /\ Sound(store) /\ store.ids \in SUBSET Notes /\ Null \notin Notes
      /\ Reciprocal(store, store.ids) /\ Ordered(store, store.ids)
      /\ IndexMatches(store, store.ids) /\ n # Null /\ n \in Notes
  BY NullAssumption DEF StoreInv, Sound, Stores, Ordered
<1>2. /\ u.ids = store.ids /\ u.parent = store.parent
      /\ \A m \in Notes :
          /\ u.prev[m] = IF m = store.next[n] THEN store.prev[n] ELSE store.prev[m]
          /\ u.next[m] = IF m = store.prev[n] THEN store.next[n] ELSE store.next[m]
      /\ \A q \in NoteOrNull :
          /\ u.heads[q] = IF q = store.parent[n] /\ store.prev[n] = Null
                          THEN store.next[n] ELSE store.heads[q]
          /\ u.tails[q] = IF q = store.parent[n] /\ store.next[n] = Null
                          THEN store.prev[n] ELSE store.tails[q]
  BY <1>1, LinkOutFields
<1>3. u \in Stores /\ Ordered(u, J) /\ IndexMatches(u, J)
  BY <1>1, LinkOutType, LinkOutOrdered, LinkOutIndex
<1>4. /\ list = {} => u.heads[p] = Null /\ u.tails[p] = Null
      /\ list # {} => u.heads[p] \in list /\ u.prev[u.heads[p]] = Null
  BY <1>3 DEF IndexMatches
<1>5. /\ \A m, k \in J : u.parent[m] = u.parent[k] /\ u.prev[m] = Null /\ u.prev[k] = Null => m = k
  BY <1>3 DEF Ordered, SingleBoundaries
<1>6. /\ out.ids = store.ids /\ \A m \in Notes \ {n} : out.parent[m] = u.parent[m]
      /\ out.prev = u.prev /\ out.next = u.next /\ out.heads = u.heads /\ out.tails = u.tails
  <2> HIDE DEF u
  <2>1. out = [u EXCEPT !.parent = [@ EXCEPT ![n] = p]]
    BY DEF Detached, u
  <2> HIDE DEF out
  <2>2. QED
    BY <1>2, <1>3, <2>1 DEF Stores
<1>7. /\ prev # Null => prev \in J /\ out.parent[prev] = p /\ out.next[prev] = next
      /\ next # Null => next \in J /\ out.parent[next] = p /\ out.prev[next] = prev
      /\ prev = Null /\ next = Null => \A m \in J : out.parent[m] # p
  BY DEF Gap
<1>8. /\ prev # Null => prev \in J /\ u.parent[prev] = p /\ u.next[prev] = next
      /\ next # Null => next \in J /\ u.parent[next] = p /\ u.prev[next] = prev
      /\ prev = Null /\ next = Null => list = {}
  BY <1>1, <1>6, <1>7
<1>9. store.heads[store.parent[n]] = n => store.prev[n] = Null
  <2> DEFINE q == store.parent[n]
             all == {m \in store.ids : store.parent[m] = q}
  <2>1. n \in all /\ q \in NoteOrNull
    BY <1>1 DEF Stores
  <2>2. store.prev[store.heads[q]] = Null
    BY <1>1, <2>1 DEF IndexMatches
  <2>3. QED
    BY <2>2
<1>10. store.heads[p] = n => p = store.parent[n] /\ store.prev[n] = Null
  <2> DEFINE all == {m \in store.ids : store.parent[m] = p}
  <2>1. /\ all = {} => store.heads[p] = Null
        /\ all # {} => store.heads[p] \in all
    BY <1>1 DEF IndexMatches
  <2>2. store.heads[p] = n => n \in all
    BY <1>1, <2>1
  <2>3. QED
    BY <1>9, <2>2
<1> HIDE DEF u, out, J, list
<1>11. MoveTarget(store, n, p, prev) = next
  <2> DEFINE after == NextAfter(store, p, prev)
  <2>1. CASE prev # Null
    <3>1. after = store.next[prev]
      BY <2>1 DEF NextAfter
    <3>2. prev \in Notes /\ prev # n /\ prev \in store.ids
      BY <1>1, <1>8, <2>1 DEF J
    <3>3. next = IF prev = store.prev[n] THEN store.next[n] ELSE store.next[prev]
      BY <1>2, <1>8, <2>1, <3>2
    <3>4. store.next[prev] = n <=> prev = store.prev[n]
      BY <1>1, <2>1, <3>2 DEF Reciprocal
    <3>5. QED
      BY <3>1, <3>3, <3>4 DEF MoveTarget
  <2>2. CASE prev = Null
    <3>1. after = store.heads[p]
      BY <2>2 DEF NextAfter
    <3>2. MoveTarget(store, n, p, prev) = u.heads[p]
      <4>1. CASE after = n
        BY <1>2, <1>10, <3>1, <4>1 DEF MoveTarget
      <4>2. CASE after # n
        <5>1. ~(p = store.parent[n] /\ store.prev[n] = Null)
          <6>1. ASSUME p = store.parent[n], store.prev[n] = Null PROVE store.heads[p] = n
            <7> DEFINE all == {m \in store.ids : store.parent[m] = p}
            <7>1. n \in all
              BY <6>1
            <7>2. store.heads[p] \in all /\ store.prev[store.heads[p]] = Null
              BY <1>1, <7>1 DEF IndexMatches
            <7>3. QED
              BY <1>1, <6>1, <7>2 DEF Ordered, SingleBoundaries
          <6>2. QED
            BY <3>1, <4>2, <6>1
        <5>2. QED
          BY <1>2, <3>1, <4>2, <5>1 DEF MoveTarget
      <4>3. QED
        BY <4>1, <4>2
    <3>3. CASE next = Null
      BY <1>4, <1>8, <2>2, <3>2, <3>3
    <3>4. CASE next # Null
      <4>1. next \in list /\ next \in J /\ u.prev[next] = Null
        BY <1>8, <2>2, <3>4 DEF list
      <4>2. u.heads[p] \in J /\ u.prev[u.heads[p]] = Null /\ u.parent[u.heads[p]] = p
        BY <1>4, <4>1 DEF list
      <4>3. u.parent[next] = p
        BY <1>8, <3>4
      <4>4. QED
        BY <1>5, <3>2, <4>1, <4>2, <4>3
    <3>5. QED
      BY <3>3, <3>4
  <2>3. QED
    BY <2>1, <2>2
<1>12. ResolvedPrev(out, p, prev, next) = prev
  BY <1>4, <1>6, <1>8 DEF ResolvedPrev
<1>13. ResolvedNext(out, p, prev, next) = next
  BY <1>6, <1>8, <1>12 DEF ResolvedNext
<1>14. CanLinkIn(out, n, p, prev, next)
  BY <1>1, <1>6, <1>7 DEF CanLinkIn, J
<1>15. CanLinkOut(store, n)
  BY <1>1, LinkOutSucceeds
<1>16. prev # Null => prev \in store.ids /\ store.parent[prev] = p
  BY <1>2, <1>8 DEF J
<1>17. QED
  BY <1>11, <1>12, <1>13, <1>14, <1>15, <1>16 DEF CanMove, out

\* Depths are read upwards: what two hierarchies nest alike has the same depths.
LEMMA DepthsAgree ==
  ASSUME NEW a, NEW t, a.ids \in SUBSET Notes, HierarchyValid(a), HierarchyValid(t),
         NEW J \in SUBSET Notes, J \subseteq a.ids, J \subseteq t.ids,
         \A m \in J : /\ t.parent[m] = a.parent[m]
                      /\ a.parent[m] # Null => a.parent[m] \in J
  PROVE  \A m \in J : Depths(t)[m] = Depths(a)[m]
<1> DEFINE d == Depths(a)
           e == Depths(t)
           Differ == {m \in J : e[m] # d[m]}
<1>1. /\ d \in [a.ids -> 1..MaxDepth] /\ IsDepthMap(a, d)
      /\ e \in [t.ids -> 1..MaxDepth] /\ IsDepthMap(t, e)
  BY DepthsDefined
<1> HIDE DEF d, e
<1>2. \A m \in J : d[m] \in Nat /\ e[m] \in Nat
  BY <1>1, MaxDepthAssumption
<1>3. \A m \in J : /\ d[m] = IF a.parent[m] = Null THEN 1 ELSE d[a.parent[m]] + 1
                   /\ e[m] = IF a.parent[m] = Null THEN 1 ELSE e[a.parent[m]] + 1
  BY <1>1 DEF IsDepthMap
<1>4. ASSUME Differ # {} PROVE FALSE
  <2> DEFINE D == {d[m] : m \in Differ}
  <2>1. D \in SUBSET Nat /\ D # {}
    BY <1>2, <1>4
  <2>2. PICK i \in D : \A j \in D : i <= j
    BY <2>1, LeastNumber
  <2>3. PICK m \in Differ : d[m] = i
    OBVIOUS
  <2>4. m \in J /\ e[m] # d[m]
    OBVIOUS
  <2>5. a.parent[m] # Null /\ a.parent[m] \in J /\ d[m] = d[a.parent[m]] + 1
        /\ e[m] = e[a.parent[m]] + 1
    BY <1>3, <2>4
  <2>6. a.parent[m] \in Differ
    BY <2>4, <2>5
  <2>7. d[m] <= d[a.parent[m]]
    BY <2>2, <2>3, <2>6
  <2>8. QED
    BY <1>2, <2>5, <2>7
<1>5. QED
  BY <1>4 DEF d, e

\* A subtree hangs together wherever its root hangs.
LEMMA SubtreeCarried ==
  ASSUME NEW a, NEW b, a.ids \in SUBSET Notes, b.ids = a.ids, NEW n \in a.ids,
         \A m \in a.ids \ {n} : b.parent[m] = a.parent[m]
  PROVE  Subtree(a, n) = Subtree(b, n)
<1>1. ASSUME NEW s, NEW t, s.ids \in SUBSET Notes, t.ids = s.ids, n \in s.ids,
             \A m \in s.ids \ {n} : t.parent[m] = s.parent[m]
      PROVE  Subtree(s, n) \subseteq Subtree(t, n)
  <2> DEFINE S == Subtree(t, n)
  <2>1. n \in S /\ S \subseteq s.ids /\ \A c \in s.ids : t.parent[c] \in S => c \in S
    BY <1>1, SubtreeClosed
  <2>2. S \in SUBSET Notes /\ \A c \in s.ids : s.parent[c] \in S => c \in S
    BY <1>1, <2>1
  <2> HIDE DEF S
  <2>3. Subtree(s, n) \subseteq S
    BY <2>1, <2>2, SubtreeLeast
  <2>4. QED
    BY <2>3 DEF S
<1>2. QED
  BY <1>1

\* In a subtree the depths keep their distance from the root.
LEMMA SubtreeDepths ==
  ASSUME NEW a, NEW b, a.ids \in SUBSET Notes, b.ids = a.ids, NEW n \in a.ids,
         HierarchyValid(a), HierarchyValid(b),
         \A m \in a.ids \ {n} : b.parent[m] = a.parent[m]
  PROVE  \A m \in Subtree(a, n) : Depths(a)[m] - Depths(a)[n] = Depths(b)[m] - Depths(b)[n]
<1> DEFINE d == Depths(a)
           e == Depths(b)
           I == a.ids
           D == Subtree(a, n)
           S == {m \in D : d[m] - d[n] = e[m] - e[n]}
<1>1. d \in [I -> 1..MaxDepth] /\ IsDepthMap(a, d) /\ e \in [I -> 1..MaxDepth] /\ IsDepthMap(b, e)
  BY DepthsDefined
<1>2. n \in D /\ D \subseteq I /\ \A c \in I : a.parent[c] \in D => c \in D
  BY SubtreeClosed
<1>3. \A m \in I : d[m] \in Nat /\ e[m] \in Nat
  BY <1>1, MaxDepthAssumption
<1>4. /\ Null \notin I
      /\ \A m \in I : a.parent[m] # Null => d[m] = d[a.parent[m]] + 1 /\ a.parent[m] \in I
      /\ \A m \in I : b.parent[m] # Null => e[m] = e[b.parent[m]] + 1
  BY <1>1, NullAssumption DEF IsDepthMap, HierarchyValid
<1>5. \A m \in I \ {n} : b.parent[m] = a.parent[m]
  OBVIOUS
<1>6. n \in I /\ I \in SUBSET Notes
  OBVIOUS
<1> HIDE DEF d, e, D
<1>7. n \in S
  BY <1>2, <1>3
<1>8. ASSUME NEW c \in I, a.parent[c] \in S PROVE c \in S
  <2>1. c \in D /\ a.parent[c] \in D /\ a.parent[c] \in I /\ a.parent[c] # Null
    BY <1>2, <1>4, <1>8
  <2>2. CASE c = n
    BY <1>7, <2>2
  <2>3. CASE c # n
    <3>1. b.parent[c] = a.parent[c]
      BY <1>5, <2>3
    <3>2. d[c] = d[a.parent[c]] + 1 /\ e[c] = e[a.parent[c]] + 1
      BY <1>4, <2>1, <3>1
    <3>3. d[a.parent[c]] - d[n] = e[a.parent[c]] - e[n]
      BY <1>8
    <3> DEFINE x == d[a.parent[c]]
               y == e[a.parent[c]]
               v == d[n]
               w == e[n]
    <3>4. x \in Nat /\ y \in Nat /\ v \in Nat /\ w \in Nat
      BY <1>3, <1>6, <2>1
    <3>5. x - v = y - w /\ d[c] = x + 1 /\ e[c] = y + 1
      BY <3>2, <3>3
    <3>6. d[c] - d[n] = e[c] - e[n]
      <4> HIDE DEF x, y, v, w
      <4>1. (x + 1) - v = (y + 1) - w
        BY <3>4, <3>5
      <4>2. d[c] - v = e[c] - w
        BY <3>5, <4>1
      <4>3. QED
        BY <4>2 DEF v, w
    <3>7. QED
      BY <2>1, <3>6
  <2>4. QED
    BY <2>2, <2>3
<1>9. S \in SUBSET Notes
  BY <1>2, <1>6
<1> HIDE DEF S
<1>10. Subtree(a, n) \subseteq S
  BY <1>7, <1>8, <1>9, SubtreeLeast
<1>11. QED
  BY <1>10 DEF S, d, e

\* validate_database_parent accepts the parent a note had, or is going to have again.
LEMMA ParentAllowedBack ==
  ASSUME NEW a, NEW b, a.ids \in SUBSET Notes, b.ids = a.ids, NEW n \in a.ids,
         HierarchyValid(a), HierarchyValid(b),
         \A m \in a.ids \ {n} : b.parent[m] = a.parent[m]
  PROVE  ParentAllowed(a, n, b.parent[n])
<1> DEFINE d == Depths(a)
           e == Depths(b)
           I == a.ids
           D == Subtree(a, n)
           p == b.parent[n]
<1>1. d \in [I -> 1..MaxDepth] /\ IsDepthMap(a, d) /\ e \in [I -> 1..MaxDepth] /\ IsDepthMap(b, e)
  BY DepthsDefined
<1>2. n \in D /\ D \subseteq I /\ \A c \in I : a.parent[c] \in D => c \in D
  BY SubtreeClosed
<1>3. D = Subtree(b, n)
  BY SubtreeCarried
<1>4. p \in (I \cup {Null}) \ D
  BY <1>3, ParentNotBelow
<1>5. \A m \in I \ D : d[m] = e[m]
  <2> DEFINE J == I \ D
  <2>1. Null \notin I /\ \A m \in I : a.parent[m] # Null => a.parent[m] \in I
    BY NullAssumption DEF HierarchyValid
  <2>2. \A m \in J : /\ b.parent[m] = a.parent[m] /\ (a.parent[m] # Null => a.parent[m] \in J)
    <3>1. \A m \in J : m # n /\ a.parent[m] \notin D
      BY <1>2
    <3>2. QED
      BY <2>1, <3>1
  <2>3. J \in SUBSET Notes /\ J \subseteq a.ids /\ J \subseteq b.ids
    OBVIOUS
  <2> HIDE DEF J
  <2>4. \A m \in J : Depths(b)[m] = Depths(a)[m]
    BY <2>2, <2>3, DepthsAgree
  <2>5. QED
    BY <2>4 DEF J
<1>6. \A m \in D : d[m] - d[n] = e[m] - e[n]
  BY SubtreeDepths
<1>7. \A m \in I : d[m] \in Nat /\ e[m] \in Nat /\ e[m] <= MaxDepth
  BY <1>1, MaxDepthAssumption
<1>8. DepthOf(a, p) = (IF p = Null THEN 0 ELSE d[p]) /\ e[n] = DepthOf(a, p) + 1
      /\ DepthOf(a, p) \in Nat
  <2>1. e[n] = IF p = Null THEN 1 ELSE e[p] + 1
    BY <1>1 DEF IsDepthMap
  <2>2. p # Null => e[p] = d[p] /\ d[p] \in Nat
    BY <1>4, <1>5, <1>7
  <2>3. QED
    BY <2>1, <2>2 DEF DepthOf
<1> HIDE DEF d, e, D, p
<1>9. ASSUME NEW m \in D PROVE DepthOf(a, p) + (d[m] - d[n]) + 1 <= MaxDepth
  <2>1. d[m] - d[n] = e[m] - e[n]
    BY <1>6
  <2>2. e[m] \in Nat /\ e[n] \in Nat /\ e[m] <= MaxDepth /\ d[m] \in Nat /\ d[n] \in Nat
    BY <1>2, <1>7
  <2>3. QED
    BY <1>8, <2>1, <2>2
<1>10. QED
  BY <1>4, <1>9 DEF ParentAllowed, p, D, d

\* apply_move with the place a note had, in a vault that has the other notes where
\* they were then, is applied and gives the order back.
LEMMA MoveGivesOrder ==
  ASSUME StoreInv, Clean(store), NEW b, GoodOrder(b), NEW n, Exchanged(Order(store), b, n),
         MoveNote(n, b.parent[n], b.prev[n], b.next[n])
  PROVE  phase' = "applied" /\ StoreInv' /\ Order(store') = b
<1> DEFINE p == b.parent[n]
           prev == b.prev[n]
           next == b.next[n]
           I == store.ids
           d == Detached(store, n, p)
           u == LinkOut(store, n)
<1>1. /\ store \in Stores /\ Sound(store) /\ I \in SUBSET Notes /\ Null \notin Notes
      /\ rows = Columns(store) /\ HierarchyValid(store)
  BY NullAssumption DEF StoreInv, Sound, Stores
<1>2. Exchanged(store, b, n)
  <2>1. Order(store).ids = store.ids /\ Order(store).parent = store.parent
        /\ Order(store).prev = store.prev /\ Order(store).next = store.next
    BY OrderFields
  <2>2. QED
    BY <2>1 DEF Exchanged, PrevWithout, NextWithout
<1>3. /\ n \in I /\ n \in Notes /\ b.ids = I
      /\ \A m \in Notes \ {n} : b.parent[m] = store.parent[m]
      /\ \A m \in Notes \ {n} : PrevWithout(b, n, m) = PrevWithout(store, n, m)
      /\ \A m \in Notes \ {n} : NextWithout(b, n, m) = NextWithout(store, n, m)
  BY <1>1, <1>2 DEF Exchanged
<1>4. /\ b \in Orderings /\ HierarchyValid(b) /\ Ordered(b, I)
      /\ p \in NoteOrNull /\ prev \in NoteOrNull /\ next \in NoteOrNull
  BY <1>3 DEF GoodOrder, Orderings
<1>5. /\ u \in Stores /\ u.ids = I /\ u.parent = store.parent
      /\ \A m \in Notes : u.prev[m] = PrevWithout(store, n, m) /\ u.next[m] = NextWithout(store, n, m)
  <2>1. u \in Stores /\ u = LinkOut(store, n)
    BY <1>1, <1>3, LinkOutType
  <2> HIDE DEF u
  <2>2. /\ u.ids = store.ids /\ u.parent = store.parent
        /\ \A m \in Notes :
            /\ u.prev[m] = IF m = store.next[n] THEN store.prev[n] ELSE store.prev[m]
            /\ u.next[m] = IF m = store.prev[n] THEN store.next[n] ELSE store.next[m]
    BY <1>1, <1>3, <2>1, LinkOutFields
  <2>3. QED
    BY <2>1, <2>2 DEF PrevWithout, NextWithout
<1>6. /\ d \in Stores /\ d.ids = I /\ d.parent = [store.parent EXCEPT ![n] = p]
      /\ d.prev = u.prev /\ d.next = u.next
  <2>1. d \in Stores
    BY <1>1, <1>3, <1>4, DetachedType
  <2>2. d = [u EXCEPT !.parent = [@ EXCEPT ![n] = p]]
    BY DEF Detached
  <2> HIDE DEF d, u
  <2>3. QED
    BY <1>5, <2>1, <2>2 DEF Stores
<1>7. /\ prev # Null => prev \in I \ {n} /\ b.parent[prev] = p /\ b.next[prev] = n
      /\ next # Null => next \in I \ {n} /\ b.parent[next] = p /\ b.prev[next] = n
  <2>1. /\ prev # Null => prev \in I /\ b.parent[prev] = p /\ b.next[prev] = n
        /\ next # Null => next \in I /\ b.parent[next] = p /\ b.prev[next] = n
    BY <1>3, <1>4 DEF Ordered, Reciprocal
  <2>2. {n} \in SUBSET I /\ {n} # {}
    BY <1>3
  <2>3. prev # n /\ next # n
    BY <1>4, <2>2 DEF Ordered, NoRings
  <2>4. QED
    BY <2>1, <2>3
<1>8. prev = Null /\ next = Null => \A m \in I \ {n} : b.parent[m] # p
  <2> DEFINE list == {m \in I \ {n} : b.parent[m] = p}
  <2>1. ASSUME prev = Null, next = Null, list # {} PROVE FALSE
    <3>1. list \in SUBSET I
      OBVIOUS
    <3>2. PICK m \in list : b.prev[m] \notin list
      BY <1>4, <2>1, <3>1 DEF Ordered, NoRings
    <3>3. m \in I /\ m # n /\ b.parent[m] = b.parent[n] /\ b.parent[m] = p
      BY <3>2
    <3>4. b.prev[m] # Null
      BY <1>3, <1>4, <2>1, <3>3 DEF Ordered, SingleBoundaries
    <3>5. b.prev[m] \in I /\ b.parent[b.prev[m]] = p /\ b.next[b.prev[m]] = m
      BY <1>4, <3>3, <3>4 DEF Ordered, Reciprocal
    <3>6. b.prev[m] = n
      BY <3>2, <3>5
    <3>7. next = m
      BY <3>5, <3>6
    <3>8. QED
      BY <1>1, <2>1, <3>3, <3>7
  <2>2. QED
    BY <2>1
<1>9. d.parent[n] = p /\ \A m \in Notes \ {n} : d.parent[m] = b.parent[m]
  BY <1>1, <1>3, <1>6 DEF Stores
<1>10. \A m \in Notes \ {n} : /\ d.prev[m] = IF m = next THEN prev ELSE b.prev[m]
                              /\ d.next[m] = IF m = prev THEN next ELSE b.next[m]
  BY <1>3, <1>5, <1>6 DEF PrevWithout, NextWithout
<1> HIDE DEF d, u, I, p, prev, next
<1>11. Gap(d, I \ {n}, p, prev, next)
  BY <1>1, <1>7, <1>8, <1>9, <1>10 DEF Gap
<1>12. ParentAllowed(rows, n, p)
  <2>1. ParentAllowed(store, n, p)
    <3>1. \A m \in store.ids \ {n} : b.parent[m] = store.parent[m]
      BY <1>1, <1>3 DEF I
    <3>2. QED
      BY <1>1, <1>3, <1>4, <3>1, ParentAllowedBack DEF I, p
  <2>2. rows.ids = store.ids /\ rows.parent = store.parent
    BY <1>1 DEF Columns
  <2>3. QED
    BY <2>1, <2>2, SameHierarchy DEF ParentAllowed
<1>13. CanMove(n, p, prev, next)
  BY <1>3, <1>4, <1>11, <1>12, GapWithoutAcceptsMove DEF d, I
<1>14. MoveNote(n, p, prev, next)
  BY DEF p, prev, next
<1>15. /\ phase' = "applied" /\ store' = LinkIn(d, n, p, prev, next)
  BY <1>3, <1>13, <1>14 DEF MoveNote, Applied, d, I
<1>16. StoreInv'
  BY <1>3, <1>4, <1>14, MoveNoteInv
<1>17. /\ store'.ids = I /\ store'.parent = d.parent
       /\ \A m \in Notes :
            /\ store'.prev[m] = IF m = n THEN prev ELSE IF m = next THEN n ELSE d.prev[m]
            /\ store'.next[m] = IF m = n THEN next ELSE IF m = prev THEN n ELSE d.next[m]
  BY <1>3, <1>4, <1>6, <1>15, LinkInFields
<1>18. \A m \in Notes : /\ store'.parent[m] = b.parent[m] /\ store'.prev[m] = b.prev[m]
                        /\ store'.next[m] = b.next[m]
  <2>1. b.parent[n] = p /\ b.prev[n] = prev /\ b.next[n] = next
    BY DEF p, prev, next
  <2>2. next \in Notes => b.prev[next] = n
    BY <1>1, <1>7
  <2>3. prev \in Notes => b.next[prev] = n
    BY <1>1, <1>7
  <2>4. QED
    BY <1>9, <1>10, <1>17, <2>1, <2>2, <2>3
<1>19. Order(store') \in Orderings
  <2>1. store' \in Stores
    BY <1>16 DEF StoreInv, Sound
  <2>2. QED
    BY <2>1 DEF Stores, Orderings, Order
<1>20. /\ Order(store').ids = b.ids
       /\ \A m \in Notes : /\ Order(store').parent[m] = b.parent[m]
                           /\ Order(store').prev[m] = b.prev[m]
                           /\ Order(store').next[m] = b.next[m]
  BY <1>3, <1>17, <1>18 DEF Order
<1>21. Order(store') = b
  BY <1>4, <1>19, <1>20, OrderEquality
<1>22. QED
  BY <1>15, <1>16, <1>21

-----------------------------------------------------------------------------
(***************************************************************************)
(* A deletion of what was created, or restored, gives the order back.        *)
(***************************************************************************)
LEMMA DeleteGivesOrder ==
  ASSUME StoreInv, Clean(store), NEW b, GoodOrder(b), NEW n, Lost(Order(store), b, n),
         NEW focus \in {store.parent[n], store.prev[n], store.next[n]},
         DeleteAndFocus(n, focus)
  PROVE  phase' = "applied" /\ StoreInv' /\ Order(store') = b
<1>1. /\ store \in Stores /\ Sound(store) /\ store.ids \in SUBSET Notes
  BY DEF StoreInv, Sound, Stores
<1>2. Lost(store, b, n)
  <2>1. /\ Order(store).ids = store.ids /\ Order(store).parent = store.parent
        /\ Order(store).prev = store.prev /\ Order(store).next = store.next
        /\ Subtree(Order(store), n) = Subtree(store, n)
    BY OrderFields
  <2>2. QED
    BY <2>1 DEF Lost, PrevWithout, NextWithout
<1>3. n \in store.ids /\ n \in Notes
  BY <1>1, <1>2 DEF Lost
<1>4. focus \in (store.ids \cup {Null}) \ Subtree(store, n)
  <2>1. GoodOrder(Order(store)) /\ Order(store).ids = store.ids
    BY <1>1, SoundOrder, OrderFields
  <2>2. /\ Order(store).parent = store.parent /\ Order(store).prev = store.prev
        /\ Order(store).next = store.next /\ Subtree(Order(store), n) = Subtree(store, n)
    BY OrderFields
  <2>3. /\ Order(store).parent[n] \in (Order(store).ids \cup {Null}) \ Subtree(Order(store), n)
        /\ Order(store).prev[n] \in (Order(store).ids \cup {Null}) \ Subtree(Order(store), n)
        /\ Order(store).next[n] \in (Order(store).ids \cup {Null}) \ Subtree(Order(store), n)
    BY <1>3, <2>1, AroundSubtree
  <2>4. QED
    BY <2>1, <2>2, <2>3
<1>5. DeleteSubtree(n)
  BY <1>4 DEF DeleteAndFocus
<1>6. CanLinkOut(store, n)
  BY <1>1, <1>3, LinkOutSucceeds
<1>7. phase' = "applied" /\ Deleted(store, store', n)
  BY <1>3, <1>5, <1>6 DEF DeleteSubtree, Applied, Deleted
<1>8. StoreInv'
  BY <1>3, <1>5, DeleteSubtreeInv
<1>9. Lost(store, store', n)
  BY <1>1, <1>7, DeletedIsLost
<1>10. store' \in Stores
  BY <1>8 DEF StoreInv, Sound
<1>11. Order(store') \in Orderings
  BY <1>10 DEF Stores, Orderings, Order
<1>12. Lost(Order(store), Order(store'), n)
  BY <1>9, OrderRelations
<1>13. b \in Orderings
  BY DEF GoodOrder
<1>14. Order(store') = b
  BY <1>11, <1>12, <1>13, LostUnique
<1>15. QED
  BY <1>7, <1>8, <1>14

\* A fold changes no order.
LEMMA FoldKeepsOrder ==
  ASSUME StoreInv, Clean(store), NEW n \in store.ids, NEW c \in BOOLEAN, CollapseNote(n, c)
  PROVE  phase' = "applied" /\ StoreInv' /\ Order(store') = Order(store)
<1>1. Sound(store) /\ rows = Columns(store) /\ n \in Notes /\ store \in Stores
  BY DEF StoreInv, Sound, Stores
<1>2. /\ rows' = SetCollapsed(rows, n, c) /\ store' = SetCollapsed(store, n, c)
      /\ phase' = "applied" /\ UNCHANGED <<db, serving>>
  BY DEF CollapseNote, Applied
<1>3. Sound(store') /\ rows' = Columns(store')
  BY <1>1, <1>2, SetCollapsedSound
<1>4. TypeOK'
  <2>1. store' \in Stores /\ rows' \in Tables
    BY <1>3, ColumnsType DEF Sound
  <2>2. QED
    BY <1>2, <2>1 DEF TypeOK, Phases, StoreInv
<1>5. StoreInv'
  BY <1>2, <1>3, <1>4 DEF StoreInv
<1>6. Order(store') = Order(store)
  BY <1>1, <1>2 DEF SetCollapsed, Order, Stores
<1>7. QED
  BY <1>2, <1>5, <1>6

-----------------------------------------------------------------------------
(***************************************************************************)
(* A batch of records gives the order back, one note at a time.  The first    *)
(* record closes the gap the subtree left; from then on the store and the     *)
(* rows are the old order, cut down to the notes that are back.               *)
(***************************************************************************)
\* What linking n in changes in a store.
LinkedInto(s, u, n, p, prev, next) ==
    /\ u.ids = s.ids /\ u.parent = s.parent /\ u.collapsed = s.collapsed
    /\ \A m \in Notes :
          /\ u.prev[m] = IF m = n THEN prev ELSE IF m = next THEN n ELSE s.prev[m]
          /\ u.next[m] = IF m = n THEN next ELSE IF m = prev THEN n ELSE s.next[m]

\* insert makes these changes and no other.
LEMMA LinkInColumns ==
  ASSUME NEW s \in Stores, NEW n \in Notes, NEW p \in NoteOrNull,
         NEW prev \in NoteOrNull, NEW next \in NoteOrNull,
         NEW u, u = LinkIn(s, n, p, prev, next)
  PROVE  LinkedInto(s, u, n, p, prev, next)
BY DEF LinkIn, Stores, LinkedInto

\* What an INSERT and its two UPDATEs change in the rows.
RowAdded(t, u, n, p, prev, next, c) ==
    /\ u \in Tables /\ u.ids = t.ids \cup {n} /\ u.parent = [t.parent EXCEPT ![n] = p]
    /\ u.collapsed = [t.collapsed EXCEPT ![n] = c]
    /\ \A m \in Notes :
          /\ u.prev[m] = IF m = next /\ next \in t.ids \cup {n} THEN n
                         ELSE IF m = n THEN prev ELSE t.prev[m]
          /\ u.next[m] = IF m = prev /\ prev \in t.ids \cup {n} THEN n
                         ELSE IF m = n THEN next ELSE t.next[m]

\* Every column of the rows after an INSERT and its two UPDATEs.
LEMMA InsertedRowFields ==
  ASSUME NEW t \in Tables, NEW n \in Notes, NEW p \in NoteOrNull,
         NEW prev \in NoteOrNull, NEW next \in NoteOrNull, NEW c \in BOOLEAN,
         NEW u, u = InsertRow(t, n, p, prev, next, c)
  PROVE  RowAdded(t, u, n, p, prev, next, c)
<1> DEFINE row == [AddNote(t, n, p, c) EXCEPT !.prev = [@ EXCEPT ![n] = prev],
                                              !.next = [@ EXCEPT ![n] = next]]
           v == UpdateNext(row, prev, n)
           w == UpdatePrev(v, next, n)
<1>1. /\ row \in Tables /\ row.ids = t.ids \cup {n} /\ row.parent = [t.parent EXCEPT ![n] = p]
      /\ row.prev = [t.prev EXCEPT ![n] = prev] /\ row.next = [t.next EXCEPT ![n] = next]
      /\ row.collapsed = [t.collapsed EXCEPT ![n] = c]
  BY DEF AddNote, Tables
<1>2. \A m \in Notes : /\ row.prev[m] = IF m = n THEN prev ELSE t.prev[m]
                       /\ row.next[m] = IF m = n THEN next ELSE t.next[m]
  BY <1>1 DEF Tables
<1>3. n \in NoteOrNull
  BY DEF NoteOrNull
<1> HIDE DEF row
<1>4. /\ v \in Tables /\ v.ids = row.ids /\ v.parent = row.parent /\ v.prev = row.prev
      /\ v.collapsed = row.collapsed
      /\ \A m \in Notes : v.next[m] = IF m = prev /\ prev \in row.ids THEN n ELSE row.next[m]
  <2>1. v \in Tables
    BY <1>1, <1>3, UpdateType
  <2>2. /\ v.ids = row.ids /\ v.parent = row.parent /\ v.prev = row.prev
        /\ v.collapsed = row.collapsed
        /\ \A m \in Notes : v.next[m] = IF m = prev /\ prev \in row.ids THEN n ELSE row.next[m]
    <3>1. row \in Tables
      BY <1>1
    <3>2. QED
      BY <3>1, UpdateFields
  <2>3. QED
    BY <2>1, <2>2
<1> HIDE DEF v
<1>5. /\ w \in Tables /\ w.ids = v.ids /\ w.parent = v.parent /\ w.next = v.next
      /\ w.collapsed = v.collapsed
      /\ \A m \in Notes : w.prev[m] = IF m = next /\ next \in v.ids THEN n ELSE v.prev[m]
  <2>1. w \in Tables
    BY <1>3, <1>4, UpdateType
  <2>2. /\ w.ids = v.ids /\ w.parent = v.parent /\ w.next = v.next
        /\ w.collapsed = v.collapsed
        /\ \A m \in Notes : w.prev[m] = IF m = next /\ next \in v.ids THEN n ELSE v.prev[m]
    BY <1>4, UpdateFields
  <2>3. QED
    BY <2>1, <2>2
<1>6. u = w
  BY DEF InsertRow, row, v
<1> HIDE DEF w
<1>7. QED
  BY <1>1, <1>2, <1>4, <1>5, <1>6 DEF RowAdded

\* Store and rows are order a for the notes of J; in the store a note whose next
\* note is not back yet is the last of its list.
Restoring(a, J, done) ==
    /\ done.ok /\ Sound(done.store) /\ done.rows \in Tables
    /\ done.store.ids = J /\ done.rows.ids = J
    /\ done.rows.collapsed = done.store.collapsed
    /\ \A m \in Notes :
          /\ done.store.parent[m] = IF m \in J THEN a.parent[m] ELSE Null
          /\ done.store.prev[m] = IF m \in J THEN a.prev[m] ELSE Null
          /\ done.store.next[m] = IF m \in J /\ a.next[m] \in J THEN a.next[m] ELSE Null
          /\ done.rows.parent[m] = IF m \in J THEN a.parent[m] ELSE Null
          /\ done.rows.prev[m] = IF m \in J THEN a.prev[m] ELSE Null
          /\ done.rows.next[m] = IF m \in J THEN a.next[m] ELSE Null

\* There is room for x where it was in order a, at the end of its list if it was first.
HasRoom(a, done, x) ==
    /\ NewParentAllowed(done.store, a.parent[x])
    /\ NewParentAllowed(done.rows, a.parent[x])
    /\ a.prev[x] = Null => done.store.tails[a.parent[x]] = Null

\* With every note of a note's way up and to the left, J has room for it.
LEMMA RoomForNext ==
  ASSUME NEW a, GoodOrder(a), NEW J \in SUBSET Notes, J \subseteq a.ids, NEW done,
         Restoring(a, J, done), NEW x \in a.ids \ J,
         \A m \in J : a.parent[m] \in J \cup {Null} /\ a.prev[m] \in J \cup {Null},
         a.parent[x] \in J \cup {Null}, a.prev[x] \in J \cup {Null}
  PROVE  HasRoom(a, done, x)
<1> DEFINE s == done.store
           p == a.parent[x]
           I == a.ids
<1>1. /\ I \in SUBSET Notes /\ Null \notin Notes /\ HierarchyValid(a) /\ Ordered(a, I)
      /\ x \in I /\ x \in Notes /\ p \in NoteOrNull
  BY NullAssumption DEF GoodOrder, Orderings
<1>2. /\ Sound(s) /\ s.ids = J /\ s \in Stores
      /\ \A m \in J : s.parent[m] = a.parent[m] /\ s.prev[m] = a.prev[m]
      /\ done.rows \in Tables /\ done.rows.ids = J /\ done.rows.parent = s.parent
  <2>1. /\ Sound(s) /\ s.ids = J /\ s \in Stores /\ done.rows \in Tables /\ done.rows.ids = J
        /\ \A m \in Notes : done.rows.parent[m] = s.parent[m]
        /\ \A m \in J : s.parent[m] = a.parent[m] /\ s.prev[m] = a.prev[m]
    BY DEF Restoring, Sound
  <2>2. done.rows.parent = s.parent
    BY <2>1 DEF Tables, Stores
  <2>3. QED
    BY <2>1, <2>2
<1>3. \A m \in J : Depths(s)[m] = Depths(a)[m]
  <2>1. HierarchyValid(s)
    BY <1>2 DEF Sound
  <2>2. \A m \in J : s.parent[m] = a.parent[m] /\ (a.parent[m] # Null => a.parent[m] \in J)
    BY <1>2
  <2>3. J \subseteq a.ids /\ J \subseteq s.ids
    BY <1>2
  <2> HIDE DEF s
  <2>4. QED
    BY <1>1, <2>1, <2>2, <2>3, DepthsAgree
<1>4. DepthOf(s, p) + 1 <= MaxDepth
  <2> DEFINE d == Depths(a)
  <2>1. d \in [I -> 1..MaxDepth] /\ IsDepthMap(a, d)
    BY <1>1, DepthsDefined
  <2>2. d[x] = (IF p = Null THEN 1 ELSE d[p] + 1) /\ d[x] \in Nat /\ d[x] <= MaxDepth
    <3>1. d[x] \in 1..MaxDepth /\ MaxDepth \in Nat
      BY <1>1, <2>1, MaxDepthAssumption
    <3>2. d[x] = IF p = Null THEN 1 ELSE d[p] + 1
      BY <1>1, <2>1 DEF IsDepthMap
    <3>3. QED
      BY <3>1, <3>2
  <2>3. DepthOf(s, p) = IF p = Null THEN 0 ELSE d[p]
    BY <1>3 DEF DepthOf
  <2>4. QED
    BY <2>2, <2>3
<1>5. NewParentAllowed(s, p)
  BY <1>2, <1>4 DEF NewParentAllowed
<1>6. NewParentAllowed(done.rows, p)
  BY <1>2, <1>5, SameAnswers
<1>7. ASSUME a.prev[x] = Null PROVE s.tails[p] = Null
  <2> DEFINE list == {m \in J : a.parent[m] = p}
  <2>1. ASSUME list # {} PROVE FALSE
    <3>1. list \in SUBSET I
      OBVIOUS
    <3>2. PICK m \in list : a.prev[m] \notin list
      BY <1>1, <2>1, <3>1 DEF Ordered, NoRings
    <3>3. m \in J /\ m \in I /\ a.parent[m] = p /\ m # x /\ a.prev[m] \in J \cup {Null}
      BY <3>2
    <3>4. a.prev[m] # Null => a.parent[a.prev[m]] = p
      BY <1>1, <3>3 DEF Ordered, Reciprocal
    <3>5. a.prev[m] = Null
      BY <3>2, <3>3, <3>4
    <3>6. QED
      BY <1>1, <1>7, <3>3, <3>5 DEF Ordered, SingleBoundaries
  <2>2. {m \in J : s.parent[m] = p} = {}
    BY <1>2, <2>1
  <2> HIDE DEF p, s
  <2>3. QED
    BY <1>1, <1>2, <2>2 DEF Sound, IndexMatches
<1>8. QED
  BY <1>5, <1>6, <1>7 DEF HasRoom

\* What one more record does to store and rows, given the anchors it is linked at.
LEMMA RestoresNext ==
  ASSUME NEW a, GoodOrder(a), NEW J \in SUBSET Notes, J \subseteq a.ids, NEW done,
         Restoring(a, J, done), NEW x \in a.ids \ J,
         \A m \in J : a.parent[m] \in J \cup {Null} /\ a.prev[m] \in J \cup {Null},
         a.parent[x] \in J \cup {Null}, a.prev[x] \in J \cup {Null},
         a.next[x] \notin J \cup {x},
         NEW c \in BOOLEAN, NEW p, p = a.parent[x], NEW prev, prev = a.prev[x],
         NEW added, added = AddNote(done.store, x, p, c), NEW before, NEW after,
         before = ResolvedPrev(added, p, prev, Null), after = ResolvedNext(added, p, prev, Null)
  PROVE  /\ CanLinkIn(added, x, p, before, after)
         /\ Restoring(a, J \cup {x},
                      [ok |-> TRUE,
                       rows |-> InsertRow(done.rows, x, p, prev, a.next[x], c),
                       store |-> LinkIn(added, x, p, before, after)])
<1> DEFINE s == done.store
           I == a.ids
           K == J \cup {x}
           linked == LinkIn(added, x, p, before, after)
           row == InsertRow(done.rows, x, p, prev, a.next[x], c)
<1>1. /\ I \in SUBSET Notes /\ Null \notin Notes /\ Reciprocal(a, I)
      /\ x \in I /\ x \in Notes /\ p \in NoteOrNull /\ prev \in NoteOrNull
      /\ a.next[x] \in NoteOrNull
  BY NullAssumption DEF GoodOrder, Orderings, Ordered
<1>2. /\ Sound(s) /\ s.ids = J /\ s \in Stores /\ done.rows \in Tables /\ done.rows.ids = J
      /\ done.rows.collapsed = s.collapsed
      /\ \A m \in Notes :
          /\ s.parent[m] = IF m \in J THEN a.parent[m] ELSE Null
          /\ s.prev[m] = IF m \in J THEN a.prev[m] ELSE Null
          /\ s.next[m] = IF m \in J /\ a.next[m] \in J THEN a.next[m] ELSE Null
          /\ done.rows.parent[m] = IF m \in J THEN a.parent[m] ELSE Null
          /\ done.rows.prev[m] = IF m \in J THEN a.prev[m] ELSE Null
          /\ done.rows.next[m] = IF m \in J THEN a.next[m] ELSE Null
  BY DEF Restoring, Sound
<1>3. /\ NewParentAllowed(s, p) /\ (prev = Null => s.tails[p] = Null)
  <2>1. HasRoom(a, done, x)
    BY RoomForNext
  <2>2. QED
    BY <2>1 DEF HasRoom
<1>4. /\ added \in Stores /\ added.ids = K /\ added.parent = [s.parent EXCEPT ![x] = p]
      /\ added.prev = s.prev /\ added.next = s.next /\ added.tails = s.tails
      /\ added.collapsed = [s.collapsed EXCEPT ![x] = c]
  <2>1. added \in Stores
    BY <1>1, <1>2, AddNoteType
  <2> HIDE DEF s
  <2>2. s = done.store
    BY DEF s
  <2>3. QED
    BY <1>2, <2>1, <2>2 DEF AddNote, Stores
<1> HIDE DEF s
<1>5. prev # Null => prev \in J /\ prev \in Notes /\ prev # x /\ a.parent[prev] = p /\ a.next[prev] = x
  BY <1>1 DEF Reciprocal
<1>6. before = prev
  BY <1>3, <1>4 DEF ResolvedPrev
<1>7. after = Null
  <2>1. CASE prev = Null
    BY <1>6, <2>1 DEF ResolvedNext
  <2>2. CASE prev # Null
    <3>1. added.next[prev] = Null
      BY <1>2, <1>4, <1>5, <2>2
    <3>2. QED
      BY <1>6, <2>2, <3>1 DEF ResolvedNext
  <2>3. QED
    BY <2>1, <2>2
<1>8. CanLinkIn(added, x, p, before, after)
  <2>1. prev # Null => prev \in added.ids /\ added.parent[prev] = p /\ added.next[prev] = Null
    <3>1. prev # Null => s.parent[prev] = p /\ s.next[prev] = Null
      BY <1>2, <1>5
    <3>2. QED
      BY <1>2, <1>4, <1>5, <3>1 DEF Stores
  <2>2. QED
    BY <1>5, <1>6, <1>7, <2>1 DEF CanLinkIn
<1>9. Sound(linked)
  <2>1. x \in Notes \ s.ids
    BY <1>1, <1>2
  <2>2. added = AddNote(s, x, p, c)
    BY DEF s
  <2>3. before = ResolvedPrev(added, p, prev, Null) /\ after = ResolvedNext(added, p, prev, Null)
    OBVIOUS
  <2>4. Sound(s) /\ p \in NoteOrNull /\ c \in BOOLEAN /\ NewParentAllowed(s, p)
    BY <1>1, <1>2, <1>3
  <2>5. /\ Sound(LinkIn(added, x, p, before, after))
        /\ LinkIn(added, x, p, before, after).ids = s.ids \cup {x}
        /\ LinkIn(added, x, p, before, after).parent = [s.parent EXCEPT ![x] = p]
        /\ before \in NoteOrNull /\ after \in NoteOrNull
    BY <1>8, <2>1, <2>2, <2>3, <2>4, LinkInSound
  <2>6. QED
    BY <2>5
<1>10. /\ linked.ids = added.ids /\ linked.parent = added.parent
       /\ linked.collapsed = added.collapsed
       /\ \A m \in Notes :
             /\ linked.prev[m] = IF m = x THEN prev ELSE IF m = Null THEN x ELSE added.prev[m]
             /\ linked.next[m] = IF m = x THEN Null ELSE IF m = prev THEN x ELSE added.next[m]
  <2>1. linked = LinkIn(added, x, p, prev, Null) /\ Null \in NoteOrNull
    BY <1>6, <1>7 DEF NoteOrNull
  <2> HIDE DEF linked
  <2>2. added \in Stores /\ x \in Notes /\ p \in NoteOrNull /\ prev \in NoteOrNull
        /\ Null \in NoteOrNull
    BY <1>1, <1>4, <2>1
  <2>3. LinkedInto(added, linked, x, p, prev, Null)
    BY <2>1, <2>2, LinkInColumns
  <2>4. QED
    BY <2>3 DEF LinkedInto
<1>11. /\ row \in Tables /\ row.ids = K /\ row.parent = [done.rows.parent EXCEPT ![x] = p]
       /\ row.collapsed = [done.rows.collapsed EXCEPT ![x] = c]
       /\ \A m \in Notes :
             /\ row.prev[m] = IF m = a.next[x] /\ a.next[x] \in K THEN x
                              ELSE IF m = x THEN prev ELSE done.rows.prev[m]
             /\ row.next[m] = IF m = prev /\ prev \in K THEN x
                              ELSE IF m = x THEN a.next[x] ELSE done.rows.next[m]
  <2> DEFINE t == done.rows
             last == a.next[x]
  <2>1. t \in Tables /\ t.ids = J /\ last \in NoteOrNull
    BY <1>1, <1>2
  <2>2. row = InsertRow(t, x, p, prev, last, c)
    OBVIOUS
  <2> HIDE DEF t, last, row
  <2>3. RowAdded(t, row, x, p, prev, last, c)
    <3>1. t \in Tables /\ x \in Notes /\ p \in NoteOrNull /\ prev \in NoteOrNull
          /\ last \in NoteOrNull /\ c \in BOOLEAN
      BY <1>1, <2>1
    <3>2. QED
      BY <2>2, <3>1, InsertedRowFields
  <2>4. QED
    BY <2>1, <2>3 DEF t, last, RowAdded
<1> HIDE DEF linked, row
<1>12. \A m \in Notes : /\ linked.parent[m] = IF m = x THEN p ELSE s.parent[m]
                        /\ row.parent[m] = IF m = x THEN p ELSE done.rows.parent[m]
  BY <1>1, <1>2, <1>4, <1>10, <1>11 DEF Stores, Tables
<1>13. ASSUME NEW m \in Notes
       PROVE  /\ linked.parent[m] = IF m \in K THEN a.parent[m] ELSE Null
              /\ linked.prev[m] = IF m \in K THEN a.prev[m] ELSE Null
              /\ row.parent[m] = IF m \in K THEN a.parent[m] ELSE Null
              /\ row.prev[m] = IF m \in K THEN a.prev[m] ELSE Null
              /\ row.next[m] = IF m \in K THEN a.next[m] ELSE Null
  <2>1. CASE m = x
    <3>1. m \in K
      BY <2>1
    <3>2. linked.parent[m] = p /\ row.parent[m] = p /\ linked.prev[m] = prev
      BY <1>10, <1>12, <2>1
    <3>3. row.prev[m] = prev /\ row.next[m] = a.next[x]
      <4>1. a.next[x] \notin K /\ x # prev
        BY <1>1, <1>5
      <4> HIDE DEF K
      <4>2. QED
        BY <1>11, <2>1, <4>1
    <3>4. QED
      BY <2>1, <3>1, <3>2, <3>3
  <2>2. CASE m # x
    <3>1. m \in K <=> m \in J
      BY <2>2
    <3>2. /\ linked.parent[m] = s.parent[m] /\ row.parent[m] = done.rows.parent[m]
          /\ linked.prev[m] = s.prev[m] /\ row.prev[m] = done.rows.prev[m]
      BY <1>1, <1>4, <1>10, <1>11, <1>12, <2>2
    <3>3. row.next[m] = IF m = prev /\ prev \in K THEN x ELSE done.rows.next[m]
      BY <1>11, <2>2
    <3>4. row.next[m] = IF m \in J THEN a.next[m] ELSE Null
      BY <1>1, <1>2, <1>5, <2>2, <3>3
    <3>5. QED
      BY <1>2, <3>1, <3>2, <3>4
  <2>3. QED
    BY <2>1, <2>2
<1>14. ASSUME NEW m \in Notes
       PROVE  linked.next[m] = IF m \in K /\ a.next[m] \in K THEN a.next[m] ELSE Null
  <2>1. CASE m = x
    BY <1>10, <2>1
  <2>2. CASE m = prev
    <3>1. linked.next[m] = x /\ m \in J /\ a.next[m] = x
      BY <1>1, <1>5, <1>10, <2>2
    <3>2. QED
      BY <3>1
  <2>3. CASE m # x /\ m # prev
    <3>1. linked.next[m] = IF m \in J /\ a.next[m] \in J THEN a.next[m] ELSE Null
      BY <1>2, <1>4, <1>10, <2>3
    <3>2. m \in J => a.next[m] # x
      <4>1. m \in J => m \in I
        OBVIOUS
      <4>2. m \in J /\ a.next[m] = x => a.prev[x] = m
        BY <1>1, <4>1 DEF Reciprocal
      <4>3. QED
        BY <2>3, <4>2
    <3>3. QED
      BY <2>3, <3>1, <3>2
  <2>4. QED
    BY <2>1, <2>2, <2>3
<1>15. row.collapsed = linked.collapsed
  BY <1>2, <1>4, <1>10, <1>11
<1>16. Restoring(a, K, [ok |-> TRUE, rows |-> row, store |-> linked])
  BY <1>4, <1>9, <1>10, <1>11, <1>13, <1>14, <1>15, ZenonT(30) DEF Restoring
<1>17. QED
  BY <1>8, <1>16 DEF linked, row

\* What a subtree and its root are to the notes that stayed.
LEMMA RestIsClosed ==
  ASSUME NEW a, GoodOrder(a), NEW n \in a.ids
  PROVE  \A m \in a.ids \ Subtree(a, n) :
            /\ a.parent[m] \in (a.ids \ Subtree(a, n)) \cup {Null}
            /\ a.prev[m] \in (a.ids \ Subtree(a, n)) \cup {n, Null}
            /\ a.next[m] \in (a.ids \ Subtree(a, n)) \cup {n, Null}
<1> DEFINE D == Subtree(a, n)
           I == a.ids
<1>1. I \in SUBSET Notes /\ Null \notin I /\ Reciprocal(a, I) /\ HierarchyValid(a)
  BY NullAssumption DEF GoodOrder, Orderings, Ordered
<1>2. n \in D /\ D \subseteq I /\ \A c \in I : a.parent[c] \in D => c \in D
  BY <1>1, SubtreeClosed
<1>3. \A m \in D \ {n} : a.parent[m] \in D
  BY <1>1, SubtreeUnder
<1>4. \A m \in I : a.parent[m] # Null => a.parent[m] \in I
  BY <1>1 DEF HierarchyValid
<1> HIDE DEF D
<1>5. ASSUME NEW m \in I \ D
      PROVE  /\ a.parent[m] \in (I \ D) \cup {Null}
             /\ a.prev[m] \in (I \ D) \cup {n, Null}
             /\ a.next[m] \in (I \ D) \cup {n, Null}
  <2>1. a.parent[m] \notin D
    BY <1>2
  <2>2. /\ a.prev[m] # Null => a.prev[m] \in I /\ a.parent[a.prev[m]] = a.parent[m]
        /\ a.next[m] # Null => a.next[m] \in I /\ a.parent[a.next[m]] = a.parent[m]
    BY <1>1 DEF Reciprocal
  <2>3. QED
    BY <1>3, <1>4, <2>1, <2>2
<1>6. QED
  BY <1>5 DEF D

\* The first record of a batch goes back between the neighbours that closed up.
LEMMA RestoresFirst ==
  ASSUME NEW a, GoodOrder(a), NEW s, Sound(s), Clean(s), NEW n, Lost(a, s, n),
         NEW c \in BOOLEAN, NEW p, p = a.parent[n], NEW prev, prev = a.prev[n],
         NEW next, next = a.next[n],
         NEW added, added = AddNote(s, n, p, c), NEW before, NEW after,
         before = ResolvedPrev(added, p, prev, next), after = ResolvedNext(added, p, prev, next)
  PROVE  /\ NewParentAllowed(Columns(s), p)
         /\ CanLinkIn(added, n, p, before, after)
         /\ Restoring(a, s.ids \cup {n},
                      [ok |-> TRUE,
                       rows |-> InsertRow(Columns(s), n, p, prev, next, c),
                       store |-> LinkIn(added, n, p, before, after)])
<1> DEFINE I == a.ids
           D == Subtree(a, n)
           J == s.ids
           K == J \cup {n}
           linked == LinkIn(added, n, p, before, after)
           row == InsertRow(Columns(s), n, p, prev, next, c)
<1>1. /\ I \in SUBSET Notes /\ Null \notin Notes /\ Reciprocal(a, I) /\ HierarchyValid(a)
      /\ Ordered(a, I) /\ n \in I /\ n \in Notes /\ p \in NoteOrNull /\ prev \in NoteOrNull
      /\ next \in NoteOrNull
  BY NullAssumption DEF GoodOrder, Orderings, Ordered, Lost
<1>2. /\ n \in D /\ D \subseteq I /\ J = I \ D /\ n \notin J
      /\ \A m \in Notes \ I : a.parent[m] = Null /\ a.prev[m] = Null /\ a.next[m] = Null
  BY <1>1, SubtreeClosed DEF Lost, GoodOrder, Clean
<1>3. \A m \in J :
         /\ s.parent[m] = a.parent[m]
         /\ s.prev[m] = IF m = next THEN prev ELSE a.prev[m]
         /\ s.next[m] = IF m = prev THEN next ELSE a.next[m]
  BY <1>1, <1>2 DEF Lost, PrevWithout, NextWithout
<1>4. p \in J \cup {Null} /\ prev \in J \cup {Null} /\ next \in J \cup {Null}
  <2>1. /\ a.parent[n] \in (a.ids \cup {Null}) \ Subtree(a, n)
        /\ a.prev[n] \in (a.ids \cup {Null}) \ Subtree(a, n)
        /\ a.next[n] \in (a.ids \cup {Null}) \ Subtree(a, n)
    BY <1>1, AroundSubtree
  <2>2. QED
    BY <1>2, <2>1
<1>5. \A m \in J : /\ a.parent[m] \in J \cup {Null}
                   /\ a.prev[m] \in J \cup {n, Null} /\ a.next[m] \in J \cup {n, Null}
  <2>1. \A m \in a.ids \ Subtree(a, n) :
            /\ a.parent[m] \in (a.ids \ Subtree(a, n)) \cup {Null}
            /\ a.prev[m] \in (a.ids \ Subtree(a, n)) \cup {n, Null}
            /\ a.next[m] \in (a.ids \ Subtree(a, n)) \cup {n, Null}
    BY <1>1, RestIsClosed
  <2>2. QED
    BY <1>2, <2>1
<1>6. s \in Stores /\ HierarchyValid(s) /\ IndexMatches(s, J)
  BY DEF Sound
<1>7. \A m \in J : Depths(s)[m] = Depths(a)[m]
  <2>1. J \in SUBSET Notes /\ J \subseteq a.ids /\ J \subseteq s.ids
    BY <1>1, <1>2
  <2>2. \A m \in J : s.parent[m] = a.parent[m] /\ (a.parent[m] # Null => a.parent[m] \in J)
    BY <1>3, <1>5
  <2> HIDE DEF J
  <2>3. QED
    BY <1>1, <1>6, <2>1, <2>2, DepthsAgree
<1>8. NewParentAllowed(s, p)
  <2> DEFINE d == Depths(a)
  <2>1. d \in [I -> 1..MaxDepth] /\ IsDepthMap(a, d)
    BY <1>1, DepthsDefined
  <2>2. d[n] = (IF p = Null THEN 1 ELSE d[p] + 1) /\ d[n] \in Nat /\ d[n] <= MaxDepth
    <3>1. d[n] \in 1..MaxDepth /\ MaxDepth \in Nat
      BY <1>1, <2>1, MaxDepthAssumption
    <3>2. d[n] = IF p = Null THEN 1 ELSE d[p] + 1
      BY <1>1, <2>1 DEF IsDepthMap
    <3>3. QED
      BY <3>1, <3>2
  <2>3. DepthOf(s, p) = IF p = Null THEN 0 ELSE d[p]
    BY <1>4, <1>7 DEF DepthOf
  <2>4. DepthOf(s, p) + 1 <= MaxDepth
    BY <2>2, <2>3
  <2>5. QED
    BY <1>4, <2>4 DEF NewParentAllowed
<1>9. NewParentAllowed(Columns(s), p)
  <2>1. Columns(s).ids = s.ids /\ Columns(s).parent = s.parent
    BY DEF Columns
  <2>2. QED
    BY <1>8, <2>1, SameAnswers
<1>10. /\ added \in Stores /\ added.ids = K /\ added.parent = [s.parent EXCEPT ![n] = p]
       /\ added.prev = s.prev /\ added.next = s.next /\ added.tails = s.tails
       /\ added.collapsed = [s.collapsed EXCEPT ![n] = c]
  <2>1. added \in Stores
    BY <1>1, <1>6, AddNoteType
  <2>2. QED
    BY <1>6, <2>1 DEF AddNote, Stores
<1>11. prev = Null /\ next = Null => s.tails[p] = Null
  <2>1. ASSUME prev = Null, next = Null PROVE {m \in J : s.parent[m] = p} = {}
    <3>1. \A m \in I : a.parent[m] = a.parent[n] => m = n
      <4>1. ASSUME NEW m \in I, a.parent[m] = a.parent[n], m # n PROVE FALSE
        <5> DEFINE list == {k \in I \ {n} : a.parent[k] = a.parent[n]}
        <5>1. list \in SUBSET I /\ list # {}
          BY <4>1
        <5>2. PICK k \in list : a.prev[k] \notin list
          BY <1>1, <5>1 DEF Ordered, NoRings
        <5>3. k \in I /\ k # n /\ a.parent[k] = a.parent[n]
          BY <5>2
        <5>4. a.prev[k] # Null
          BY <1>1, <2>1, <5>3 DEF Ordered, SingleBoundaries
        <5>5. a.prev[k] \in I /\ a.parent[a.prev[k]] = a.parent[n] /\ a.next[a.prev[k]] = k
          BY <1>1, <5>3, <5>4 DEF Reciprocal
        <5>6. a.prev[k] = n
          BY <5>2, <5>5
        <5>7. QED
          BY <1>1, <2>1, <5>3, <5>5, <5>6
      <4>2. QED
        BY <4>1
    <3>2. QED
      BY <1>2, <1>3, <3>1
  <2>2. QED
    BY <1>1, <1>6, <2>1 DEF IndexMatches
<1>12. /\ prev # Null => prev \in J /\ prev # n /\ s.parent[prev] = p /\ s.next[prev] = next
       /\ next # Null => next \in J /\ next # n /\ s.parent[next] = p /\ s.prev[next] = prev
  <2>1. /\ prev # Null => a.parent[prev] = p
        /\ next # Null => a.parent[next] = p
    BY <1>1 DEF Reciprocal
  <2>2. QED
    BY <1>2, <1>3, <1>4, <2>1
<1>13. before = prev
  BY <1>10, <1>11, <1>12 DEF ResolvedPrev
<1>14. after = next
  BY <1>10, <1>12, <1>13 DEF ResolvedNext
<1>15. CanLinkIn(added, n, p, before, after)
  <2>1. \A m \in J : added.parent[m] = s.parent[m]
    BY <1>2, <1>6, <1>10 DEF Stores
  <2>2. QED
    BY <1>10, <1>12, <1>13, <1>14, <2>1 DEF CanLinkIn
<1>16. Sound(linked)
  <2>1. n \in Notes \ s.ids
    BY <1>1, <1>2
  <2>2. before = ResolvedPrev(added, p, prev, next) /\ after = ResolvedNext(added, p, prev, next)
        /\ added = AddNote(s, n, p, c)
    OBVIOUS
  <2>3. /\ Sound(LinkIn(added, n, p, before, after))
        /\ LinkIn(added, n, p, before, after).ids = s.ids \cup {n}
        /\ LinkIn(added, n, p, before, after).parent = [s.parent EXCEPT ![n] = p]
        /\ before \in NoteOrNull /\ after \in NoteOrNull
    BY <1>1, <1>8, <1>15, <2>1, <2>2, LinkInSound
  <2>4. QED
    BY <2>3
<1>17. /\ linked.ids = added.ids /\ linked.parent = added.parent
       /\ linked.collapsed = added.collapsed
       /\ \A m \in Notes :
             /\ linked.prev[m] = IF m = n THEN prev ELSE IF m = next THEN n ELSE added.prev[m]
             /\ linked.next[m] = IF m = n THEN next ELSE IF m = prev THEN n ELSE added.next[m]
  <2>1. linked = LinkIn(added, n, p, prev, next)
    BY <1>13, <1>14
  <2> HIDE DEF linked
  <2>2. added \in Stores /\ n \in Notes /\ p \in NoteOrNull /\ prev \in NoteOrNull
        /\ next \in NoteOrNull
    BY <1>1, <1>10
  <2>3. LinkedInto(added, linked, n, p, prev, next)
    BY <2>1, <2>2, LinkInColumns
  <2>4. QED
    BY <2>3 DEF LinkedInto
<1>18. row = Columns(linked) /\ row \in Tables
  <2>1. n \in Notes \ s.ids /\ prev \in s.ids \cup {Null} /\ next \in s.ids \cup {Null}
    BY <1>1, <1>2, <1>4
  <2>2. row = Columns(LinkIn(AddNote(s, n, p, c), n, p, prev, next))
    BY <1>1, <1>6, <2>1, InsertRowMatches
  <2>3. row = Columns(linked)
    BY <1>13, <1>14, <2>2
  <2>4. linked \in Stores
    BY <1>16 DEF Sound
  <2> HIDE DEF linked, row
  <2>5. QED
    BY <2>3, <2>4, ColumnsType
<1> HIDE DEF linked, row
<1>19. \A m \in Notes : linked.parent[m] = IF m = n THEN p ELSE s.parent[m]
  BY <1>1, <1>6, <1>10, <1>17 DEF Stores
<1>20. \A m \in Notes \ J : m # n => s.parent[m] = Null /\ s.prev[m] = Null /\ s.next[m] = Null
  BY DEF Clean
<1>21. ASSUME NEW m \in Notes
       PROVE  /\ linked.parent[m] = IF m \in K THEN a.parent[m] ELSE Null
              /\ linked.prev[m] = IF m \in K THEN a.prev[m] ELSE Null
              /\ linked.next[m] = IF m \in K THEN a.next[m] ELSE Null
              /\ m \in K /\ a.next[m] # Null => a.next[m] \in K
  <2>1. CASE m = n
    <3>1. m \in K
      BY <2>1
    <3>2. linked.parent[m] = p /\ linked.prev[m] = prev /\ linked.next[m] = next
      BY <1>17, <1>19, <2>1
    <3>3. next # Null => next \in K
      BY <1>4
    <3>4. QED
      BY <2>1, <3>1, <3>2, <3>3
  <2>2. CASE m \in J
    <3>1. m \in K /\ m # n /\ m \in I
      BY <1>2, <2>2
    <3>2. /\ next = m => a.prev[m] = n
          /\ prev = m => a.next[m] = n
      BY <1>1, <1>4, <2>2 DEF Reciprocal
    <3>3. /\ linked.parent[m] = a.parent[m]
          /\ linked.prev[m] = a.prev[m] /\ linked.next[m] = a.next[m]
      BY <1>3, <1>10, <1>17, <1>19, <2>2, <3>1, <3>2
    <3>4. a.next[m] # Null => a.next[m] \in K
      BY <1>5, <2>2
    <3>5. QED
      BY <3>1, <3>3, <3>4
  <2>3. CASE m \notin K
    <3>1. m # n /\ m \notin J /\ m # next /\ m # prev
      BY <1>1, <1>4, <2>3
    <3>2. QED
      BY <1>10, <1>17, <1>19, <1>20, <2>3, <3>1
  <2>4. QED
    BY <2>1, <2>2, <2>3
<1>22. /\ row.ids = linked.ids /\ row.parent = linked.parent /\ row.prev = linked.prev
       /\ row.next = linked.next /\ row.collapsed = linked.collapsed
  BY <1>18 DEF Columns
<1>23. Null \notin K
  BY <1>1, <1>2
<1>24. Restoring(a, K, [ok |-> TRUE, rows |-> row, store |-> linked])
  <2> DEFINE e == [ok |-> TRUE, rows |-> row, store |-> linked]
  <2>1. e.ok /\ e.rows = row /\ e.store = linked
    OBVIOUS
  <2> HIDE DEF e
  <2>2. linked.ids = K /\ row.ids = K
    BY <1>10, <1>17, <1>22
  <2> HIDE DEF K
  <2>3. \A m \in Notes : linked.next[m] = IF m \in K /\ a.next[m] \in K THEN a.next[m] ELSE Null
    BY <1>21, <1>23
  <2>4. Restoring(a, K, e)
    BY <1>16, <1>18, <1>21, <1>22, <2>1, <2>2, <2>3 DEF Restoring
  <2>5. QED
    BY <2>4 DEF e
<1>25. QED
  BY <1>9, <1>15, <1>24 DEF linked, row

\* The notes that are there after i records of a batch.
Back(a, n, q, i) == (a.ids \ Subtree(a, n)) \cup {q[j].id : j \in 1..i}

\* Up to a record of the batch the notes hang together, and its note is new.
LEMMA BackGrows ==
  ASSUME NEW a, GoodOrder(a), NEW n \in a.ids, NEW q, Listing(a, n, q),
         NEW i \in 2..Len(q), NEW J, J = Back(a, n, q, i - 1), NEW x, x = q[i].id
  PROVE  /\ J \in SUBSET Notes /\ J \subseteq a.ids /\ x \in a.ids \ J
         /\ \A m \in J : a.parent[m] \in J \cup {Null} /\ a.prev[m] \in J \cup {Null}
         /\ a.parent[x] \in J \cup {Null} /\ a.prev[x] \in J \cup {Null}
         /\ a.next[x] \notin J \cup {x}
         /\ a.next[x] # Null => a.next[x] \in {q[j].id : j \in (i + 1)..Len(q)}
         /\ Back(a, n, q, i) = J \cup {x}
<1> DEFINE D == Subtree(a, n)
           I == a.ids
           rest == I \ D
           id(j) == q[j].id
           N == Len(q)
           K == {id(j) : j \in 1..(i - 1)}
<1>1. /\ I \in SUBSET Notes /\ Null \notin Notes /\ n \in I /\ HierarchyValid(a)
  BY NullAssumption DEF GoodOrder, Orderings
<1>2. D \subseteq I /\ n \in D
  BY <1>1, SubtreeClosed
<1>3. /\ N \in Nat \ {0} /\ id(1) = n
      /\ \A j, k \in 1..N : id(j) = id(k) => j = k
      /\ \A m : m \in D <=> \E j \in 1..N : id(j) = m
      /\ \A k \in 2..N :
            /\ \E j \in 1..(k - 1) : id(j) = a.parent[id(k)]
            /\ a.prev[id(k)] # Null => \E j \in 1..(k - 1) : id(j) = a.prev[id(k)]
            /\ a.next[id(k)] # Null => \E j \in (k + 1)..N : id(j) = a.next[id(k)]
  BY DEF Listing
<1>4. \A m \in rest : a.parent[m] \in rest \cup {Null} /\ a.prev[m] \in rest \cup {n, Null}
  BY <1>1, RestIsClosed
<1>5. a.parent[n] \in rest \cup {Null} /\ a.prev[n] \in rest \cup {Null}
  BY <1>1, <1>2, AroundSubtree
<1>6. J = rest \cup K /\ x = id(i) /\ i \in 2..N
  BY DEF Back
<1>7. Back(a, n, q, i) = rest \cup {id(j) : j \in 1..i}
  BY DEF Back
<1>8. {q[j].id : j \in (i + 1)..Len(q)} = {id(j) : j \in (i + 1)..N}
  OBVIOUS
<1>9. 1 \in 1..(i - 1) /\ i \in 1..N /\ i - 1 \in Nat /\ \A j \in 1..(i - 1) : j \in 1..N /\ j # i
  BY <1>3
<1>10. {id(j) : j \in 1..i} = K \cup {id(i)}
  <2>1. \A j : j \in 1..i <=> j \in 1..(i - 1) \/ j = i
    BY <1>9
  <2>2. QED
    BY <2>1
<1> HIDE DEF D, id, N
<1>11. n \in K /\ K \subseteq D /\ x \in D
  <2>1. n \in K
    BY <1>3, <1>9
  <2>2. x \in D
    BY <1>3, <1>6, <1>9
  <2>3. K \subseteq D
    BY <1>3, <1>9
  <2>4. QED
    BY <2>1, <2>2, <2>3
<1>12. x \notin K
  BY <1>3, <1>6, <1>9
<1>13. ASSUME NEW m \in K PROVE a.parent[m] \in J \cup {Null} /\ a.prev[m] \in J \cup {Null}
  <2>1. PICK k \in 1..(i - 1) : m = id(k)
    OBVIOUS
  <2>2. CASE k = 1
    BY <1>3, <1>5, <1>6, <2>1, <2>2
  <2>3. CASE k # 1
    <3>1. k \in 2..N /\ \A j \in 1..(k - 1) : j \in 1..(i - 1)
      BY <1>9, <2>3
    <3>2. \A j \in 1..(k - 1) : id(j) \in K
      BY <3>1
    <3>3. a.parent[m] \in K /\ (a.prev[m] # Null => a.prev[m] \in K)
      BY <1>3, <2>1, <3>1, <3>2
    <3>4. QED
      BY <1>6, <3>3
  <2>4. QED
    BY <2>2, <2>3
<1>14. \A m \in J : a.parent[m] \in J \cup {Null} /\ a.prev[m] \in J \cup {Null}
  BY <1>4, <1>6, <1>11, <1>13
<1>15. a.parent[x] \in K /\ (a.prev[x] # Null => a.prev[x] \in K)
  BY <1>3, <1>6
<1>16. a.next[x] # Null => a.next[x] \in {id(j) : j \in (i + 1)..N}
  BY <1>3, <1>6
<1>17. {id(j) : j \in (i + 1)..N} \cap (J \cup {x}) = {}
  <2>1. ASSUME NEW k \in (i + 1)..N PROVE id(k) \notin J \cup {x}
    <3>1. k \in 1..N /\ k # i /\ \A j \in 1..(i - 1) : j # k
      BY <1>3, <1>9
    <3>2. id(k) \in D
      BY <1>3, <3>1
    <3>3. id(k) \notin K /\ id(k) # x
      BY <1>3, <1>6, <1>9, <3>1
    <3>4. QED
      BY <1>6, <3>2, <3>3
  <2>2. QED
    BY <2>1
<1>18. J \in SUBSET Notes /\ J \subseteq I /\ x \in I \ J /\ Null \notin J \cup {x}
  BY <1>1, <1>2, <1>6, <1>11, <1>12
<1>19. a.next[x] \notin J \cup {x}
  BY <1>16, <1>17, <1>18
<1>20. QED
  BY <1>6, <1>7, <1>8, <1>10, <1>14, <1>15, <1>16, <1>18, <1>19

\* A later record of the batch.
LEMMA RestoringStep ==
  ASSUME NEW a, GoodOrder(a), NEW n \in a.ids, NEW q, Listing(a, n, q),
         NEW i \in 2..Len(q), NEW done, Restoring(a, Back(a, n, q, i - 1), done)
  PROVE  Restoring(a, Back(a, n, q, i), RestoreStep(q, done, i))
<1> DEFINE r == q[i]
           x == r.id
           p == r.place.parent
           prev == r.place.prev
           c == r.collapsed
           J == Back(a, n, q, i - 1)
           Later == {q[j].id : j \in (i + 1)..Len(q)}
           added == AddNote(done.store, x, p, c)
           next == IF r.place.next \in Later THEN Null ELSE r.place.next
           before == ResolvedPrev(added, p, prev, next)
           after == ResolvedNext(added, p, prev, next)
<1>1. /\ J \in SUBSET Notes /\ J \subseteq a.ids /\ x \in a.ids \ J
      /\ \A m \in J : a.parent[m] \in J \cup {Null} /\ a.prev[m] \in J \cup {Null}
      /\ a.parent[x] \in J \cup {Null} /\ a.prev[x] \in J \cup {Null}
      /\ a.next[x] \notin J \cup {x}
      /\ a.next[x] # Null => a.next[x] \in Later
      /\ Back(a, n, q, i) = J \cup {x}
  <2> HIDE DEF J, x
  <2>1. J = Back(a, n, q, i - 1) /\ x = q[i].id
    BY DEF J, x
  <2>2. QED
    BY <2>1, BackGrows, SMTT(30)
<1>2. /\ q \in Seq(Records) /\ i \in 1..Len(q) /\ r.place = Place(a, x)
  BY DEF Listing
<1>3. r \in Records
  BY <1>2, ElementOfSeq
<1>4. c \in BOOLEAN
  <2> HIDE DEF r
  <2>1. QED
    BY <1>3 DEF Records
<1>5. p = a.parent[x] /\ prev = a.prev[x] /\ r.place.next = a.next[x]
  BY <1>2 DEF Place
<1>6. next = Null
  BY <1>1, <1>5
<1>7. /\ done.ok /\ done.rows.ids = J
  BY DEF Restoring
<1>8. /\ before = ResolvedPrev(added, p, prev, Null) /\ after = ResolvedNext(added, p, prev, Null)
      /\ added = AddNote(done.store, x, p, c) /\ Restoring(a, J, done)
  BY <1>6
<1>9. RestoreStep(q, done, i)
        = IF /\ done.ok /\ x \notin done.rows.ids /\ NewParentAllowed(done.rows, p)
             /\ CanLinkIn(added, x, p, before, after)
          THEN [ok |-> TRUE,
                rows |-> InsertRow(done.rows, x, p, prev, r.place.next, c),
                store |-> LinkIn(added, x, p, before, after)]
          ELSE [done EXCEPT !.ok = FALSE]
  BY DEF RestoreStep
<1> HIDE DEF J, x, p, prev, c, Later, added, next, before, after
<1>10. NewParentAllowed(done.rows, p)
  <2>1. HasRoom(a, done, x)
    <3>1. /\ J \in SUBSET Notes /\ J \subseteq a.ids /\ x \in a.ids \ J
          /\ \A m \in J : a.parent[m] \in J \cup {Null} /\ a.prev[m] \in J \cup {Null}
          /\ a.parent[x] \in J \cup {Null} /\ a.prev[x] \in J \cup {Null}
          /\ Restoring(a, J, done)
      BY <1>1, <1>8
    <3>2. QED
      BY <3>1, RoomForNext
  <2>2. QED
    BY <1>5, <2>1 DEF HasRoom
<1>11. /\ CanLinkIn(added, x, p, before, after)
       /\ Restoring(a, J \cup {x},
                      [ok |-> TRUE,
                       rows |-> InsertRow(done.rows, x, p, prev, a.next[x], c),
                       store |-> LinkIn(added, x, p, before, after)])
  <2>1. /\ J \in SUBSET Notes /\ J \subseteq a.ids /\ x \in a.ids \ J
        /\ \A m \in J : a.parent[m] \in J \cup {Null} /\ a.prev[m] \in J \cup {Null}
        /\ a.parent[x] \in J \cup {Null} /\ a.prev[x] \in J \cup {Null}
        /\ a.next[x] \notin J \cup {x} /\ Restoring(a, J, done) /\ c \in BOOLEAN
        /\ p = a.parent[x] /\ prev = a.prev[x] /\ added = AddNote(done.store, x, p, c)
        /\ before = ResolvedPrev(added, p, prev, Null)
        /\ after = ResolvedNext(added, p, prev, Null)
    BY <1>1, <1>4, <1>5, <1>8
  <2>2. QED
    BY <2>1, RestoresNext
<1>12. RestoreStep(q, done, i) =
             [ok |-> TRUE,
              rows |-> InsertRow(done.rows, x, p, prev, a.next[x], c),
              store |-> LinkIn(added, x, p, before, after)]
  BY <1>1, <1>5, <1>7, <1>9, <1>10, <1>11
<1>13. QED
  BY <1>1, <1>11, <1>12

\* The first record of the batch.
LEMMA RestoringStart ==
  ASSUME NEW a, GoodOrder(a), NEW s, Sound(s), Clean(s), NEW n, Lost(a, s, n),
         NEW q, Listing(a, n, q),
         NEW done, done = [ok |-> TRUE, rows |-> Columns(s), store |-> s]
  PROVE  Restoring(a, Back(a, n, q, 1), RestoreStep(q, done, 1))
<1> DEFINE r == q[1]
           p == r.place.parent
           prev == r.place.prev
           c == r.collapsed
           Later == {q[j].id : j \in (1 + 1)..Len(q)}
           added == AddNote(s, n, p, c)
           next == IF r.place.next \in Later THEN Null ELSE r.place.next
           before == ResolvedPrev(added, p, prev, next)
           after == ResolvedNext(added, p, prev, next)
<1>1. /\ q \in Seq(Records) /\ Len(q) \in Nat \ {0} /\ r.id = n /\ 1 \in 1..Len(q)
      /\ r.place = Place(a, n)
  BY DEF Listing
<1>2. r \in Records
  BY <1>1, ElementOfSeq
<1>3. c \in BOOLEAN
  <2> HIDE DEF r
  <2>1. QED
    BY <1>2 DEF Records
<1>4. p = a.parent[n] /\ prev = a.prev[n] /\ r.place.next = a.next[n]
  BY <1>1 DEF Place
<1>5. n \in a.ids /\ n \in Notes /\ n \notin s.ids /\ s.ids = a.ids \ Subtree(a, n)
  <2>1. n \in a.ids /\ a.ids \in SUBSET Notes /\ s.ids = a.ids \ Subtree(a, n)
    BY DEF Lost, GoodOrder, Orderings
  <2>2. n \in Subtree(a, n)
    BY <2>1, SubtreeClosed
  <2>3. QED
    BY <2>1, <2>2
<1>6. a.next[n] \notin Later
  <2>1. a.next[n] \in (a.ids \cup {Null}) \ Subtree(a, n)
    BY <1>5, AroundSubtree
  <2>2. Later \subseteq Subtree(a, n)
    <3>1. \A j \in (1 + 1)..Len(q) : j \in 1..Len(q)
      BY <1>1
    <3>2. \A j \in 1..Len(q) : q[j].id \in Subtree(a, n)
      BY DEF Listing
    <3>3. QED
      BY <3>1, <3>2
  <2>3. QED
    BY <2>1, <2>2
<1>7. next = a.next[n]
  BY <1>4, <1>6
<1>8. /\ Back(a, n, q, 1) = s.ids \cup {n}
  <2>1. \A j : j \in 1..1 <=> j = 1
    OBVIOUS
  <2>2. {q[j].id : j \in 1..1} = {n}
    BY <1>1, <2>1
  <2>3. QED
    BY <1>5, <2>2 DEF Back
<1>9. done.ok /\ done.rows = Columns(s) /\ done.store = s /\ done.rows.ids = s.ids
  BY DEF Columns
<1>10. RestoreStep(q, done, 1)
        = IF /\ done.ok /\ n \notin done.rows.ids /\ NewParentAllowed(done.rows, p)
             /\ CanLinkIn(added, n, p, before, after)
          THEN [ok |-> TRUE,
                rows |-> InsertRow(done.rows, n, p, prev, r.place.next, c),
                store |-> LinkIn(added, n, p, before, after)]
          ELSE [done EXCEPT !.ok = FALSE]
  BY <1>1, <1>9 DEF RestoreStep
<1>11. /\ before = ResolvedPrev(added, p, prev, next) /\ after = ResolvedNext(added, p, prev, next)
       /\ added = AddNote(s, n, p, c)
  OBVIOUS
<1> HIDE DEF r, p, prev, c, Later, added, next, before, after
<1>12. /\ NewParentAllowed(Columns(s), p)
       /\ CanLinkIn(added, n, p, before, after)
       /\ Restoring(a, s.ids \cup {n},
                      [ok |-> TRUE,
                       rows |-> InsertRow(Columns(s), n, p, prev, next, c),
                       store |-> LinkIn(added, n, p, before, after)])
  <2>1. /\ c \in BOOLEAN /\ p = a.parent[n] /\ prev = a.prev[n] /\ next = a.next[n]
        /\ added = AddNote(s, n, p, c)
        /\ before = ResolvedPrev(added, p, prev, next)
        /\ after = ResolvedNext(added, p, prev, next)
    BY <1>3, <1>4, <1>7, <1>11
  <2>2. QED
    BY <2>1, RestoresFirst
<1>13. RestoreStep(q, done, 1) =
             [ok |-> TRUE,
              rows |-> InsertRow(Columns(s), n, p, prev, next, c),
              store |-> LinkIn(added, n, p, before, after)]
  BY <1>4, <1>5, <1>7, <1>9, <1>10, <1>12
<1>14. QED
  BY <1>8, <1>12, <1>13

\* A whole batch.
LEMMA BatchGivesOrder ==
  ASSUME NEW a, GoodOrder(a), Sound(store), Clean(store), rows = Columns(store),
         NEW n, Lost(a, store, n), NEW q, Listing(a, n, q)
  PROVE  Restoring(a, a.ids, Restored(q))
<1> DEFINE N == Len(q)
           start == [ok |-> TRUE, rows |-> rows, store |-> store]
           after[i \in 0..N] == IF i = 0 THEN start ELSE RestoreStep(q, after[i - 1], i)
<1>1. Restored(q) = after[N]
  BY DEF Restored
<1>2. after = CHOOSE f : f = [i \in 0..N |-> RestoreFrom(q, f, i)]
  BY DEF RestoreFrom
<1>3. N \in Nat \ {0} /\ q \in Seq(Records) /\ n \in a.ids
  BY DEF Listing, Lost
<1> HIDE DEF after, N
<1>4. after = [i \in 0..N |-> RestoreFrom(q, after, i)]
  BY <1>2, <1>3, BatchExists
<1>5. \A i \in 0..N : after[i] = RestoreFrom(q, after, i)
  BY <1>4
<1>6. after[0] = start
  <2>1. 0 \in 0..N
    BY <1>3
  <2>2. after[0] = RestoreFrom(q, after, 0)
    BY <1>5, <2>1
  <2>3. RestoreFrom(q, after, 0) = start
    BY DEF RestoreFrom
  <2>4. QED
    BY <2>2, <2>3
<1>7. \A i \in 1..N : after[i] = RestoreStep(q, after[i - 1], i)
  <2>1. \A i \in 1..N : i \in 0..N /\ i # 0
    BY <1>3
  <2>2. QED
    BY <1>5, <2>1 DEF RestoreFrom
<1>8. start = [ok |-> TRUE, rows |-> Columns(store), store |-> store]
  OBVIOUS
<1> HIDE DEF start
<1>9. Restoring(a, Back(a, n, q, 1), after[1])
  <2>1. after[1] = RestoreStep(q, start, 1)
    BY <1>3, <1>6, <1>7
  <2>2. Restoring(a, Back(a, n, q, 1), RestoreStep(q, start, 1))
    BY <1>8, RestoringStart
  <2>3. QED
    BY <2>1, <2>2
<1> DEFINE Bad == {i \in 1..N : ~Restoring(a, Back(a, n, q, i), after[i])}
<1>10. CASE Bad # {}
  <2>1. PICK i \in Bad : \A j \in Bad : i <= j
    <3>1. Bad \in SUBSET Nat
      OBVIOUS
    <3> HIDE DEF Bad
    <3>2. QED
      BY <1>10, <3>1, LeastNumber
  <2>2. i \in 1..N /\ ~Restoring(a, Back(a, n, q, i), after[i])
    OBVIOUS
  <2>3. i # 1
    BY <1>9, <2>2
  <2>4. i - 1 \in 1..N /\ i - 1 < i /\ i \in 2..N
    BY <1>3, <2>2, <2>3
  <2>5. Restoring(a, Back(a, n, q, i - 1), after[i - 1])
    BY <2>1, <2>4
  <2>6. Restoring(a, Back(a, n, q, i), RestoreStep(q, after[i - 1], i))
    BY <1>3, <2>4, <2>5, RestoringStep DEF N
  <2>7. QED
    BY <1>7, <2>2, <2>6
<1>11. CASE Bad = {}
  <2>1. N \in 1..N
    BY <1>3
  <2>2. Restoring(a, Back(a, n, q, N), after[N])
    BY <1>11, <2>1
  <2>3. Back(a, n, q, N) = a.ids
    <3>1. a.ids \in SUBSET Notes
      BY DEF GoodOrder, Orderings
    <3>2. Subtree(a, n) \subseteq a.ids
      BY <1>3, <3>1, SubtreeClosed
    <3>3. \A m : m \in Subtree(a, n) <=> \E i \in 1..N : q[i].id = m
      BY DEF Listing, N
    <3>4. Subtree(a, n) = {q[j].id : j \in 1..N}
      BY <3>3
    <3>5. QED
      BY <3>2, <3>4 DEF Back
  <2>4. QED
    BY <1>1, <2>2, <2>3
<1>12. QED
  BY <1>10, <1>11

\* Undoing a deletion, or repeating a creation, is applied and gives the order back.
LEMMA RestoreGivesOrder ==
  ASSUME StoreInv, Clean(store), NEW a, GoodOrder(a), NEW n, Lost(a, Order(store), n),
         NEW q, Listing(a, n, q), RestoreRecords(q)
  PROVE  phase' = "applied" /\ StoreInv' /\ Order(store') = a
<1> DEFINE done == Restored(q)
<1>1. Sound(store) /\ rows = Columns(store)
  BY DEF StoreInv
<1>2. Lost(a, store, n)
  <2>1. /\ Order(store).ids = store.ids /\ Order(store).parent = store.parent
        /\ Order(store).prev = store.prev /\ Order(store).next = store.next
    BY OrderFields
  <2>2. QED
    BY <2>1 DEF Lost
<1>3. Restoring(a, a.ids, done)
  BY <1>1, <1>2, BatchGivesOrder
<1> HIDE DEF done
<1>4. /\ done.ok /\ Sound(done.store) /\ done.rows \in Tables
      /\ done.store.ids = a.ids /\ done.rows.ids = a.ids
      /\ done.rows.collapsed = done.store.collapsed
      /\ \A m \in Notes :
          /\ done.store.parent[m] = IF m \in a.ids THEN a.parent[m] ELSE Null
          /\ done.store.prev[m] = IF m \in a.ids THEN a.prev[m] ELSE Null
          /\ done.store.next[m] = IF m \in a.ids /\ a.next[m] \in a.ids THEN a.next[m] ELSE Null
          /\ done.rows.parent[m] = IF m \in a.ids THEN a.parent[m] ELSE Null
          /\ done.rows.prev[m] = IF m \in a.ids THEN a.prev[m] ELSE Null
          /\ done.rows.next[m] = IF m \in a.ids THEN a.next[m] ELSE Null
  BY <1>3 DEF Restoring
<1>5. /\ rows' = done.rows /\ store' = done.store /\ phase' = "applied"
      /\ db' = db /\ serving' = serving
  BY <1>4 DEF RestoreRecords, Applied, done
<1>6. /\ a \in Orderings /\ Reciprocal(a, a.ids)
      /\ \A m \in Notes \ a.ids : a.parent[m] = Null /\ a.prev[m] = Null /\ a.next[m] = Null
  BY DEF GoodOrder, Ordered, Clean
<1>7. \A m \in a.ids : a.next[m] # Null => a.next[m] \in a.ids
  BY <1>6 DEF Reciprocal
<1>8. \A m \in Notes :
        /\ store'.parent[m] = a.parent[m] /\ store'.prev[m] = a.prev[m]
        /\ store'.next[m] = a.next[m]
        /\ rows'.parent[m] = a.parent[m] /\ rows'.prev[m] = a.prev[m]
        /\ rows'.next[m] = a.next[m]
  BY <1>4, <1>5, <1>6, <1>7
<1>9. store' \in Stores
  BY <1>4, <1>5 DEF Sound
<1>10. Columns(store') \in Tables /\ rows' \in Tables
  BY <1>4, <1>5, <1>9, ColumnsType
<1>11. rows' = Columns(store')
  <2>1. /\ rows'.ids = Columns(store').ids
        /\ \A m \in Notes : /\ rows'.parent[m] = Columns(store').parent[m]
                            /\ rows'.prev[m] = Columns(store').prev[m]
                            /\ rows'.next[m] = Columns(store').next[m]
                            /\ rows'.collapsed[m] = Columns(store').collapsed[m]
    BY <1>4, <1>5, <1>8 DEF Columns
  <2>2. QED
    BY <1>10, <2>1, TableEquality
<1>12. TypeOK'
  BY <1>5, <1>9, <1>10 DEF TypeOK, Phases, StoreInv
<1>13. StoreInv'
  BY <1>4, <1>5, <1>11, <1>12 DEF StoreInv
<1>14. Order(store') = a
  <2>1. Order(store') \in Orderings
    BY <1>9 DEF Stores, Orderings, Order
  <2>2. /\ Order(store').ids = a.ids
        /\ \A m \in Notes : /\ Order(store').parent[m] = a.parent[m]
                            /\ Order(store').prev[m] = a.prev[m]
                            /\ Order(store').next[m] = a.next[m]
    BY <1>4, <1>5, <1>8 DEF Order
  <2>3. QED
    BY <1>6, <2>1, <2>2, OrderEquality
<1>15. QED
  BY <1>5, <1>13, <1>14

-----------------------------------------------------------------------------
(***************************************************************************)
(* What _snapshot_subtree records is such a list.  The walk goes from a note  *)
(* to its first child and to its next sibling; upwards it comes from the note *)
(* before, or from the parent of a first child.                              *)
(***************************************************************************)
Up(s, m) == IF s.prev[m] # Null THEN s.prev[m] ELSE s.parent[m]

WalkedIds(w) == {w[i].id : i \in 1..Len(w)}

\* The walk from m: what it comes from is earlier in it, what it goes to is later.
Walked(s, w, m) ==
    /\ w \in Seq(Records) /\ Len(w) \in Nat \ {0} /\ w[1].id = m
    /\ \A i \in 1..Len(w) : w[i].id \in s.ids /\ w[i].place = Place(s, w[i].id)
    /\ \A i, j \in 1..Len(w) : w[i].id = w[j].id => i = j
    /\ \A i \in 2..Len(w) :
          /\ \E j \in 1..(i - 1) : w[j].id = Up(s, w[i].id)
          /\ s.parent[w[i].id] # s.parent[m] => \E j \in 1..(i - 1) : w[j].id = s.parent[w[i].id]
    /\ \A i \in 1..Len(w) :
          /\ s.heads[w[i].id] # Null => s.heads[w[i].id] \in WalkedIds(w)
          /\ s.next[w[i].id] # Null => \E j \in (i + 1)..Len(w) : w[j].id = s.next[w[i].id]

\* The walk of a note, or of none.
WalkedFrom(s, w, m) == IF m = Null THEN w = << >> ELSE Walked(s, w, m)

\* Going up ends: every set of notes has one that is first and highest in it.
LEMMA FirstOfHighest ==
  ASSUME NEW s, Sound(s), NEW S \in SUBSET s.ids, S # {}
  PROVE  \E m \in S : s.parent[m] \notin S /\ s.prev[m] \notin S
<1> DEFINE d == Depths(s)
           Reached == {d[m] : m \in S}
<1>1. /\ s.ids \in SUBSET Notes /\ HierarchyValid(s) /\ Ordered(s, s.ids) /\ Null \notin Notes
  BY NullAssumption DEF Sound, Stores
<1>2. d \in [s.ids -> 1..MaxDepth] /\ IsDepthMap(s, d)
  BY <1>1, DepthsDefined
<1>3. \A m \in s.ids : s.parent[m] # Null => s.parent[m] \in s.ids
  BY <1>1 DEF HierarchyValid
<1> HIDE DEF d
<1>4. Reached \in SUBSET Nat /\ Reached # {}
  BY <1>2
<1>5. PICK k \in Reached : \A j \in Reached : k <= j
  <2> HIDE DEF Reached
  <2>1. QED
    BY <1>4, LeastNumber
<1> DEFINE Highest == {m \in S : d[m] = k}
<1>6. Highest \in SUBSET s.ids /\ Highest # {}
  BY <1>5
<1>7. PICK m \in Highest : s.prev[m] \notin Highest
  <2> HIDE DEF Highest
  <2>1. QED
    BY <1>1, <1>6 DEF Ordered, NoRings
<1>8. m \in S /\ m \in s.ids /\ d[m] = k
  OBVIOUS
<1>9. s.prev[m] \notin S
  <2> SUFFICES ASSUME s.prev[m] \in S PROVE FALSE
    OBVIOUS
  <2>1. s.prev[m] \in s.ids /\ s.prev[m] # Null /\ s.parent[s.prev[m]] = s.parent[m]
    BY <1>1, <1>8 DEF Ordered, Reciprocal
  <2>2. d[s.prev[m]] = d[m]
    BY <1>2, <1>8, <2>1 DEF IsDepthMap
  <2>3. QED
    BY <1>7, <1>8, <2>2
<1>10. s.parent[m] \notin S
  <2> SUFFICES ASSUME s.parent[m] \in S PROVE FALSE
    OBVIOUS
  <2>1. s.parent[m] \in s.ids /\ s.parent[m] # Null
    BY <1>1
  <2>2. d[m] = d[s.parent[m]] + 1
    BY <1>2, <1>8, <2>1 DEF IsDepthMap
  <2>3. d[s.parent[m]] \in Reached /\ d[s.parent[m]] \in Nat
    BY <1>2, <2>1
  <2>4. k <= d[s.parent[m]]
    BY <1>5, <2>3
  <2> HIDE DEF Reached
  <2>5. QED
    BY <1>8, <2>2, <2>3, <2>4
<1>11. QED
  BY <1>8, <1>9, <1>10

\* No set of notes leads up into itself everywhere.
LEMMA UpEnds ==
  ASSUME NEW s, Sound(s), NEW S \in SUBSET s.ids, \A m \in S : Up(s, m) \in S
  PROVE  S = {}
BY FirstOfHighest DEF Up

\* Up from the first child of a note, and from the note after it.
LEMMA UpFromNext ==
  ASSUME NEW s, Sound(s), NEW m \in s.ids
  PROVE  /\ s.heads[m] # Null => /\ s.heads[m] \in s.ids /\ Up(s, s.heads[m]) = m
                                 /\ s.parent[s.heads[m]] = m /\ s.heads[m] # m
                                 /\ s.heads[m] # s.next[m]
         /\ s.next[m] # Null => /\ s.next[m] \in s.ids /\ Up(s, s.next[m]) = m
                                /\ s.parent[s.next[m]] = s.parent[m] /\ s.next[m] # m
<1>1. /\ s.ids \in SUBSET Notes /\ Ordered(s, s.ids) /\ IndexMatches(s, s.ids) /\ Null \notin Notes
  BY NullAssumption DEF Sound, Stores
<1>2. m \in NoteOrNull /\ m # Null
  BY <1>1 DEF NoteOrNull
<1>3. s.heads[m] # Null => /\ s.heads[m] \in s.ids /\ s.parent[s.heads[m]] = m
                           /\ s.prev[s.heads[m]] = Null
  BY <1>1, <1>2 DEF IndexMatches
<1>4. s.next[m] # Null => /\ s.next[m] \in s.ids /\ s.parent[s.next[m]] = s.parent[m]
                          /\ s.prev[s.next[m]] = m
  BY <1>1 DEF Ordered, Reciprocal
<1>5. \A x \in s.ids : s.prev[x] # x /\ s.parent[x] # x
  <2> TAKE x \in s.ids
  <2>1. {x} \in SUBSET s.ids /\ {x} # {}
    OBVIOUS
  <2>2. PICK y \in {x} : s.parent[y] \notin {x} /\ s.prev[y] \notin {x}
    <3> DEFINE S == {x}
    <3>1. S \in SUBSET s.ids /\ S # {}
      BY <2>1
    <3> HIDE DEF S
    <3>2. \E y \in S : s.parent[y] \notin S /\ s.prev[y] \notin S
      BY <3>1, FirstOfHighest
    <3>3. QED
      BY <3>2 DEF S
  <2>3. QED
    BY <2>2
<1>6. QED
  BY <1>2, <1>3, <1>4, <1>5 DEF Up

\* A note, the walk below it and the walk after it, as one sequence.
LEMMA Spliced ==
  ASSUME NEW r \in Records, NEW v \in Seq(Records), NEW z \in Seq(Records),
         NEW w, w = <<r>> \o v \o z
  PROVE  /\ w \in Seq(Records) /\ Len(v) \in Nat /\ Len(z) \in Nat /\ Len(w) = 1 + Len(v) + Len(z)
         /\ w[1] = r
         /\ \A i \in 1..Len(v) : w[1 + i] = v[i]
         /\ \A i \in 1..Len(z) : w[1 + Len(v) + i] = z[i]
<1> DEFINE y == <<r>> \o v
<1>1. <<r>> \in Seq(Records) /\ Len(<<r>>) = 1 /\ <<r>>[1] = r
  OBVIOUS
<1>2. Len(v) \in Nat /\ Len(z) \in Nat
  BY LenProperties
<1>3. /\ y \in Seq(Records) /\ Len(y) = 1 + Len(v)
      /\ \A i \in 1..(1 + Len(v)) : y[i] = IF i <= 1 THEN <<r>>[i] ELSE v[i - 1]
  BY <1>1, ConcatProperties
<1> HIDE DEF y
<1>4. /\ w \in Seq(Records) /\ Len(w) = Len(y) + Len(z)
      /\ \A i \in 1..(Len(y) + Len(z)) : w[i] = IF i <= Len(y) THEN y[i] ELSE z[i - Len(y)]
  BY <1>3, ConcatProperties DEF y
<1> DEFINE a == Len(v)
           b == Len(z)
<1>5. a \in Nat /\ b \in Nat /\ Len(y) = 1 + a /\ Len(w) = 1 + a + b
  BY <1>2, <1>3, <1>4
<1>6. /\ \A i \in 1..(1 + a) : y[i] = IF i <= 1 THEN <<r>>[i] ELSE v[i - 1]
      /\ \A i \in 1..(1 + a + b) : w[i] = IF i <= 1 + a THEN y[i] ELSE z[i - (1 + a)]
  BY <1>3, <1>4, <1>5
<1> HIDE DEF a, b
<1>7. w[1] = r
  BY <1>1, <1>5, <1>6
<1>8. \A i \in 1..a : w[1 + i] = v[i]
  <2> TAKE i \in 1..a
  <2>1. 1 + i \in 1..(1 + a) /\ 1 + i \in 1..(1 + a + b) /\ 1 + i <= 1 + a /\ ~(1 + i <= 1)
        /\ (1 + i) - 1 = i
    BY <1>5
  <2>2. QED
    BY <1>6, <2>1
<1>9. \A i \in 1..b : w[1 + a + i] = z[i]
  <2> TAKE i \in 1..b
  <2>1. 1 + a + i \in 1..(1 + a + b) /\ ~(1 + a + i <= 1 + a) /\ (1 + a + i) - (1 + a) = i
    BY <1>5
  <2>2. QED
    BY <1>6, <2>1
<1>10. QED
  BY <1>2, <1>4, <1>5, <1>7, <1>8, <1>9 DEF a, b

\* Where an index of such a sequence points to.
LEMMA SplicedIndex ==
  ASSUME NEW a \in Nat, NEW b \in Nat, NEW i \in 2..(1 + a + b)
  PROVE  (\E k \in 1..a : i = 1 + k) \/ (\E k \in 1..b : i = 1 + a + k)
<1>1. CASE i <= 1 + a
  <2>1. i - 1 \in 1..a /\ i = 1 + (i - 1)
    BY <1>1
  <2>2. QED
    BY <2>1
<1>2. CASE ~(i <= 1 + a)
  <2>1. i - (1 + a) \in 1..b /\ i = 1 + a + (i - (1 + a))
    BY <1>2
  <2>2. QED
    BY <2>1
<1>3. QED
  BY <1>1, <1>2

\* The walk from a note stays clear of where it came from.
LEMMA WalkedAway ==
  ASSUME NEW s, Sound(s), NEW m, NEW w, Walked(s, w, m)
  PROVE  /\ m \in WalkedIds(w) /\ WalkedIds(w) \subseteq s.ids
         /\ \A x \in WalkedIds(w) \ {m} : Up(s, x) \in WalkedIds(w)
         /\ Up(s, m) \notin WalkedIds(w)
<1> DEFINE V == WalkedIds(w)
           N == Len(w)
<1>1. N \in Nat \ {0} /\ w[1].id = m
  BY DEF Walked
<1>2. V \subseteq s.ids
  BY DEF Walked, WalkedIds
<1>3. m \in V
  <2>1. 1 \in 1..N
    BY <1>1
  <2>2. QED
    BY <1>1, <2>1 DEF WalkedIds
<1>4. \A x \in V \ {m} : Up(s, x) \in V
  <2> TAKE x \in V \ {m}
  <2>1. PICK i \in 1..N : x = w[i].id
    BY DEF WalkedIds
  <2>2. i # 1
    BY <1>1, <2>1
  <2>3. i \in 2..N
    BY <1>1, <2>2
  <2>4. PICK j \in 1..(i - 1) : w[j].id = Up(s, w[i].id)
    BY <2>3 DEF Walked
  <2>5. j \in 1..N
    BY <1>1, <2>3
  <2>6. QED
    BY <2>1, <2>4, <2>5 DEF WalkedIds
<1> HIDE DEF V
<1>5. Up(s, m) \notin V
  <2> SUFFICES ASSUME Up(s, m) \in V PROVE FALSE
    OBVIOUS
  <2>1. \A x \in V : Up(s, x) \in V
    BY <1>4
  <2>2. V = {}
    BY <1>2, <2>1, UpEnds
  <2>3. QED
    BY <1>3, <2>2
<1>6. QED
  BY <1>2, <1>3, <1>4, <1>5 DEF V

\* Below a note and after it the walk meets different notes.
LEMMA WalksApart ==
  ASSUME NEW s, Sound(s), NEW m \in s.ids, s.heads[m] # Null, s.next[m] # Null,
         NEW v, Walked(s, v, s.heads[m]), NEW z, Walked(s, z, s.next[m])
  PROVE  WalkedIds(v) \cap WalkedIds(z) = {}
<1> DEFINE V == WalkedIds(v)
           Z == WalkedIds(z)
           h == s.heads[m]
           x == s.next[m]
<1>1. Up(s, h) = m /\ Up(s, x) = m /\ h # x
  BY UpFromNext
<1>2. /\ V \subseteq s.ids /\ \A y \in V \ {h} : Up(s, y) \in V
      /\ m \notin V
  BY <1>1, WalkedAway
<1>3. /\ Z \subseteq s.ids /\ \A y \in Z \ {x} : Up(s, y) \in Z
      /\ m \notin Z
  BY <1>1, WalkedAway
<1> HIDE DEF V, Z, h, x
<1>4. \A y \in V \cap Z : Up(s, y) \in V \cap Z
  BY <1>1, <1>2, <1>3, SMTT(20)
<1>5. V \cap Z \in SUBSET s.ids
  BY <1>2
<1>6. QED
  BY <1>4, <1>5, UpEnds DEF V, Z

\* One step of the walk: the note, then what is below it, then what is after it.
LEMMA WalkedStep ==
  ASSUME NEW s, Sound(s), NEW m \in s.ids,
         NEW v \in Seq(Records), WalkedFrom(s, v, s.heads[m]),
         NEW z \in Seq(Records), WalkedFrom(s, z, s.next[m]),
         NEW w, w = <<RecordOf(s, m)>> \o v \o z
  PROVE  Walked(s, w, m)
<1> DEFINE r == RecordOf(s, m)
           h == s.heads[m]
           x == s.next[m]
           a == Len(v)
           b == Len(z)
           N == Len(w)
<1>1. /\ s.ids \in SUBSET Notes /\ Null \notin Notes /\ s \in Stores /\ m \in Notes
  BY NullAssumption DEF Sound, Stores
<1>2. r \in Records /\ r.id = m /\ r.place = Place(s, m)
  BY <1>1, RecordType DEF RecordOf
<1> HIDE DEF r
<1>3. /\ w \in Seq(Records) /\ a \in Nat /\ b \in Nat /\ N = 1 + a + b
      /\ w[1] = r
      /\ \A i \in 1..a : w[1 + i] = v[i]
      /\ \A i \in 1..b : w[1 + a + i] = z[i]
      /\ \A i \in 2..N : (\E k \in 1..a : i = 1 + k) \/ (\E k \in 1..b : i = 1 + a + k)
  <2>1. w = <<r>> \o v \o z
    BY DEF r
  <2> HIDE DEF h, x
  <2>2. r \in Records /\ v \in Seq(Records) /\ z \in Seq(Records)
    BY <1>2
  <2>3. /\ w \in Seq(Records) /\ Len(v) \in Nat /\ Len(z) \in Nat
        /\ Len(w) = 1 + Len(v) + Len(z) /\ w[1] = r
        /\ \A i \in 1..Len(v) : w[1 + i] = v[i]
        /\ \A i \in 1..Len(z) : w[1 + Len(v) + i] = z[i]
    BY <2>1, <2>2, Spliced
  <2> HIDE DEF a, b, N
  <2>4. \A i \in 2..(1 + a + b) : (\E k \in 1..a : i = 1 + k) \/ (\E k \in 1..b : i = 1 + a + k)
    <3>1. a \in Nat /\ b \in Nat
      BY <2>3 DEF a, b
    <3>2. QED
      BY <3>1, SplicedIndex
  <2>5. QED
    BY <2>3, <2>4 DEF a, b, N
<1>4. /\ h # Null => /\ h \in s.ids /\ Up(s, h) = m /\ s.parent[h] = m
      /\ x # Null => /\ x \in s.ids /\ Up(s, x) = m /\ s.parent[x] = s.parent[m]
  BY UpFromNext
<1>5. /\ a = 0 => h = Null
      /\ a # 0 => h # Null /\ Walked(s, v, h) /\ v[1].id = h
      /\ b = 0 => x = Null
      /\ b # 0 => x # Null /\ Walked(s, z, x) /\ z[1].id = x
  BY EmptySeq DEF WalkedFrom, Walked
<1>6. \A k \in 1..a : 1 + k \in 2..N
  BY <1>3
<1>7. \A k \in 1..b : 1 + a + k \in 2..N
  BY <1>3
<1>8. N \in Nat \ {0} /\ 1 \in 1..N
  BY <1>3
<1> DEFINE V == WalkedIds(v)
           Z == WalkedIds(z)
           W == WalkedIds(w)
<1>9. \A k \in 1..a : v[k].id \in V /\ v[k].id \in W
  BY <1>3, <1>6 DEF WalkedIds
<1>10. \A k \in 1..b : z[k].id \in Z /\ z[k].id \in W
  BY <1>3, <1>7 DEF WalkedIds
<1>11. m \in W
  BY <1>2, <1>3, <1>8 DEF WalkedIds
<1>12. a # 0 => m \notin V
  BY <1>4, <1>5, WalkedAway
<1>13. b # 0 => m \notin Z
  BY <1>4, <1>5, WalkedAway
<1>14. a # 0 /\ b # 0 => V \cap Z = {}
  BY <1>5, WalksApart
<1> HIDE DEF h, x, a, b, N
<1>15. \A k \in 1..a : a # 0
  BY <1>3
<1>16. \A k \in 1..b : b # 0
  BY <1>3
<1>17. \A i : \A k \in 1..a : i = 1 + k => w[i] = v[k]
  BY <1>3
<1>18. \A i : \A k \in 1..b : i = 1 + a + k => w[i] = z[k]
  BY <1>3
<1>19. \A i \in 1..N : w[i].id \in s.ids /\ w[i].place = Place(s, w[i].id)
  <2> TAKE i \in 1..N
  <2>1. CASE i = 1
    BY <1>2, <1>3, <2>1
  <2>2. ASSUME NEW k \in 1..a, i = 1 + k PROVE w[i].id \in s.ids /\ w[i].place = Place(s, w[i].id)
    <3>1. w[i] = v[k] /\ a # 0
      BY <1>15, <1>17, <2>2
    <3>2. QED
      BY <1>5, <3>1 DEF Walked, a
  <2>3. ASSUME NEW k \in 1..b, i = 1 + a + k PROVE w[i].id \in s.ids /\ w[i].place = Place(s, w[i].id)
    <3>1. w[i] = z[k] /\ b # 0
      BY <1>16, <1>18, <2>3
    <3>2. QED
      BY <1>5, <3>1 DEF Walked, b
  <2>4. i # 1 => i \in 2..N
    BY <1>8
  <2>5. QED
    BY <1>3, <2>1, <2>2, <2>3, <2>4
<1> HIDE DEF V, Z, W
<1>20. \A i, j \in 1..N : w[i].id = w[j].id => i = j
  <2>1. \A i \in 1..N : \/ i = 1 /\ w[i].id = m
                        \/ (\E k \in 1..a : i = 1 + k /\ w[i].id = v[k].id)
                        \/ (\E k \in 1..b : i = 1 + a + k /\ w[i].id = z[k].id)
    <3> TAKE i \in 1..N
    <3>1. i # 1 => i \in 2..N
      BY <1>8
    <3>2. QED
      BY <1>2, <1>3, <3>1
  <2>2. \A k, l \in 1..a : v[k].id = v[l].id => k = l
    BY <1>5, <1>15 DEF Walked, a
  <2>3. \A k, l \in 1..b : z[k].id = z[l].id => k = l
    BY <1>5, <1>16 DEF Walked, b
  <2>4. \A k \in 1..a : v[k].id # m
    BY <1>9, <1>12, <1>15
  <2>5. \A k \in 1..b : z[k].id # m
    BY <1>10, <1>13, <1>16
  <2>6. \A k \in 1..a : \A l \in 1..b : v[k].id # z[l].id
    BY <1>9, <1>10, <1>14, <1>15, <1>16
  <2> SUFFICES ASSUME NEW i \in 1..N, NEW j \in 1..N, w[i].id = w[j].id PROVE i = j
    OBVIOUS
  <2>7. CASE i = 1
    <3>1. w[j].id = m
      BY <1>2, <1>3, <2>7
    <3>2. j = 1
      BY <2>1, <2>4, <2>5, <3>1
    <3>3. QED
      BY <2>7, <3>2
  <2>8. ASSUME NEW k \in 1..a, i = 1 + k, w[i].id = v[k].id PROVE i = j
    <3>1. w[j].id = v[k].id
      BY <2>8
    <3>2. PICK l \in 1..a : j = 1 + l /\ w[j].id = v[l].id
      BY <2>1, <2>4, <2>6, <2>8, <3>1, ZenonT(40)
    <3>3. l = k
      BY <2>2, <2>8, <3>1, <3>2
    <3>4. QED
      BY <2>8, <3>2, <3>3
  <2>9. ASSUME NEW k \in 1..b, i = 1 + a + k, w[i].id = z[k].id PROVE i = j
    <3>1. w[j].id = z[k].id
      BY <2>9
    <3>2. PICK l \in 1..b : j = 1 + a + l /\ w[j].id = z[l].id
      BY <2>1, <2>5, <2>6, <2>9, <3>1, ZenonT(40)
    <3>3. l = k
      BY <2>3, <2>9, <3>1, <3>2
    <3>4. QED
      BY <2>9, <3>2, <3>3
  <2>10. QED
    BY <2>1, <2>7, <2>8, <2>9
<1>21. \A i \in 2..N :
          /\ \E j \in 1..(i - 1) : w[j].id = Up(s, w[i].id)
          /\ s.parent[w[i].id] # s.parent[m] => \E j \in 1..(i - 1) : w[j].id = s.parent[w[i].id]
  <2> TAKE i \in 2..N
  <2> DEFINE Good == /\ \E j \in 1..(i - 1) : w[j].id = Up(s, w[i].id)
                     /\ s.parent[w[i].id] # s.parent[m] => \E j \in 1..(i - 1) : w[j].id = s.parent[w[i].id]
  <2>1. 1 \in 1..(i - 1) /\ w[1].id = m
    BY <1>2, <1>3
  <2>2. ASSUME NEW k \in 1..a, i = 1 + k PROVE Good
    <3>1. w[i] = v[k] /\ a # 0
      BY <1>15, <1>17, <2>2
    <3>2. CASE k = 1
      <4>1. w[i].id = h /\ h # Null
        BY <1>5, <3>1, <3>2
      <4>2. QED
        BY <1>4, <2>1, <4>1
    <3>3. CASE k # 1
      <4>1. k \in 2..Len(v)
        BY <1>3, <3>3 DEF a
      <4>2. Walked(s, v, h) /\ h # Null
        BY <1>5, <3>1
      <4>3. /\ \E j \in 1..(k - 1) : v[j].id = Up(s, v[k].id)
            /\ s.parent[v[k].id] # s.parent[h] => \E j \in 1..(k - 1) : v[j].id = s.parent[v[k].id]
        BY <4>1, <4>2 DEF Walked
      <4>4. \A j \in 1..(k - 1) : 1 + j \in 1..(i - 1) /\ w[1 + j] = v[j]
        <5> TAKE j \in 1..(k - 1)
        <5>1. 1 + j \in 1..(i - 1) /\ j \in 1..a
          BY <1>3, <2>2
        <5>2. QED
          BY <1>3, <5>1
      <4>5. s.parent[h] = m
        BY <1>4, <4>2
      <4>6. QED
        BY <2>1, <3>1, <4>3, <4>4, <4>5
    <3>4. QED
      BY <3>2, <3>3
  <2>3. ASSUME NEW k \in 1..b, i = 1 + a + k PROVE Good
    <3>1. w[i] = z[k] /\ b # 0
      BY <1>16, <1>18, <2>3
    <3>2. CASE k = 1
      <4>1. w[i].id = x /\ x # Null
        BY <1>5, <3>1, <3>2
      <4>2. QED
        BY <1>4, <2>1, <4>1
    <3>3. CASE k # 1
      <4>1. k \in 2..Len(z)
        BY <1>3, <3>3 DEF b
      <4>2. Walked(s, z, x) /\ x # Null
        BY <1>5, <3>1
      <4>3. /\ \E j \in 1..(k - 1) : z[j].id = Up(s, z[k].id)
            /\ s.parent[z[k].id] # s.parent[x] => \E j \in 1..(k - 1) : z[j].id = s.parent[z[k].id]
        BY <4>1, <4>2 DEF Walked
      <4>4. \A j \in 1..(k - 1) : 1 + a + j \in 1..(i - 1) /\ w[1 + a + j] = z[j]
        <5> TAKE j \in 1..(k - 1)
        <5>1. 1 + a + j \in 1..(i - 1) /\ j \in 1..b
          BY <1>3, <2>3
        <5>2. QED
          BY <1>3, <5>1
      <4>5. s.parent[x] = s.parent[m]
        BY <1>4, <4>2
      <4>6. QED
        BY <3>1, <4>3, <4>4, <4>5
    <3>4. QED
      BY <3>2, <3>3
  <2> HIDE DEF Good
  <2>4. Good
    BY <1>3, <2>2, <2>3
  <2>5. QED
    BY <2>4 DEF Good
<1>22. \A i \in 1..N :
          /\ s.heads[w[i].id] # Null => s.heads[w[i].id] \in W
          /\ s.next[w[i].id] # Null => \E j \in (i + 1)..N : w[j].id = s.next[w[i].id]
  <2> TAKE i \in 1..N
  <2> DEFINE Good == /\ s.heads[w[i].id] # Null => s.heads[w[i].id] \in W
                     /\ s.next[w[i].id] # Null => \E j \in (i + 1)..N : w[j].id = s.next[w[i].id]
  <2>1. ASSUME i = 1 PROVE Good
    <3>1. w[i].id = m
      BY <1>2, <1>3, <2>1
    <3>2. h # Null => h \in W
      <4> SUFFICES ASSUME h # Null PROVE h \in W
        OBVIOUS
      <4>1. 1 \in 1..a /\ v[1].id = h
        BY <1>3, <1>5
      <4>2. QED
        BY <1>9, <4>1
    <3>3. x # Null => \E j \in (i + 1)..N : w[j].id = x
      <4> SUFFICES ASSUME x # Null PROVE \E j \in (i + 1)..N : w[j].id = x
        OBVIOUS
      <4>1. 1 \in 1..b /\ z[1].id = x
        BY <1>3, <1>5
      <4>2. w[1 + a + 1] = z[1]
        BY <1>18, <4>1
      <4>4. 1 + a + 1 \in (i + 1)..N
        BY <1>3, <2>1, <4>1
      <4>3. QED
        BY <4>1, <4>2, <4>4
    <3>4. QED
      BY <3>1, <3>2, <3>3 DEF h, x
  <2>2. ASSUME NEW k \in 1..a, i = 1 + k PROVE Good
    <3>1. w[i] = v[k] /\ Walked(s, v, h)
      BY <1>5, <1>15, <1>17, <2>2
    <3>2. /\ s.heads[v[k].id] # Null => s.heads[v[k].id] \in V
          /\ s.next[v[k].id] # Null => \E j \in (k + 1)..a : v[j].id = s.next[v[k].id]
      BY <3>1 DEF Walked, a, V
    <3>3. V \subseteq W
      BY <1>9 DEF V, WalkedIds, a
    <3>4. \A j \in (k + 1)..a : 1 + j \in (i + 1)..N /\ w[1 + j] = v[j]
      <4> TAKE j \in (k + 1)..a
      <4>1. 1 + j \in (i + 1)..N /\ j \in 1..a
        BY <1>3, <2>2
      <4>2. QED
        BY <1>3, <4>1
    <3>5. QED
      BY <3>1, <3>2, <3>3, <3>4
  <2>3. ASSUME NEW k \in 1..b, i = 1 + a + k PROVE Good
    <3>1. w[i] = z[k] /\ Walked(s, z, x)
      BY <1>5, <1>16, <1>18, <2>3
    <3>2. /\ s.heads[z[k].id] # Null => s.heads[z[k].id] \in Z
          /\ s.next[z[k].id] # Null => \E j \in (k + 1)..b : z[j].id = s.next[z[k].id]
      BY <3>1 DEF Walked, b, Z
    <3>3. Z \subseteq W
      BY <1>10 DEF Z, WalkedIds, b
    <3>4. \A j \in (k + 1)..b : 1 + a + j \in (i + 1)..N /\ w[1 + a + j] = z[j]
      <4> TAKE j \in (k + 1)..b
      <4>1. 1 + a + j \in (i + 1)..N /\ j \in 1..b
        BY <1>3, <2>3
      <4>2. QED
        BY <1>3, <4>1
    <3>5. QED
      BY <3>1, <3>2, <3>3, <3>4
  <2>4. i # 1 => i \in 2..N
    BY <1>8
  <2> HIDE DEF Good
  <2>5. Good
    BY <1>3, <2>1, <2>2, <2>3, <2>4
  <2>6. QED
    BY <2>5 DEF Good
<1>23. QED
  BY <1>2, <1>3, <1>8, <1>19, <1>20, <1>21, <1>22 DEF Walked, N, W

\* Every walk is one.
LEMMA WalksAreWalked ==
  ASSUME NEW s, Sound(s), NEW f, f = [m \in s.ids \cup {Null} |-> WalkFrom(s, f, m)]
  PROVE  \A m \in s.ids \cup {Null} : WalkedFrom(s, f[m], m)
<1> DEFINE Bad == {m \in s.ids : ~Walked(s, f[m], m)}
<1>1. Null \notin s.ids
  BY NullAssumption DEF Sound, Stores
<1>2. \A m \in s.ids \cup {Null} : f[m] = WalkFrom(s, f, m) /\ f[m] \in Seq(Records)
  BY WalkType
<1>3. f[Null] = << >>
  BY <1>2 DEF WalkFrom
<1>4. CASE Bad # {}
  <2>1. PICK m \in Bad : s.heads[m] \notin Bad /\ s.next[m] \notin Bad
    <3>1. Bad \in SUBSET s.ids
      OBVIOUS
    <3> HIDE DEF Bad
    <3>2. QED
      BY <1>4, <3>1, LastOfDeepest
  <2>2. m \in s.ids /\ m # Null /\ ~Walked(s, f[m], m)
    BY <1>1
  <2>3. s.heads[m] \in s.ids \cup {Null} /\ s.next[m] \in s.ids \cup {Null}
    BY <2>2, WalkStays, Zenon
  <2>4. WalkedFrom(s, f[s.heads[m]], s.heads[m]) /\ WalkedFrom(s, f[s.next[m]], s.next[m])
    BY <1>3, <2>1, <2>3, Zenon DEF WalkedFrom
  <2>5. f[s.heads[m]] \in Seq(Records) /\ f[s.next[m]] \in Seq(Records)
    BY <1>2, <2>3
  <2>6. f[m] = <<RecordOf(s, m)>> \o f[s.heads[m]] \o f[s.next[m]]
    BY <1>2, <2>2 DEF WalkFrom
  <2>7. Walked(s, f[m], m)
    BY <2>2, <2>4, <2>5, <2>6, WalkedStep
  <2>8. QED
    BY <2>2, <2>7
<1>5. CASE Bad = {}
  BY <1>1, <1>3, <1>5 DEF WalkedFrom
<1>6. QED
  BY <1>4, <1>5

\* A note and the walk below it, as one sequence.
LEMMA SplicedBelow ==
  ASSUME NEW r \in Records, NEW v \in Seq(Records), NEW q, q = <<r>> \o v
  PROVE  /\ q \in Seq(Records) /\ Len(v) \in Nat /\ Len(q) = 1 + Len(v) /\ q[1] = r
         /\ \A i \in 1..Len(v) : q[1 + i] = v[i]
<1> DEFINE z == << >>
<1>1. z \in Seq(Records) /\ Len(z) = 0
  BY EmptySeq
<1>2. q \in Seq(Records)
  BY ConcatProperties
<1>3. q = <<r>> \o v \o z
  BY <1>2, ConcatEmptySeq
<1> HIDE DEF z
<1>4. /\ Len(v) \in Nat /\ Len(q) = 1 + Len(v) + Len(z) /\ q[1] = r
      /\ \A i \in 1..Len(v) : q[1 + i] = v[i]
  BY <1>1, <1>3, Spliced
<1>5. Len(q) = 1 + Len(v)
  BY <1>1, <1>4
<1>6. QED
  BY <1>2, <1>4, <1>5

\* The walk below a note meets its whole subtree: it misses no child, as the first
\* child is in it and the next note of each note.
LEMMA WalkCovers ==
  ASSUME NEW s, Sound(s), NEW n \in s.ids,
         NEW V \in SUBSET s.ids, n \in V, s.parent[n] \notin V,
         \A y \in V \ {n} : s.parent[y] \in V /\ (s.next[y] # Null => s.next[y] \in V),
         \A y \in V : s.heads[y] # Null => s.heads[y] \in V
  PROVE  V = Subtree(s, n)
<1>1. /\ s.ids \in SUBSET Notes /\ Ordered(s, s.ids) /\ IndexMatches(s, s.ids) /\ Null \notin Notes
  BY NullAssumption DEF Sound, Stores
<1>2. V \subseteq Subtree(s, n)
  <2> DEFINE Bad == V \ Subtree(s, n)
  <2> SUFFICES ASSUME Bad # {} PROVE FALSE
    OBVIOUS
  <2>1. PICK y \in Bad : s.parent[y] \notin Bad
    <3>1. Bad \in SUBSET s.ids
      OBVIOUS
    <3> HIDE DEF Bad
    <3>2. QED
      BY <3>1, FirstOfHighest
  <2>2. y \in V /\ y \in s.ids /\ y \notin Subtree(s, n)
    OBVIOUS
  <2>3. y # n
    BY <1>1, <2>2, SubtreeClosed
  <2>4. s.parent[y] \in Subtree(s, n)
    BY <2>1, <2>2, <2>3
  <2>5. QED
    BY <1>1, <2>2, <2>4, SubtreeClosed
<1>3. \A c \in s.ids : s.parent[c] \in V => c \in V
  <2> SUFFICES ASSUME NEW x \in s.ids, s.parent[x] \in V, x \notin V PROVE FALSE
    OBVIOUS
  <2> DEFINE y == s.parent[x]
             Missed == {c \in s.ids : s.parent[c] = y /\ c \notin V}
  <2>1. PICK c \in Missed : s.prev[c] \notin Missed
    <3>1. Missed \in SUBSET s.ids /\ Missed # {}
      OBVIOUS
    <3> HIDE DEF Missed
    <3>2. QED
      BY <1>1, <3>1 DEF Ordered, NoRings
  <2>2. c \in s.ids /\ s.parent[c] = y /\ c \notin V /\ y \in V /\ y \in s.ids
    OBVIOUS
  <2>3. CASE s.prev[c] = Null
    <3>1. y \in NoteOrNull
      BY <1>1, <2>2 DEF NoteOrNull
    <3>2. s.heads[y] \in s.ids /\ s.parent[s.heads[y]] = y /\ s.prev[s.heads[y]] = Null
      BY <1>1, <2>2, <3>1 DEF IndexMatches
    <3>3. s.heads[y] = c
      BY <1>1, <2>2, <2>3, <3>2 DEF Ordered, SingleBoundaries
    <3>4. c # Null
      BY <1>1, <2>2
    <3>5. QED
      BY <2>2, <3>3, <3>4
  <2>4. CASE s.prev[c] # Null
    <3>1. s.prev[c] \in s.ids /\ s.parent[s.prev[c]] = y /\ s.next[s.prev[c]] = c
      BY <1>1, <2>2, <2>4 DEF Ordered, Reciprocal
    <3>2. s.prev[c] \in V
      BY <2>1, <3>1
    <3>3. s.prev[c] # n
      BY <2>2, <3>1
    <3>4. c # Null
      BY <1>1, <2>2
    <3>5. QED
      BY <2>2, <3>1, <3>2, <3>3, <3>4
  <2>5. QED
    BY <2>3, <2>4
<1>4. V \in SUBSET Notes
  BY <1>1
<1>5. Subtree(s, n) \subseteq V
  BY <1>3, <1>4, SubtreeLeast
<1>6. QED
  BY <1>2, <1>5

\* What a deletion records lists the subtree.
LEMMA SubtreeListed ==
  ASSUME NEW s, Sound(s), NEW n \in s.ids
  PROVE  Listing(s, n, SubtreeRecords(s, n))
<1> DEFINE walk[m \in s.ids \cup {Null}] ==
             IF m = Null THEN << >>
             ELSE <<RecordOf(s, m)>> \o walk[s.heads[m]] \o walk[s.next[m]]
<1>1. walk = CHOOSE f : f = [m \in s.ids \cup {Null} |-> WalkFrom(s, f, m)]
  BY DEF WalkFrom
<1>2. walk = [m \in s.ids \cup {Null} |-> WalkFrom(s, walk, m)]
  <2> HIDE DEF walk
  <2>1. QED
    BY <1>1, WalkExists
<1>3. SubtreeRecords(s, n) = <<RecordOf(s, n)>> \o walk[s.heads[n]]
  BY DEF SubtreeRecords
<1> HIDE DEF walk
<1> DEFINE r == RecordOf(s, n)
           h == s.heads[n]
           v == walk[h]
           q == SubtreeRecords(s, n)
           a == Len(v)
           N == Len(q)
<1>4. /\ s.ids \in SUBSET Notes /\ Null \notin Notes /\ s \in Stores /\ n \in Notes
      /\ HierarchyValid(s)
  BY NullAssumption DEF Sound, Stores
<1>5. h \in s.ids \cup {Null}
  BY WalkStays
<1>6. v \in Seq(Records) /\ WalkedFrom(s, v, h)
  BY <1>2, <1>5, WalkType, WalksAreWalked
<1>7. r \in Records /\ r.id = n /\ r.place = Place(s, n)
  BY <1>4, RecordType DEF RecordOf
<1>8. h # Null => Up(s, h) = n /\ s.parent[h] = n
  BY UpFromNext
<1>9. q = <<r>> \o v
  BY <1>3
<1> HIDE DEF r, h, v, q
<1>10. /\ q \in Seq(Records) /\ a \in Nat /\ N = 1 + a /\ q[1] = r
       /\ \A i \in 1..a : q[1 + i] = v[i]
  BY <1>6, <1>7, <1>9, SplicedBelow
<1>11. /\ a = 0 => h = Null
       /\ a # 0 => h # Null /\ Walked(s, v, h) /\ v[1].id = h
  BY <1>6, EmptySeq DEF WalkedFrom, Walked
<1> DEFINE V == WalkedIds(v)
<1>12. V \subseteq s.ids /\ n \notin V
  <2>1. CASE a = 0
    BY <1>10, <2>1 DEF WalkedIds
  <2>2. CASE a # 0
    BY <1>8, <1>11, <2>2, WalkedAway
  <2>3. QED
    BY <2>1, <2>2
<1>13. \A i \in 1..a : v[i].id \in V
  BY DEF WalkedIds
<1>14. \A i \in 1..a : a # 0 /\ 1 + i \in 2..N
  BY <1>10
<1>15. \A i \in 2..N : \E k \in 1..a : i = 1 + k /\ q[i] = v[k]
  <2> TAKE i \in 2..N
  <2>1. i - 1 \in 1..a /\ i = 1 + (i - 1)
    BY <1>10
  <2>2. q[i] = v[i - 1]
    BY <1>10, <2>1
  <2>3. QED
    BY <2>1, <2>2
<1>16. N \in Nat \ {0} /\ 1 \in 1..N /\ \A i \in 1..N : i # 1 => i \in 2..N
  BY <1>10
<1>17. \A i \in 1..a :
          /\ v[i].place = Place(s, v[i].id)
          /\ s.parent[v[i].id] # n => \E j \in 1..(i - 1) : v[j].id = s.parent[v[i].id]
          /\ s.prev[v[i].id] # Null => \E j \in 1..(i - 1) : v[j].id = s.prev[v[i].id]
          /\ s.next[v[i].id] # Null => \E j \in (i + 1)..a : v[j].id = s.next[v[i].id]
          /\ s.heads[v[i].id] # Null => s.heads[v[i].id] \in V
  <2> TAKE i \in 1..a
  <2>1. h # Null /\ Walked(s, v, h) /\ v[1].id = h
    BY <1>11, <1>14
  <2>2. /\ v[i].place = Place(s, v[i].id)
        /\ s.next[v[i].id] # Null => \E j \in (i + 1)..a : v[j].id = s.next[v[i].id]
        /\ s.heads[v[i].id] # Null => s.heads[v[i].id] \in V
    BY <2>1 DEF Walked
  <2>3. CASE i = 1
    <3>1. s.parent[h] = n /\ Up(s, h) = n
      BY <1>8, <2>1
    <3>2. s.prev[h] = Null
      <4>1. n \in NoteOrNull /\ IndexMatches(s, s.ids)
        BY <1>4 DEF NoteOrNull, Sound
      <4>2. QED
        BY <2>1, <4>1 DEF IndexMatches, h
    <3>3. QED
      BY <2>1, <2>2, <2>3, <3>1, <3>2
  <2>4. CASE i # 1
    <3>1. i \in 2..a
      BY <1>10, <2>4
    <3>2. /\ \E j \in 1..(i - 1) : v[j].id = Up(s, v[i].id)
          /\ s.parent[v[i].id] # s.parent[h] => \E j \in 1..(i - 1) : v[j].id = s.parent[v[i].id]
      BY <2>1, <3>1 DEF Walked
    <3>3. s.parent[h] = n
      BY <1>8, <2>1
    <3>4. s.prev[v[i].id] # Null => Up(s, v[i].id) = s.prev[v[i].id]
      BY DEF Up
    <3>5. QED
      BY <2>2, <3>2, <3>3, <3>4
  <2>5. QED
    BY <2>3, <2>4
<1> DEFINE W == V \cup {n}
<1>18. W = Subtree(s, n)
  <2>1. \A y \in V : \E i \in 1..a : y = v[i].id
    BY DEF WalkedIds
  <2>2. \A i \in 1..a : \A j \in 1..(i - 1) : j \in 1..a
    BY <1>10
  <2>3. \A i \in 1..a : \A j \in (i + 1)..a : j \in 1..a
    BY <1>10
  <2>4. \A y \in V : s.parent[y] \in W
    <3> TAKE y \in V
    <3>1. PICK i \in 1..a : y = v[i].id
      BY <2>1
    <3>2. s.parent[y] # n => \E j \in 1..(i - 1) : v[j].id = s.parent[y]
      BY <1>17, <3>1
    <3> HIDE DEF V
    <3>3. QED
      BY <1>13, <2>2, <3>2
  <2>5. \A y \in V : s.next[y] # Null => s.next[y] \in W
    <3> TAKE y \in V
    <3>1. PICK i \in 1..a : y = v[i].id
      BY <2>1
    <3>2. s.next[y] # Null => \E j \in (i + 1)..a : v[j].id = s.next[y]
      BY <1>17, <3>1
    <3> HIDE DEF V
    <3>3. QED
      BY <1>13, <2>3, <3>2
  <2>6. \A y \in W : s.heads[y] # Null => s.heads[y] \in W
    <3> TAKE y \in W
    <3>1. CASE y = n
      <4>1. h # Null => 1 \in 1..a /\ v[1].id = h
        BY <1>10, <1>11
      <4> HIDE DEF V
      <4>2. QED
        BY <1>13, <3>1, <4>1 DEF h
    <3>2. CASE y \in V
      <4>1. PICK i \in 1..a : y = v[i].id
        BY <2>1, <3>2
      <4> HIDE DEF V
      <4>2. QED
        BY <1>17, <4>1
    <3>3. QED
      BY <3>1, <3>2
  <2> HIDE DEF V
  <2>7. s.parent[n] \notin W
    <3> SUFFICES ASSUME s.parent[n] \in W PROVE FALSE
      OBVIOUS
    <3>1. W \in SUBSET s.ids /\ W # {}
      BY <1>12
    <3>2. \A y \in W : s.parent[y] \in W
      BY <2>4
    <3> HIDE DEF W
    <3>3. QED
      BY <3>1, <3>2, FirstOfHighest
  <2>8. /\ W \in SUBSET s.ids /\ n \in W
        /\ \A y \in W \ {n} : s.parent[y] \in W /\ (s.next[y] # Null => s.next[y] \in W)
    BY <1>12, <2>4, <2>5
  <2> HIDE DEF W
  <2>9. QED
    BY <2>6, <2>7, <2>8, WalkCovers
<1>19. \A i \in 1..N : q[i].place = Place(s, q[i].id)
  <2> TAKE i \in 1..N
  <2>1. CASE i = 1
    BY <1>7, <1>10, <2>1
  <2>2. CASE i # 1
    BY <1>15, <1>16, <1>17, <2>2
  <2>3. QED
    BY <2>1, <2>2
<1>20. \A i, j \in 1..N : q[i].id = q[j].id => i = j
  <2>1. \A k, l \in 1..a : v[k].id = v[l].id => k = l
    BY <1>11, <1>14 DEF Walked
  <2>2. \A k \in 1..a : v[k].id # n
    BY <1>12, <1>13
  <2>3. \A i \in 1..N : i = 1 \/ \E k \in 1..a : i = 1 + k /\ q[i] = v[k]
    BY <1>15, <1>16
  <2>4. q[1].id = n
    BY <1>7, <1>10
  <2> SUFFICES ASSUME NEW i \in 1..N, NEW j \in 1..N, q[i].id = q[j].id PROVE i = j
    OBVIOUS
  <2>5. CASE i = 1
    BY <2>2, <2>3, <2>4, <2>5
  <2>6. ASSUME NEW k \in 1..a, i = 1 + k, q[i] = v[k] PROVE i = j
    <3>1. PICK l \in 1..a : j = 1 + l /\ q[j] = v[l]
      BY <2>2, <2>3, <2>4, <2>6
    <3>2. l = k
      BY <2>1, <2>6, <3>1
    <3>3. QED
      BY <2>6, <3>1, <3>2
  <2>7. QED
    BY <2>3, <2>5, <2>6
<1>21. \A m : m \in Subtree(s, n) <=> \E i \in 1..N : q[i].id = m
  <2>1. \A i \in 1..N : q[i].id \in W
    <3> TAKE i \in 1..N
    <3> HIDE DEF V
    <3>1. CASE i = 1
      BY <1>7, <1>10, <3>1
    <3>2. CASE i # 1
      BY <1>13, <1>15, <1>16, <3>2
    <3>3. QED
      BY <3>1, <3>2
  <2>2. \A m \in V : \E i \in 1..N : q[i].id = m
    <3> TAKE m \in V
    <3>1. PICK k \in 1..a : m = v[k].id
      BY DEF WalkedIds
    <3>2. 1 + k \in 1..N /\ q[1 + k] = v[k]
      BY <1>10, <1>14
    <3>3. QED
      BY <3>1, <3>2
  <2>3. \E i \in 1..N : q[i].id = n
    BY <1>7, <1>10, <1>16
  <2> HIDE DEF V
  <2>4. QED
    BY <1>18, <2>1, <2>2, <2>3
<1>22. \A i \in 2..N :
          /\ \E j \in 1..(i - 1) : q[j].id = s.parent[q[i].id]
          /\ s.prev[q[i].id] # Null => \E j \in 1..(i - 1) : q[j].id = s.prev[q[i].id]
          /\ s.next[q[i].id] # Null => \E j \in (i + 1)..N : q[j].id = s.next[q[i].id]
  <2> TAKE i \in 2..N
  <2>1. PICK k \in 1..a : i = 1 + k /\ q[i] = v[k]
    BY <1>15
  <2>2. 1 \in 1..(i - 1) /\ q[1].id = n
    BY <1>7, <1>10
  <2>3. \A j \in 1..(k - 1) : 1 + j \in 1..(i - 1) /\ q[1 + j] = v[j]
    <3> TAKE j \in 1..(k - 1)
    <3>1. 1 + j \in 1..(i - 1) /\ j \in 1..a
      BY <1>10, <2>1
    <3>2. QED
      BY <1>10, <3>1
  <2>4. \A j \in (k + 1)..a : 1 + j \in (i + 1)..N /\ q[1 + j] = v[j]
    <3> TAKE j \in (k + 1)..a
    <3>1. 1 + j \in (i + 1)..N /\ j \in 1..a
      BY <1>10, <2>1
    <3>2. QED
      BY <1>10, <3>1
  <2>5. /\ s.parent[v[k].id] # n => \E j \in 1..(k - 1) : v[j].id = s.parent[v[k].id]
        /\ s.prev[v[k].id] # Null => \E j \in 1..(k - 1) : v[j].id = s.prev[v[k].id]
        /\ s.next[v[k].id] # Null => \E j \in (k + 1)..a : v[j].id = s.next[v[k].id]
    BY <1>17
  <2> HIDE DEF N, a
  <2>6. \E j \in 1..(i - 1) : q[j].id = s.parent[q[i].id]
    BY <2>1, <2>2, <2>3, <2>5
  <2>7. s.prev[q[i].id] # Null => \E j \in 1..(i - 1) : q[j].id = s.prev[q[i].id]
    BY <2>1, <2>3, <2>5
  <2>8. s.next[q[i].id] # Null => \E j \in (i + 1)..N : q[j].id = s.next[q[i].id]
    BY <2>1, <2>4, <2>5
  <2>9. QED
    BY <2>6, <2>7, <2>8
<1>23. q[1].id = n
  BY <1>7, <1>10
<1>24. QED
  BY <1>10, <1>16, <1>19, <1>20, <1>21, <1>22, <1>23 DEF Listing, N, q

-----------------------------------------------------------------------------
(***************************************************************************)
(* The stacks of one window lead from the order of the vault back through     *)
(* the orders of its history, and on through those of its redo stack.         *)
(***************************************************************************)
HistoryLeads(q, o) ==
    \A i \in 1..Len(q) :
        Reverses(q[i]) /\ q[i].became = IF i = Len(q) THEN o ELSE q[i + 1].was

RedoLeads(q, o) ==
    \A i \in 1..Len(q) :
        Reverses(q[i]) /\ q[i].was = IF i = Len(q) THEN o ELSE q[i + 1].became

\* Empty stacks lead nowhere.
LEMMA EmptyLeads == \A o : HistoryLeads(<< >>, o) /\ RedoLeads(<< >>, o)
<1>1. Len(<< >>) = 0
  OBVIOUS
<1>2. QED
  BY <1>1 DEF HistoryLeads, RedoLeads

\* One more operation on a stack.
LEMMA AppendLeads ==
  ASSUME NEW q \in Seq(Entries), NEW e \in Entries, Reverses(e)
  PROVE  /\ HistoryLeads(q, e.was) => HistoryLeads(Append(q, e), e.became)
         /\ RedoLeads(q, e.became) => RedoLeads(Append(q, e), e.was)
<1> DEFINE N == Len(q)
           w == Append(q, e)
<1>1. /\ N \in Nat /\ Len(w) = N + 1 /\ w[N + 1] = e
      /\ \A i \in 1..N : w[i] = q[i]
  BY AppendProperties, LenProperties
<1> HIDE DEF N, w
<1>2. \A i \in 1..(N + 1) : i # N + 1 => i \in 1..N
  BY <1>1
<1>3. \A i \in 1..N : i # N + 1 /\ (i # N => i + 1 \in 1..N)
  BY <1>1
<1>4. HistoryLeads(q, e.was) => HistoryLeads(w, e.became)
  <2> SUFFICES ASSUME HistoryLeads(q, e.was), NEW i \in 1..(N + 1)
               PROVE  Reverses(w[i]) /\ w[i].became = IF i = N + 1 THEN e.became ELSE w[i + 1].was
    BY <1>1 DEF HistoryLeads
  <2>1. CASE i = N + 1
    BY <1>1, <2>1
  <2>2. CASE i # N + 1
    <3>1. i \in 1..N /\ w[i] = q[i]
      BY <1>1, <1>2, <2>2
    <3>2. Reverses(q[i]) /\ q[i].became = IF i = N THEN e.was ELSE q[i + 1].was
      BY <3>1 DEF HistoryLeads, N
    <3>3. i # N => w[i + 1] = q[i + 1]
      BY <1>1, <1>3, <3>1
    <3>4. QED
      BY <1>1, <2>2, <3>1, <3>2, <3>3
  <2>3. QED
    BY <2>1, <2>2
<1>5. RedoLeads(q, e.became) => RedoLeads(w, e.was)
  <2> SUFFICES ASSUME RedoLeads(q, e.became), NEW i \in 1..(N + 1)
               PROVE  Reverses(w[i]) /\ w[i].was = IF i = N + 1 THEN e.was ELSE w[i + 1].became
    BY <1>1 DEF RedoLeads
  <2>1. CASE i = N + 1
    BY <1>1, <2>1
  <2>2. CASE i # N + 1
    <3>1. i \in 1..N /\ w[i] = q[i]
      BY <1>1, <1>2, <2>2
    <3>2. Reverses(q[i]) /\ q[i].was = IF i = N THEN e.became ELSE q[i + 1].became
      BY <3>1 DEF RedoLeads, N
    <3>3. i # N => w[i + 1] = q[i + 1]
      BY <1>1, <1>3, <3>1
    <3>4. QED
      BY <1>1, <2>2, <3>1, <3>2, <3>3
  <2>3. QED
    BY <2>1, <2>2
<1>6. QED
  BY <1>4, <1>5 DEF w

\* The newest operation taken off.
WithoutNewest(q) == SubSeq(q, 1, Len(q) - 1)

\* What is left of a stack without its newest operation leads on from there.
LEMMA FrontLeads ==
  ASSUME NEW q \in Seq(Entries), q # << >>, NEW o, NEW e, e = NewestEntry(q),
         NEW left, left = WithoutNewest(q)
  PROVE  /\ left \in Seq(Entries) /\ Len(left) = Len(q) - 1 /\ e \in Entries
         /\ HistoryLeads(q, o) => Reverses(e) /\ e.became = o /\ HistoryLeads(left, e.was)
         /\ RedoLeads(q, o) => Reverses(e) /\ e.was = o /\ RedoLeads(left, e.became)
<1> DEFINE N == Len(q)
           M == N - 1
<1>1. N \in Nat \ {0} /\ N \in 1..N
  BY EmptySeq
<1>2. M \in Nat /\ 1 <= M + 1 /\ M <= N /\ M + 1 = N
  BY <1>1
<1>3. left = SubSeq(q, 1, M) /\ e = q[N] /\ left \in Seq(Entries) /\ e \in Entries
  BY ShorterType DEF WithoutNewest, NewestEntry
<1>4. Len(left) = M /\ \A i \in 1..M : left[i] = q[i]
  <2>1. 1 \in 1..(N + 1) /\ M \in 0..N
    BY <1>1
  <2>2. /\ Len(left) = IF M < 1 THEN 0 ELSE M - 1 + 1
        /\ \A i \in 1..(M - 1 + 1) : left[i] = q[1 + i - 1]
    BY <1>3, <2>1, SubSeqProperties
  <2> HIDE DEF M, N
  <2>3. \A i \in 1..M : i \in 1..(M - 1 + 1) /\ 1 + i - 1 = i
    BY <1>2
  <2>4. Len(left) = M
    BY <1>2, <2>2
  <2>5. QED
    BY <2>2, <2>3, <2>4
<1> HIDE DEF N, M
<1>5. \A i \in 1..M : i \in 1..N /\ i # N /\ (i + 1 = N <=> i = M) /\ (i # M => i + 1 \in 1..M)
  BY <1>1, <1>2
<1>6. ASSUME HistoryLeads(q, o)
      PROVE  Reverses(e) /\ e.became = o /\ HistoryLeads(left, e.was)
  <2>1. \A i \in 1..N : Reverses(q[i]) /\ q[i].became = IF i = N THEN o ELSE q[i + 1].was
    BY <1>6 DEF HistoryLeads, N
  <2>2. e = q[N]
    BY <1>3
  <2>3. Reverses(e) /\ e.became = o
    BY <1>1, <2>1, <2>2
  <2>4. \A i \in 1..M :
           Reverses(left[i]) /\ left[i].became = IF i = M THEN e.was ELSE left[i + 1].was
    <3> TAKE i \in 1..M
    <3>1. Reverses(q[i]) /\ q[i].became = q[i + 1].was
      BY <1>5, <2>1
    <3>2. CASE i = M
      <4>1. q[i + 1] = e
        BY <1>5, <2>2, <3>2
      <4>2. QED
        BY <1>4, <3>1, <3>2, <4>1
    <3>3. CASE i # M
      <4>1. left[i + 1] = q[i + 1]
        BY <1>4, <1>5, <3>3
      <4>2. QED
        BY <1>4, <3>1, <3>3, <4>1
    <3>4. QED
      BY <3>2, <3>3
  <2>5. QED
    BY <1>4, <2>3, <2>4 DEF HistoryLeads
<1>7. ASSUME RedoLeads(q, o)
      PROVE  Reverses(e) /\ e.was = o /\ RedoLeads(left, e.became)
  <2>1. \A i \in 1..N : Reverses(q[i]) /\ q[i].was = IF i = N THEN o ELSE q[i + 1].became
    BY <1>7 DEF RedoLeads, N
  <2>2. e = q[N]
    BY <1>3
  <2>3. Reverses(e) /\ e.was = o
    BY <1>1, <2>1, <2>2
  <2>4. \A i \in 1..M :
           Reverses(left[i]) /\ left[i].was = IF i = M THEN e.became ELSE left[i + 1].became
    <3> TAKE i \in 1..M
    <3>1. Reverses(q[i]) /\ q[i].was = q[i + 1].became
      BY <1>5, <2>1
    <3>2. CASE i = M
      <4>1. q[i + 1] = e
        BY <1>5, <2>2, <3>2
      <4>2. QED
        BY <1>4, <3>1, <3>2, <4>1
    <3>3. CASE i # M
      <4>1. left[i + 1] = q[i + 1]
        BY <1>4, <1>5, <3>3
      <4>2. QED
        BY <1>4, <3>1, <3>3, <4>1
    <3>4. QED
      BY <3>2, <3>3
  <2>5. QED
    BY <1>4, <2>3, <2>4 DEF RedoLeads
<1>8. QED
  BY <1>3, <1>4, <1>6, <1>7 DEF M, N

\* The oldest operations cut off: the newest stays, as one is always kept.
LEMMA NewestLeads ==
  ASSUME NEW q \in Seq(Entries), q # << >>
  PROVE  /\ Newest(q) \in Seq(Entries) /\ Len(Newest(q)) \in Nat \ {0}
         /\ NewestEntry(Newest(q)) = NewestEntry(q)
         /\ \A o : HistoryLeads(q, o) => HistoryLeads(Newest(q), o)
<1> DEFINE N == Len(q)
           w == Newest(q)
           k == N - UndoOperations
<1>1. N \in Nat \ {0} /\ UndoOperations \in Nat \ {0}
  BY EmptySeq, UndoOperationsAssumption
<1>2. w \in Seq(Entries)
  BY NewestType
<1>3. CASE N > UndoOperations
  <2>1. /\ k \in Nat /\ N = k + UndoOperations /\ k + 1 \in 1..(N + 1)
    BY <1>1, <1>3
  <2>2. w = SubSeq(q, k + 1, N)
    BY <1>3 DEF Newest
  <2>3. Len(w) = UndoOperations /\ \A i \in 1..UndoOperations : w[i] = q[k + i]
    <3> HIDE DEF k, w
    <3>1. k + 1 \in 1..(N + 1) /\ N \in k..N
      BY <1>1, <2>1
    <3>2. /\ Len(w) = IF N < k + 1 THEN 0 ELSE N - (k + 1) + 1
          /\ \A i \in 1..(N - (k + 1) + 1) : w[i] = q[(k + 1) + i - 1]
      BY <2>2, <3>1, SubSeqProperties
    <3> HIDE DEF N
    <3>3. /\ N - (k + 1) + 1 = UndoOperations /\ ~(N < k + 1)
          /\ \A i \in 1..UndoOperations : (k + 1) + i - 1 = k + i
      BY <1>1, <2>1
    <3>4. QED
      BY <3>2, <3>3
  <2> HIDE DEF k, w
  <2>4. NewestEntry(w) = NewestEntry(q)
    <3>1. UndoOperations \in 1..UndoOperations
      BY <1>1
    <3>2. QED
      BY <2>1, <2>3, <3>1 DEF NewestEntry
  <2>5. ASSUME NEW o, HistoryLeads(q, o) PROVE HistoryLeads(w, o)
    <3>1. \A i \in 1..UndoOperations :
             /\ k + i \in 1..N /\ (k + i = N <=> i = UndoOperations) /\ (k + i) + 1 = k + (i + 1)
             /\ i # UndoOperations => i + 1 \in 1..UndoOperations
      BY <1>1, <2>1
    <3>2. \A i \in 1..N : Reverses(q[i]) /\ q[i].became = IF i = N THEN o ELSE q[i + 1].was
      BY <2>5 DEF HistoryLeads
    <3> HIDE DEF N
    <3>3. \A i \in 1..UndoOperations :
             /\ Reverses(w[i])
             /\ w[i].became = IF i = UndoOperations THEN o ELSE w[i + 1].was
      <4> TAKE i \in 1..UndoOperations
      <4>1. /\ w[i] = q[k + i] /\ Reverses(q[k + i])
            /\ q[k + i].became = IF k + i = N THEN o ELSE q[(k + i) + 1].was
        BY <2>3, <3>1, <3>2
      <4>2. i # UndoOperations => w[i + 1] = q[(k + i) + 1]
        BY <2>3, <3>1
      <4>3. k + i = N <=> i = UndoOperations
        BY <3>1
      <4>4. QED
        BY <4>1, <4>2, <4>3
    <3>4. QED
      BY <2>3, <3>3 DEF HistoryLeads
  <2>6. QED
    BY <1>1, <1>2, <2>3, <2>4, <2>5 DEF w
<1>4. CASE ~(N > UndoOperations)
  <2>1. w = q
    BY <1>4 DEF Newest
  <2>2. QED
    BY <1>1, <2>1
<1>5. QED
  BY <1>3, <1>4

-----------------------------------------------------------------------------
(***************************************************************************)
(* What the commands record tells the two orders apart exactly.              *)
(***************************************************************************)
\* The orders around a command, and what a command leaves.
LEMMA CommandOrders ==
  ASSUME StoreInv, Clean(store), Command
  PROVE  /\ StoreInv' /\ Clean(store') /\ phase = "idle" /\ phase' = "applied" /\ db' = db
         /\ GoodOrder(Order(store)) /\ GoodOrder(Order(store'))
         /\ Order(store) \in Orderings /\ Order(store') \in Orderings
<1>1. StoreInv' /\ phase = "idle" /\ phase' = "applied" /\ db' = db
  BY CommandInv, CommandKeeps
<1>2. Sound(store) /\ Sound(store')
  BY <1>1 DEF StoreInv
<1>3. Changed(store, store')
  BY CommandChanges
<1>4. Clean(store')
  BY <1>2, <1>3, ChangedClean
<1>5. GoodOrder(Order(store)) /\ GoodOrder(Order(store'))
  BY <1>2, <1>4, SoundOrder
<1>6. QED
  BY <1>1, <1>4, <1>5 DEF GoodOrder

\* The commands that create a note.
CreateCommand(n) ==
    \/ CreateNote(n)
    \/ \E m \in Notes : CreateChild(n, m) \/ CreateSibling(n, m) \/ CreateFilePreviewChild(n, m)

\* What a creation records reverses it: the created note, where it is now.
LEMMA CreateRecorded ==
  ASSUME StoreInv, Clean(store), NEW n \in Notes, CreateCommand(n)
  PROVE  LET op == [type |-> "create_note", record |-> RecordOf(store', n)]
         IN  op \in Operations /\ Reverses(Entry(op))
<1> DEFINE r == RecordOf(store', n)
           op == [type |-> "create_note", record |-> r]
<1>1. Command
  BY DEF CreateCommand, Command
<1>2. /\ StoreInv' /\ GoodOrder(Order(store)) /\ GoodOrder(Order(store'))
  BY <1>1, CommandOrders
<1>3. PICK p, prev, next : InsertsAt(n, p, prev, next)
  <2>1. CASE CreateNote(n)
    BY <2>1, CreateAnchors
  <2>2. ASSUME NEW m \in Notes,
               CreateChild(n, m) \/ CreateSibling(n, m) \/ CreateFilePreviewChild(n, m)
        PROVE  \E p, prev, next : InsertsAt(n, p, prev, next)
    BY <2>2, CreateAnchors
  <2>3. QED
    BY <2>1, <2>2 DEF CreateCommand
<1>4. Created(store, store', n, p, prev, next)
  BY <1>3, InsertCreates
<1>5. Lost(store', store, n) /\ Subtree(store', n) = {n}
  <2>1. Sound(store)
    BY DEF StoreInv
  <2>2. QED
    BY <1>4, <2>1, CreatedIsLost
<1>6. r \in Records /\ r.id = n /\ r.place = Place(store', n)
  <2>1. store' \in Stores
    BY <1>2 DEF StoreInv, Sound
  <2>2. QED
    BY <2>1, RecordType DEF RecordOf
<1> HIDE DEF r
<1>7. Listing(store', n, <<r>>)
  BY <1>5, <1>6, OneListed
<1>8. Lost(Order(store'), Order(store), n) /\ Listing(Order(store'), n, <<r>>)
  BY <1>5, <1>7, OrderRelations
<1>9. op \in Operations
  BY <1>6 DEF Operations
<1>10. /\ Entry(op).op = op /\ Entry(op).was = Order(store) /\ Entry(op).became = Order(store')
       /\ op.type = "create_note" /\ op.record = r
  BY DEF Entry
<1> HIDE DEF op
<1>11. Reverses(Entry(op))
  BY <1>2, <1>6, <1>8, <1>9, <1>10 DEF Reverses
<1>12. QED
  BY <1>9, <1>11 DEF op, r

\* What a deletion records reverses it: the subtree as _snapshot_subtree lists it.
LEMMA DeleteRecorded ==
  ASSUME StoreInv, Clean(store), NEW n \in Notes, Delete(n)
  PROVE  LET op == [type |-> "delete_subtree", records |-> SubtreeRecords(store, n)]
         IN  op \in Operations /\ Reverses(Entry(op))
<1> DEFINE q == SubtreeRecords(store, n)
           op == [type |-> "delete_subtree", records |-> q]
<1>1. Command
  BY DEF Command
<1>2. /\ phase' = "applied" /\ GoodOrder(Order(store)) /\ GoodOrder(Order(store'))
  BY <1>1, CommandOrders
<1>3. Sound(store) /\ n \in store.ids
  BY DEF StoreInv, Delete
<1>4. Deleted(store, store', n)
  <2>1. DeleteSubtree(n)
    BY DEF Delete
  <2>2. QED
    BY <1>2, <1>3, <2>1 DEF DeleteSubtree, Raise, Deleted
<1>5. Lost(store, store', n)
  BY <1>3, <1>4, DeletedIsLost
<1>6. Listing(store, n, q)
  BY <1>3, SubtreeListed
<1> HIDE DEF q
<1>7. Lost(Order(store), Order(store'), n) /\ Listing(Order(store), n, q)
  BY <1>5, <1>6, OrderRelations
<1>8. q \in Seq(Records) /\ q[1].id = n
  BY <1>6 DEF Listing
<1>9. op \in Operations
  BY <1>8 DEF Operations
<1>10. /\ Entry(op).op = op /\ Entry(op).was = Order(store) /\ Entry(op).became = Order(store')
       /\ op.type = "delete_subtree" /\ op.records = q
  BY DEF Entry
<1> HIDE DEF op
<1>11. Reverses(Entry(op))
  BY <1>2, <1>7, <1>8, <1>9, <1>10 DEF Reverses
<1>12. QED
  BY <1>9, <1>11 DEF op, q

\* What a move records reverses it: the note's place before and after.
LEMMA MoveRecorded ==
  ASSUME StoreInv, Clean(store), NEW n \in Notes, MoveCommand(n)
  PROVE  LET op == [type |-> "move", note |-> n,
                    before |-> Place(store, n), after |-> Place(store', n)]
         IN  op \in Operations /\ Reverses(Entry(op))
<1> DEFINE op == [type |-> "move", note |-> n,
                  before |-> Place(store, n), after |-> Place(store', n)]
<1>1. Command
  BY DEF Command, MoveCommand
<1>2. /\ StoreInv' /\ GoodOrder(Order(store)) /\ GoodOrder(Order(store'))
  BY <1>1, CommandOrders
<1>3. PICK p, prev, next : Moved(store, store', n, p, prev, next)
  BY MoveCommandMoves DEF HasMoved
<1>4. Exchanged(store, store', n)
  <2>1. Sound(store)
    BY DEF StoreInv
  <2>2. QED
    BY <1>3, <2>1, MovedIsExchanged
<1>5. Exchanged(Order(store), Order(store'), n)
  BY <1>4, OrderRelations
<1>6. Place(store, n) \in Places /\ Place(store', n) \in Places
  BY <1>2, RecordType DEF StoreInv, Sound
<1>7. op \in Operations
  BY <1>6 DEF Operations
<1>8. /\ Entry(op).op = op /\ Entry(op).was = Order(store) /\ Entry(op).became = Order(store')
      /\ op.type = "move" /\ op.note = n
      /\ op.before = Place(store, n) /\ op.after = Place(store', n)
  BY DEF Entry
<1>9. Place(Order(store), n) = Place(store, n) /\ Place(Order(store'), n) = Place(store', n)
  BY OrderFields
<1> HIDE DEF op
<1>10. Reverses(Entry(op))
  BY <1>2, <1>5, <1>7, <1>8, <1>9 DEF Reverses
<1>11. QED
  BY <1>7, <1>10 DEF op

\* What a change of the collapsed flag records leaves the order alone.
LEMMA CollapseRecorded ==
  ASSUME StoreInv, Clean(store), NEW n \in Notes, NEW c \in BOOLEAN, SetCollapse(n, c)
  PROVE  LET op == [type |-> "collapse", note |-> n, after |-> c]
         IN  op \in Operations /\ Reverses(Entry(op))
<1> DEFINE op == [type |-> "collapse", note |-> n, after |-> c]
<1>1. Command
  BY DEF Command
<1>2. GoodOrder(Order(store)) /\ GoodOrder(Order(store'))
  BY <1>1, CommandOrders
<1>3. n \in store.ids /\ CollapseNote(n, c)
  BY DEF SetCollapse
<1>4. Order(store') = Order(store) /\ n \in Order(store).ids
  BY <1>3, FoldKeepsOrder, OrderFields
<1>5. op \in Operations
  BY DEF Operations
<1>6. /\ Entry(op).op = op /\ Entry(op).was = Order(store) /\ Entry(op).became = Order(store')
      /\ op.type = "collapse" /\ op.note = n
  BY DEF Entry
<1> HIDE DEF op
<1>7. Reverses(Entry(op))
  BY <1>2, <1>4, <1>5, <1>6 DEF Reverses
<1>8. QED
  BY <1>5, <1>7 DEF op

-----------------------------------------------------------------------------
(***************************************************************************)
(* Undo and redo, asked for in the order the operation tells apart.          *)
(***************************************************************************)
\* Neither undo nor redo commits.
LEMMA AppliesCommitNothing ==
  ASSUME NEW op \in Operations, ApplyInverse(op) \/ ApplyAgain(op)
  PROVE  db' = db
<1>1. \A n, focus : DeleteAndFocus(n, focus) => db' = db
  BY DEF DeleteAndFocus, DeleteSubtree, Raise, Refuse, Applied
<1>2. \A q : RestoreRecords(q) => db' = db
  BY DEF RestoreRecords, Raise, Applied
<1>3. \A n, p, prev, next : MoveNote(n, p, prev, next) => db' = db
  BY DEF MoveNote, Raise, Refuse, Applied
<1>4. \A n, c : CollapseNote(n, c) => db' = db
  BY DEF CollapseNote, Refuse, Applied
<1>5. QED
  BY <1>1, <1>2, <1>3, <1>4, OperationShapes DEF ApplyInverse, ApplyAgain

\* Undo.
LEMMA InverseGivesOrder ==
  ASSUME StoreInv, Clean(store), NEW e, Reverses(e), e.became = Order(store),
         ApplyInverse(e.op)
  PROVE  phase' = "applied" /\ StoreInv' /\ Order(store') = e.was
<1> DEFINE op == e.op
           a == e.was
           b == e.became
<1>1. op \in Operations /\ GoodOrder(a) /\ GoodOrder(b)
  BY DEF Reverses
<1>2. b = Order(store)
  OBVIOUS
<1>3. \A n : Place(b, n) = Place(store, n)
  BY <1>2, OrderFields
<1>4. CASE op.type = "create_note"
  <2> DEFINE n == op.record.id
             focus == FocusAfterUndoneCreate(op.record)
  <2>1. Lost(b, a, n) /\ Listing(b, n, <<op.record>>)
    BY <1>4 DEF Reverses
  <2>2. DeleteAndFocus(n, focus)
    BY <1>4 DEF ApplyInverse
  <2>3. op.record.place = Place(store, n)
    <3>1. 1 \in 1..Len(<<op.record>>) /\ <<op.record>>[1] = op.record
      OBVIOUS
    <3>2. QED
      BY <1>3, <2>1, <3>1 DEF Listing
  <2>4. focus \in {store.parent[n], store.prev[n], store.next[n]}
    BY <2>3 DEF FocusAfterUndoneCreate, Place
  <2> HIDE DEF n, focus, a, b, op
  <2>5. Lost(Order(store), a, n)
    BY <1>2, <2>1
  <2>6. phase' = "applied" /\ StoreInv' /\ Order(store') = a
    BY <1>1, <2>2, <2>4, <2>5, DeleteGivesOrder
  <2>7. QED
    BY <2>6 DEF a
<1>5. CASE op.type = "delete_subtree"
  <2> DEFINE n == op.records[1].id
  <2>1. Lost(a, b, n) /\ Listing(a, n, op.records)
    BY <1>5 DEF Reverses
  <2>2. RestoreRecords(op.records)
    BY <1>5 DEF ApplyInverse
  <2> HIDE DEF n, a, b, op
  <2>3. Lost(a, Order(store), n)
    BY <1>2, <2>1
  <2>4. phase' = "applied" /\ StoreInv' /\ Order(store') = a
    BY <1>1, <2>1, <2>2, <2>3, RestoreGivesOrder
  <2>5. QED
    BY <2>4 DEF a
<1>6. CASE op.type = "move"
  <2> DEFINE n == op.note
  <2>1. Exchanged(a, b, n) /\ op.before = Place(a, n)
    BY <1>6 DEF Reverses
  <2>2. MoveNote(n, a.parent[n], a.prev[n], a.next[n])
    BY <1>6, <2>1 DEF ApplyInverse, Place
  <2> HIDE DEF n, a, b, op
  <2>3. Exchanged(Order(store), a, n)
    BY <1>2, <2>1, ExchangedBack
  <2>4. phase' = "applied" /\ StoreInv' /\ Order(store') = a
    BY <1>1, <2>2, <2>3, MoveGivesOrder
  <2>5. QED
    BY <2>4 DEF a
<1>7. CASE op.type = "collapse"
  <2> DEFINE n == op.note
             c == ~op.after
  <2>1. n \in a.ids /\ a = b
    BY <1>7 DEF Reverses
  <2>2. CollapseNote(n, c) /\ c \in BOOLEAN
    BY <1>7 DEF ApplyInverse
  <2> HIDE DEF n, c, a, b, op
  <2>3. n \in store.ids
    BY <1>2, <2>1, OrderFields
  <2>4. phase' = "applied" /\ StoreInv' /\ Order(store') = Order(store)
    BY <2>2, <2>3, FoldKeepsOrder
  <2>5. QED
    BY <1>2, <2>1, <2>4 DEF a
<1>8. QED
  BY <1>1, <1>4, <1>5, <1>6, <1>7, OperationShapes

\* Redo.
LEMMA AgainGivesOrder ==
  ASSUME StoreInv, Clean(store), NEW e, Reverses(e), e.was = Order(store),
         ApplyAgain(e.op)
  PROVE  phase' = "applied" /\ StoreInv' /\ Order(store') = e.became
<1> DEFINE op == e.op
           a == e.was
           b == e.became
<1>1. op \in Operations /\ GoodOrder(a) /\ GoodOrder(b)
  BY DEF Reverses
<1>2. a = Order(store)
  OBVIOUS
<1>3. \A n : Place(a, n) = Place(store, n)
  BY <1>2, OrderFields
<1>4. CASE op.type = "create_note"
  <2> DEFINE n == op.record.id
             q == <<op.record>>
  <2>1. Lost(b, a, n) /\ Listing(b, n, q)
    BY <1>4 DEF Reverses
  <2>2. RestoreRecords(q)
    BY <1>4 DEF ApplyAgain
  <2> HIDE DEF n, q, a, b, op
  <2>3. Lost(b, Order(store), n)
    BY <1>2, <2>1
  <2>4. phase' = "applied" /\ StoreInv' /\ Order(store') = b
    BY <1>1, <2>1, <2>2, <2>3, RestoreGivesOrder
  <2>5. QED
    BY <2>4 DEF b
<1>5. CASE op.type = "delete_subtree"
  <2> DEFINE r == op.records[1]
             n == r.id
             focus == FocusAfterRedoneDelete(r)
  <2>1. Lost(a, b, n) /\ Listing(a, n, op.records)
    BY <1>5 DEF Reverses
  <2>2. DeleteAndFocus(n, focus)
    BY <1>5 DEF ApplyAgain
  <2>3. r.place = Place(store, n)
    <3>1. 1 \in 1..Len(op.records)
      BY <2>1 DEF Listing
    <3>2. QED
      BY <1>3, <2>1, <3>1 DEF Listing
  <2>4. focus \in {store.parent[n], store.prev[n], store.next[n]}
    BY <2>3 DEF FocusAfterRedoneDelete, Place
  <2> HIDE DEF n, focus, r, a, b, op
  <2>5. Lost(Order(store), b, n)
    BY <1>2, <2>1
  <2>6. phase' = "applied" /\ StoreInv' /\ Order(store') = b
    BY <1>1, <2>2, <2>4, <2>5, DeleteGivesOrder
  <2>7. QED
    BY <2>6 DEF b
<1>6. CASE op.type = "move"
  <2> DEFINE n == op.note
  <2>1. Exchanged(a, b, n) /\ op.after = Place(b, n)
    BY <1>6 DEF Reverses
  <2>2. MoveNote(n, b.parent[n], b.prev[n], b.next[n])
    BY <1>6, <2>1 DEF ApplyAgain, Place
  <2> HIDE DEF n, a, b, op
  <2>3. Exchanged(Order(store), b, n)
    BY <1>2, <2>1
  <2>4. phase' = "applied" /\ StoreInv' /\ Order(store') = b
    BY <1>1, <2>2, <2>3, MoveGivesOrder
  <2>5. QED
    BY <2>4 DEF b
<1>7. CASE op.type = "collapse"
  <2> DEFINE n == op.note
             c == op.after
  <2>1. n \in a.ids /\ a = b
    BY <1>7 DEF Reverses
  <2>2. CollapseNote(n, c) /\ c \in BOOLEAN
    BY <1>1, <1>7, OperationShapes DEF ApplyAgain
  <2> HIDE DEF n, c, a, b, op
  <2>3. n \in store.ids
    BY <1>2, <2>1, OrderFields
  <2>4. phase' = "applied" /\ StoreInv' /\ Order(store') = Order(store)
    BY <2>2, <2>3, FoldKeepsOrder
  <2>5. QED
    BY <1>2, <2>1, <2>4 DEF b
<1>8. QED
  BY <1>1, <1>4, <1>5, <1>6, <1>7, OperationShapes

-----------------------------------------------------------------------------
(***************************************************************************)
(* One window.  Its stacks lead from the order of the vault, and what was     *)
(* captured leads from the order that is committed.  So undo always finds the *)
(* order its operation left, and nothing it does can fail.                    *)
(***************************************************************************)
OneWindow == \A c, d \in Clients : c = d

StacksLead(all, o) ==
    \A c \in Clients : HistoryLeads(all[c].history, o) /\ RedoLeads(all[c].redo, o)

WindowInv ==
    /\ StoreInv
    /\ Clean(store)
    /\ Clean(db)
    /\ phase \in {"idle", "applied"}
    /\ StacksFit(stacks)
    /\ StacksFit(captured)
    /\ StacksLead(stacks, Order(store))
    /\ StacksLead(captured, Order(db))

\* What a step that is an undo, or a redo, gives back.
StepIsExact ==
    \A c \in Clients :
        /\ Undone(c) => Order(store') = NewestEntry(stacks[c].history).was
        /\ Redone(c) => Order(store') = NewestEntry(stacks[c].redo).became

\* The only window's stacks are replaced.
WithStacks(all, c, history, redo) == [all EXCEPT ![c] = [history |-> history, redo |-> redo]]

\* With one window, stacks that lead replace stacks that lead.
LEMMA ReplacedLead ==
  ASSUME OneWindow, NEW all, StacksFit(all), NEW c \in Clients,
         NEW history \in Seq(Entries), NEW redo \in Seq(Entries),
         NEW u, u = WithStacks(all, c, history, redo)
  PROVE  /\ StacksFit(u) /\ u[c].history = history /\ u[c].redo = redo
         /\ \A o : HistoryLeads(history, o) /\ RedoLeads(redo, o) => StacksLead(u, o)
<1>1. StacksFit(u)
  BY ReplacedFit DEF WithStacks
<1>2. u[c].history = history /\ u[c].redo = redo
  BY DEF StacksFit, WithStacks
<1>3. \A d \in Clients : u[d].history = history /\ u[d].redo = redo
  BY <1>2 DEF OneWindow
<1>4. QED
  BY <1>1, <1>2, <1>3 DEF StacksLead

\* A command of the window.
LEMMA RecordKeepsWindow ==
  ASSUME OneWindow, WindowInv, NEW c \in Clients, Command,
         NEW op, op \in Operations, Reverses(Entry(op)), Record(c, op)
  PROVE  WindowInv' /\ StepIsExact
<1> DEFINE e == Entry(op)
           h == stacks[c].history
           longer == Append(h, e)
           w == Newest(longer)
<1>1. /\ StoreInv' /\ Clean(store') /\ phase = "idle" /\ phase' = "applied" /\ db' = db
      /\ Order(store) \in Orderings /\ Order(store') \in Orderings
  BY CommandOrders DEF WindowInv
<1>2. e \in Entries /\ e.was = Order(store) /\ e.became = Order(store') /\ Reverses(e)
  BY <1>1 DEF Entries, Entry
<1>3. h \in Seq(Entries) /\ HistoryLeads(h, Order(store))
  BY DEF WindowInv, StacksFit, StacksLead
<1>4. /\ stacks' = [stacks EXCEPT ![c] = [history |-> w, redo |-> << >>]]
      /\ captured' = captured
  BY <1>1 DEF Record
<1> HIDE DEF e, h
<1>5. /\ longer \in Seq(Entries) /\ HistoryLeads(longer, Order(store'))
      /\ longer # << >> /\ NewestEntry(longer) = e
  <2>1. /\ longer \in Seq(Entries) /\ Len(longer) = Len(h) + 1 /\ longer[Len(h) + 1] = e
        /\ Len(h) \in Nat
    BY <1>2, <1>3, AppendProperties, LenProperties
  <2>2. HistoryLeads(h, e.was)
    BY <1>2, <1>3
  <2>3. HistoryLeads(longer, e.became)
    BY <1>2, <1>3, <2>2, AppendLeads
  <2> HIDE DEF longer
  <2>4. HistoryLeads(longer, Order(store'))
    BY <1>2, <2>3
  <2>5. QED
    BY <2>1, <2>4 DEF NewestEntry
<1> HIDE DEF longer
<1>6. w \in Seq(Entries) /\ NewestEntry(w) = e /\ HistoryLeads(w, Order(store'))
  BY <1>5, NewestLeads
<1> HIDE DEF w
<1>7. << >> \in Seq(Entries) /\ RedoLeads(<< >>, Order(store'))
  BY EmptySeq, EmptyLeads
<1>8. StacksFit(stacks') /\ stacks'[c].history = w /\ stacks'[c].redo = << >>
      /\ StacksLead(stacks', Order(store'))
  <2>1. StacksFit(stacks)
    BY DEF WindowInv
  <2>2. /\ StacksFit(stacks') /\ stacks'[c].history = w /\ stacks'[c].redo = << >>
        /\ \A o : HistoryLeads(w, o) /\ RedoLeads(<< >>, o) => StacksLead(stacks', o)
    <3> DEFINE z == << >>
               u == stacks'
    <3>1. /\ StacksFit(stacks) /\ w \in Seq(Entries) /\ z \in Seq(Entries)
          /\ u = WithStacks(stacks, c, w, z)
      BY <1>4, <1>6, <1>7, <2>1 DEF WithStacks
    <3> HIDE DEF z, u
    <3>2. /\ StacksFit(u) /\ u[c].history = w /\ u[c].redo = z
          /\ \A o : HistoryLeads(w, o) /\ RedoLeads(z, o) => StacksLead(u, o)
      BY <3>1, ReplacedLead
    <3>3. QED
      BY <3>2 DEF z, u
  <2>3. QED
    BY <1>6, <1>7, <2>2
<1>9. WindowInv'
  <2>1. StacksFit(captured') /\ StacksLead(captured', Order(db')) /\ Clean(db')
    BY <1>1, <1>4 DEF WindowInv
  <2>2. QED
    BY <1>1, <1>8, <2>1 DEF WindowInv
<1>10. StepIsExact
  <2> SUFFICES ASSUME NEW d \in Clients
               PROVE  /\ ~Undone(d)
                      /\ Redone(d) => Order(store') = NewestEntry(stacks[d].redo).became
    BY DEF StepIsExact
  <2>1. d = c
    BY DEF OneWindow
  <2>2. ~Undone(d)
    BY <1>8, <2>1 DEF Undone
  <2>3. Redone(d) => NewestEntry(stacks[d].redo) = e
    BY <1>6, <1>8, <2>1 DEF Redone
  <2>4. QED
    BY <1>2, <2>2, <2>3
<1>11. QED
  BY <1>9, <1>10

\* The commands of a window, and what each records.
LEMMA CommandKeepsWindow ==
  ASSUME OneWindow, WindowInv, NEW c \in Clients,
         CreateBy(c) \/ DeleteBy(c) \/ MoveBy(c) \/ CollapseBy(c)
  PROVE  WindowInv' /\ StepIsExact
<1>1. StoreInv /\ Clean(store)
  BY DEF WindowInv
<1>2. CASE CreateBy(c)
  <2>1. PICK n \in Notes :
           /\ CreateCommand(n)
           /\ Record(c, [type |-> "create_note", record |-> RecordOf(store', n)])
    BY <1>2 DEF CreateBy, CreateCommand
  <2> DEFINE op == [type |-> "create_note", record |-> RecordOf(store', n)]
  <2>2. op \in Operations /\ Reverses(Entry(op))
    BY <1>1, <2>1, CreateRecorded
  <2>3. Command
    BY <2>1 DEF CreateCommand, Command
  <2> HIDE DEF op
  <2>4. QED
    BY <2>1, <2>2, <2>3, RecordKeepsWindow DEF op
<1>3. CASE DeleteBy(c)
  <2>1. PICK n \in Notes :
           /\ Delete(n)
           /\ Record(c, [type |-> "delete_subtree", records |-> SubtreeRecords(store, n)])
    BY <1>3 DEF DeleteBy
  <2> DEFINE op == [type |-> "delete_subtree", records |-> SubtreeRecords(store, n)]
  <2>2. op \in Operations /\ Reverses(Entry(op))
    BY <1>1, <2>1, DeleteRecorded
  <2>3. Command
    BY <2>1 DEF Command
  <2>4. Record(c, op)
    BY <2>1
  <2> HIDE DEF op
  <2>5. QED
    BY <2>2, <2>3, <2>4, RecordKeepsWindow
<1>4. CASE MoveBy(c)
  <2>1. PICK n \in Notes :
           /\ MoveCommand(n)
           /\ Record(c, [type |-> "move", note |-> n,
                         before |-> Place(store, n), after |-> Place(store', n)])
    BY <1>4 DEF MoveBy, MoveCommand
  <2> DEFINE op == [type |-> "move", note |-> n,
                    before |-> Place(store, n), after |-> Place(store', n)]
  <2>2. op \in Operations /\ Reverses(Entry(op))
    BY <1>1, <2>1, MoveRecorded
  <2>3. Command
    BY <2>1 DEF MoveCommand, Command
  <2>4. Record(c, op)
    BY <2>1
  <2> HIDE DEF op
  <2>5. QED
    BY <2>2, <2>3, <2>4, RecordKeepsWindow
<1>5. CASE CollapseBy(c)
  <2>1. PICK n \in Notes, value \in BOOLEAN :
           /\ SetCollapse(n, value)
           /\ Record(c, [type |-> "collapse", note |-> n, after |-> value])
    BY <1>5 DEF CollapseBy
  <2> DEFINE op == [type |-> "collapse", note |-> n, after |-> value]
  <2>2. op \in Operations /\ Reverses(Entry(op))
    BY <1>1, <2>1, CollapseRecorded
  <2>3. Command
    BY <2>1 DEF Command
  <2>4. Record(c, op)
    BY <2>1
  <2> HIDE DEF op
  <2>5. QED
    BY <2>2, <2>3, <2>4, RecordKeepsWindow
<1>6. QED
  BY <1>2, <1>3, <1>4, <1>5

\* Dropped stacks are empty in the only window.
LEMMA ClearedLead ==
  ASSUME OneWindow, StacksFit(stacks), NEW c \in Clients, ClearStacks(c)
  PROVE  /\ StacksFit(stacks') /\ stacks'[c] = [history |-> << >>, redo |-> << >>]
         /\ \A o : StacksLead(stacks', o)
<1>1. << >> \in Seq(Entries)
  BY EmptySeq
<1>2. /\ StacksFit(stacks')
      /\ \A o : HistoryLeads(<< >>, o) /\ RedoLeads(<< >>, o) => StacksLead(stacks', o)
  BY <1>1, ReplacedLead DEF ClearStacks, WithStacks
<1>3. stacks'[c] = [history |-> << >>, redo |-> << >>]
  BY DEF ClearStacks, StacksFit
<1>4. QED
  BY <1>2, <1>3, EmptyLeads

\* A step that ends with empty stacks, or with no command applied, is no undo and no redo.
LEMMA NoHistoryStep ==
  ASSUME OneWindow,
         \/ phase' # "applied"
         \/ phase # "idle"
         \/ \E c \in Clients : stacks'[c] = [history |-> << >>, redo |-> << >>]
  PROVE  StepIsExact
<1> SUFFICES ASSUME NEW d \in Clients PROVE ~Undone(d) /\ ~Redone(d)
  BY DEF StepIsExact
<1>1. CASE phase' # "applied" \/ phase # "idle"
  BY <1>1 DEF Undone, Redone
<1>2. ASSUME NEW c \in Clients, stacks'[c] = [history |-> << >>, redo |-> << >>]
      PROVE  ~Undone(d) /\ ~Redone(d)
  <2>1. stacks'[d].history = << >> /\ stacks'[d].redo = << >>
    BY <1>2 DEF OneWindow
  <2>2. Len(<< >>) = 0
    OBVIOUS
  <2>3. QED
    BY <2>1, <2>2 DEF Undone, Redone
<1>3. QED
  BY <1>1, <1>2

\* The command that is not undoable.
LEMMA PrioritizeKeepsWindow ==
  ASSUME OneWindow, WindowInv, NEW c \in Clients, PrioritizeBy(c)
  PROVE  WindowInv' /\ StepIsExact
<1>1. Command /\ ClearStacks(c) /\ captured' = captured
  BY DEF PrioritizeBy, Command
<1>2. /\ StoreInv' /\ Clean(store') /\ phase' = "applied" /\ db' = db
  BY <1>1, CommandOrders DEF WindowInv
<1>3. /\ StacksFit(stacks') /\ stacks'[c] = [history |-> << >>, redo |-> << >>]
      /\ \A o : StacksLead(stacks', o)
  BY <1>1, ClearedLead DEF WindowInv
<1>4. StepIsExact
  BY <1>3, NoHistoryStep
<1>5. StacksFit(captured') /\ StacksLead(captured', Order(db')) /\ Clean(db')
  BY <1>1, <1>2 DEF WindowInv
<1>6. WindowInv'
  BY <1>2, <1>3, <1>5 DEF WindowInv
<1>7. QED
  BY <1>4, <1>6

\* Undo.
LEMMA UndoKeepsWindow ==
  ASSUME OneWindow, WindowInv, NEW c \in Clients, Undo(c)
  PROVE  WindowInv' /\ StepIsExact
<1> DEFINE h == stacks[c].history
           r == stacks[c].redo
           e == h[Len(h)]
           left == SubSeq(h, 1, Len(h) - 1)
           longer == Append(r, e)
<1>1. /\ phase = "idle" /\ h # << >> /\ ApplyInverse(e.op) /\ captured' = captured
      /\ stacks' = [stacks EXCEPT ![c] = [history |-> left, redo |-> longer]]
  BY DEF Undo, Ready
<1>2. /\ h \in Seq(Entries) /\ r \in Seq(Entries)
      /\ HistoryLeads(h, Order(store)) /\ RedoLeads(r, Order(store))
      /\ StoreInv /\ Clean(store) /\ StacksFit(stacks)
  BY DEF WindowInv, StacksFit, StacksLead
<1>3. e = NewestEntry(h)
  BY DEF NewestEntry
<1> HIDE DEF h, r
<1>4. /\ left \in Seq(Entries) /\ e \in Entries
      /\ Reverses(e) /\ e.became = Order(store) /\ HistoryLeads(left, e.was)
  <2> DEFINE o == Order(store)
  <2>1. /\ h \in Seq(Entries) /\ h # << >> /\ e = NewestEntry(h)
        /\ left = WithoutNewest(h) /\ HistoryLeads(h, o)
    BY <1>1, <1>2 DEF NewestEntry, WithoutNewest
  <2> HIDE DEF o, left, e
  <2>2. /\ left \in Seq(Entries) /\ e \in Entries
        /\ Reverses(e) /\ e.became = o /\ HistoryLeads(left, e.was)
    BY <2>1, FrontLeads
  <2>3. QED
    BY <2>2 DEF o
<1> HIDE DEF left, e
<1>5. phase' = "applied" /\ StoreInv' /\ Order(store') = e.was
  BY <1>1, <1>2, <1>4, InverseGivesOrder
<1>6. e.op \in Operations
  BY <1>4 DEF Reverses
<1>7. db' = db
  BY <1>1, <1>6, AppliesCommitNothing
<1>8. longer \in Seq(Entries) /\ RedoLeads(longer, e.was)
  <2>1. longer \in Seq(Entries)
    BY <1>2, <1>4, AppendProperties
  <2>2. RedoLeads(r, e.became)
    BY <1>2, <1>4
  <2>3. RedoLeads(longer, e.was)
    BY <1>2, <1>4, <2>2, AppendLeads
  <2>4. QED
    BY <2>1, <2>3
<1> HIDE DEF longer
<1>9. /\ StacksFit(stacks') /\ stacks'[c].history = left /\ stacks'[c].redo = longer
      /\ StacksLead(stacks', e.was)
  <2>1. /\ StacksFit(stacks') /\ stacks'[c].history = left /\ stacks'[c].redo = longer
        /\ \A o : HistoryLeads(left, o) /\ RedoLeads(longer, o) => StacksLead(stacks', o)
    <3> DEFINE u == stacks'
    <3>1. /\ StacksFit(stacks) /\ left \in Seq(Entries) /\ longer \in Seq(Entries)
          /\ u = WithStacks(stacks, c, left, longer)
      BY <1>1, <1>2, <1>4, <1>8 DEF WithStacks
    <3> HIDE DEF u
    <3>2. /\ StacksFit(u) /\ u[c].history = left /\ u[c].redo = longer
          /\ \A o : HistoryLeads(left, o) /\ RedoLeads(longer, o) => StacksLead(u, o)
      BY <3>1, ReplacedLead
    <3>3. QED
      BY <3>2 DEF u
  <2>2. QED
    BY <1>4, <1>8, <2>1
<1>10. Clean(store')
  <2>1. Clean(e.was)
    BY <1>4 DEF Reverses, GoodOrder
  <2>2. Clean(Order(store'))
    BY <1>5, <2>1
  <2>3. QED
    BY <2>2, OrderFields
<1>11. StacksLead(stacks', Order(store'))
  BY <1>5, <1>9
<1>12. WindowInv'
  <2>1. StacksFit(captured') /\ StacksLead(captured', Order(db')) /\ Clean(db')
    BY <1>1, <1>7 DEF WindowInv
  <2>2. QED
    BY <1>5, <1>9, <1>10, <1>11, <2>1 DEF WindowInv
<1>13. StepIsExact
  <2> SUFFICES ASSUME NEW d \in Clients
               PROVE  /\ Undone(d) => Order(store') = NewestEntry(stacks[d].history).was
                      /\ ~Redone(d)
    BY DEF StepIsExact
  <2>1. d = c
    BY DEF OneWindow
  <2>2. NewestEntry(stacks[d].history) = e
    BY <1>3, <2>1 DEF h
  <2>3. ~Redone(d)
    <3>1. Len(longer) = Len(r) + 1 /\ Len(r) \in Nat
      BY <1>2, <1>4, AppendProperties, LenProperties DEF longer
    <3>2. stacks'[d].redo = longer /\ stacks[d].redo = r
      BY <1>9, <2>1 DEF r
    <3>3. Len(longer) # Len(r) - 1
      BY <3>1
    <3>4. QED
      BY <3>2, <3>3 DEF Redone
  <2>4. QED
    BY <1>5, <2>2, <2>3
<1>14. QED
  BY <1>12, <1>13

\* Redo.
LEMMA RedoKeepsWindow ==
  ASSUME OneWindow, WindowInv, NEW c \in Clients, Redo(c)
  PROVE  WindowInv' /\ StepIsExact
<1> DEFINE h == stacks[c].history
           r == stacks[c].redo
           e == r[Len(r)]
           left == SubSeq(r, 1, Len(r) - 1)
           longer == Append(h, e)
           w == Newest(longer)
<1>1. /\ phase = "idle" /\ r # << >> /\ ApplyAgain(e.op) /\ captured' = captured
      /\ stacks' = [stacks EXCEPT ![c] = [history |-> w, redo |-> left]]
  BY DEF Redo, Ready
<1>2. /\ h \in Seq(Entries) /\ r \in Seq(Entries)
      /\ HistoryLeads(h, Order(store)) /\ RedoLeads(r, Order(store))
      /\ StoreInv /\ Clean(store) /\ StacksFit(stacks)
  BY DEF WindowInv, StacksFit, StacksLead
<1>3. e = NewestEntry(r)
  BY DEF NewestEntry
<1> HIDE DEF h, r, w
<1>4. /\ left \in Seq(Entries) /\ Len(left) = Len(r) - 1 /\ e \in Entries
      /\ Reverses(e) /\ e.was = Order(store) /\ RedoLeads(left, e.became)
  <2> DEFINE o == Order(store)
  <2>1. /\ r \in Seq(Entries) /\ r # << >> /\ e = NewestEntry(r)
        /\ left = WithoutNewest(r) /\ RedoLeads(r, o)
    BY <1>1, <1>2 DEF NewestEntry, WithoutNewest
  <2> HIDE DEF o, left, e
  <2>2. /\ left \in Seq(Entries) /\ Len(left) = Len(r) - 1 /\ e \in Entries
        /\ Reverses(e) /\ e.was = o /\ RedoLeads(left, e.became)
    BY <2>1, FrontLeads
  <2>3. QED
    BY <2>2 DEF o
<1> HIDE DEF left, e
<1>5. phase' = "applied" /\ StoreInv' /\ Order(store') = e.became
  BY <1>1, <1>2, <1>4, AgainGivesOrder
<1>6. e.op \in Operations
  BY <1>4 DEF Reverses
<1>7. db' = db
  BY <1>1, <1>6, AppliesCommitNothing
<1>8. longer \in Seq(Entries) /\ longer # << >> /\ HistoryLeads(longer, e.became)
  <2>1. longer \in Seq(Entries) /\ longer # << >>
    BY <1>2, <1>4, AppendProperties
  <2>2. HistoryLeads(h, e.was)
    BY <1>2, <1>4
  <2>3. HistoryLeads(longer, e.became)
    BY <1>2, <1>4, <2>2, AppendLeads
  <2>4. QED
    BY <2>1, <2>3
<1> HIDE DEF longer
<1>9. w \in Seq(Entries) /\ HistoryLeads(w, e.became)
  BY <1>8, NewestLeads DEF w
<1>10. /\ StacksFit(stacks') /\ stacks'[c].redo = left
       /\ StacksLead(stacks', e.became)
  <2>1. /\ StacksFit(stacks') /\ stacks'[c].redo = left
        /\ \A o : HistoryLeads(w, o) /\ RedoLeads(left, o) => StacksLead(stacks', o)
    <3> DEFINE u == stacks'
    <3>1. /\ StacksFit(stacks) /\ left \in Seq(Entries) /\ w \in Seq(Entries)
          /\ u = WithStacks(stacks, c, w, left)
      BY <1>1, <1>2, <1>4, <1>9 DEF WithStacks
    <3> HIDE DEF u
    <3>2. /\ StacksFit(u) /\ u[c].history = w /\ u[c].redo = left
          /\ \A o : HistoryLeads(w, o) /\ RedoLeads(left, o) => StacksLead(u, o)
      BY <3>1, ReplacedLead
    <3>3. QED
      BY <3>2 DEF u
  <2>2. QED
    BY <1>4, <1>9, <2>1
<1>11. Clean(store')
  <2>1. Clean(e.became)
    BY <1>4 DEF Reverses, GoodOrder
  <2>2. Clean(Order(store'))
    BY <1>5, <2>1
  <2>3. QED
    BY <2>2, OrderFields
<1>12. StacksLead(stacks', Order(store'))
  BY <1>5, <1>10
<1>13. WindowInv'
  <2>1. StacksFit(captured') /\ StacksLead(captured', Order(db')) /\ Clean(db')
    BY <1>1, <1>7 DEF WindowInv
  <2>2. QED
    BY <1>5, <1>10, <1>11, <1>12, <2>1 DEF WindowInv
<1>14. StepIsExact
  <2> SUFFICES ASSUME NEW d \in Clients
               PROVE  /\ ~Undone(d)
                      /\ Redone(d) => Order(store') = NewestEntry(stacks[d].redo).became
    BY DEF StepIsExact
  <2>1. d = c
    BY DEF OneWindow
  <2>2. NewestEntry(stacks[d].redo) = e
    BY <1>3, <2>1 DEF r
  <2>3. ~Undone(d)
    <3>1. Len(r) \in Nat
      BY <1>2, LenProperties
    <3>2. stacks'[d].redo = left /\ stacks[d].redo = r
      BY <1>10, <2>1 DEF r
    <3>3. Len(left) # Len(r) + 1
      BY <1>4, <3>1
    <3>4. QED
      BY <3>2, <3>3 DEF Undone
  <2>4. QED
    BY <1>5, <2>2, <2>3
<1>15. QED
  BY <1>13, <1>14

\* A load of what was committed, with stacks that lead from it.
LEMMA ReloadKeepsWindow ==
  ASSUME OneWindow, WindowInv, Reload,
         StacksFit(stacks'), StacksLead(stacks', Order(db)),
         StacksFit(captured'), StacksLead(captured', Order(db))
  PROVE  WindowInv' /\ StepIsExact
<1>1. Loadable(db) /\ db \in Tables /\ Clean(db)
  BY DEF WindowInv, StoreInv, TypeOK
<1>2. store' = Hydrated(db) /\ rows' = db /\ db' = db /\ serving' /\ phase' = "idle"
  BY <1>1 DEF Reload
<1>3. Sound(Hydrated(db)) /\ Columns(Hydrated(db)) = db
  BY <1>1, HydratedSound, ColumnsOfHydrated
<1>4. Hydrated(db) \in Stores
  BY <1>3 DEF Sound
<1>5. TypeOK'
  BY <1>1, <1>2, <1>4 DEF TypeOK, Phases
<1>6. StoreInv'
  BY <1>1, <1>2, <1>3, <1>5 DEF StoreInv
<1>7. Order(store') = Order(db)
  BY <1>2 DEF Order, Hydrated
<1>8. Clean(store')
  BY <1>1, <1>2 DEF Clean, Hydrated
<1>9. StepIsExact
  BY <1>2, NoHistoryStep
<1>10. WindowInv'
  BY <1>1, <1>2, <1>6, <1>7, <1>8 DEF WindowInv
<1>11. QED
  BY <1>9, <1>10

\* The stacks of a new process.
LEMMA NoStacksLead == StacksFit(NoStacks) /\ \A o : StacksLead(NoStacks, o)
BY EmptyStacksFit, EmptyLeads DEF NoStacks, StacksLead

\* The empty vault.
LEMMA WindowStarts ==
  ASSUME UndoInit
  PROVE  WindowInv
<1>1. TypeOK
  BY EmptyTableType, HydratedType, SMTT(30) DEF UndoInit, StoreInit, TypeOK, Phases
<1>2. Sound(store) /\ rows = Columns(store)
  BY EmptyTableType, EmptySound, HydratedSound, ColumnsOfHydrated, Zenon DEF UndoInit, StoreInit
<1>3. StoreInv
  BY <1>1, <1>2, EmptySound, Zenon DEF UndoInit, StoreInit, StoreInv
<1>4. Clean(EmptyTable) /\ Clean(Hydrated(EmptyTable))
  BY DEF Clean, EmptyTable, Hydrated
<1>5. Clean(store) /\ Clean(db) /\ phase = "idle"
  BY <1>4 DEF UndoInit, StoreInit
<1>6. QED
  BY <1>3, <1>5, NoStacksLead DEF UndoInit, WindowInv

\* Every step.
LEMMA WindowStep ==
  ASSUME OneWindow, WindowInv, [UndoNext]_undoVars
  PROVE  WindowInv' /\ StepIsExact
<1>1. ASSUME NEW c \in Clients, CreateBy(c) \/ DeleteBy(c) \/ MoveBy(c) \/ CollapseBy(c)
      PROVE  WindowInv' /\ StepIsExact
  BY <1>1, CommandKeepsWindow
<1>2. ASSUME NEW c \in Clients, PrioritizeBy(c) PROVE WindowInv' /\ StepIsExact
  BY <1>2, PrioritizeKeepsWindow
<1>3. ASSUME NEW c \in Clients, Undo(c) PROVE WindowInv' /\ StepIsExact
  BY <1>3, UndoKeepsWindow
<1>4. ASSUME NEW c \in Clients, Redo(c) PROVE WindowInv' /\ StepIsExact
  BY <1>4, RedoKeepsWindow
<1>5. ASSUME NEW c \in Clients, ForgetHistory(c) PROVE WindowInv' /\ StepIsExact
  <2>1. ClearStacks(c) /\ captured' = stacks' /\ UNCHANGED storeVars
    BY <1>5 DEF ForgetHistory
  <2>2. /\ StacksFit(stacks') /\ stacks'[c] = [history |-> << >>, redo |-> << >>]
        /\ \A o : StacksLead(stacks', o)
    BY <2>1, ClearedLead DEF WindowInv
  <2>3. StepIsExact
    BY <2>2, NoHistoryStep
  <2>4. StacksFit(captured') /\ \A o : StacksLead(captured', o)
    BY <2>1, <2>2
  <2>5. StoreInv' /\ Clean(store') /\ Clean(db') /\ phase' = phase
    BY <2>1 DEF storeVars, WindowInv, StoreInv, TypeOK
  <2>6. WindowInv'
    BY <2>2, <2>4, <2>5 DEF WindowInv
  <2>7. QED
    BY <2>3, <2>6
<1>6. CASE CommitRequest
  <2>1. /\ db' = rows /\ phase' = "idle" /\ captured' = stacks
        /\ store' = store /\ rows' = rows /\ serving' = serving /\ stacks' = stacks
    BY <1>6 DEF CommitRequest, Commit
  <2>2. rows = Columns(store) /\ Loadable(rows)
    BY SoundLoads DEF WindowInv, StoreInv
  <2>3. StoreInv'
    BY <2>1, <2>2 DEF WindowInv, StoreInv, TypeOK, Phases
  <2>4. Order(db') = Order(store) /\ Clean(db')
    BY <2>1, <2>2 DEF Order, Columns, Clean, WindowInv
  <2>5. StepIsExact
    BY <2>1, NoHistoryStep
  <2>6. WindowInv'
    BY <2>1, <2>3, <2>4 DEF WindowInv
  <2>7. QED
    BY <2>5, <2>6
<1>7. CASE RollbackRequest
  <2>1. stacks' = captured /\ captured' = captured
    BY <1>7 DEF RollbackRequest
  <2>2. Reload
    BY <1>7 DEF RollbackRequest, Rollback, RollbackNothing, WindowInv
  <2>3. QED
    BY <2>1, <2>2, ReloadKeepsWindow DEF WindowInv
<1>8. CASE RestartServer
  <2>1. Reload /\ stacks' = NoStacks /\ captured' = NoStacks
    BY <1>8 DEF RestartServer, Restart
  <2>2. QED
    BY <2>1, NoStacksLead, ReloadKeepsWindow
<1>9. CASE UNCHANGED undoVars
  <2>1. /\ store' = store /\ rows' = rows /\ db' = db /\ phase' = phase
        /\ serving' = serving /\ stacks' = stacks /\ captured' = captured
    BY <1>9 DEF undoVars
  <2>2. WindowInv'
    BY <2>1 DEF WindowInv, StoreInv, TypeOK
  <2>3. StepIsExact
    BY <2>1, NoHistoryStep
  <2>4. QED
    BY <2>2, <2>3
<1>10. QED
  BY <1>1, <1>2, <1>3, <1>4, <1>5, <1>6, <1>7, <1>8, <1>9 DEF UndoNext

\* With one window the invariant holds from the empty vault on.
THEOREM WindowInvariant == OneWindow => (UndoSpec => []WindowInv)
<1> SUFFICES ASSUME OneWindow PROVE UndoSpec => []WindowInv
  OBVIOUS
<1>1. UndoInit => WindowInv
  BY WindowStarts
<1>2. WindowInv /\ [UndoNext]_undoVars => WindowInv'
  BY WindowStep
<1>3. QED
  BY <1>1, <1>2, PTL DEF UndoSpec

\* In one window, undo gives back exactly the order and nesting the vault had before
\* the command it reverses (UndoRestoresOrder of UndoHistory), whatever was undone,
\* redone, failed, rolled back and restarted in between.
THEOREM UndoIsExact == OneWindow => (UndoSpec => UndoRestoresOrder)
<1> DEFINE Exact == \A c \in Clients :
                       Undone(c) => Order(store') = NewestEntry(stacks[c].history).was
<1> SUFFICES ASSUME OneWindow PROVE UndoSpec => UndoRestoresOrder
  OBVIOUS
<1>1. UndoSpec => []WindowInv
  BY WindowInvariant
<1>2. WindowInv /\ [UndoNext]_undoVars => Exact
  BY WindowStep DEF StepIsExact
<1>3. QED
  BY <1>1, <1>2, PTL DEF UndoSpec, UndoRestoresOrder

\* In one window, redo gives back exactly the order the command had produced
\* (RedoRestoresOrder of UndoHistory).
THEOREM RedoIsExact == OneWindow => (UndoSpec => RedoRestoresOrder)
<1> DEFINE Exact == \A c \in Clients :
                       Redone(c) => Order(store') = NewestEntry(stacks[c].redo).became
<1> SUFFICES ASSUME OneWindow PROVE UndoSpec => RedoRestoresOrder
  OBVIOUS
<1>1. UndoSpec => []WindowInv
  BY WindowInvariant
<1>2. WindowInv /\ [UndoNext]_undoVars => Exact
  BY WindowStep DEF StepIsExact
<1>3. QED
  BY <1>1, <1>2, PTL DEF UndoSpec, RedoRestoresOrder

\* One window's undo and redo commit only rows that load (CommittedTreeLoads), keep
\* memory what a load of the rows would build (MemoryMatchesRows), and never find a
\* neighbour missing (NoAssertionFails).  With two windows they need not.
THEOREM OneWindowIsSafe ==
    OneWindow => (UndoSpec => [](CommittedTreeLoads /\ MemoryMatchesRows /\ NoAssertionFails))
<1> SUFFICES ASSUME OneWindow
             PROVE  UndoSpec => [](CommittedTreeLoads /\ MemoryMatchesRows /\ NoAssertionFails)
  OBVIOUS
<1>1. UndoSpec => []WindowInv
  BY WindowInvariant
<1>2. WindowInv => CommittedTreeLoads /\ MemoryMatchesRows /\ NoAssertionFails
  BY StoreIsHydrated DEF WindowInv, StoreInv, Sound, CommittedTreeLoads, MemoryMatchesRows,
                         NoAssertionFails
<1>3. QED
  BY <1>1, <1>2, PTL
=============================================================================
