------------------------- MODULE NoteCommands_proofs -------------------------
(***************************************************************************)
(* What holds of NoteCommands in every vault.                                *)
(***************************************************************************)
EXTENDS NoteCommands, NoteOrdering_proofs

-----------------------------------------------------------------------------
(***************************************************************************)
(* Type correctness: one lemma per apply_* function, then the commands.      *)
(***************************************************************************)
\* apply_insert_note keeps the types.
LEMMA InsertNoteType ==
  ASSUME TypeOK, NEW n \in Notes, NEW p \in NoteOrNull,
         NEW prev \in NoteOrNull, NEW next \in NoteOrNull, InsertNote(n, p, prev, next)
  PROVE  TypeOK'
<1> DEFINE added == AddNote(store, n, p, Expanded)
           after == NextAfter(store, p, prev)
           before == ResolvedPrev(added, p, prev, after)
           behind == ResolvedNext(added, p, prev, after)
<1>1. added \in Stores
  BY AddNoteType, ExpandedType DEF TypeOK
<1>2. after \in NoteOrNull
  BY DEF NextAfter, TypeOK, Stores, NoteOrNull
<1> HIDE DEF added, after
<1>3. before \in NoteOrNull /\ behind \in NoteOrNull
  BY <1>1, <1>2, ResolvedType
<1> HIDE DEF before, behind
<1>4. LinkIn(added, n, p, before, behind) \in Stores
  BY <1>1, <1>3, LinkInType
<1>5. InsertRow(rows, n, p, prev, next, Expanded) \in Tables
  BY InsertRowType, ExpandedType DEF TypeOK
<1>6. \/ /\ rows' = InsertRow(rows, n, p, prev, next, Expanded)
         /\ store' = LinkIn(added, n, p, before, behind)
         /\ Applied
      \/ Raise
  BY DEF InsertNote, added, after, before, behind
<1>7. QED
  BY <1>4, <1>5, <1>6 DEF TypeOK, Applied, Raise, Phases

\* The record of a moved note, taken out of its list.
LEMMA DetachedType ==
  ASSUME NEW s \in Stores, NEW n \in Notes, NEW p \in NoteOrNull
  PROVE  Detached(s, n, p) \in Stores
<1>1. LinkOut(s, n) \in Stores
  BY LinkOutType
<1>2. QED
  BY <1>1 DEF Detached, Stores

\* apply_move keeps the types.
LEMMA MoveNoteType ==
  ASSUME TypeOK, NEW n \in Notes, NEW p \in NoteOrNull,
         NEW prev \in NoteOrNull, NEW next \in NoteOrNull, MoveNote(n, p, prev, next)
  PROVE  TypeOK'
<1>1. LinkIn(Detached(store, n, p), n, p, prev, next) \in Stores
  BY DetachedType, LinkInType DEF TypeOK
<1>2. store.prev[n] \in NoteOrNull /\ store.next[n] \in NoteOrNull
  BY DEF TypeOK, Stores
<1>3. MoveRow(rows, n, store.prev[n], store.next[n], p, prev, next) \in Tables
  BY <1>2, MoveRowType DEF TypeOK
<1>4. QED
  BY <1>1, <1>3 DEF MoveNote, TypeOK, Applied, Raise, Refuse, Phases

\* apply_delete_subtree keeps the types.
LEMMA DeleteSubtreeType ==
  ASSUME TypeOK, NEW n \in Notes, DeleteSubtree(n)
  PROVE  TypeOK'
<1> DEFINE D == Subtree(store, n)
<1>1. DropLists(DropNotes(LinkOut(store, n), D), D) \in Stores
  BY LinkOutType, DropType DEF TypeOK
<1>2. store.prev[n] \in NoteOrNull /\ store.next[n] \in NoteOrNull
  BY DEF TypeOK, Stores
<1>3. DeleteRows(rows, D, store.prev[n], store.next[n]) \in Tables
  BY <1>2, DeleteRowsType DEF TypeOK
<1>4. QED
  BY <1>1, <1>3 DEF DeleteSubtree, TypeOK, Applied, Raise, Refuse, Phases

\* CmdIndent keeps the types.
LEMMA IndentType ==
  ASSUME TypeOK, NEW n \in Notes, NEW m \in Notes, Indent(n, m)
  PROVE  TypeOK'
<1> DEFINE prev == store.tails[m]
           relinked == LinkIn(Detached(store, n, m), n, m, prev, Null)
           moved == MoveRow(rows, n, store.prev[n], store.next[n], m, prev, Null)
<1>1. /\ m \in NoteOrNull /\ Null \in NoteOrNull /\ prev \in NoteOrNull
      /\ store.prev[n] \in NoteOrNull /\ store.next[n] \in NoteOrNull
  BY DEF TypeOK, Stores, NoteOrNull
<1>2. relinked \in Stores
  BY <1>1, DetachedType, LinkInType DEF TypeOK
<1>3. moved \in Tables
  BY <1>1, MoveRowType DEF TypeOK
<1>4. \/ rows' = SetCollapsed(moved, m, Expanded) /\ store' = SetCollapsed(relinked, m, Expanded) /\ Applied
      \/ Raise
  BY DEF Indent
<1> HIDE DEF relinked, moved
<1>5. SetCollapsed(moved, m, Expanded) \in Tables /\ SetCollapsed(relinked, m, Expanded) \in Stores
  BY <1>2, <1>3, SetCollapsedType, ExpandedType
<1>6. QED
  BY <1>4, <1>5 DEF TypeOK, Applied, Raise, Phases

\* CmdPrioritize keeps the types.
LEMMA PrioritizeType ==
  ASSUME TypeOK, NEW S \in SUBSET Notes, Prioritize(S)
  PROVE  TypeOK'
<1> DEFINE roots == Siblings(store, Null)
<1>1. roots \in SUBSET Notes
  BY DEF Siblings, TypeOK, Stores
<1>2. PICK q \in Orders(roots) :
        \/ /\ rows' = LinkInOrder(rows, q)
           /\ store' = Hydrated(LinkInOrder(store, q))
           /\ Applied
        \/ Raise
  BY DEF Prioritize, Regrouped
<1>3. LinkInOrder(store, q) \in Stores /\ LinkInOrder(rows, q) \in Tables
  BY <1>1, LinkInOrderType DEF TypeOK
<1>4. Hydrated(LinkInOrder(store, q)) \in Stores
  BY <1>3, HydratedOfStore
<1>5. QED
  BY <1>2, <1>3, <1>4 DEF TypeOK, Applied, Raise, Phases

\* Every command keeps the types.
LEMMA CommandType ==
  ASSUME TypeOK, Command
  PROVE  TypeOK'
<1>1. ASSUME NEW n \in Notes PROVE n \in NoteOrNull
  BY DEF NoteOrNull
<1>2. Null \in NoteOrNull
  BY DEF NoteOrNull
<1>3. /\ \A n \in Notes : /\ store.parent[n] \in NoteOrNull
                          /\ store.prev[n] \in NoteOrNull
                          /\ store.next[n] \in NoteOrNull
      /\ \A p \in NoteOrNull : store.heads[p] \in NoteOrNull /\ store.tails[p] \in NoteOrNull
      /\ store.ids \subseteq Notes
  BY DEF TypeOK, Stores
<1>4. ASSUME NEW n \in Notes, CreateNote(n) PROVE TypeOK'
  <2>1. CASE InsertNote(n, Null, Null, store.heads[Null])
    BY <1>2, <1>3, <2>1, InsertNoteType
  <2>2. CASE \E first \in Siblings(store, Null) :
                InsertNote(n, Null, store.prev[first], first)
    <3>1. PICK first \in Siblings(store, Null) : InsertNote(n, Null, store.prev[first], first)
      BY <2>2
    <3>2. first \in Notes
      BY <1>3 DEF Siblings
    <3>3. QED
      BY <1>1, <1>2, <1>3, <3>1, <3>2, InsertNoteType
  <2>3. QED
    BY <1>4, <2>1, <2>2 DEF CreateNote
<1>5. ASSUME NEW n \in Notes, NEW m \in Notes, CreateChild(n, m) PROVE TypeOK'
  <2>1. InsertNote(n, m, Null, store.heads[m])
    BY <1>5 DEF CreateChild
  <2>2. QED
    BY <1>1, <1>2, <1>3, <2>1, InsertNoteType
<1>6. ASSUME NEW n \in Notes, NEW m \in Notes, CreateSibling(n, m) PROVE TypeOK'
  <2>1. InsertNote(n, store.parent[m], m, store.next[m])
    BY <1>6 DEF CreateSibling
  <2>2. QED
    BY <1>1, <1>3, <2>1, InsertNoteType
<1>7. ASSUME NEW n \in Notes, NEW m \in Notes, CreateFilePreviewChild(n, m) PROVE TypeOK'
  <2>1. InsertNote(n, m, store.tails[m], Null)
    BY <1>7 DEF CreateFilePreviewChild
  <2>2. QED
    BY <1>1, <1>2, <1>3, <2>1, InsertNoteType
<1>8. ASSUME NEW n \in Notes, Delete(n) PROVE TypeOK'
  BY <1>8, DeleteSubtreeType DEF Delete
<1>9. ASSUME NEW n \in Notes, NEW m \in Notes, Move(n, m) PROVE TypeOK'
  <2>1. \/ MoveNote(n, store.parent[m], store.prev[m], m)
        \/ MoveNote(n, store.parent[m], m, store.next[m])
    BY <1>9 DEF Move
  <2>2. QED
    BY <1>1, <1>3, <2>1, MoveNoteType
<1>10. ASSUME NEW n \in Notes, NEW m \in Notes, Indent(n, m) PROVE TypeOK'
  BY <1>10, IndentType
<1>11. ASSUME NEW n \in Notes, Outdent(n) PROVE TypeOK'
  <2>1. store.parent[n] \in Notes
    BY <1>3, <1>11 DEF Outdent, NoteOrNull
  <2>2. MoveNote(n, store.parent[store.parent[n]], store.parent[n], store.next[store.parent[n]])
    BY <1>11 DEF Outdent
  <2>3. QED
    BY <1>1, <1>3, <2>1, <2>2, MoveNoteType
<1>12. ASSUME NEW n \in Notes, MoveToTop(n) PROVE TypeOK'
  <2>1. PICK first \in Siblings(store, store.parent[n]) :
               MoveNote(n, store.parent[n], store.prev[first], first)
    BY <1>12 DEF MoveToTop
  <2>2. first \in Notes
    BY <1>3 DEF Siblings
  <2>3. QED
    BY <1>1, <1>3, <2>1, <2>2, MoveNoteType
<1>13. ASSUME NEW n \in Notes, MoveToBottom(n) PROVE TypeOK'
  <2>1. PICK last \in LaterSiblings(store, n) :
               MoveNote(n, store.parent[n], last, store.next[last])
    BY <1>13 DEF MoveToBottom
  <2>2. last \in Notes
    BY <1>3 DEF LaterSiblings
  <2>3. QED
    BY <1>1, <1>3, <2>1, <2>2, MoveNoteType
<1>14. ASSUME NEW S \in SUBSET Notes, Prioritize(S) PROVE TypeOK'
  BY <1>14, PrioritizeType
<1>15. ASSUME NEW n \in Notes, NEW c \in BOOLEAN, SetCollapse(n, c) PROVE TypeOK'
  BY <1>15, SetCollapsedType
  DEF SetCollapse, CollapseNote, TypeOK, Applied, Refuse, Phases
<1>16. QED
  BY <1>4, <1>5, <1>6, <1>7, <1>8, <1>9, <1>10, <1>11, <1>12, <1>13, <1>14, <1>15 DEF Command

\* Every state has its type: a command, a commit, a rollback or a restart leaves
\* tables and a store (TypeOK of NoteCommands).
THEOREM StoreTypeCorrect == StoreSpec => []TypeOK
<1>1. StoreInit => TypeOK
  BY EmptyTableType, HydratedType DEF StoreInit, TypeOK, Phases
<1>2. TypeOK /\ [StoreNext]_storeVars => TypeOK'
  <2> SUFFICES ASSUME TypeOK, [StoreNext]_storeVars
               PROVE  TypeOK'
    OBVIOUS
  <2>1. CASE Command
    BY <2>1, CommandType
  <2>2. CASE Commit
    BY <2>2 DEF Commit, TypeOK, Phases
  <2>3. CASE Reload
    <3>1. Hydrated(db) \in Stores /\ Hydrated(EmptyTable) \in Stores
      BY EmptyTableType, HydratedType DEF TypeOK
    <3>2. Loadable(db) \in BOOLEAN
      BY DEF Loadable, HierarchyValid, Ordered, Reciprocal, SingleBoundaries, NoRings
    <3>3. QED
      BY <2>3, <3>1, <3>2 DEF Reload, TypeOK, Phases
  <2>4. CASE UNCHANGED storeVars
    BY <2>4 DEF storeVars, TypeOK
  <2>5. QED
    BY <2>1, <2>2, <2>3, <2>4 DEF StoreNext, Rollback, Restart
<1>3. QED
  BY <1>1, <1>2, PTL DEF StoreSpec

-----------------------------------------------------------------------------
(***************************************************************************)
(* The inductive invariant.  CommittedTreeLoads alone is not inductive: a     *)
(* commit publishes the rows, the rows follow the store, and the store stays  *)
(* sound only because its head and tail index is right.                      *)
(***************************************************************************)
Sound(s) ==
    /\ s \in Stores
    /\ HierarchyValid(s)
    /\ Ordered(s, s.ids)
    /\ IndexMatches(s, s.ids)

\* The rows have the notes and the nesting of the store; their links may differ.
SameTree == rows.ids = store.ids /\ rows.parent = store.parent

StoreInv ==
    /\ TypeOK
    /\ serving
    /\ Sound(store)
    /\ rows = Columns(store)
    /\ Loadable(db)

\* What a load builds from rows it accepts is sound.
LEMMA HydratedSound ==
  ASSUME NEW t \in Tables, Loadable(t)
  PROVE  Sound(Hydrated(t))
<1>1. t.ids \in SUBSET Notes /\ Hydrated(t).ids = t.ids /\ Hydrated(t).parent = t.parent
  BY DEF Tables, Hydrated
<1>2. Hydrated(t) \in Stores
  BY HydratedType
<1>3. HierarchyValid(Hydrated(t))
  BY <1>1, SameHierarchy DEF Loadable
<1>4. Ordered(Hydrated(t), t.ids) /\ IndexMatches(Hydrated(t), t.ids)
  BY <1>1, HydratedIndex DEF Loadable
<1>5. QED
  BY <1>1, <1>2, <1>3, <1>4 DEF Sound

\* The columns of a sound store load.
LEMMA SoundLoads ==
  ASSUME NEW s, Sound(s)
  PROVE  Loadable(Columns(s))
<1> DEFINE t == Columns(s)
<1>1. /\ t.ids = s.ids /\ t.parent = s.parent /\ t.prev = s.prev /\ t.next = s.next
  BY DEF Columns
<1> HIDE DEF t
<1>2. HierarchyValid(t)
  BY <1>1, SameHierarchy DEF Sound
<1>3. Ordered(t, t.ids)
  BY <1>1 DEF Sound, Ordered, Reciprocal, SingleBoundaries, NoRings
<1>4. QED
  BY <1>2, <1>3 DEF Loadable, t

\* A vault without notes loads.
LEMMA EmptySound == Loadable(EmptyTable)
<1> DEFINE d == [n \in {} |-> 1]
<1>1. EmptyTable.ids = {}
  BY DEF EmptyTable
<1>2. d \in [EmptyTable.ids -> 1..MaxDepth] /\ IsDepthMap(EmptyTable, d)
  BY <1>1 DEF IsDepthMap
<1>3. HierarchyValid(EmptyTable)
  BY <1>1, <1>2 DEF HierarchyValid
<1>4. Ordered(EmptyTable, EmptyTable.ids)
  BY <1>1 DEF Ordered, Reciprocal, SingleBoundaries, NoRings
<1>5. QED
  BY <1>3, <1>4 DEF Loadable

-----------------------------------------------------------------------------
(***************************************************************************)
(* Each apply_* function keeps the store sound and the rows equal to it.      *)
(***************************************************************************)

\* The anchors a command passes are the ones insert resolves.
LEMMA InsertAnchors ==
  ASSUME NEW s \in Stores, Sound(s), NEW n \in Notes \ s.ids, NEW p \in NoteOrNull,
         NEW prev \in NoteOrNull, NEW next \in NoteOrNull,
         prev # Null => prev \in s.ids /\ s.parent[prev] = p,
         next = NextAfter(s, p, prev), NEW added, added = AddNote(s, n, p, Expanded)
  PROVE  /\ ResolvedPrev(added, p, prev, next) = prev
         /\ ResolvedNext(added, p, prev, next) = next
         /\ Gap(added, s.ids, p, prev, next)
         /\ Ordered(added, s.ids) /\ IndexMatches(added, s.ids)
         /\ prev \in s.ids \cup {Null} /\ next \in s.ids \cup {Null}
<1>1. /\ added.prev = s.prev /\ added.next = s.next
      /\ added.heads = s.heads /\ added.tails = s.tails
      /\ \A m \in s.ids : added.parent[m] = s.parent[m]
  BY DEF AddNote, Stores
<1>2. s.ids \subseteq Notes /\ Null \notin Notes
  BY NullAssumption DEF Stores
<1>3. Ordered(s, s.ids) /\ IndexMatches(s, s.ids)
  BY DEF Sound
<1>4. Ordered(added, s.ids)
  <2>1. Reciprocal(added, s.ids)
    BY <1>1, <1>3 DEF Ordered, Reciprocal
  <2>2. SingleBoundaries(added, s.ids)
    BY <1>1, <1>3 DEF Ordered, SingleBoundaries
  <2>3. NoRings(added, s.ids)
    BY <1>1, <1>3 DEF Ordered, NoRings
  <2>4. QED
    BY <2>1, <2>2, <2>3 DEF Ordered
<1>5. IndexMatches(added, s.ids)
  <2> SUFFICES ASSUME NEW q \in NoteOrNull
               PROVE  LET list == {m \in s.ids : added.parent[m] = q}
                      IN  /\ list = {} => added.heads[q] = Null /\ added.tails[q] = Null
                          /\ list # {} => /\ added.heads[q] \in list
                                          /\ added.prev[added.heads[q]] = Null
                                          /\ added.tails[q] \in list
                                          /\ added.next[added.tails[q]] = Null
    BY DEF IndexMatches
  <2> DEFINE list == {m \in s.ids : s.parent[m] = q}
             listed == {m \in s.ids : added.parent[m] = q}
  <2>1. listed = list
    BY <1>1
  <2>2. /\ list = {} => s.heads[q] = Null /\ s.tails[q] = Null
        /\ list # {} => /\ s.heads[q] \in list /\ s.prev[s.heads[q]] = Null
                        /\ s.tails[q] \in list /\ s.next[s.tails[q]] = Null
    BY <1>3 DEF IndexMatches
  <2> HIDE DEF list, listed
  <2>3. /\ listed = {} => added.heads[q] = Null /\ added.tails[q] = Null
        /\ listed # {} => /\ added.heads[q] \in listed /\ added.prev[added.heads[q]] = Null
                          /\ added.tails[q] \in listed /\ added.next[added.tails[q]] = Null
    BY <1>1, <2>1, <2>2
  <2>4. QED
    BY <2>3 DEF listed
<1>6. CASE prev = Null
  <2>1. next = s.heads[p]
    BY <1>6 DEF NextAfter
  <2> DEFINE list == {m \in s.ids : s.parent[m] = p}
  <2>1a. /\ list = {} => s.heads[p] = Null /\ s.tails[p] = Null
         /\ list # {} => /\ s.heads[p] \in list /\ s.prev[s.heads[p]] = Null
                         /\ s.tails[p] \in list /\ s.next[s.tails[p]] = Null
    BY <1>3 DEF IndexMatches
  <2>2. next = Null => s.tails[p] = Null /\ \A m \in s.ids : s.parent[m] # p
    BY <1>2, <2>1, <2>1a
  <2>3. next # Null => next \in s.ids /\ s.parent[next] = p /\ s.prev[next] = Null
    BY <2>1, <2>1a
  <2>4. QED
    BY <1>1, <1>4, <1>5, <1>6, <2>2, <2>3 DEF ResolvedPrev, ResolvedNext, Gap
<1>7. CASE prev # Null
  <2>1. next = s.next[prev]
    BY <1>7 DEF NextAfter
  <2>2. next # Null => next \in s.ids /\ s.parent[next] = p /\ s.prev[next] = prev
    BY <1>3, <1>7, <2>1 DEF Ordered, Reciprocal
  <2>3. QED
    BY <1>1, <1>4, <1>5, <1>7, <2>1, <2>2 DEF ResolvedPrev, ResolvedNext, Gap
<1>8. QED
  BY <1>6, <1>7

\* A new note in a gap leaves the store sound.
LEMMA InsertSound ==
  ASSUME NEW s \in Stores, Sound(s), NEW n \in Notes \ s.ids, NEW p \in NoteOrNull,
         NewParentAllowed(s, p), NEW prev \in NoteOrNull, NEW next \in NoteOrNull,
         prev # Null => prev \in s.ids /\ s.parent[prev] = p,
         next = NextAfter(s, p, prev)
  PROVE  Sound(LinkIn(AddNote(s, n, p, Expanded), n, p, prev, next))
<1> DEFINE added == AddNote(s, n, p, Expanded)
           linked == LinkIn(added, n, p, prev, next)
<1>1. added \in Stores
  BY AddNoteType, ExpandedType
<1>2. /\ added.ids = s.ids \cup {n} /\ added.parent[n] = p
      /\ \A m \in s.ids : added.parent[m] = s.parent[m]
  BY DEF AddNote, Stores
<1>3. /\ Gap(added, s.ids, p, prev, next)
      /\ Ordered(added, s.ids) /\ IndexMatches(added, s.ids)
  BY InsertAnchors
<1>4. s.ids \in SUBSET Notes
  BY DEF Stores
<1> HIDE DEF added
<1>5. Ordered(linked, s.ids \cup {n}) /\ IndexMatches(linked, s.ids \cup {n})
  BY <1>1, <1>2, <1>3, <1>4, LinkInOrdered, LinkInIndex
<1>6. /\ linked \in Stores
      /\ linked.ids = added.ids /\ linked.parent = added.parent
  <2>1. linked \in Stores
    BY <1>1, LinkInType
  <2>2. linked.ids = added.ids /\ linked.parent = added.parent
    BY <1>1, LinkInFields
  <2>3. QED
    BY <2>1, <2>2
<1> HIDE DEF linked
<1>7. HierarchyValid(linked)
  BY <1>2, <1>4, <1>6, HierarchyWithNew DEF Sound
<1>8. QED
  BY <1>2, <1>5, <1>6, <1>7 DEF Sound, linked, added

\* apply_insert_note, given anchors that fit, is applied and keeps the invariant.
LEMMA InsertNoteInv ==
  ASSUME StoreInv, NEW n \in Notes \ store.ids, NEW p \in NoteOrNull,
         NewParentAllowed(store, p), NEW prev \in NoteOrNull, NEW next \in NoteOrNull,
         prev # Null => prev \in store.ids /\ store.parent[prev] = p,
         next = NextAfter(store, p, prev),
         InsertNote(n, p, prev, next)
  PROVE  StoreInv' /\ phase' = "applied"
<1> DEFINE added == AddNote(store, n, p, Expanded)
           linked == LinkIn(added, n, p, prev, next)
<1>1. store \in Stores /\ Sound(store)
  BY DEF StoreInv, Sound
<1>2. TypeOK'
  BY InsertNoteType DEF StoreInv
<1>3. /\ ResolvedPrev(added, p, prev, next) = prev /\ ResolvedNext(added, p, prev, next) = next
      /\ prev \in store.ids \cup {Null} /\ next \in store.ids \cup {Null}
  <2> HIDE DEF added
  <2>1. added = AddNote(store, n, p, Expanded)
    BY DEF added
  <2>2. QED
    BY <1>1, <2>1, InsertAnchors
<1>4. Sound(linked)
  BY <1>1, InsertSound
<1>5. InsertRow(Columns(store), n, p, prev, next, Expanded) = Columns(linked)
  BY <1>1, <1>3, ExpandedType, InsertRowMatches
<1>6. CanLinkIn(added, n, p, prev, next)
  <2>1. /\ Gap(added, store.ids, p, prev, next) /\ added.ids = store.ids \cup {n}
        /\ n \notin store.ids
    <3>1. added.ids = store.ids \cup {n}
      BY DEF AddNote
    <3> HIDE DEF added
    <3>2. added = AddNote(store, n, p, Expanded)
      BY DEF added
    <3>3. QED
      BY <1>1, <3>1, <3>2, InsertAnchors
  <2> HIDE DEF added
  <2>2. QED
    BY <2>1 DEF Gap, CanLinkIn
<1>7. rows' = InsertRow(rows, n, p, prev, next, Expanded) /\ store' = linked /\ Applied
  BY <1>3, <1>6 DEF InsertNote
<1> HIDE DEF linked
<1>8. QED
  BY <1>2, <1>4, <1>5, <1>7 DEF Applied, StoreInv

\* MoveNote and Indent relink with the same two expressions.
LEMMA MoveSound ==
  ASSUME Sound(store), SameTree, NEW n \in Notes, NEW p \in NoteOrNull,
         NEW prev \in NoteOrNull, NEW next \in NoteOrNull,
         n \in store.ids, CanMove(n, p, prev, next)
  PROVE  LET linked == LinkIn(Detached(store, n, p), n, p, prev, next)
         IN  /\ Sound(linked)
             /\ rows = Columns(store) =>
                    MoveRow(rows, n, store.prev[n], store.next[n], p, prev, next) = Columns(linked)
             /\ Gap(Detached(store, n, p), store.ids \ {n}, p, prev, next)
<1> DEFINE out == LinkOut(store, n)
           detached == Detached(store, n, p)
           J == store.ids \ {n}
           linked == LinkIn(detached, n, p, prev, next)
<1>1. /\ store \in Stores /\ n \in store.ids /\ store.ids \in SUBSET Notes /\ Null \notin Notes
      /\ HierarchyValid(store) /\ Ordered(store, store.ids) /\ IndexMatches(store, store.ids)
      /\ J \in SUBSET Notes /\ n \in Notes \ J
  BY NullAssumption DEF Sound, Stores
<1>2. /\ Ordered(out, J) /\ IndexMatches(out, J)
      /\ out \in Stores /\ out.ids = store.ids /\ out.parent = store.parent
      /\ out.collapsed = store.collapsed
  <2>1. Ordered(out, J) /\ IndexMatches(out, J)
    BY <1>1, LinkOutOrdered, LinkOutIndex
  <2>2. out \in Stores
    BY <1>1, LinkOutType
  <2>3. out.ids = store.ids /\ out.parent = store.parent /\ out.collapsed = store.collapsed
    BY <1>1, LinkOutFields
  <2>4. QED
    BY <2>1, <2>2, <2>3
<1>3. detached \in Stores
  BY <1>1, DetachedType
<1>4. /\ detached.ids = store.ids /\ detached.prev = out.prev /\ detached.next = out.next
      /\ detached.heads = out.heads /\ detached.tails = out.tails
      /\ detached.collapsed = out.collapsed
      /\ detached.parent = [store.parent EXCEPT ![n] = p] /\ detached.parent[n] = p
      /\ \A m \in Notes \ {n} : detached.parent[m] = out.parent[m]
  BY <1>1, <1>2 DEF Detached, Stores
<1>5. /\ ResolvedPrev(detached, p, prev, MoveTarget(store, n, p, prev)) = prev
      /\ ResolvedNext(detached, p, prev, MoveTarget(store, n, p, prev)) = next
      /\ CanLinkIn(detached, n, p, prev, next)
      /\ ParentAllowed(rows, n, p)
  BY DEF CanMove
<1> HIDE DEF out, detached
<1>6. Ordered(detached, J)
  BY <1>1, <1>2, <1>4 DEF Ordered, Reciprocal, SingleBoundaries, NoRings
<1>7. IndexMatches(detached, J)
  <2> SUFFICES ASSUME NEW q \in NoteOrNull
               PROVE  LET list == {m \in J : detached.parent[m] = q}
                      IN  /\ list = {} => detached.heads[q] = Null /\ detached.tails[q] = Null
                          /\ list # {} => /\ detached.heads[q] \in list
                                          /\ detached.prev[detached.heads[q]] = Null
                                          /\ detached.tails[q] \in list
                                          /\ detached.next[detached.tails[q]] = Null
    BY DEF IndexMatches
  <2>1. {m \in J : detached.parent[m] = q} = {m \in J : out.parent[m] = q}
    BY <1>1, <1>4
  <2>2. QED
    BY <1>2, <1>4, <2>1 DEF IndexMatches
<1>8. Gap(detached, J, p, prev, next)
  <2>1. /\ prev # Null => /\ prev \in J /\ detached.parent[prev] = p /\ detached.next[prev] = next
        /\ next # Null => /\ next \in J /\ detached.parent[next] = p /\ detached.prev[next] = prev
    BY <1>4, <1>5 DEF CanLinkIn
  <2>2. ASSUME prev = Null, next = Null PROVE detached.tails[p] = Null
    BY <1>5, <2>2 DEF ResolvedPrev, ResolvedNext
  <2>3. ASSUME detached.tails[p] = Null PROVE \A m \in J : detached.parent[m] # p
    BY <1>1, <1>7, <2>3 DEF IndexMatches
  <2>4. QED
    BY <2>1, <2>2, <2>3 DEF Gap
<1>9. Ordered(linked, J \cup {n}) /\ IndexMatches(linked, J \cup {n})
  BY <1>1, <1>3, <1>4, <1>6, <1>7, <1>8, LinkInOrdered, LinkInIndex
<1>10. /\ linked \in Stores /\ linked.ids = detached.ids /\ linked.parent = detached.parent
       /\ linked.collapsed = detached.collapsed
       /\ \A m \in Notes :
            /\ linked.prev[m] = IF m = n THEN prev ELSE IF m = next THEN n ELSE detached.prev[m]
            /\ linked.next[m] = IF m = n THEN next ELSE IF m = prev THEN n ELSE detached.next[m]
  BY <1>1, <1>3, LinkInType, LinkInFields
<1> HIDE DEF linked
<1>11. HierarchyValid(linked)
  <2>2. ParentAllowed(store, n, p)
    BY <1>5, SameHierarchy DEF ParentAllowed, SameTree
  <2>3. linked.ids = store.ids /\ linked.parent[n] = p
    BY <1>4, <1>10
  <2>4. \A m \in store.ids \ {n} : linked.parent[m] = store.parent[m]
    BY <1>1, <1>2, <1>4, <1>10
  <2>5. QED
    BY <1>1, <2>2, <2>3, <2>4, HierarchyWithMoved
<1>12. Sound(linked)
  <2>1. J \cup {n} = linked.ids
    BY <1>1, <1>4, <1>10
  <2>2. QED
    BY <1>9, <1>10, <1>11, <2>1 DEF Sound
<1>13. ASSUME rows = Columns(store)
       PROVE  MoveRow(rows, n, store.prev[n], store.next[n], p, prev, next) = Columns(linked)
  <2> DEFINE closed == UpdatePrev(UpdateNext(rows, store.prev[n], store.next[n]),
                                  store.next[n], store.prev[n])
             placed == [closed EXCEPT !.parent = [@ EXCEPT ![n] = p],
                                      !.prev = [@ EXCEPT ![n] = prev],
                                      !.next = [@ EXCEPT ![n] = next]]
             u == UpdateNext(placed, prev, n)
             w == UpdatePrev(u, next, n)
  <2>1. closed = Columns(out)
    <3>1. store.prev[n] \in store.ids \cup {Null} /\ store.next[n] \in store.ids \cup {Null}
      BY <1>1 DEF Ordered, Reciprocal
    <3>2. QED
      BY <1>1, <1>13, <3>1, ClosedGapMatches DEF out
  <2> HIDE DEF closed
  <2>2. /\ closed \in Tables /\ closed.ids = out.ids /\ closed.parent = out.parent
        /\ closed.prev = out.prev /\ closed.next = out.next /\ closed.collapsed = out.collapsed
    BY <1>2, <2>1, ColumnsType DEF Columns
  <2>3. placed \in Tables
    BY <2>2 DEF Tables
  <2>4. /\ placed.ids = closed.ids /\ placed.collapsed = closed.collapsed
        /\ \A m \in Notes : /\ placed.parent[m] = IF m = n THEN p ELSE closed.parent[m]
                            /\ placed.prev[m] = IF m = n THEN prev ELSE closed.prev[m]
                            /\ placed.next[m] = IF m = n THEN next ELSE closed.next[m]
    BY <2>2 DEF Tables
  <2> HIDE DEF placed
  <2>5. n \in NoteOrNull
    BY DEF NoteOrNull
  <2>6. u \in Tables /\ w \in Tables
    BY <2>3, <2>5, UpdateType
  <2>7. /\ u.ids = placed.ids /\ u.parent = placed.parent /\ u.prev = placed.prev
        /\ u.collapsed = placed.collapsed
        /\ \A m \in Notes : u.next[m] = IF m = prev /\ prev \in placed.ids THEN n ELSE placed.next[m]
    BY <2>3, UpdateFields
  <2> HIDE DEF u
  <2>8. /\ w.ids = u.ids /\ w.parent = u.parent /\ w.next = u.next /\ w.collapsed = u.collapsed
        /\ \A m \in Notes : w.prev[m] = IF m = next /\ next \in u.ids THEN n ELSE u.prev[m]
    BY <2>6, UpdateFields
  <2> HIDE DEF w
  <2>9. /\ Columns(linked) \in Tables /\ Columns(linked).ids = linked.ids
        /\ Columns(linked).parent = linked.parent /\ Columns(linked).prev = linked.prev
        /\ Columns(linked).next = linked.next /\ Columns(linked).collapsed = linked.collapsed
    BY <1>10, ColumnsType DEF Columns
  <2>10. prev \in store.ids \cup {Null} /\ next \in store.ids \cup {Null} /\ prev # n /\ next # n
    BY <1>1, <1>8 DEF Gap
  <2>11. w.ids = Columns(linked).ids
    BY <1>2, <1>4, <1>10, <2>2, <2>4, <2>7, <2>8, <2>9
  <2>12. ASSUME NEW m \in Notes
         PROVE  /\ w.parent[m] = Columns(linked).parent[m]
                /\ w.collapsed[m] = Columns(linked).collapsed[m]
                /\ w.prev[m] = Columns(linked).prev[m]
                /\ w.next[m] = Columns(linked).next[m]
    <3>1. w.parent[m] = Columns(linked).parent[m] /\ w.collapsed[m] = Columns(linked).collapsed[m]
      BY <1>1, <1>2, <1>4, <1>10, <2>2, <2>4, <2>7, <2>8, <2>9, <2>12
    <3>2. w.prev[m] = Columns(linked).prev[m]
      BY <1>1, <1>2, <1>4, <1>10, <2>2, <2>4, <2>7, <2>8, <2>9, <2>10, <2>12
    <3>3. w.next[m] = Columns(linked).next[m]
      BY <1>1, <1>2, <1>4, <1>10, <2>2, <2>4, <2>7, <2>8, <2>9, <2>10, <2>12
    <3>4. QED
      BY <3>1, <3>2, <3>3
  <2>13. w = Columns(linked)
    BY <2>6, <2>9, <2>11, <2>12, TableEquality
  <2>14. QED
    BY <2>13 DEF MoveRow, w, u, placed, closed
<1>14. QED
  BY <1>8, <1>12, <1>13 DEF linked, detached

\* Under the invariant they differ in nothing.
LEMMA SameTreeHolds == StoreInv => Sound(store) /\ SameTree /\ rows = Columns(store)
BY DEF StoreInv, SameTree, Columns

\* apply_move keeps the invariant.
LEMMA MoveNoteInv ==
  ASSUME StoreInv, NEW n \in Notes, NEW p \in NoteOrNull,
         NEW prev \in NoteOrNull, NEW next \in NoteOrNull, MoveNote(n, p, prev, next)
  PROVE  StoreInv'
<1>1. TypeOK'
  BY MoveNoteType DEF StoreInv
<1>2. CASE n \in store.ids /\ CanMove(n, p, prev, next)
  <2>1. /\ rows' = MoveRow(rows, n, store.prev[n], store.next[n], p, prev, next)
        /\ store' = LinkIn(Detached(store, n, p), n, p, prev, next)
        /\ Applied
    BY <1>2 DEF MoveNote
  <2>2. Sound(store') /\ rows' = Columns(store')
    BY <1>2, <2>1, MoveSound, SameTreeHolds
  <2>3. QED
    BY <1>1, <2>1, <2>2 DEF StoreInv, Applied
<1>3. CASE ~(n \in store.ids /\ CanMove(n, p, prev, next))
  BY <1>1, <1>3 DEF MoveNote, Raise, Refuse, StoreInv
<1>4. QED
  BY <1>2, <1>3

\* The flag is on no link.
LEMMA SetCollapsedSound ==
  ASSUME NEW s, Sound(s), NEW n \in Notes, NEW c \in BOOLEAN
  PROVE  /\ Sound(SetCollapsed(s, n, c))
         /\ SetCollapsed(Columns(s), n, c) = Columns(SetCollapsed(s, n, c))
<1> DEFINE u == SetCollapsed(s, n, c)
<1>1. s \in Stores /\ u \in Stores
  BY SetCollapsedType DEF Sound
<1>2. /\ u.ids = s.ids /\ u.parent = s.parent /\ u.prev = s.prev /\ u.next = s.next
      /\ u.heads = s.heads /\ u.tails = s.tails /\ u.collapsed = [s.collapsed EXCEPT ![n] = c]
  BY <1>1 DEF SetCollapsed, Stores
<1>3. SetCollapsed(Columns(s), n, c) = Columns(u)
  <2> HIDE DEF u
  <2> QED  BY <1>1, <1>2 DEF SetCollapsed, Columns
<1> HIDE DEF u
<1>4. HierarchyValid(u)
  BY <1>2, SameHierarchy DEF Sound
<1>5. Ordered(u, u.ids)
  BY <1>2 DEF Sound, Ordered, Reciprocal, SingleBoundaries, NoRings
<1>6. IndexMatches(u, u.ids)
  BY <1>2 DEF Sound, IndexMatches
<1>7. QED
  BY <1>1, <1>3, <1>4, <1>5, <1>6 DEF Sound, u

\* CmdIndent keeps the invariant.
LEMMA IndentInv ==
  ASSUME StoreInv, NEW n \in Notes, NEW m \in Notes, Indent(n, m)
  PROVE  StoreInv'
<1> DEFINE prev == store.tails[m]
           relinked == LinkIn(Detached(store, n, m), n, m, prev, Null)
           moved == MoveRow(rows, n, store.prev[n], store.next[n], m, prev, Null)
<1>1. TypeOK'
  BY IndentType DEF StoreInv
<1>2. m \in NoteOrNull /\ Null \in NoteOrNull /\ prev \in NoteOrNull /\ n \in store.ids
  BY DEF StoreInv, Sound, Stores, NoteOrNull, Indent
<1>3. CASE CanMove(n, m, prev, Null)
  <2>1. Sound(relinked) /\ moved = Columns(relinked)
    BY <1>2, <1>3, MoveSound, SameTreeHolds
  <2>2. /\ rows' = SetCollapsed(moved, m, Expanded)
        /\ store' = SetCollapsed(relinked, m, Expanded)
        /\ Applied
    BY <1>3 DEF Indent
  <2> HIDE DEF relinked, moved
  <2>3. Sound(store') /\ rows' = Columns(store')
    BY <2>1, <2>2, SetCollapsedSound, ExpandedType
  <2>4. QED
    BY <1>1, <2>2, <2>3 DEF StoreInv, Applied
<1>4. CASE ~CanMove(n, m, prev, Null)
  BY <1>1, <1>4 DEF Indent, Raise, StoreInv
<1>5. QED
  BY <1>3, <1>4

\* A subtree leaves its list, and its own lists leave with it.
LEMMA DeleteSound ==
  ASSUME NEW s, Sound(s), NEW n \in s.ids
  PROVE  LET D == Subtree(s, n)
             left == DropLists(DropNotes(LinkOut(s, n), D), D)
         IN  /\ Sound(left)
             /\ left.ids = s.ids \ D
             /\ left.parent = [m \in Notes |-> IF m \in D THEN Null ELSE s.parent[m]]
<1> DEFINE D == Subtree(s, n)
           out == LinkOut(s, n)
           J == s.ids \ {n}
           left == DropLists(DropNotes(out, D), D)
<1>1. /\ s \in Stores /\ s.ids \in SUBSET Notes /\ n \in s.ids /\ J \in SUBSET Notes
      /\ HierarchyValid(s) /\ Ordered(s, s.ids) /\ IndexMatches(s, s.ids)
  BY DEF Sound, Stores
<1>2. Ordered(out, J) /\ IndexMatches(out, J)
  BY <1>1, LinkOutOrdered, LinkOutIndex
<1>3. out \in Stores
  BY <1>1, LinkOutType
<1>4. out.ids = s.ids /\ out.parent = s.parent
  BY <1>1, LinkOutFields
<1>5. /\ n \in D /\ D \subseteq s.ids
      /\ \A c \in s.ids : s.parent[c] \in D => c \in D
  BY <1>1, SubtreeClosed
<1>6. \A m \in D : m # n => s.parent[m] \in D
  BY <1>1, SubtreeUnder
<1> HIDE DEF out, D
<1>7. \A m \in J : m \in D <=> out.parent[m] \in D
  BY <1>4, <1>5, <1>6
<1>8. Ordered(left, J \ D) /\ IndexMatches(left, J \ D)
  BY <1>1, <1>2, <1>3, <1>7, DropOrdered
<1>9. left \in Stores
  BY <1>3, DropType
<1>10. /\ left.ids = s.ids \ D
       /\ left.parent = [m \in Notes |-> IF m \in D THEN Null ELSE s.parent[m]]
  BY <1>3, <1>4 DEF DropLists, DropNotes, Stores
<1> HIDE DEF left
<1>11. \A m \in left.ids : left.parent[m] = s.parent[m]
  BY <1>1, <1>10
<1>12. HierarchyValid(left)
  BY <1>1, <1>10, <1>11, HierarchyWithout DEF D
<1>13. J \ D = left.ids
  BY <1>5, <1>10
<1>14. QED
  BY <1>8, <1>9, <1>10, <1>12, <1>13 DEF Sound, left, out, D

\* apply_delete_subtree keeps the invariant.
LEMMA DeleteSubtreeInv ==
  ASSUME StoreInv, NEW n \in Notes, DeleteSubtree(n)
  PROVE  StoreInv'
<1> DEFINE D == Subtree(store, n)
           out == LinkOut(store, n)
           left == DropLists(DropNotes(out, D), D)
<1>1. TypeOK'
  BY DeleteSubtreeType DEF StoreInv
<1>2. CASE n \in store.ids /\ CanLinkOut(store, n)
  <2>1. store \in Stores /\ n \in store.ids /\ Ordered(store, store.ids)
    BY <1>2 DEF StoreInv, Sound
  <2>2. Sound(left)
    BY <1>2, DeleteSound DEF StoreInv
  <2>3. out \in Stores
    BY <1>2, <2>1, LinkOutType
  <2>4. DeleteRows(rows, D, store.prev[n], store.next[n]) = Columns(left)
    <3> HIDE DEF D, out
    <3>1. store.prev[n] \in store.ids \cup {Null} /\ store.next[n] \in store.ids \cup {Null}
      BY <2>1 DEF Ordered, Reciprocal
    <3>2. UpdatePrev(UpdateNext(rows, store.prev[n], store.next[n]), store.next[n], store.prev[n])
            = Columns(out)
      BY <2>1, <3>1, ClosedGapMatches DEF StoreInv, out
    <3>3. DropNotes(Columns(out), D) = Columns(left)
      BY <2>3, DropRowsMatches
    <3>4. QED
      BY <3>2, <3>3 DEF DeleteRows
  <2>5. /\ rows' = DeleteRows(rows, D, store.prev[n], store.next[n])
        /\ store' = left
        /\ Applied
    BY <1>2 DEF DeleteSubtree
  <2> HIDE DEF left, D
  <2>6. QED
    BY <1>1, <2>2, <2>4, <2>5 DEF StoreInv, Applied
<1>3. CASE ~(n \in store.ids /\ CanLinkOut(store, n))
  BY <1>1, <1>3 DEF DeleteSubtree, Raise, Refuse, StoreInv
<1>4. QED
  BY <1>2, <1>3

\* A reordering that NoteOrdering accepts keeps the store sound.
LEMMA ReorderSound ==
  ASSUME NEW s, Sound(s), NEW R \in SUBSET Notes, NEW q \in Orders(R),
         NEW next, next = LinkInOrder(s, q), Ordered(next, next.ids)
  PROVE  /\ Sound(Hydrated(next))
         /\ next \in Stores /\ next.ids = s.ids /\ next.parent = s.parent
<1>1. next \in Stores
  BY LinkInOrderType DEF Sound
<1>2. next.ids = s.ids /\ next.parent = s.parent
  BY DEF LinkInOrder, Sound, Stores
<1>3. Hydrated(next).ids = s.ids /\ Hydrated(next).parent = s.parent
  BY <1>2 DEF Hydrated
<1>4. HierarchyValid(Hydrated(next))
  BY <1>3, SameHierarchy DEF Sound
<1>5. next.ids \in SUBSET Notes
  BY <1>1 DEF Stores
<1>6. Ordered(Hydrated(next), next.ids) /\ IndexMatches(Hydrated(next), next.ids)
  BY <1>5, HydratedIndex
<1>7. QED
  BY <1>1, <1>2, <1>3, <1>4, <1>6, HydratedOfStore DEF Sound

\* CmdPrioritize keeps the invariant.
LEMMA PrioritizeInv ==
  ASSUME StoreInv, NEW S \in SUBSET Notes, Prioritize(S)
  PROVE  StoreInv'
<1> DEFINE roots == Siblings(store, Null)
<1>1. TypeOK'
  BY PrioritizeType DEF StoreInv
<1>2. roots \in SUBSET Notes /\ store \in Stores
  BY DEF Siblings, StoreInv, Sound, Stores
<1>3. PICK q \in Orders(roots) :
        \/ /\ Ordered(LinkInOrder(store, q), LinkInOrder(store, q).ids)
           /\ rows' = LinkInOrder(rows, q)
           /\ store' = Hydrated(LinkInOrder(store, q))
           /\ Applied
        \/ Raise
  BY DEF Prioritize, Regrouped
<1> DEFINE next == LinkInOrder(store, q)
<1>4. CASE Raise
  BY <1>1, <1>4 DEF Raise, StoreInv
<1>5. CASE /\ Ordered(next, next.ids)
           /\ rows' = LinkInOrder(rows, q) /\ store' = Hydrated(next) /\ Applied
  <2>3. LinkInOrder(Columns(store), q) = Columns(next)
    BY <1>2, LinkInOrderMatches
  <2>5. Sound(Hydrated(next))
    <3> HIDE DEF next, roots
    <3>1. next = LinkInOrder(store, q)
      BY DEF next
    <3>2. QED
      BY <1>2, <1>5, <3>1, ReorderSound DEF StoreInv
  <2> HIDE DEF next
  <2>4. Columns(Hydrated(next)) = Columns(next)
    BY DEF Columns, Hydrated
  <2>6. rows' = Columns(store')
    BY <1>5, <2>3, <2>4 DEF StoreInv
  <2>7. QED
    BY <1>1, <1>5, <2>5, <2>6 DEF StoreInv, Applied
<1>6. QED
  BY <1>3, <1>4, <1>5

-----------------------------------------------------------------------------
(***************************************************************************)
(* The commands pass anchors that fit, so the invariant is inductive.         *)
(***************************************************************************)
\* The rows answer validate_database_parent as the store would.
LEMMA SameChecks ==
  ASSUME StoreInv, NEW p
  PROVE  NewParentAllowed(rows, p) <=> NewParentAllowed(store, p)
<1>1. rows.ids = store.ids /\ rows.parent = store.parent
  BY DEF StoreInv, Columns
<1>2. QED
  BY <1>1, SameHierarchy DEF NewParentAllowed

\* What insert is given: a parent that has room for a new note, and two neighbours.
InsertsAt(n, p, prev, next) ==
    /\ n \in Notes \ store.ids /\ p \in NoteOrNull /\ NewParentAllowed(store, p)
    /\ prev \in NoteOrNull /\ next \in NoteOrNull
    /\ prev # Null => prev \in store.ids /\ store.parent[prev] = p
    /\ next = NextAfter(store, p, prev)
    /\ InsertNote(n, p, prev, next)

\* Every command that creates a note inserts it between neighbours.
LEMMA CreateAnchors ==
  ASSUME StoreInv, NEW n \in Notes, NEW m \in Notes,
         \/ CreateNote(n)
         \/ CreateChild(n, m)
         \/ CreateSibling(n, m)
         \/ CreateFilePreviewChild(n, m)
  PROVE  \E p, prev, next : InsertsAt(n, p, prev, next)
<1>1. /\ store \in Stores /\ store.ids \subseteq Notes /\ Null \in NoteOrNull /\ Null \notin Notes
      /\ Ordered(store, store.ids) /\ IndexMatches(store, store.ids)
      /\ \A x \in Notes : /\ x \in NoteOrNull /\ store.parent[x] \in NoteOrNull
                          /\ store.prev[x] \in NoteOrNull /\ store.next[x] \in NoteOrNull
      /\ \A p \in NoteOrNull : store.heads[p] \in NoteOrNull /\ store.tails[p] \in NoteOrNull
  BY NullAssumption DEF StoreInv, Sound, Stores, NoteOrNull
<1>2. NewParentAllowed(store, Null)
  BY MaxDepthAssumption DEF NewParentAllowed, DepthOf
<1>3. CASE CreateNote(n)
  <2>1. n \in Notes \ store.ids
    BY <1>3 DEF CreateNote, NewId
  <2>2. CASE InsertNote(n, Null, Null, store.heads[Null])
    <3>1. store.heads[Null] = NextAfter(store, Null, Null)
      BY DEF NextAfter
    <3>2. QED
      BY <1>1, <1>2, <2>1, <2>2, <3>1 DEF InsertsAt
  <2>3. CASE \E first \in Siblings(store, Null) : InsertNote(n, Null, store.prev[first], first)
    <3>1. PICK first \in Siblings(store, Null) : InsertNote(n, Null, store.prev[first], first)
      BY <2>3
    <3>2. first \in store.ids /\ store.parent[first] = Null /\ first \in NoteOrNull
      BY <1>1 DEF Siblings
    <3>3. CASE store.prev[first] = Null
      <4> DEFINE list == {x \in store.ids : store.parent[x] = Null}
      <4>1. store.heads[Null] \in list /\ store.prev[store.heads[Null]] = Null
        BY <1>1, <3>2 DEF IndexMatches
      <4>2. first = store.heads[Null]
        BY <1>1, <3>2, <3>3, <4>1 DEF Ordered, SingleBoundaries
      <4>3. QED
        BY <2>2, <3>1, <3>3, <4>2
    <3>4. CASE store.prev[first] # Null
      <4>1. /\ store.prev[first] \in store.ids
            /\ store.parent[store.prev[first]] = Null
            /\ first = NextAfter(store, Null, store.prev[first])
        BY <1>1, <3>2, <3>4 DEF Ordered, Reciprocal, NextAfter
      <4>2. QED
        BY <1>1, <1>2, <2>1, <3>1, <3>2, <4>1 DEF InsertsAt
    <3>5. QED
      BY <3>3, <3>4
  <2>4. QED
    BY <1>3, <2>2, <2>3 DEF CreateNote
<1>4. CASE CreateChild(n, m)
  <2>1. /\ n \in Notes \ store.ids /\ m \in store.ids /\ NewParentAllowed(store, m)
        /\ InsertNote(n, m, Null, store.heads[m])
    BY <1>4, SameChecks DEF CreateChild, NewId
  <2>2. store.heads[m] = NextAfter(store, m, Null)
    BY DEF NextAfter
  <2>3. QED
    BY <1>1, <2>1, <2>2 DEF InsertsAt
<1>5. CASE CreateSibling(n, m)
  <2>1. /\ n \in Notes \ store.ids /\ m \in store.ids /\ NewParentAllowed(store, store.parent[m])
        /\ InsertNote(n, store.parent[m], m, store.next[m])
    BY <1>5, SameChecks DEF CreateSibling, NewId
  <2>2. store.next[m] = NextAfter(store, store.parent[m], m)
    BY <1>1, <2>1 DEF NextAfter
  <2>3. QED
    BY <1>1, <2>1, <2>2 DEF InsertsAt
<1>6. CASE CreateFilePreviewChild(n, m)
  <2>1. /\ n \in Notes \ store.ids /\ m \in store.ids /\ NewParentAllowed(store, m)
        /\ InsertNote(n, m, store.tails[m], Null)
    BY <1>6, SameChecks DEF CreateFilePreviewChild, NewId
  <2> DEFINE list == {x \in store.ids : store.parent[x] = m}
  <2>2. /\ list = {} => store.heads[m] = Null /\ store.tails[m] = Null
        /\ list # {} => store.tails[m] \in list /\ store.next[store.tails[m]] = Null
    BY <1>1, <2>1 DEF IndexMatches
  <2>3. /\ store.tails[m] # Null => store.tails[m] \in store.ids /\ store.parent[store.tails[m]] = m
        /\ Null = NextAfter(store, m, store.tails[m])
    BY <1>1, <2>2 DEF NextAfter
  <2>4. QED
    BY <1>1, <2>1, <2>3 DEF InsertsAt
<1>7. QED
  BY <1>3, <1>4, <1>5, <1>6

\* The commands that create a note are applied and keep the invariant.
LEMMA CreateInv ==
  ASSUME StoreInv, NEW n \in Notes, NEW m \in Notes,
         \/ CreateNote(n)
         \/ CreateChild(n, m)
         \/ CreateSibling(n, m)
         \/ CreateFilePreviewChild(n, m)
  PROVE  StoreInv' /\ phase' = "applied"
<1>1. PICK p, prev, next : InsertsAt(n, p, prev, next)
  BY CreateAnchors
<1>2. QED
  BY <1>1, InsertNoteInv DEF InsertsAt

\* Every command keeps the invariant.
LEMMA CommandInv ==
  ASSUME StoreInv, Command
  PROVE  StoreInv'
<1>1. /\ \A x \in Notes : /\ x \in NoteOrNull /\ store.parent[x] \in NoteOrNull
                          /\ store.prev[x] \in NoteOrNull /\ store.next[x] \in NoteOrNull
      /\ store.ids \subseteq Notes
  BY DEF StoreInv, Sound, Stores, NoteOrNull
<1>2. ASSUME NEW n \in Notes, CreateNote(n) PROVE StoreInv'
  BY <1>2, CreateInv
<1>3. ASSUME NEW n \in Notes, NEW m \in Notes,
             CreateChild(n, m) \/ CreateSibling(n, m) \/ CreateFilePreviewChild(n, m)
      PROVE  StoreInv'
  BY <1>3, CreateInv
<1>4. ASSUME NEW n \in Notes, Delete(n) PROVE StoreInv'
  BY <1>4, DeleteSubtreeInv DEF Delete
<1>5. ASSUME NEW n \in Notes, NEW m \in Notes, Move(n, m) PROVE StoreInv'
  <2>1. \/ MoveNote(n, store.parent[m], store.prev[m], m)
        \/ MoveNote(n, store.parent[m], m, store.next[m])
    BY <1>5 DEF Move
  <2>2. QED
    BY <1>1, <2>1, MoveNoteInv
<1>6. ASSUME NEW n \in Notes, NEW m \in Notes, Indent(n, m) PROVE StoreInv'
  BY <1>6, IndentInv
<1>7. ASSUME NEW n \in Notes, Outdent(n) PROVE StoreInv'
  <2>1. store.parent[n] \in Notes
    BY <1>1, <1>7 DEF Outdent, NoteOrNull
  <2>2. MoveNote(n, store.parent[store.parent[n]], store.parent[n], store.next[store.parent[n]])
    BY <1>7 DEF Outdent
  <2>3. QED
    BY <1>1, <2>1, <2>2, MoveNoteInv
<1>8. ASSUME NEW n \in Notes, MoveToTop(n) PROVE StoreInv'
  <2>1. PICK first \in Siblings(store, store.parent[n]) :
               MoveNote(n, store.parent[n], store.prev[first], first)
    BY <1>8 DEF MoveToTop
  <2>2. first \in Notes
    BY <1>1 DEF Siblings
  <2>3. QED
    BY <1>1, <2>1, <2>2, MoveNoteInv
<1>9. ASSUME NEW n \in Notes, MoveToBottom(n) PROVE StoreInv'
  <2>1. PICK last \in LaterSiblings(store, n) :
               MoveNote(n, store.parent[n], last, store.next[last])
    BY <1>9 DEF MoveToBottom
  <2>2. last \in Notes
    BY <1>1 DEF LaterSiblings
  <2>3. QED
    BY <1>1, <2>1, <2>2, MoveNoteInv
<1>10. ASSUME NEW S \in SUBSET Notes, Prioritize(S) PROVE StoreInv'
  BY <1>10, PrioritizeInv
<1>11. ASSUME NEW n \in Notes, NEW c \in BOOLEAN, SetCollapse(n, c) PROVE StoreInv'
  <2>1. TypeOK'
    BY <1>11, CommandType DEF Command, StoreInv
  <2>2. /\ rows' = SetCollapsed(rows, n, c)
        /\ store' = SetCollapsed(store, n, c)
        /\ Applied
    BY <1>11 DEF SetCollapse, CollapseNote
  <2>3. Sound(store') /\ rows' = Columns(store')
    BY <2>2, SetCollapsedSound DEF StoreInv
  <2>4. QED
    BY <2>1, <2>2, <2>3 DEF StoreInv, Applied
<1>12. QED
  BY <1>2, <1>3, <1>4, <1>5, <1>6, <1>7, <1>8, <1>9, <1>10, <1>11 DEF Command

\* The invariant holds from the empty vault on, through commits, rollbacks and
\* restarts.
THEOREM StoreInvariant == StoreSpec => []StoreInv
<1>1. StoreInit => StoreInv
  <2> SUFFICES ASSUME StoreInit
               PROVE  StoreInv
    OBVIOUS
  <2>1. TypeOK
    BY EmptyTableType, HydratedType DEF StoreInit, TypeOK, Phases
  <2>2. Sound(store) /\ rows = Columns(store)
    BY EmptyTableType, EmptySound, HydratedSound, ColumnsOfHydrated DEF StoreInit
  <2>3. QED
    BY <2>1, <2>2, EmptySound DEF StoreInit, StoreInv
<1>2. StoreInv /\ [StoreNext]_storeVars => StoreInv'
  <2> SUFFICES ASSUME StoreInv, [StoreNext]_storeVars
               PROVE  StoreInv'
    OBVIOUS
  <2>1. CASE Command
    BY <2>1, CommandInv
  <2>2. CASE Commit
    <3>1. Loadable(rows)
      BY SoundLoads DEF StoreInv
    <3>2. QED
      BY <2>2, <3>1 DEF Commit, StoreInv, TypeOK, Phases
  <2>3. CASE Reload
    <3>1. Loadable(db) /\ db \in Tables
      BY DEF StoreInv, TypeOK
    <3>2. store' = Hydrated(db) /\ rows' = db /\ db' = db /\ serving' /\ phase' = "idle"
      BY <2>3, <3>1 DEF Reload
    <3>3. Sound(Hydrated(db)) /\ Columns(Hydrated(db)) = db
      BY <3>1, HydratedSound, ColumnsOfHydrated
    <3>4. Hydrated(db) \in Stores
      BY <3>3 DEF Sound
    <3>5. TypeOK'
      BY <3>1, <3>2, <3>4 DEF TypeOK, Phases
    <3>6. QED
      BY <3>1, <3>2, <3>3, <3>5 DEF StoreInv
  <2>4. CASE UNCHANGED storeVars
    BY <2>4 DEF storeVars, StoreInv, TypeOK
  <2>5. QED
    BY <2>1, <2>2, <2>3, <2>4 DEF StoreNext, Rollback, Restart
<1>3. QED
  BY <1>1, <1>2, PTL DEF StoreSpec

\* Whatever is committed loads again (CommittedTreeLoads of NoteCommands): no
\* sequence of commands, failures and restarts commits rows load_from_db refuses.
THEOREM CommittedTreeAlwaysLoads == StoreSpec => []CommittedTreeLoads
<1>1. StoreInv => CommittedTreeLoads
  BY DEF StoreInv, CommittedTreeLoads
<1>2. QED
  BY <1>1, StoreInvariant, PTL

\* The store is always what a load of the transaction's rows would build
\* (MemoryMatchesRows of NoteCommands).
THEOREM MemoryAlwaysMatchesRows == StoreSpec => []MemoryMatchesRows
<1>1. StoreInv => MemoryMatchesRows
  BY StoreIsHydrated DEF StoreInv, Sound, MemoryMatchesRows
<1>2. QED
  BY <1>1, StoreInvariant, PTL

\* No rollback and no restart leaves the server refusing every request
\* (request_recovery.py, runtime_availability).
THEOREM RecoveryAlwaysSucceeds == StoreSpec => []RecoverySucceeds
<1>1. StoreInv => RecoverySucceeds
  BY DEF StoreInv, RecoverySucceeds
<1>2. QED
  BY <1>1, StoreInvariant, PTL

-----------------------------------------------------------------------------
(***************************************************************************)
(* No command fails once it began to write: a sound store gives every          *)
(* command the neighbours it expects.                                         *)
(***************************************************************************)

-----------------------------------------------------------------------------
(***************************************************************************)
(* Taking a note out of its list, and putting it into a gap.                 *)
(***************************************************************************)
\* A set of numbers up to N that is not empty has a least and a greatest member.
LEMMA LeastAndGreatest ==
  ASSUME NEW N \in Nat, NEW T \in SUBSET (1..N), T # {}
  PROVE  /\ \E i \in T : \A j \in T : i <= j
         /\ \E i \in T : \A j \in T : j <= i
<1>1. ASSUME NEW S \in SUBSET Nat, S # {}
      PROVE  \E i \in S : \A j \in S : i <= j
  <2>1. PICK i \in S : \A j \in S : <<j, i>> \notin OpToRel(<, Nat)
    BY <1>1, NatLessThanWellFounded, WFMin
  <2>2. \A j \in S : ~(j < i)
    BY <2>1, Zenon DEF OpToRel
  <2>3. QED
    BY <2>2
<1>2. \E i \in T : \A j \in T : i <= j
  BY <1>1
<1> DEFINE S == {N - j : j \in T}
<1>3. S \in SUBSET Nat /\ S # {}
  <2>1. \A j \in T : N - j \in Nat
    OBVIOUS
  <2>2. PICK j \in T : TRUE
    OBVIOUS
  <2>3. N - j \in S
    OBVIOUS
  <2>4. QED
    BY <2>1, <2>3
<1>4. PICK k \in S : \A l \in S : k <= l
  <2> HIDE DEF S
  <2>1. QED
    BY <1>1, <1>3
<1>5. PICK i \in T : k = N - i
  OBVIOUS
<1>6. ASSUME NEW j \in T PROVE j <= i
  <2>1. N - j \in S
    OBVIOUS
  <2>2. k <= N - j
    BY <1>4, <2>1
  <2> HIDE DEF S
  <2>3. QED
    BY <1>5, <2>2
<1>7. QED
  BY <1>2, <1>6

\* The lookups and assertions of remove never fail on a sound store.
LEMMA LinkOutSucceeds ==
  ASSUME NEW s \in Stores, Sound(s), NEW n \in s.ids
  PROVE  CanLinkOut(s, n)
<1> DEFINE p == s.parent[n]
           list == {m \in s.ids : s.parent[m] = p}
<1>1. Ordered(s, s.ids) /\ IndexMatches(s, s.ids) /\ p \in NoteOrNull
  BY DEF Sound, Stores
<1>2. /\ s.heads[p] \in s.ids /\ s.parent[s.heads[p]] = p /\ s.prev[s.heads[p]] = Null
      /\ s.tails[p] \in s.ids /\ s.parent[s.tails[p]] = p /\ s.next[s.tails[p]] = Null
  <2>1. list # {} => /\ s.heads[p] \in list /\ s.prev[s.heads[p]] = Null
                     /\ s.tails[p] \in list /\ s.next[s.tails[p]] = Null
    BY <1>1 DEF IndexMatches
  <2>2. QED
    BY <2>1
<1>3. s.prev[n] = Null => s.heads[p] = n
  BY <1>1, <1>2 DEF Ordered, SingleBoundaries
<1>4. s.next[n] = Null => s.tails[p] = n
  BY <1>1, <1>2 DEF Ordered, SingleBoundaries
<1>5. QED
  BY <1>1, <1>3, <1>4 DEF CanLinkOut, Ordered, Reciprocal

\* A note may move into every gap it is not an edge of: what move_note resolves is
\* what the command asked for, and insert finds the neighbours it expects.
LEMMA GapAcceptsMove ==
  ASSUME StoreInv, NEW n \in store.ids, NEW p \in NoteOrNull,
         NEW prev \in NoteOrNull, NEW next \in NoteOrNull,
         Gap(store, store.ids, p, prev, next), prev # n, next # n,
         ParentAllowed(rows, n, p)
  PROVE  CanMove(n, p, prev, next)
<1> DEFINE out == Detached(store, n, p)
           list == {m \in store.ids : store.parent[m] = p}
<1>1. /\ store \in Stores /\ Sound(store) /\ store.ids \subseteq Notes /\ Null \notin Notes
      /\ Reciprocal(store, store.ids) /\ SingleBoundaries(store, store.ids)
      /\ IndexMatches(store, store.ids) /\ n # Null
  BY NullAssumption DEF StoreInv, Sound, Stores, Ordered
<1>2. /\ list = {} => store.heads[p] = Null /\ store.tails[p] = Null
      /\ list # {} => store.heads[p] \in list /\ store.prev[store.heads[p]] = Null
  BY <1>1 DEF IndexMatches
<1>3. /\ out.ids = store.ids
      /\ \A m \in Notes \ {n} : out.parent[m] = store.parent[m]
      /\ \A m \in Notes :
            /\ out.prev[m] = IF m = store.next[n] THEN store.prev[n] ELSE store.prev[m]
            /\ out.next[m] = IF m = store.prev[n] THEN store.next[n] ELSE store.next[m]
      /\ out.tails[p] = IF p = store.parent[n] /\ store.next[n] = Null
                        THEN store.prev[n] ELSE store.tails[p]
  <2> DEFINE u == LinkOut(store, n)
  <2>1. u \in Stores
    BY <1>1, LinkOutType
  <2>2. /\ u.ids = store.ids /\ u.parent = store.parent
        /\ \A m \in Notes :
            /\ u.prev[m] = IF m = store.next[n] THEN store.prev[n] ELSE store.prev[m]
            /\ u.next[m] = IF m = store.prev[n] THEN store.next[n] ELSE store.next[m]
        /\ u.tails[p] = IF p = store.parent[n] /\ store.next[n] = Null
                        THEN store.prev[n] ELSE store.tails[p]
    BY <1>1, LinkOutFields
  <2>3. out = [u EXCEPT !.parent = [@ EXCEPT ![n] = p]]
    BY DEF Detached
  <2> HIDE DEF u, out
  <2>4. QED
    BY <2>1, <2>2, <2>3 DEF Stores
<1> HIDE DEF out
<1>4. MoveTarget(store, n, p, prev) = next
  <2>1. NextAfter(store, p, prev) = next
    <3>1. CASE prev # Null
      BY <3>1 DEF NextAfter, Gap
    <3>2. CASE prev = Null /\ next = Null
      BY <1>2, <3>2 DEF NextAfter, Gap
    <3>3. CASE prev = Null /\ next # Null
      <4>1. next \in list /\ store.prev[next] = Null
        BY <3>3 DEF Gap
      <4>2. store.heads[p] = next
        BY <1>1, <1>2, <4>1 DEF SingleBoundaries
      <4>3. QED
        BY <3>3, <4>2 DEF NextAfter
    <3>4. QED
      BY <3>1, <3>2, <3>3
  <2>2. QED
    BY <2>1 DEF MoveTarget
<1>5. prev # Null => prev # store.prev[n] /\ out.next[prev] = next
  BY <1>1, <1>3 DEF Gap, Reciprocal
<1>6. next # Null => next # store.next[n] /\ out.prev[next] = prev
  BY <1>1, <1>3 DEF Gap, Reciprocal
<1>7. prev = Null /\ next = Null => out.tails[p] = Null
  BY <1>1, <1>2, <1>3 DEF Gap
<1>8. ResolvedPrev(out, p, prev, next) = prev
  BY <1>6, <1>7 DEF ResolvedPrev
<1>9. ResolvedNext(out, p, prev, next) = next
  BY <1>5, <1>8 DEF ResolvedNext
<1>10. CanLinkIn(out, n, p, prev, next)
  BY <1>1, <1>3, <1>5, <1>6 DEF CanLinkIn, Gap
<1>11. CanLinkOut(store, n)
  BY <1>1, LinkOutSucceeds
<1>12. prev # Null => prev \in store.ids /\ store.parent[prev] = p
  BY DEF Gap
<1>13. QED
  BY <1>4, <1>8, <1>9, <1>10, <1>11, <1>12 DEF CanMove, out

-----------------------------------------------------------------------------
(***************************************************************************)
(* What follows a note in its list, and what is above it.                    *)
(***************************************************************************)
\* The siblings that follow a note are under its parent, and neither the note
\* nor the one before it is among them.
LEMMA LaterIsAfter ==
  ASSUME NEW t, t.ids \in SUBSET Notes, Ordered(t, t.ids), NEW n \in t.ids,
         NEW m \in LaterSiblings(t, n)
  PROVE  /\ m \in t.ids /\ t.parent[m] = t.parent[n]
         /\ m # n /\ t.next[m] # n /\ t.prev[n] # m
<1> DEFINE L == LaterSiblings(t, n)
<1>1. Reciprocal(t, t.ids) /\ NoRings(t, t.ids) /\ Null \notin Notes
  BY NullAssumption DEF Ordered
<1>2. L \subseteq t.ids
  BY DEF LaterSiblings
<1>3. t.next[n] # Null => t.next[n] \in L
  BY <1>1 DEF LaterSiblings, Reciprocal
<1>4. \A x \in L : t.next[x] # Null => t.next[x] \in L
  BY <1>1, <1>2 DEF LaterSiblings, Reciprocal
<1>5. ASSUME NEW S \in SUBSET Notes, t.next[n] # Null => t.next[n] \in S,
             \A x \in S : t.next[x] # Null => t.next[x] \in S
      PROVE  L \subseteq S
  BY <1>5 DEF LaterSiblings
<1> HIDE DEF L
<1>6. \A x \in L : t.parent[x] = t.parent[n] /\ (t.prev[x] = n \/ t.prev[x] \in L)
  <2> DEFINE S == {x \in L : t.parent[x] = t.parent[n] /\ (t.prev[x] = n \/ t.prev[x] \in L)}
  <2>1. t.next[n] # Null => t.next[n] \in S
    BY <1>1, <1>3 DEF Reciprocal
  <2>2. \A x \in S : t.next[x] # Null => t.next[x] \in S
    BY <1>1, <1>2, <1>4 DEF Reciprocal
  <2>3. S \in SUBSET Notes
    BY <1>2
  <2>4. L \subseteq S
    <3> HIDE DEF S
    <3>1. QED
      BY <1>5, <2>1, <2>2, <2>3
  <2>5. QED
    BY <2>4
<1>7. n \notin L
  <2> SUFFICES ASSUME n \in L
               PROVE  FALSE
    OBVIOUS
  <2>1. \A x \in L : t.prev[x] \in L
    BY <1>6
  <2>2. L \in SUBSET t.ids /\ L # {}
    BY <1>2
  <2>3. QED
    BY <1>1, <2>1, <2>2 DEF NoRings
<1>8. m \in L
  BY DEF L
<1>9. t.next[m] # n
  BY <1>1, <1>2, <1>4, <1>7, <1>8
<1>10. t.prev[n] # m
  BY <1>1, <1>2, <1>8, <1>9 DEF Reciprocal
<1>11. QED
  BY <1>2, <1>6, <1>7, <1>8, <1>9, <1>10

\* Neither a note nor its parent is its own parent, and validate_database_parent
\* accepts a move to the parent's parent.
LEMMA OutdentAllowed ==
  ASSUME NEW t, t.ids \in SUBSET Notes, HierarchyValid(t), NEW n \in t.ids,
         t.parent[n] # Null
  PROVE  /\ t.parent[n] \in t.ids /\ t.parent[n] # n
         /\ t.parent[t.parent[n]] # t.parent[n]
         /\ ParentAllowed(t, n, t.parent[t.parent[n]])
<1> DEFINE d == Depths(t)
           p == t.parent[n]
           g == t.parent[p]
           D == Subtree(t, n)
           S == {m \in t.ids : d[n] <= d[m]}
<1>1. d \in [t.ids -> 1..MaxDepth] /\ IsDepthMap(t, d)
  BY DepthsDefined
<1>2. p \in t.ids /\ (g # Null => g \in t.ids)
  BY DEF HierarchyValid
<1> HIDE DEF d
<1>3. \A m \in t.ids : d[m] \in 1..MaxDepth /\ d[m] \in Nat
  BY <1>1, MaxDepthAssumption
<1>4. \A m \in t.ids : t.parent[m] # Null => t.parent[m] \in t.ids /\ d[m] = d[t.parent[m]] + 1
  BY <1>1 DEF IsDepthMap, HierarchyValid
<1>5. Null \notin t.ids
  BY NullAssumption
<1>6. D \subseteq S
  <2>1. n \in S
    BY <1>3
  <2>2. \A c \in t.ids : t.parent[c] \in S => c \in S
    BY <1>3, <1>4, <1>5
  <2>3. S \in SUBSET Notes
    OBVIOUS
  <2>4. QED
    <3> HIDE DEF S
    <3>1. QED
      BY <2>1, <2>2, <2>3, SubtreeLeast
<1>7. d[n] = d[p] + 1
  BY <1>4
<1>8. DepthOf(t, g) \in Nat /\ d[p] = DepthOf(t, g) + 1
  <2>1. CASE g = Null
    BY <1>1, <1>2, <2>1 DEF DepthOf, IsDepthMap
  <2>2. CASE g # Null
    BY <1>2, <1>3, <1>4, <2>2 DEF DepthOf, d
  <2>3. QED
    BY <2>1, <2>2
<1>9. p # n /\ g # p
  BY <1>2, <1>3, <1>4, <1>7, <1>5
<1>10. g # Null => g \in t.ids /\ g \notin D
  <2> SUFFICES ASSUME g # Null
               PROVE  g \in t.ids /\ g \notin D
    OBVIOUS
  <2>1. d[p] = d[g] + 1
    BY <1>2, <1>4
  <2>2. ~(d[n] <= d[g])
    BY <1>2, <1>3, <1>7, <2>1
  <2>3. QED
    BY <1>2, <1>6, <2>2
<1>11. ASSUME NEW m \in D
       PROVE  DepthOf(t, g) + (d[m] - d[n]) + 1 <= MaxDepth
  <2>1. m \in t.ids
    BY <1>6
  <2>2. d[m] \in 1..MaxDepth /\ d[n] \in Nat /\ d[p] \in Nat
    BY <1>2, <1>3, <2>1
  <2>3. QED
    BY <1>7, <1>8, <2>2, MaxDepthAssumption
<1>12. QED
  BY <1>2, <1>9, <1>10, <1>11 DEF ParentAllowed, d

-----------------------------------------------------------------------------
(***************************************************************************)
(* The new order of the roots is one chain again.                            *)
(***************************************************************************)
\* An order of a set numbers each of its notes once, and LinkInOrder links the
\* notes as they are numbered.
LEMMA OrderLinks ==
  ASSUME NEW s \in Stores, NEW R \in SUBSET Notes, NEW q \in Orders(R),
         NEW u, u = LinkInOrder(s, q), NEW N, N = Cardinality(R)
  PROVE  /\ N \in Nat /\ q \in [1..N -> R]
         /\ \A m \in R : \E i \in 1..N : q[i] = m
         /\ \A i, j \in 1..N : q[i] = q[j] => i = j
         /\ \A i \in 1..N : /\ u.prev[q[i]] = IF i = 1 THEN Null ELSE q[i - 1]
                            /\ u.next[q[i]] = IF i = N THEN Null ELSE q[i + 1]
         /\ \A m \in Notes \ R : u.prev[m] = s.prev[m] /\ u.next[m] = s.next[m]
         /\ u.ids = s.ids /\ u.parent = s.parent
<1>1. N \in Nat /\ IsFiniteSet(R)
  BY NotesAssumption, FS_Subset, FS_CardinalityType
<1>2. /\ q \in [1..N -> R] /\ \A m \in R : \E i \in 1..N : q[i] = m
  BY DEF Orders
<1>3. Len(q) = N /\ DOMAIN q = 1..N
  <2>1. q \in Seq(R)
    BY <1>1, <1>2
  <2>2. QED
    BY <1>1, <1>2, <2>1
<1>4. \A i, j \in 1..N : q[i] = q[j] => i = j
  <2>1. IsFiniteSet(1..N) /\ Cardinality(1..N) = N
    BY <1>1, FS_Interval
  <2>2. q \in Surjection(1..N, R)
    BY <1>2 DEF Surjection
  <2>3. q \in Injection(1..N, R)
    BY <2>1, <2>2, FS_SurjSameCardinalityImpliesInj
  <2>4. QED
    BY <1>2, <2>3 DEF Injection, IsInjective
<1> DEFINE Listed == {q[i] : i \in DOMAIN q}
           At(n) == CHOOSE i \in DOMAIN q : q[i] = n
           newPrev(n) == IF At(n) = 1 THEN Null ELSE q[At(n) - 1]
           newNext(n) == IF At(n) = Len(q) THEN Null ELSE q[At(n) + 1]
<1>5. Listed = R
  BY <1>2, <1>3
<1>6. \A i \in 1..N : At(q[i]) = i
  BY <1>3, <1>4
<1> HIDE DEF Listed, At
<1>7. \A i \in 1..N : /\ newPrev(q[i]) = IF i = 1 THEN Null ELSE q[i - 1]
                      /\ newNext(q[i]) = IF i = N THEN Null ELSE q[i + 1]
  BY <1>3, <1>6
<1> HIDE DEF newPrev, newNext
<1>8. u = [s EXCEPT
             !.prev = [n \in Notes |-> IF n \notin Listed THEN s.prev[n] ELSE newPrev(n)],
             !.next = [n \in Notes |-> IF n \notin Listed THEN s.next[n] ELSE newNext(n)]]
  BY DEF LinkInOrder, newPrev, newNext, At, Listed
<1>9. /\ \A n \in Notes : /\ u.prev[n] = IF n \notin Listed THEN s.prev[n] ELSE newPrev(n)
                          /\ u.next[n] = IF n \notin Listed THEN s.next[n] ELSE newNext(n)
      /\ u.ids = s.ids /\ u.parent = s.parent
  BY <1>8 DEF Stores
<1>10. \A i \in 1..N : q[i] \in R /\ q[i] \in Notes
  BY <1>2
<1>11. QED
  BY <1>1, <1>2, <1>4, <1>5, <1>7, <1>9, <1>10

\* NoteStore.move_notes accepts every order of the roots.
LEMMA OrdersAreChains ==
  ASSUME NEW s \in Stores, Ordered(s, s.ids), NEW q \in Orders(Siblings(s, Null))
  PROVE  Ordered(LinkInOrder(s, q), s.ids)
<1> DEFINE R == Siblings(s, Null)
           N == Cardinality(R)
           u == LinkInOrder(s, q)
<1>1. /\ R \in SUBSET Notes /\ s.ids \in SUBSET Notes /\ Null \notin Notes
      /\ \A m \in s.ids : m \in R <=> s.parent[m] = Null
      /\ R \subseteq s.ids
  BY NullAssumption DEF Siblings, Stores
<1>2. /\ Reciprocal(s, s.ids) /\ SingleBoundaries(s, s.ids) /\ NoRings(s, s.ids)
  BY DEF Ordered
<1>3. q \in Orders(R)
  OBVIOUS
<1> HIDE DEF R, N, u
<1>4. /\ N \in Nat /\ q \in [1..N -> R]
      /\ \A m \in R : \E i \in 1..N : q[i] = m
      /\ \A i, j \in 1..N : q[i] = q[j] => i = j
      /\ \A i \in 1..N : /\ u.prev[q[i]] = IF i = 1 THEN Null ELSE q[i - 1]
                         /\ u.next[q[i]] = IF i = N THEN Null ELSE q[i + 1]
      /\ \A m \in Notes \ R : u.prev[m] = s.prev[m] /\ u.next[m] = s.next[m]
      /\ u.ids = s.ids /\ u.parent = s.parent
  <2>1. u = LinkInOrder(s, q) /\ N = Cardinality(R)
    BY DEF u, N
  <2>2. R \in SUBSET Notes
    BY <1>1
  <2> HIDE DEF R
  <2>3. QED
    BY <1>3, <2>1, <2>2, OrderLinks, SMTT(60)
<1>5. \A i \in 1..N : q[i] \in R /\ q[i] # Null /\ s.parent[q[i]] = Null
  BY <1>1, <1>4
<1>6. \A i \in 1..N : (i # 1 => i - 1 \in 1..N) /\ (i # N => i + 1 \in 1..N)
  BY <1>4
<1>7. Reciprocal(u, s.ids)
  <2> SUFFICES ASSUME NEW m \in s.ids
               PROVE  /\ u.prev[m] # Null =>
                            /\ u.prev[m] \in s.ids
                            /\ s.parent[u.prev[m]] = s.parent[m]
                            /\ u.next[u.prev[m]] = m
                      /\ u.next[m] # Null =>
                            /\ u.next[m] \in s.ids
                            /\ s.parent[u.next[m]] = s.parent[m]
                            /\ u.prev[u.next[m]] = m
    BY <1>4 DEF Reciprocal
  <2>1. CASE m \in R
    <3>1. PICK i \in 1..N : q[i] = m
      BY <1>4, <2>1
    <3>2. i # 1 => /\ u.prev[m] = q[i - 1] /\ q[i - 1] \in R
                   /\ s.parent[q[i - 1]] = Null /\ u.next[q[i - 1]] = m
      BY <1>4, <1>5, <1>6, <3>1
    <3>3. i # N => /\ u.next[m] = q[i + 1] /\ q[i + 1] \in R
                   /\ s.parent[q[i + 1]] = Null /\ u.prev[q[i + 1]] = m
      BY <1>4, <1>5, <1>6, <3>1
    <3>4. (i = 1 => u.prev[m] = Null) /\ (i = N => u.next[m] = Null)
      BY <1>4, <3>1
    <3>5. QED
      BY <1>1, <2>1, <3>2, <3>3, <3>4
  <2>2. CASE m \notin R
    <3>1. u.prev[m] = s.prev[m] /\ u.next[m] = s.next[m]
      BY <1>1, <1>4, <2>2
    <3>2. /\ s.prev[m] # Null => s.prev[m] \in s.ids /\ s.prev[m] \notin R
          /\ s.next[m] # Null => s.next[m] \in s.ids /\ s.next[m] \notin R
      BY <1>1, <1>2, <2>2 DEF Reciprocal
    <3>3. QED
      BY <1>1, <1>2, <1>4, <3>1, <3>2 DEF Reciprocal
  <2>3. QED
    BY <2>1, <2>2
<1>8. SingleBoundaries(u, s.ids)
  <2> SUFFICES ASSUME NEW m \in s.ids, NEW n \in s.ids, s.parent[m] = s.parent[n]
               PROVE  /\ u.prev[m] = Null /\ u.prev[n] = Null => m = n
                      /\ u.next[m] = Null /\ u.next[n] = Null => m = n
    BY <1>4 DEF SingleBoundaries
  <2>1. CASE m \in R
    <3>1. n \in R
      BY <1>1, <2>1
    <3>2. PICK i \in 1..N : q[i] = m
      BY <1>4, <2>1
    <3>3. PICK j \in 1..N : q[j] = n
      BY <1>4, <3>1
    <3>4. (u.prev[m] = Null => i = 1) /\ (u.next[m] = Null => i = N)
      <4>1. i # 1 => u.prev[m] = q[i - 1] /\ i - 1 \in 1..N
        BY <1>4, <1>6, <3>2
      <4>2. i # N => u.next[m] = q[i + 1] /\ i + 1 \in 1..N
        BY <1>4, <1>6, <3>2
      <4>3. QED
        BY <1>5, <4>1, <4>2
    <3>5. (u.prev[n] = Null => j = 1) /\ (u.next[n] = Null => j = N)
      <4>1. j # 1 => u.prev[n] = q[j - 1] /\ j - 1 \in 1..N
        BY <1>4, <1>6, <3>3
      <4>2. j # N => u.next[n] = q[j + 1] /\ j + 1 \in 1..N
        BY <1>4, <1>6, <3>3
      <4>3. QED
        BY <1>5, <4>1, <4>2
    <3>6. QED
      BY <3>2, <3>3, <3>4, <3>5
  <2>2. CASE m \notin R
    <3>1. n \notin R
      BY <1>1, <2>2
    <3>2. /\ u.prev[m] = s.prev[m] /\ u.next[m] = s.next[m]
          /\ u.prev[n] = s.prev[n] /\ u.next[n] = s.next[n]
      BY <1>1, <1>4, <2>2, <3>1
    <3>3. QED
      BY <1>2, <3>2 DEF SingleBoundaries
  <2>3. QED
    BY <2>1, <2>2
<1>9. NoRings(u, s.ids)
  <2> SUFFICES ASSUME NEW S \in SUBSET s.ids, S # {}
               PROVE  /\ \E m \in S : u.prev[m] \notin S
                      /\ \E m \in S : u.next[m] \notin S
    BY DEF NoRings
  <2> DEFINE T == {i \in 1..N : q[i] \in S}
  <2>1. CASE T = {}
    <3>1. \A m \in S : m \notin R
      BY <1>4, <2>1
    <3>2. \A m \in S : u.prev[m] = s.prev[m] /\ u.next[m] = s.next[m]
      BY <1>1, <1>4, <3>1
    <3>3. QED
      BY <1>2, <3>2 DEF NoRings
  <2>2. CASE T # {}
    <3>1. T \in SUBSET (1..N)
      OBVIOUS
    <3>2. /\ \E i \in T : \A j \in T : i <= j
          /\ \E i \in T : \A j \in T : j <= i
      <4> HIDE DEF T
      <4>1. QED
        BY <1>4, <2>2, <3>1, LeastAndGreatest
    <3>3. PICK i \in T : \A j \in T : i <= j
      BY <3>2
    <3>4. PICK k \in T : \A j \in T : j <= k
      BY <3>2
    <3>5. i \in 1..N /\ q[i] \in S /\ k \in 1..N /\ q[k] \in S
      OBVIOUS
    <3>6. Null \notin S
      BY <1>1
    <3>7. i - 1 \notin T /\ k + 1 \notin T
      <4> HIDE DEF T
      <4>1. QED
        BY <1>4, <3>3, <3>4, <3>5
    <3>8. u.prev[q[i]] \notin S
      <4>1. CASE i = 1
        BY <1>4, <3>5, <3>6, <4>1
      <4>2. CASE i # 1
        <5>1. i - 1 \in 1..N /\ u.prev[q[i]] = q[i - 1]
          BY <1>4, <1>6, <3>5, <4>2
        <5>2. QED
          BY <3>7, <5>1
      <4>3. QED
        BY <4>1, <4>2
    <3>9. u.next[q[k]] \notin S
      <4>1. CASE k = N
        BY <1>4, <3>5, <3>6, <4>1
      <4>2. CASE k # N
        <5>1. k + 1 \in 1..N /\ u.next[q[k]] = q[k + 1]
          BY <1>4, <1>6, <3>5, <4>2
        <5>2. QED
          BY <3>7, <5>1
      <4>3. QED
        BY <4>1, <4>2
    <3>10. QED
      BY <3>5, <3>8, <3>9
  <2>3. QED
    BY <2>1, <2>2
<1>10. QED
  BY <1>7, <1>8, <1>9 DEF Ordered, u

-----------------------------------------------------------------------------
(***************************************************************************)
(* Every command finds the neighbours it expects.                            *)
(***************************************************************************)
\* A move into a gap is applied.
LEMMA MoveApplies ==
  ASSUME StoreInv, NEW n \in store.ids, NEW p \in NoteOrNull,
         NEW prev \in NoteOrNull, NEW next \in NoteOrNull,
         Gap(store, store.ids, p, prev, next), prev # n, next # n,
         ParentAllowed(rows, n, p), MoveNote(n, p, prev, next)
  PROVE  phase' = "applied"
BY GapAcceptsMove DEF MoveNote, Applied

\* Beside a note of a list there is a gap before it and a gap after it.
LEMMA GapsBeside ==
  ASSUME NEW s \in Stores, Sound(s), NEW m \in s.ids
  PROVE  /\ Gap(s, s.ids, s.parent[m], s.prev[m], m)
         /\ Gap(s, s.ids, s.parent[m], m, s.next[m])
<1>1. Reciprocal(s, s.ids) /\ m # Null
  BY NullAssumption DEF Sound, Ordered, Stores
<1>2. QED
  BY <1>1 DEF Reciprocal, Gap

\* Every command is applied.
LEMMA CommandApplies ==
  ASSUME StoreInv, Command
  PROVE  phase' = "applied"
<1>1. /\ store \in Stores /\ Sound(store) /\ store.ids \in SUBSET Notes /\ Null \notin Notes
      /\ Ordered(store, store.ids) /\ IndexMatches(store, store.ids) /\ HierarchyValid(store)
      /\ rows.ids = store.ids /\ rows.parent = store.parent
      /\ \A x \in Notes : /\ x \in NoteOrNull /\ store.parent[x] \in NoteOrNull
                          /\ store.prev[x] \in NoteOrNull /\ store.next[x] \in NoteOrNull
      /\ \A x \in NoteOrNull : store.tails[x] \in NoteOrNull
      /\ Null \in NoteOrNull
  BY NullAssumption DEF StoreInv, Sound, Stores, NoteOrNull, Columns
<1>2. ASSUME NEW n \in Notes, CreateNote(n) PROVE phase' = "applied"
  BY <1>2, CreateInv
<1>3. ASSUME NEW n \in Notes, NEW m \in Notes,
             CreateChild(n, m) \/ CreateSibling(n, m) \/ CreateFilePreviewChild(n, m)
      PROVE  phase' = "applied"
  BY <1>3, CreateInv
<1>4. ASSUME NEW n \in Notes, Delete(n) PROVE phase' = "applied"
  <2>1. n \in store.ids /\ DeleteSubtree(n)
    BY <1>4 DEF Delete
  <2>2. CanLinkOut(store, n)
    BY <1>1, <2>1, LinkOutSucceeds
  <2>3. QED
    BY <2>1, <2>2 DEF DeleteSubtree, Applied
<1>5. ASSUME NEW n \in Notes, NEW m \in Notes, Move(n, m) PROVE phase' = "applied"
  <2>1. /\ n \in store.ids /\ m \in store.ids /\ m # n
        /\ ParentAllowed(rows, n, store.parent[m])
    BY <1>5 DEF Move
  <2>2. /\ Gap(store, store.ids, store.parent[m], store.prev[m], m)
        /\ Gap(store, store.ids, store.parent[m], m, store.next[m])
    BY <1>1, <2>1, GapsBeside
  <2>3. CASE store.prev[m] # n /\ MoveNote(n, store.parent[m], store.prev[m], m)
    BY <1>1, <2>1, <2>2, <2>3, MoveApplies
  <2>4. CASE store.next[m] # n /\ MoveNote(n, store.parent[m], m, store.next[m])
    BY <1>1, <2>1, <2>2, <2>4, MoveApplies
  <2>5. QED
    BY <1>5, <2>3, <2>4 DEF Move
<1>6. ASSUME NEW n \in Notes, NEW m \in Notes, Indent(n, m) PROVE phase' = "applied"
  <2>1. /\ n \in store.ids /\ m \in store.ids /\ store.parent[m] = store.parent[n]
        /\ ParentAllowed(rows, n, m)
    BY <1>6 DEF Indent, Siblings
  <2> DEFINE list == {x \in store.ids : store.parent[x] = m}
  <2>2. /\ list = {} => store.heads[m] = Null /\ store.tails[m] = Null
        /\ list # {} => store.tails[m] \in list /\ store.next[store.tails[m]] = Null
    BY <1>1, <2>1 DEF IndexMatches
  <2>3. Gap(store, store.ids, m, store.tails[m], Null)
    BY <1>1, <2>2 DEF Gap
  <2>4. store.parent[n] # m
    <3>1. PICK d \in [store.ids -> 1..MaxDepth] : IsDepthMap(store, d)
      BY <1>1 DEF HierarchyValid
    <3>2. store.parent[m] # m
      <4> SUFFICES ASSUME store.parent[m] = m
                   PROVE  FALSE
        OBVIOUS
      <4>1. d[m] = d[m] + 1 /\ d[m] \in Nat
        BY <1>1, <2>1, <3>1, MaxDepthAssumption DEF IsDepthMap
      <4>2. QED
        BY <4>1
    <3>3. QED
      BY <2>1, <3>2
  <2>5. store.tails[m] # n /\ Null # n
    BY <1>1, <2>1, <2>2, <2>4
  <2>6. CanMove(n, m, store.tails[m], Null)
    BY <1>1, <2>1, <2>3, <2>5, GapAcceptsMove
  <2>7. QED
    BY <1>6, <2>6 DEF Indent, Applied
<1>7. ASSUME NEW n \in Notes, Outdent(n) PROVE phase' = "applied"
  <2> DEFINE p == store.parent[n]
             g == store.parent[p]
  <2>1. /\ n \in store.ids /\ p # Null /\ MoveNote(n, g, p, store.next[p])
    BY <1>7 DEF Outdent
  <2>2. p \in store.ids /\ p # n /\ g # p /\ ParentAllowed(store, n, g)
    BY <1>1, <2>1, OutdentAllowed
  <2>3. ParentAllowed(rows, n, g)
    BY <1>1, <2>2, SameHierarchy DEF ParentAllowed
  <2>4. Gap(store, store.ids, g, p, store.next[p])
    BY <1>1, <2>2, GapsBeside
  <2>5. store.next[p] # n
    BY <1>1, <2>1, <2>2 DEF Ordered, Reciprocal
  <2>6. p \in NoteOrNull /\ g \in NoteOrNull /\ store.next[p] \in NoteOrNull
    BY <1>1, <2>2
  <2> HIDE DEF p, g
  <2>7. QED
    BY <2>1, <2>2, <2>3, <2>4, <2>5, <2>6, MoveApplies
<1>8. ASSUME NEW n \in Notes, MoveToTop(n) PROVE phase' = "applied"
  <2> DEFINE p == store.parent[n]
  <2>1. PICK first \in Siblings(store, p) :
               /\ n \in LaterSiblings(store, first)
               /\ MoveNote(n, p, store.prev[first], first)
    BY <1>8 DEF MoveToTop
  <2>2. n \in store.ids /\ first \in store.ids /\ store.parent[first] = p
    BY <1>8 DEF MoveToTop, Siblings
  <2>3. first # n /\ store.prev[first] # n
    BY <1>1, <2>1, <2>2, LaterIsAfter
  <2>4. Gap(store, store.ids, p, store.prev[first], first)
    BY <1>1, <2>2, GapsBeside
  <2>5. ParentAllowed(rows, n, p)
    BY <1>1 DEF ParentAllowed
  <2>6. p \in NoteOrNull /\ store.prev[first] \in NoteOrNull /\ first \in NoteOrNull
    BY <1>1, <2>2
  <2> HIDE DEF p
  <2>7. QED
    BY <2>1, <2>2, <2>3, <2>4, <2>5, <2>6, MoveApplies
<1>9. ASSUME NEW n \in Notes, MoveToBottom(n) PROVE phase' = "applied"
  <2> DEFINE p == store.parent[n]
  <2>1. PICK last \in LaterSiblings(store, n) : MoveNote(n, p, last, store.next[last])
    BY <1>9 DEF MoveToBottom
  <2>2. n \in store.ids
    BY <1>9 DEF MoveToBottom
  <2>3. last \in store.ids /\ store.parent[last] = p /\ last # n /\ store.next[last] # n
    BY <1>1, <2>1, <2>2, LaterIsAfter
  <2>4. Gap(store, store.ids, p, last, store.next[last])
    BY <1>1, <2>3, GapsBeside
  <2>5. ParentAllowed(rows, n, p)
    BY <1>1 DEF ParentAllowed
  <2>6. p \in NoteOrNull /\ store.next[last] \in NoteOrNull /\ last \in NoteOrNull
    BY <1>1, <2>2, <2>3
  <2> HIDE DEF p
  <2>7. QED
    BY <2>1, <2>2, <2>3, <2>4, <2>5, <2>6, MoveApplies
<1>10. ASSUME NEW S \in SUBSET Notes, Prioritize(S) PROVE phase' = "applied"
  <2> DEFINE R == Siblings(store, Null)
  <2>1. PICK q \in Orders(R) :
          LET next == LinkInOrder(store, q)
          IN  IF Ordered(next, next.ids)
              THEN /\ rows' = LinkInOrder(rows, q)
                   /\ store' = Hydrated(next)
                   /\ Applied
              ELSE Raise
    BY <1>10 DEF Prioritize, Regrouped
  <2>2. LinkInOrder(store, q).ids = store.ids
    BY <1>1 DEF LinkInOrder, Stores
  <2>3. Ordered(LinkInOrder(store, q), store.ids)
    BY <1>1, OrdersAreChains
  <2>4. QED
    BY <2>1, <2>2, <2>3 DEF Applied
<1>11. ASSUME NEW n \in Notes, NEW c \in BOOLEAN, SetCollapse(n, c) PROVE phase' = "applied"
  BY <1>11 DEF SetCollapse, CollapseNote, Applied
<1>12. QED
  BY <1>2, <1>3, <1>4, <1>5, <1>6, <1>7, <1>8, <1>9, <1>10, <1>11 DEF Command

\* No command raises once it began to write, and none is refused: the lookups and
\* assertions of note_ordering.py, the neighbour check after a move and the chain
\* check of move_notes hold whatever was done before (NoAssertionFails of
\* NoteCommands).
THEOREM AssertionsNeverFail == StoreSpec => []NoAssertionFails
<1>1. StoreInit => NoAssertionFails
  BY DEF StoreInit, NoAssertionFails
<1>2. StoreInv /\ NoAssertionFails /\ [StoreNext]_storeVars => NoAssertionFails'
  <2> SUFFICES ASSUME StoreInv, NoAssertionFails, [StoreNext]_storeVars
               PROVE  NoAssertionFails'
    OBVIOUS
  <2>1. CASE Command
    BY <2>1, CommandApplies DEF NoAssertionFails
  <2>2. CASE Commit
    BY <2>2 DEF Commit, NoAssertionFails
  <2>3. CASE Reload
    BY <2>3 DEF Reload, NoAssertionFails
  <2>4. CASE UNCHANGED storeVars
    BY <2>4 DEF storeVars, NoAssertionFails
  <2>5. QED
    BY <2>1, <2>2, <2>3, <2>4 DEF StoreNext, Rollback, Restart
<1>3. QED
  BY <1>1, <1>2, StoreInvariant, PTL DEF StoreSpec
-----------------------------------------------------------------------------
(***************************************************************************)
(* What a command does to the store.                                         *)
(***************************************************************************)
\* What NoteOrdering.insert writes.
Inserted(s, u, n, prev, next) ==
    \A m \in Notes :
        /\ u.prev[m] = IF m = n THEN prev ELSE IF m = next THEN n ELSE s.prev[m]
        /\ u.next[m] = IF m = n THEN next ELSE IF m = prev THEN n ELSE s.next[m]

\* A new note n in a gap of the list of p.
Created(s, u, n, p, prev, next) ==
    /\ n \in Notes \ s.ids /\ p \in s.ids \cup {Null}
    /\ prev \in s.ids \cup {Null} /\ next \in NoteOrNull /\ Gap(s, s.ids, p, prev, next)
    /\ Inserted(s, u, n, prev, next)
    /\ u.ids = s.ids \cup {n} /\ u.parent[n] = p
    /\ \A m \in Notes \ {n} : u.parent[m] = s.parent[m]

\* Note n, taken out of its list, in a gap of the list of p.
Moved(s, u, n, p, prev, next) ==
    LET out == Detached(s, n, p)
    IN  /\ n \in s.ids /\ p \in (s.ids \cup {Null}) \ Subtree(s, n)
        /\ prev \in s.ids \cup {Null} /\ next \in NoteOrNull /\ Gap(out, s.ids \ {n}, p, prev, next)
        /\ Inserted(out, u, n, prev, next)
        /\ u.ids = s.ids /\ u.parent[n] = p
        /\ \A m \in Notes \ {n} : u.parent[m] = s.parent[m]

\* The subtree of n gone.
Deleted(s, u, n) ==
    LET D == Subtree(s, n)
    IN  n \in s.ids /\ u = DropLists(DropNotes(LinkOut(s, n), D), D)

\* The roots in the order q, those of S first.
Reordered(s, u, S, q) ==
    q \in Regrouped(s, Siblings(s, Null), S) /\ u = Hydrated(LinkInOrder(s, q))

\* No list changed.
Flagged(s, u) == u.ids = s.ids /\ u.parent = s.parent /\ u.prev = s.prev /\ u.next = s.next

Changed(s, u) ==
    \/ \E n, p, prev, next : Created(s, u, n, p, prev, next) \/ Moved(s, u, n, p, prev, next)
    \/ \E n : Deleted(s, u, n)
    \/ \E S \in SUBSET Notes : \E q : Reordered(s, u, S, q)
    \/ Flagged(s, u)

\* A column of an id that does not exist names no note.
Clean(t) == \A m \in Notes \ t.ids :
    t.parent[m] = Null /\ t.prev[m] = Null /\ t.next[m] = Null

\* No change leaves a link at an id that does not exist.
LEMMA ChangedClean ==
  ASSUME NEW s, Sound(s), Clean(s), NEW u, Changed(s, u)
  PROVE  Clean(u)
<1>1. /\ s \in Stores /\ s.ids \in SUBSET Notes /\ Null \notin Notes
      /\ \A m \in Notes \ s.ids : s.parent[m] = Null /\ s.prev[m] = Null /\ s.next[m] = Null
      /\ \A n \in s.ids : /\ s.prev[n] # Null => s.prev[n] \in s.ids
                          /\ s.next[n] # Null => s.next[n] \in s.ids
  BY NullAssumption DEF Sound, Stores, Clean, Ordered, Reciprocal
<1>2. ASSUME NEW n, NEW p, NEW prev, NEW next, Created(s, u, n, p, prev, next) PROVE Clean(u)
  <2>1. /\ n \in Notes \ s.ids /\ prev \in s.ids \cup {Null} /\ u.ids = s.ids \cup {n}
        /\ next \in s.ids \cup {Null}
        /\ \A m \in Notes \ {n} : u.parent[m] = s.parent[m]
        /\ \A m \in Notes :
              /\ u.prev[m] = IF m = n THEN prev ELSE IF m = next THEN n ELSE s.prev[m]
              /\ u.next[m] = IF m = n THEN next ELSE IF m = prev THEN n ELSE s.next[m]
    BY <1>2 DEF Created, Inserted, Gap
  <2>2. QED
    BY <1>1, <2>1 DEF Clean
<1>3. ASSUME NEW n \in s.ids
      PROVE  \A m \in Notes \ s.ids :
                LinkOut(s, n).parent[m] = Null /\ LinkOut(s, n).prev[m] = Null
                  /\ LinkOut(s, n).next[m] = Null
  <2>1. /\ LinkOut(s, n).parent = s.parent
        /\ \A m \in Notes :
              /\ LinkOut(s, n).prev[m] = IF m = s.next[n] THEN s.prev[n] ELSE s.prev[m]
              /\ LinkOut(s, n).next[m] = IF m = s.prev[n] THEN s.next[n] ELSE s.next[m]
    BY <1>1, LinkOutFields
  <2>2. QED
    BY <1>1, <2>1
<1>4. ASSUME NEW n, NEW p, NEW prev, NEW next, Moved(s, u, n, p, prev, next) PROVE Clean(u)
  <2> DEFINE d == Detached(s, n, p)
  <2>1. /\ n \in s.ids /\ prev \in s.ids \cup {Null} /\ u.ids = s.ids
        /\ next \in s.ids \cup {Null}
        /\ \A m \in Notes \ {n} : u.parent[m] = s.parent[m]
        /\ \A m \in Notes :
              /\ u.prev[m] = IF m = n THEN prev ELSE IF m = next THEN n ELSE d.prev[m]
              /\ u.next[m] = IF m = n THEN next ELSE IF m = prev THEN n ELSE d.next[m]
    BY <1>4 DEF Moved, Inserted, Gap
  <2>2. d.prev = LinkOut(s, n).prev /\ d.next = LinkOut(s, n).next
    <3>1. LinkOut(s, n) \in Stores
      BY <1>1, <2>1, LinkOutType
    <3>2. QED
      BY <3>1 DEF Detached, Stores
  <2> HIDE DEF d
  <2>3. QED
    BY <1>1, <1>3, <2>1, <2>2 DEF Clean
<1>5. ASSUME NEW n, Deleted(s, u, n) PROVE Clean(u)
  <2> DEFINE D == Subtree(s, n)
             d == LinkOut(s, n)
  <2>1. n \in s.ids /\ u = DropLists(DropNotes(d, D), D)
    BY <1>5 DEF Deleted
  <2>2. /\ d \in Stores /\ d.ids = s.ids
        /\ \A m \in Notes \ s.ids : d.parent[m] = Null /\ d.prev[m] = Null /\ d.next[m] = Null
    BY <1>1, <1>3, <2>1, LinkOutType, LinkOutFields
  <2> HIDE DEF D, d
  <2>3. /\ u.ids = s.ids \ D
        /\ \A m \in Notes : /\ u.parent[m] = IF m \in D THEN Null ELSE d.parent[m]
                            /\ u.prev[m] = IF m \in D THEN Null ELSE d.prev[m]
                            /\ u.next[m] = IF m \in D THEN Null ELSE d.next[m]
    BY <2>1, <2>2 DEF DropLists, DropNotes, Stores
  <2>4. QED
    BY <2>2, <2>3 DEF Clean
<1>6. ASSUME NEW S \in SUBSET Notes, NEW q, Reordered(s, u, S, q) PROVE Clean(u)
  <2> DEFINE R == Siblings(s, Null)
             w == LinkInOrder(s, q)
             N == Cardinality(R)
  <2>1. R \in SUBSET Notes /\ R \subseteq s.ids /\ q \in Orders(R) /\ u = Hydrated(w)
    BY <1>1, <1>6 DEF Reordered, Regrouped, Siblings
  <2>2. u.ids = w.ids /\ u.parent = w.parent /\ u.prev = w.prev /\ u.next = w.next
    BY <2>1 DEF Hydrated
  <2>3. w = LinkInOrder(s, q) /\ N = Cardinality(R)
    OBVIOUS
  <2> HIDE DEF R, w, N
  <2>4. /\ N \in Nat /\ q \in [1..N -> R]
        /\ \A m \in R : \E i \in 1..N : q[i] = m
        /\ \A i, j \in 1..N : q[i] = q[j] => i = j
        /\ \A i \in 1..N : /\ w.prev[q[i]] = IF i = 1 THEN Null ELSE q[i - 1]
                           /\ w.next[q[i]] = IF i = N THEN Null ELSE q[i + 1]
        /\ \A m \in Notes \ R : w.prev[m] = s.prev[m] /\ w.next[m] = s.next[m]
        /\ w.ids = s.ids /\ w.parent = s.parent
    <3>1. s \in Stores /\ R \in SUBSET Notes /\ q \in Orders(R) /\ w = LinkInOrder(s, q)
          /\ N = Cardinality(R)
      BY <1>1, <2>1, <2>3
    <3>2. QED
      BY <3>1, OrderLinks, SMTT(60)
  <2>5. QED
    BY <1>1, <2>1, <2>2, <2>4 DEF Clean
<1>7. ASSUME Flagged(s, u) PROVE Clean(u)
  BY <1>1, <1>7 DEF Flagged, Clean
<1>8. QED
  BY <1>2, <1>4, <1>5, <1>6, <1>7 DEF Changed

-----------------------------------------------------------------------------
(***************************************************************************)
(* Every command makes one such change.                                      *)
(***************************************************************************)
\* An insert creates a note in a gap.
LEMMA InsertCreates ==
  ASSUME StoreInv, NEW n, NEW p, NEW prev, NEW next, InsertsAt(n, p, prev, next)
  PROVE  Created(store, store', n, p, prev, next)
<1> DEFINE added == AddNote(store, n, p, Expanded)
           after == NextAfter(store, p, prev)
<1>1. /\ n \in Notes \ store.ids /\ p \in NoteOrNull /\ NewParentAllowed(store, p)
      /\ prev \in NoteOrNull /\ next \in NoteOrNull
      /\ prev # Null => prev \in store.ids /\ store.parent[prev] = p
      /\ next = after
      /\ InsertNote(n, p, prev, next)
  BY DEF InsertsAt
<1>2. store \in Stores /\ Sound(store)
  BY DEF StoreInv, Sound
<1>3. phase' = "applied"
  BY <1>1, InsertNoteInv
<1>4. store' = LinkIn(added, n, p, ResolvedPrev(added, p, prev, after),
                      ResolvedNext(added, p, prev, after))
  BY <1>1, <1>3 DEF InsertNote, Raise
<1>5. added = AddNote(store, n, p, Expanded) /\ added \in Stores
  BY <1>1, <1>2, AddNoteType, ExpandedType
<1>6. /\ added.ids = store.ids \cup {n} /\ added.parent[n] = p
      /\ added.prev = store.prev /\ added.next = store.next
      /\ \A m \in Notes \ {n} : added.parent[m] = store.parent[m]
  BY <1>1, <1>2 DEF AddNote, Stores
<1> HIDE DEF added, after
<1>7. /\ ResolvedPrev(added, p, prev, next) = prev
      /\ ResolvedNext(added, p, prev, next) = next
      /\ Gap(added, store.ids, p, prev, next)
      /\ prev \in store.ids \cup {Null}
  BY <1>1, <1>2, <1>5, InsertAnchors DEF after
<1>8. store' = LinkIn(added, n, p, prev, next)
  BY <1>1, <1>4, <1>7
<1>9. /\ store'.ids = added.ids /\ store'.parent = added.parent
      /\ \A m \in Notes :
            /\ store'.prev[m] = IF m = n THEN prev ELSE IF m = next THEN n ELSE added.prev[m]
            /\ store'.next[m] = IF m = n THEN next ELSE IF m = prev THEN n ELSE added.next[m]
  BY <1>1, <1>5, <1>8, LinkInFields
<1>10. Gap(store, store.ids, p, prev, next)
  BY <1>1, <1>2, <1>6, <1>7 DEF Gap, Stores
<1>11. p \in store.ids \cup {Null}
  BY <1>1 DEF NewParentAllowed
<1>12. QED
  BY <1>1, <1>6, <1>7, <1>9, <1>10, <1>11 DEF Created, Inserted

\* A parent is not in the subtree of its child.
LEMMA ParentNotBelow ==
  ASSUME NEW t, t.ids \in SUBSET Notes, HierarchyValid(t), NEW n \in t.ids
  PROVE  t.parent[n] \in (t.ids \cup {Null}) \ Subtree(t, n)
<1> DEFINE p == t.parent[n]
<1>1. PICK d \in [t.ids -> 1..MaxDepth] : IsDepthMap(t, d)
  BY DEF HierarchyValid
<1>2. (p # Null => p \in t.ids) /\ Null \notin t.ids
  BY NullAssumption DEF HierarchyValid
<1>3. \A m \in t.ids : d[m] \in Nat
  BY <1>1, MaxDepthAssumption
<1>4. \A m \in t.ids : t.parent[m] # Null => t.parent[m] \in t.ids /\ d[m] = d[t.parent[m]] + 1
  BY <1>1 DEF IsDepthMap, HierarchyValid
<1> DEFINE S == {m \in t.ids : d[n] <= d[m]}
<1>5. Subtree(t, n) \subseteq S
  <2>1. n \in S
    BY <1>3
  <2>2. \A c \in t.ids : t.parent[c] \in S => c \in S
    BY <1>2, <1>3, <1>4
  <2>3. S \in SUBSET Notes
    OBVIOUS
  <2> HIDE DEF S
  <2>4. QED
    BY <2>1, <2>2, <2>3, SubtreeLeast
<1>6. p # Null => p \notin S
  <2>1. p # Null => d[n] = d[p] + 1 /\ d[p] \in Nat
    BY <1>2, <1>3, <1>4
  <2>2. QED
    BY <2>1
<1>7. p = Null => p \notin S
  BY <1>2
<1>8. QED
  BY <1>2, <1>5, <1>6, <1>7

\* A note that can move is moved into a gap that is not below it.
LEMMA MoveMoves ==
  ASSUME StoreInv, NEW n \in store.ids, NEW p \in NoteOrNull,
         NEW prev \in NoteOrNull, NEW next \in NoteOrNull, CanMove(n, p, prev, next),
         NEW u, u.ids = LinkIn(Detached(store, n, p), n, p, prev, next).ids,
         u.parent = LinkIn(Detached(store, n, p), n, p, prev, next).parent,
         u.prev = LinkIn(Detached(store, n, p), n, p, prev, next).prev,
         u.next = LinkIn(Detached(store, n, p), n, p, prev, next).next
  PROVE  Moved(store, u, n, p, prev, next)
<1> DEFINE d == Detached(store, n, p)
           out == LinkOut(store, n)
<1>1. /\ store \in Stores /\ Sound(store) /\ store.ids \in SUBSET Notes /\ n \in Notes
      /\ HierarchyValid(store) /\ SameTree /\ rows = Columns(store)
  BY SameTreeHolds DEF StoreInv, Sound, Stores
<1>2. Gap(d, store.ids \ {n}, p, prev, next)
  BY <1>1, MoveSound
<1>3. prev \in store.ids \cup {Null} /\ ParentAllowed(store, n, p)
  BY <1>1, SameHierarchy DEF CanMove, ParentAllowed, SameTree
<1>4. p \in (store.ids \cup {Null}) \ Subtree(store, n)
  <2>1. CASE store.parent[n] = p
    BY <1>1, <2>1, ParentNotBelow
  <2>2. CASE p # Null => p \in store.ids /\ p \notin Subtree(store, n)
    <3>1. Null \notin Subtree(store, n)
      BY <1>1, NullAssumption, SubtreeClosed
    <3>2. QED
      BY <2>2, <3>1
  <2>3. QED
    BY <1>3, <2>1, <2>2 DEF ParentAllowed
<1>5. out \in Stores /\ out.ids = store.ids /\ out.parent = store.parent
  BY <1>1, LinkOutType, LinkOutFields
<1>6. d \in Stores
  BY <1>1, DetachedType
<1>7. d.ids = store.ids /\ d.parent = [store.parent EXCEPT ![n] = p]
  BY <1>5 DEF Detached, Stores
<1> HIDE DEF d, out
<1>8. /\ u.ids = d.ids /\ u.parent = d.parent
      /\ \A m \in Notes :
            /\ u.prev[m] = IF m = n THEN prev ELSE IF m = next THEN n ELSE d.prev[m]
            /\ u.next[m] = IF m = n THEN next ELSE IF m = prev THEN n ELSE d.next[m]
  <2> DEFINE v == LinkIn(d, n, p, prev, next)
  <2>1. /\ u.ids = v.ids /\ u.parent = v.parent /\ u.prev = v.prev /\ u.next = v.next
        /\ v = LinkIn(d, n, p, prev, next)
    BY DEF d
  <2> HIDE DEF v
  <2>2. /\ v.ids = d.ids /\ v.parent = d.parent
        /\ \A m \in Notes :
              /\ v.prev[m] = IF m = n THEN prev ELSE IF m = next THEN n ELSE d.prev[m]
              /\ v.next[m] = IF m = n THEN next ELSE IF m = prev THEN n ELSE d.next[m]
    BY <1>1, <1>6, <2>1, LinkInFields
  <2>3. QED
    BY <2>1, <2>2
<1>9. u.parent[n] = p /\ \A m \in Notes \ {n} : u.parent[m] = store.parent[m]
  BY <1>1, <1>7, <1>8 DEF Stores
<1>10. QED
  BY <1>2, <1>3, <1>4, <1>7, <1>8, <1>9 DEF Moved, Inserted, d

\* Note n has moved.
HasMoved(n) == \E p, prev, next : Moved(store, store', n, p, prev, next)

\* A command that applies a move has moved the note.
LEMMA MoveNoteMoves ==
  ASSUME StoreInv, NEW n \in store.ids, NEW p \in NoteOrNull,
         NEW prev \in NoteOrNull, NEW next \in NoteOrNull,
         MoveNote(n, p, prev, next), phase' = "applied"
  PROVE  HasMoved(n)
<1>1. /\ CanMove(n, p, prev, next)
      /\ store' = LinkIn(Detached(store, n, p), n, p, prev, next)
  BY DEF MoveNote, Raise
<1>2. Moved(store, store', n, p, prev, next)
  BY <1>1, MoveMoves
<1>3. QED
  BY <1>2 DEF HasMoved

\* Types of what the commands pass on.
LEMMA CommandTypes ==
  ASSUME StoreInv
  PROVE  /\ store \in Stores /\ Sound(store) /\ store.ids \in SUBSET Notes
         /\ \A x \in Notes : /\ x \in NoteOrNull /\ store.parent[x] \in NoteOrNull
                             /\ store.prev[x] \in NoteOrNull /\ store.next[x] \in NoteOrNull
         /\ \A x \in NoteOrNull : store.tails[x] \in NoteOrNull
         /\ Null \in NoteOrNull
  BY DEF StoreInv, Sound, Stores, NoteOrNull

\* The commands that move a note.
MoveCommand(n) ==
    \/ \E m \in Notes : Move(n, m) \/ Indent(n, m)
    \/ Outdent(n)
    \/ MoveToTop(n)
    \/ MoveToBottom(n)

\* Each of them is applied and moves that note.
LEMMA MoveCommandMoves ==
  ASSUME StoreInv, NEW n \in Notes, MoveCommand(n)
  PROVE  phase' = "applied" /\ HasMoved(n)
<1>1. phase' = "applied"
  BY CommandApplies DEF MoveCommand, Command
<1>2. /\ store \in Stores /\ Sound(store) /\ store.ids \in SUBSET Notes
      /\ \A x \in Notes : /\ x \in NoteOrNull /\ store.parent[x] \in NoteOrNull
                          /\ store.prev[x] \in NoteOrNull /\ store.next[x] \in NoteOrNull
      /\ \A x \in NoteOrNull : store.tails[x] \in NoteOrNull
      /\ Null \in NoteOrNull
  BY CommandTypes
<1>5. ASSUME NEW m \in Notes, Move(n, m) PROVE HasMoved(n)
  <2>1. /\ n \in store.ids
        /\ \/ MoveNote(n, store.parent[m], store.prev[m], m)
           \/ MoveNote(n, store.parent[m], m, store.next[m])
    BY <1>5 DEF Move
  <2>2. QED
    BY <1>1, <1>2, <2>1, MoveNoteMoves
<1>6. ASSUME NEW m \in Notes, Indent(n, m) PROVE HasMoved(n)
  <2> DEFINE prev == store.tails[m]
             v == LinkIn(Detached(store, n, m), n, m, prev, Null)
  <2>1. CanMove(n, m, prev, Null) /\ store' = SetCollapsed(v, m, Expanded) /\ n \in store.ids
    BY <1>1, <1>6 DEF Indent, Raise
  <2>2. v \in Stores
    BY <1>2, <2>1, MoveSound, SameTreeHolds DEF Sound
  <2>3. v = LinkIn(Detached(store, n, m), n, m, prev, Null)
    OBVIOUS
  <2> HIDE DEF v
  <2>4. /\ store'.ids = v.ids /\ store'.parent = v.parent
        /\ store'.prev = v.prev /\ store'.next = v.next
    BY <2>1, <2>2 DEF SetCollapsed, Stores
  <2>5. Moved(store, store', n, m, prev, Null)
    BY <1>2, <2>1, <2>3, <2>4, MoveMoves
  <2>6. QED
    BY <2>5 DEF HasMoved
<1>7. ASSUME Outdent(n) PROVE HasMoved(n)
  <2> DEFINE p == store.parent[n]
  <2>1. /\ n \in store.ids /\ p \in Notes
        /\ MoveNote(n, store.parent[p], p, store.next[p])
    BY <1>2, <1>7 DEF Outdent, NoteOrNull
  <2>2. QED
    BY <1>1, <1>2, <2>1, MoveNoteMoves
<1>8. ASSUME MoveToTop(n) PROVE HasMoved(n)
  <2>1. PICK first \in Siblings(store, store.parent[n]) :
               MoveNote(n, store.parent[n], store.prev[first], first)
    BY <1>8 DEF MoveToTop
  <2>2. first \in Notes /\ n \in store.ids
    BY <1>2, <1>8 DEF Siblings, MoveToTop
  <2>3. QED
    BY <1>1, <1>2, <2>1, <2>2, MoveNoteMoves
<1>9. ASSUME MoveToBottom(n) PROVE HasMoved(n)
  <2>1. PICK last \in LaterSiblings(store, n) :
               MoveNote(n, store.parent[n], last, store.next[last])
    BY <1>9 DEF MoveToBottom
  <2>2. last \in Notes /\ n \in store.ids
    BY <1>2, <1>9 DEF LaterSiblings, MoveToBottom
  <2>3. QED
    BY <1>1, <1>2, <2>1, <2>2, MoveNoteMoves
<1>10. QED
  BY <1>1, <1>5, <1>6, <1>7, <1>8, <1>9 DEF MoveCommand

\* Each command makes one change of the store, a change of lists or of none.
LEMMA CommandChanges ==
  ASSUME StoreInv, Command
  PROVE  Changed(store, store')
<1>1. phase' = "applied"
  BY CommandApplies
<1>2. /\ store \in Stores /\ Sound(store) /\ store.ids \in SUBSET Notes
      /\ \A x \in Notes : /\ x \in NoteOrNull /\ store.parent[x] \in NoteOrNull
                          /\ store.prev[x] \in NoteOrNull /\ store.next[x] \in NoteOrNull
      /\ \A x \in NoteOrNull : store.tails[x] \in NoteOrNull
      /\ Null \in NoteOrNull
  BY CommandTypes
<1>3. ASSUME NEW n \in Notes, NEW m \in Notes,
             \/ CreateNote(n)
             \/ CreateChild(n, m)
             \/ CreateSibling(n, m)
             \/ CreateFilePreviewChild(n, m)
      PROVE  Changed(store, store')
  <2>1. PICK p, prev, next : InsertsAt(n, p, prev, next)
    BY <1>3, CreateAnchors
  <2>2. Created(store, store', n, p, prev, next)
    BY <2>1, InsertCreates
  <2>3. QED
    BY <2>2 DEF Changed
<1>4. ASSUME NEW n \in Notes, Delete(n) PROVE Changed(store, store')
  <2>1. Deleted(store, store', n)
    BY <1>1, <1>4 DEF Delete, DeleteSubtree, Raise, Refuse, Deleted
  <2>2. QED
    BY <2>1 DEF Changed
<1>5. ASSUME NEW n \in Notes, MoveCommand(n) PROVE Changed(store, store')
  BY <1>5, MoveCommandMoves DEF HasMoved, Changed
<1>10. ASSUME NEW S \in SUBSET Notes, Prioritize(S) PROVE Changed(store, store')
  <2>1. PICK First \in {S, Notes \ S} : \E q \in Regrouped(store, Siblings(store, Null), First) :
               store' = Hydrated(LinkInOrder(store, q)) \/ Raise
    BY <1>10 DEF Prioritize
  <2>2. \E q : Reordered(store, store', First, q)
    BY <1>1, <2>1 DEF Reordered, Raise
  <2>3. First \in SUBSET Notes
    BY <2>1
  <2>4. QED
    BY <2>2, <2>3 DEF Changed
<1>11. ASSUME NEW n \in Notes, NEW c \in BOOLEAN, SetCollapse(n, c) PROVE Changed(store, store')
  <2>1. store' = SetCollapsed(store, n, c)
    BY <1>11 DEF SetCollapse, CollapseNote, Refuse
  <2>2. Flagged(store, store')
    BY <1>2, <2>1 DEF Flagged, SetCollapsed, Stores
  <2>3. QED
    BY <2>2 DEF Changed
<1>12. QED
  BY <1>3, <1>4, <1>5, <1>10, <1>11 DEF Command, MoveCommand

\* A command starts when no request is in progress, and commits nothing itself.
LEMMA CommandKeeps ==
  ASSUME StoreInv, Command
  PROVE  phase = "idle" /\ phase' = "applied" /\ db' = db
<1>1. phase' = "applied"
  BY CommandApplies
<1>2. phase = "idle" /\ Ready
  BY DEF Command, CreateNote, CreateChild, CreateSibling, CreateFilePreviewChild, Delete, Move,
         Indent, Outdent, MoveToTop, MoveToBottom, Prioritize, SetCollapse, Ready
<1>3. db' = db
  BY DEF Command, CreateNote, CreateChild, CreateSibling, CreateFilePreviewChild, Delete, Move,
         Indent, Outdent, MoveToTop, MoveToBottom, Prioritize, SetCollapse,
         InsertNote, MoveNote, DeleteSubtree, CollapseNote, Applied, Raise, Refuse
<1>4. QED
  BY <1>1, <1>2, <1>3
=============================================================================
