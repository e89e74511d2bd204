------------------------- MODULE NoteOrdering_proofs -------------------------
(***************************************************************************)
(* Lemmas about the operators of NoteOrdering: what they return, and what    *)
(* they preserve.                                                            *)
(***************************************************************************)
EXTENDS NoteOrdering, FiniteSetTheorems, TLAPS

-----------------------------------------------------------------------------
(***************************************************************************)
(* What the operators return.                                                *)
(***************************************************************************)

LEMMA ExpandedType == Expanded \in BOOLEAN
BY DEF Expanded

\* The empty vault is a table, and the columns of a store are one.
LEMMA EmptyTableType == EmptyTable \in Tables
BY ExpandedType DEF EmptyTable, Tables, NoteOrNull

LEMMA ColumnsType == ASSUME NEW s \in Stores PROVE Columns(s) \in Tables
BY DEF Columns, Stores, Tables

\* A loaded store is a store.
LEMMA HydratedType == ASSUME NEW t \in Tables PROVE Hydrated(t) \in Stores
<1>1. ASSUME NEW p \in NoteOrNull, NEW link PROVE EndOf(t, p, link) \in NoteOrNull
  BY DEF EndOf, Siblings, Tables, NoteOrNull
<1>2. QED
  BY <1>1 DEF Hydrated, Stores, Tables

\* move_notes rebuilds the index of a store.
LEMMA HydratedOfStore == ASSUME NEW s \in Stores PROVE Hydrated(s) \in Stores
<1>1. ASSUME NEW p \in NoteOrNull, NEW link PROVE EndOf(s, p, link) \in NoteOrNull
  BY DEF EndOf, Siblings, Stores, NoteOrNull
<1>2. QED
  BY <1>1 DEF Hydrated, Stores

\* An appended or inserted record, linked in or out, leaves a store.
LEMMA AddNoteType ==
  ASSUME NEW s \in Stores, NEW n \in Notes, NEW p \in NoteOrNull, NEW c \in BOOLEAN
  PROVE  AddNote(s, n, p, c) \in Stores
BY DEF AddNote, Stores

LEMMA ResolvedType ==
  ASSUME NEW s \in Stores, NEW p \in NoteOrNull,
         NEW prev \in NoteOrNull, NEW next \in NoteOrNull
  PROVE  /\ ResolvedPrev(s, p, prev, next) \in NoteOrNull
         /\ ResolvedNext(s, p, prev, next) \in NoteOrNull
BY DEF ResolvedPrev, ResolvedNext, Stores, NoteOrNull

LEMMA LinkInType ==
  ASSUME NEW s \in Stores, NEW n \in Notes, NEW p \in NoteOrNull,
         NEW prev \in NoteOrNull, NEW next \in NoteOrNull
  PROVE  LinkIn(s, n, p, prev, next) \in Stores
BY DEF LinkIn, Stores, NoteOrNull

LEMMA LinkOutType ==
  ASSUME NEW s \in Stores, NEW n \in Notes
  PROVE  LinkOut(s, n) \in Stores
BY DEF LinkOut, Stores, NoteOrNull

LEMMA DropType ==
  ASSUME NEW s \in Stores, NEW D
  PROVE  DropLists(DropNotes(s, D), D) \in Stores
<1>1. DropNotes(s, D) \in Stores
  BY ExpandedType DEF DropNotes, Stores, NoteOrNull
<1>2. QED
  BY <1>1 DEF DropLists, Stores, NoteOrNull

LEMMA SetCollapsedType ==
  ASSUME NEW n \in Notes, NEW c \in BOOLEAN
  PROVE  /\ \A s \in Stores : SetCollapsed(s, n, c) \in Stores
         /\ \A t \in Tables : SetCollapsed(t, n, c) \in Tables
BY DEF SetCollapsed, Stores, Tables

\* So do the SQL statements leave a table.
LEMMA UpdateType ==
  ASSUME NEW t \in Tables, NEW n, NEW value \in NoteOrNull
  PROVE  UpdatePrev(t, n, value) \in Tables /\ UpdateNext(t, n, value) \in Tables
BY DEF UpdatePrev, UpdateNext, Tables

LEMMA InsertRowType ==
  ASSUME NEW t \in Tables, NEW n \in Notes, NEW p \in NoteOrNull,
         NEW prev \in NoteOrNull, NEW next \in NoteOrNull, NEW c \in BOOLEAN
  PROVE  InsertRow(t, n, p, prev, next, c) \in Tables
<1> DEFINE row == [AddNote(t, n, p, c) EXCEPT
                      !.prev = [@ EXCEPT ![n] = prev], !.next = [@ EXCEPT ![n] = next]]
<1>1. row \in Tables
  BY DEF AddNote, Tables
<1>2. n \in NoteOrNull
  BY DEF NoteOrNull
<1> HIDE DEF row
<1>3. UpdateNext(row, prev, n) \in Tables
  BY <1>1, <1>2, UpdateType
<1>4. UpdatePrev(UpdateNext(row, prev, n), next, n) \in Tables
  BY <1>2, <1>3, UpdateType
<1>5. QED
  BY <1>4 DEF InsertRow, row

LEMMA MoveRowType ==
  ASSUME NEW t \in Tables, NEW n \in Notes,
         NEW oldPrev \in NoteOrNull, NEW oldNext \in NoteOrNull, NEW p \in NoteOrNull,
         NEW prev \in NoteOrNull, NEW next \in NoteOrNull
  PROVE  MoveRow(t, n, oldPrev, oldNext, p, prev, next) \in Tables
<1> DEFINE closed == UpdatePrev(UpdateNext(t, oldPrev, oldNext), oldNext, oldPrev)
           placed == [closed EXCEPT !.parent = [@ EXCEPT ![n] = p],
                                    !.prev = [@ EXCEPT ![n] = prev],
                                    !.next = [@ EXCEPT ![n] = next]]
<1>1. n \in NoteOrNull
  BY DEF NoteOrNull
<1>2. closed \in Tables
  BY UpdateType
<1>3. placed \in Tables
  <2> HIDE DEF closed
  <2> QED  BY <1>2 DEF Tables
<1> HIDE DEF placed
<1>4. UpdatePrev(UpdateNext(placed, prev, n), next, n) \in Tables
  BY <1>1, <1>3, UpdateType
<1>5. QED
  BY <1>4 DEF MoveRow, placed

LEMMA DeleteRowsType ==
  ASSUME NEW t \in Tables, NEW D,
         NEW oldPrev \in NoteOrNull, NEW oldNext \in NoteOrNull
  PROVE  DeleteRows(t, D, oldPrev, oldNext) \in Tables
<1>1. UpdatePrev(UpdateNext(t, oldPrev, oldNext), oldNext, oldPrev) \in Tables
  BY UpdateType
<1>2. ASSUME NEW u \in Tables PROVE DropNotes(u, D) \in Tables
  BY ExpandedType DEF DropNotes, Tables, NoteOrNull
<1>3. QED
  BY <1>1, <1>2 DEF DeleteRows

\* Relinking a set of notes in a new order.
LEMMA LinkInOrderType ==
  ASSUME NEW R \in SUBSET Notes, NEW q \in Orders(R)
  PROVE  /\ \A s \in Stores : LinkInOrder(s, q) \in Stores
         /\ \A t \in Tables : LinkInOrder(t, q) \in Tables
<1>1. Cardinality(R) \in Nat
  BY NotesAssumption, FS_Subset, FS_CardinalityType
<1>2. q \in Seq(Notes) /\ DOMAIN q = 1..Len(q) /\ Len(q) \in Nat
  BY <1>1 DEF Orders
<1> DEFINE At(n) == CHOOSE i \in DOMAIN q : q[i] = n
           Listed == {q[i] : i \in DOMAIN q}
<1>3. ASSUME NEW n \in Listed
      PROVE  /\ At(n) \in 1..Len(q)
             /\ At(n) # 1 => q[At(n) - 1] \in Notes
             /\ At(n) # Len(q) => q[At(n) + 1] \in Notes
  <2>1. PICK i \in DOMAIN q : q[i] = n
    OBVIOUS
  <2>2. At(n) \in 1..Len(q)
    BY <1>2, <2>1
  <2> HIDE DEF At
  <2>3. QED
    BY <1>2, <2>2
<1> DEFINE newPrev(n) == IF At(n) = 1 THEN Null ELSE q[At(n) - 1]
           newNext(n) == IF At(n) = Len(q) THEN Null ELSE q[At(n) + 1]
<1>4. \A n \in Listed : newPrev(n) \in NoteOrNull /\ newNext(n) \in NoteOrNull
  BY <1>3 DEF NoteOrNull
<1> HIDE DEF newPrev, newNext, Listed
<1> DEFINE prevs(t) == [n \in Notes |-> IF n \notin Listed THEN t.prev[n] ELSE newPrev(n)]
           nexts(t) == [n \in Notes |-> IF n \notin Listed THEN t.next[n] ELSE newNext(n)]
<1>5. ASSUME NEW t
      PROVE  LinkInOrder(t, q) = [t EXCEPT !.prev = prevs(t), !.next = nexts(t)]
  BY DEF LinkInOrder, newPrev, newNext, Listed
<1>6. ASSUME NEW s \in Stores PROVE LinkInOrder(s, q) \in Stores
  <2>1. prevs(s) \in [Notes -> NoteOrNull] /\ nexts(s) \in [Notes -> NoteOrNull]
    BY <1>4 DEF Stores
  <2>2. LinkInOrder(s, q) = [s EXCEPT !.prev = prevs(s), !.next = nexts(s)]
    BY <1>5
  <2> HIDE DEF prevs, nexts
  <2>3. QED
    BY <2>1, <2>2 DEF Stores
<1>7. ASSUME NEW t \in Tables PROVE LinkInOrder(t, q) \in Tables
  <2>1. prevs(t) \in [Notes -> NoteOrNull] /\ nexts(t) \in [Notes -> NoteOrNull]
    BY <1>4 DEF Tables
  <2>2. LinkInOrder(t, q) = [t EXCEPT !.prev = prevs(t), !.next = nexts(t)]
    BY <1>5
  <2> HIDE DEF prevs, nexts
  <2>3. QED
    BY <2>1, <2>2 DEF Tables
<1>8. QED
  BY <1>6, <1>7

-----------------------------------------------------------------------------
(***************************************************************************)
(* Linking in and out keeps every sibling list one chain.                    *)
(***************************************************************************)

\* Where a note may be linked in: between two neighbours of the list of p, at an
\* end of it, or alone when the list is empty.
Gap(s, I, p, prev, next) ==
    /\ prev # Null => prev \in I /\ s.parent[prev] = p /\ s.next[prev] = next
    /\ next # Null => next \in I /\ s.parent[next] = p /\ s.prev[next] = prev
    /\ prev = Null /\ next = Null => \A m \in I : s.parent[m] # p

LEMMA LinkInFields ==
  ASSUME NEW s \in Stores, NEW n \in Notes, NEW p \in NoteOrNull,
         NEW prev \in NoteOrNull, NEW next \in NoteOrNull,
         NEW u, u = LinkIn(s, n, p, prev, next)
  PROVE  /\ u.ids = s.ids /\ u.parent = s.parent /\ u.collapsed = s.collapsed
         /\ \A m \in Notes :
               /\ u.prev[m] = IF m = n THEN prev ELSE IF m = next THEN n ELSE s.prev[m]
               /\ u.next[m] = IF m = n THEN next ELSE IF m = prev THEN n ELSE s.next[m]
         /\ \A q \in NoteOrNull :
               /\ u.heads[q] = IF q = p /\ prev = Null THEN n ELSE s.heads[q]
               /\ u.tails[q] = IF q = p /\ next = Null THEN n ELSE s.tails[q]
BY DEF LinkIn, Stores

LEMMA LinkInOrdered ==
  ASSUME NEW s \in Stores, NEW I \in SUBSET Notes, NEW n \in Notes \ I, NEW p \in NoteOrNull,
         NEW prev \in NoteOrNull, NEW next \in NoteOrNull,
         Ordered(s, I), s.parent[n] = p, Gap(s, I, p, prev, next)
  PROVE  Ordered(LinkIn(s, n, p, prev, next), I \cup {n})
<1> DEFINE u == LinkIn(s, n, p, prev, next)
           J == I \cup {n}
<1>1. /\ u.parent = s.parent
      /\ \A m \in Notes :
            /\ u.prev[m] = IF m = n THEN prev ELSE IF m = next THEN n ELSE s.prev[m]
            /\ u.next[m] = IF m = n THEN next ELSE IF m = prev THEN n ELSE s.next[m]
  BY LinkInFields
<1>2. Null \notin Notes
  BY NullAssumption
<1> HIDE DEF u
<1>3. \A m \in I : s.prev[m] # n /\ s.next[m] # n
  BY <1>2 DEF Ordered, Reciprocal
<1>4. Reciprocal(u, J)
  BY <1>1, <1>2, <1>3 DEF Ordered, Reciprocal, Gap
<1>5. SingleBoundaries(u, J)
  <2> SUFFICES ASSUME NEW m \in J, NEW k \in J, u.parent[m] = u.parent[k], m # k
               PROVE  /\ ~(u.prev[m] = Null /\ u.prev[k] = Null)
                      /\ ~(u.next[m] = Null /\ u.next[k] = Null)
    BY DEF SingleBoundaries
  <2>1. CASE m # n /\ k # n
    BY <1>1, <1>2, <2>1 DEF Ordered, SingleBoundaries
  <2>2. ASSUME NEW x \in I, s.parent[x] = p
        PROVE  /\ prev = Null => u.prev[x] # Null
               /\ next = Null => u.next[x] # Null
    BY <1>1, <1>2, <2>2 DEF Ordered, SingleBoundaries, Gap
  <2>3. CASE m = n
    BY <1>1, <2>2, <2>3
  <2>4. CASE k = n
    BY <1>1, <2>2, <2>4
  <2>5. QED
    BY <2>1, <2>3, <2>4
<1>6. NoRings(u, J)
  <2> SUFFICES ASSUME NEW S \in SUBSET J, S # {}
               PROVE  (\E m \in S : u.prev[m] \notin S) /\ (\E m \in S : u.next[m] \notin S)
    BY DEF NoRings
  <2>1. n \in Notes /\ J \subseteq Notes /\ S \ {n} \in SUBSET I
    OBVIOUS
  <2>2. CASE S \ {n} = {}
    <3>1. S = {n}
      BY <2>2
    <3>2. prev # n /\ next # n
      BY <1>2 DEF Gap
    <3>3. QED
      BY <1>1, <3>1, <3>2
  <2>3. CASE S \ {n} # {}
    <3>1. PICK m \in S \ {n} : s.prev[m] \notin S \ {n}
      BY <2>1, <2>3 DEF Ordered, NoRings
    <3>2. PICK k \in S \ {n} : s.next[k] \notin S \ {n}
      BY <2>1, <2>3 DEF Ordered, NoRings
    <3>3. \E x \in S : u.prev[x] \notin S
      <4>1. CASE m = next /\ n \in S
        BY <1>1, <1>2, <2>1, <3>1, <4>1 DEF Gap
      <4>2. CASE ~(m = next /\ n \in S)
        BY <1>1, <1>3, <2>1, <3>1, <4>2
      <4>3. QED
        BY <4>1, <4>2
    <3>4. \E x \in S : u.next[x] \notin S
      <4>1. CASE k = prev /\ n \in S
        BY <1>1, <1>2, <2>1, <3>2, <4>1 DEF Gap
      <4>2. CASE ~(k = prev /\ n \in S)
        BY <1>1, <1>3, <2>1, <3>2, <4>2
      <4>3. QED
        BY <4>1, <4>2
    <3>5. QED
      BY <3>3, <3>4
  <2>4. QED
    BY <2>2, <2>3
<1>7. QED
  BY <1>4, <1>5, <1>6 DEF Ordered, u

LEMMA LinkInIndex ==
  ASSUME NEW s \in Stores, NEW I \in SUBSET Notes, NEW n \in Notes \ I, NEW p \in NoteOrNull,
         NEW prev \in NoteOrNull, NEW next \in NoteOrNull,
         Ordered(s, I), IndexMatches(s, I), s.parent[n] = p, Gap(s, I, p, prev, next)
  PROVE  IndexMatches(LinkIn(s, n, p, prev, next), I \cup {n})
<1> DEFINE u == LinkIn(s, n, p, prev, next)
<1>1. /\ u.parent = s.parent
      /\ \A m \in Notes :
            /\ u.prev[m] = IF m = n THEN prev ELSE IF m = next THEN n ELSE s.prev[m]
            /\ u.next[m] = IF m = n THEN next ELSE IF m = prev THEN n ELSE s.next[m]
      /\ \A q \in NoteOrNull :
            /\ u.heads[q] = IF q = p /\ prev = Null THEN n ELSE s.heads[q]
            /\ u.tails[q] = IF q = p /\ next = Null THEN n ELSE s.tails[q]
  BY LinkInFields
<1>2. Null \notin Notes
  BY NullAssumption
<1> HIDE DEF u
<1> SUFFICES ASSUME NEW q \in NoteOrNull
             PROVE  LET list == {m \in I \cup {n} : u.parent[m] = q}
                    IN  /\ list = {} => u.heads[q] = Null /\ u.tails[q] = Null
                        /\ list # {} => /\ u.heads[q] \in list /\ u.prev[u.heads[q]] = Null
                                        /\ u.tails[q] \in list /\ u.next[u.tails[q]] = Null
  BY DEF IndexMatches, u
<1> DEFINE old == {m \in I : s.parent[m] = q}
           list == {m \in I \cup {n} : u.parent[m] = q}
<1>3. /\ old = {} => s.heads[q] = Null /\ s.tails[q] = Null
      /\ old # {} => /\ s.heads[q] \in old /\ s.prev[s.heads[q]] = Null
                     /\ s.tails[q] \in old /\ s.next[s.tails[q]] = Null
  BY DEF IndexMatches
<1>4. CASE q # p
  <2>1. list = old
    BY <1>1, <1>4
  <2>2. \A m \in old : u.prev[m] = s.prev[m] /\ u.next[m] = s.next[m]
    BY <1>1, <1>2, <1>4 DEF Gap
  <2>3. QED
    BY <1>1, <1>3, <1>4, <2>1, <2>2
<1>5. CASE q = p
  <2>1. list = old \cup {n}
    BY <1>1, <1>5
  <2>2. u.heads[q] \in list /\ u.prev[u.heads[q]] = Null
    <3>1. CASE prev = Null
      BY <1>1, <1>5, <2>1, <3>1
    <3>2. CASE prev # Null
      <4>1. u.heads[q] = s.heads[q] /\ s.heads[q] \in old /\ s.prev[s.heads[q]] = Null
        BY <1>1, <1>3, <1>5, <3>2 DEF Gap
      <4>2. s.heads[q] # next
        BY <3>2, <4>1, <1>2 DEF Gap
      <4>3. QED
        BY <1>1, <2>1, <4>1, <4>2
    <3>3. QED
      BY <3>1, <3>2
  <2>3. u.tails[q] \in list /\ u.next[u.tails[q]] = Null
    <3>1. CASE next = Null
      BY <1>1, <1>5, <2>1, <3>1
    <3>2. CASE next # Null
      <4>1. u.tails[q] = s.tails[q] /\ s.tails[q] \in old /\ s.next[s.tails[q]] = Null
        BY <1>1, <1>3, <1>5, <3>2 DEF Gap
      <4>2. s.tails[q] # prev
        BY <3>2, <4>1, <1>2 DEF Gap
      <4>3. QED
        BY <1>1, <2>1, <4>1, <4>2
    <3>3. QED
      BY <3>1, <3>2
  <2>4. QED
    BY <2>1, <2>2, <2>3
<1>6. QED
  BY <1>4, <1>5

LEMMA LinkOutFields ==
  ASSUME NEW s \in Stores, NEW n \in Notes, NEW u, u = LinkOut(s, n)
  PROVE  /\ u.ids = s.ids /\ u.parent = s.parent /\ u.collapsed = s.collapsed
         /\ \A m \in Notes :
               /\ u.prev[m] = IF m = s.next[n] THEN s.prev[n] ELSE s.prev[m]
               /\ u.next[m] = IF m = s.prev[n] THEN s.next[n] ELSE s.next[m]
         /\ \A q \in NoteOrNull :
               /\ u.heads[q] = IF q = s.parent[n] /\ s.prev[n] = Null THEN s.next[n] ELSE s.heads[q]
               /\ u.tails[q] = IF q = s.parent[n] /\ s.next[n] = Null THEN s.prev[n] ELSE s.tails[q]
BY DEF LinkOut, Stores

LEMMA LinkOutOrdered ==
  ASSUME NEW s \in Stores, NEW I \in SUBSET Notes, NEW n \in I, Ordered(s, I)
  PROVE  Ordered(LinkOut(s, n), I \ {n})
<1> DEFINE u == LinkOut(s, n)
           J == I \ {n}
<1>1. /\ u.parent = s.parent
      /\ \A m \in Notes :
            /\ u.prev[m] = IF m = s.next[n] THEN s.prev[n] ELSE s.prev[m]
            /\ u.next[m] = IF m = s.prev[n] THEN s.next[n] ELSE s.next[m]
  BY LinkOutFields
<1>2. Null \notin Notes
  BY NullAssumption
<1>3. Reciprocal(s, I) /\ SingleBoundaries(s, I) /\ NoRings(s, I)
  BY DEF Ordered
<1> HIDE DEF u
<1>4. /\ s.prev[n] # n /\ s.next[n] # n
      /\ s.prev[n] # Null => s.prev[n] # s.next[n]
  <2>1. {n} \in SUBSET I /\ {n, s.prev[n]} \in SUBSET (I \cup {Null})
    BY <1>3 DEF Reciprocal
  <2>2. s.prev[n] # n /\ s.next[n] # n
    BY <1>3, <2>1 DEF NoRings
  <2>3. ASSUME s.prev[n] # Null, s.prev[n] = s.next[n] PROVE FALSE
    <3>1. {n, s.prev[n]} \in SUBSET I
      BY <1>3, <2>3 DEF Reciprocal
    <3>2. s.prev[s.prev[n]] = n
      BY <1>3, <2>3 DEF Reciprocal
    <3>3. QED
      BY <1>3, <3>1, <3>2 DEF NoRings
  <2>4. QED
    BY <2>2, <2>3
<1>5. Reciprocal(u, J)
  BY <1>1, <1>2, <1>3, <1>4 DEF Reciprocal
<1>6. SingleBoundaries(u, J)
  <2> SUFFICES ASSUME NEW m \in J, NEW k \in J, u.parent[m] = u.parent[k], m # k
               PROVE  /\ ~(u.prev[m] = Null /\ u.prev[k] = Null)
                      /\ ~(u.next[m] = Null /\ u.next[k] = Null)
    BY DEF SingleBoundaries
  <2>1. ASSUME NEW x \in J, NEW y \in J, x # y, s.parent[x] = s.parent[y],
               u.prev[x] = Null, u.prev[y] = Null
        PROVE  FALSE
    BY <1>1, <1>2, <1>3, <2>1 DEF SingleBoundaries, Reciprocal
  <2>2. ASSUME NEW x \in J, NEW y \in J, x # y, s.parent[x] = s.parent[y],
               u.next[x] = Null, u.next[y] = Null
        PROVE  FALSE
    BY <1>1, <1>2, <1>3, <2>2 DEF SingleBoundaries, Reciprocal
  <2>3. QED
    BY <1>1, <2>1, <2>2
<1>7. NoRings(u, J)
  <2> SUFFICES ASSUME NEW S \in SUBSET J, S # {}
               PROVE  (\E m \in S : u.prev[m] \notin S) /\ (\E m \in S : u.next[m] \notin S)
    BY DEF NoRings
  <2>1. S \in SUBSET I /\ S \cup {n} \in SUBSET I /\ S \subseteq Notes /\ n \notin S
    OBVIOUS
  <2>2. \E m \in S : u.prev[m] \notin S
    <3>1. CASE s.next[n] \in S
      <4>1. PICK m \in S \cup {n} : s.prev[m] \notin S \cup {n}
        BY <1>3, <2>1 DEF NoRings
      <4>2. s.prev[s.next[n]] = n
        BY <1>2, <1>3, <2>1, <3>1 DEF Reciprocal
      <4>3. QED
        BY <1>1, <2>1, <3>1, <4>1, <4>2
    <3>2. CASE s.next[n] \notin S
      <4>1. PICK m \in S : s.prev[m] \notin S
        BY <1>3, <2>1 DEF NoRings
      <4>2. QED
        BY <1>1, <2>1, <3>2, <4>1
    <3>3. QED
      BY <3>1, <3>2
  <2>3. \E m \in S : u.next[m] \notin S
    <3>1. CASE s.prev[n] \in S
      <4>1. PICK m \in S \cup {n} : s.next[m] \notin S \cup {n}
        BY <1>3, <2>1 DEF NoRings
      <4>2. s.next[s.prev[n]] = n
        BY <1>2, <1>3, <2>1, <3>1 DEF Reciprocal
      <4>3. QED
        BY <1>1, <2>1, <3>1, <4>1, <4>2
    <3>2. CASE s.prev[n] \notin S
      <4>1. PICK m \in S : s.next[m] \notin S
        BY <1>3, <2>1 DEF NoRings
      <4>2. QED
        BY <1>1, <2>1, <3>2, <4>1
    <3>3. QED
      BY <3>1, <3>2
  <2>4. QED
    BY <2>2, <2>3
<1>8. QED
  BY <1>5, <1>6, <1>7 DEF Ordered, u

\* A note with neither neighbour is alone in its list: the others would be a ring.
LEMMA AloneInList ==
  ASSUME NEW s \in Stores, NEW I \in SUBSET Notes, NEW n \in I, Ordered(s, I),
         s.prev[n] = Null, s.next[n] = Null
  PROVE  \A m \in I : s.parent[m] = s.parent[n] => m = n
<1> DEFINE S == {m \in I : s.parent[m] = s.parent[n] /\ m # n}
<1>1. Null \notin Notes
  BY NullAssumption
<1>2. \A m \in S : s.prev[m] \in S
  BY <1>1 DEF Ordered, Reciprocal, SingleBoundaries
<1>3. S \in SUBSET I
  OBVIOUS
<1> HIDE DEF S
<1>4. S = {}
  BY <1>2, <1>3 DEF Ordered, NoRings
<1>5. QED
  BY <1>4 DEF S

LEMMA LinkOutIndex ==
  ASSUME NEW s \in Stores, NEW I \in SUBSET Notes, NEW n \in I,
         Ordered(s, I), IndexMatches(s, I)
  PROVE  IndexMatches(LinkOut(s, n), I \ {n})
<1> DEFINE u == LinkOut(s, n)
<1>1. /\ u.parent = s.parent
      /\ \A m \in Notes :
            /\ u.prev[m] = IF m = s.next[n] THEN s.prev[n] ELSE s.prev[m]
            /\ u.next[m] = IF m = s.prev[n] THEN s.next[n] ELSE s.next[m]
      /\ \A q \in NoteOrNull :
            /\ u.heads[q] = IF q = s.parent[n] /\ s.prev[n] = Null THEN s.next[n] ELSE s.heads[q]
            /\ u.tails[q] = IF q = s.parent[n] /\ s.next[n] = Null THEN s.prev[n] ELSE s.tails[q]
  BY LinkOutFields
<1>2. Null \notin Notes
  BY NullAssumption
<1>3. Reciprocal(s, I)
  BY DEF Ordered
<1> HIDE DEF u
<1> SUFFICES ASSUME NEW q \in NoteOrNull
             PROVE  LET list == {m \in I \ {n} : u.parent[m] = q}
                    IN  /\ list = {} => u.heads[q] = Null /\ u.tails[q] = Null
                        /\ list # {} => /\ u.heads[q] \in list /\ u.prev[u.heads[q]] = Null
                                        /\ u.tails[q] \in list /\ u.next[u.tails[q]] = Null
  BY DEF IndexMatches, u
<1> DEFINE old == {m \in I : s.parent[m] = q}
           list == {m \in I \ {n} : u.parent[m] = q}
<1>4. /\ old = {} => s.heads[q] = Null /\ s.tails[q] = Null
      /\ old # {} => /\ s.heads[q] \in old /\ s.prev[s.heads[q]] = Null
                     /\ s.tails[q] \in old /\ s.next[s.tails[q]] = Null
  BY DEF IndexMatches
<1>5. CASE q # s.parent[n]
  <2>1. list = old
    BY <1>1, <1>5
  <2>2. \A m \in old : u.prev[m] = s.prev[m] /\ u.next[m] = s.next[m]
    BY <1>1, <1>2, <1>3, <1>5 DEF Reciprocal
  <2>3. QED
    BY <1>1, <1>4, <1>5, <2>1, <2>2
<1>6. CASE q = s.parent[n]
  <2>1. list = old \ {n} /\ n \in old
    BY <1>1, <1>6
  <2>2. CASE s.prev[n] = Null /\ s.next[n] = Null
    <3>1. list = {}
      BY <2>1, <2>2, <1>6, AloneInList
    <3>2. QED
      BY <1>1, <1>6, <2>2, <3>1
  <2>3. CASE s.prev[n] = Null /\ s.next[n] # Null
    <3>1. s.next[n] \in old /\ s.next[n] # n /\ s.prev[s.next[n]] = n
      BY <1>2, <1>3, <1>6, <2>3 DEF Reciprocal
    <3>2. u.heads[q] = s.next[n] /\ u.prev[s.next[n]] = Null
      BY <1>1, <1>6, <2>3, <3>1
    <3>3. u.tails[q] = s.tails[q] /\ s.tails[q] # n /\ u.next[s.tails[q]] = Null
      BY <1>1, <1>2, <1>4, <1>6, <2>1, <2>3
    <3>4. QED
      BY <1>4, <2>1, <3>1, <3>2, <3>3
  <2>4. CASE s.prev[n] # Null /\ s.next[n] = Null
    <3>1. s.prev[n] \in old /\ s.prev[n] # n /\ s.next[s.prev[n]] = n
      BY <1>2, <1>3, <1>6, <2>4 DEF Reciprocal
    <3>2. u.tails[q] = s.prev[n] /\ u.next[s.prev[n]] = Null
      BY <1>1, <1>6, <2>4, <3>1
    <3>3. u.heads[q] = s.heads[q] /\ s.heads[q] # n /\ u.prev[s.heads[q]] = Null
      BY <1>1, <1>2, <1>4, <1>6, <2>1, <2>4
    <3>4. QED
      BY <1>4, <2>1, <3>1, <3>2, <3>3
  <2>5. CASE s.prev[n] # Null /\ s.next[n] # Null
    <3>1. /\ s.heads[q] \in old \ {n} /\ s.heads[q] # s.next[n]
          /\ s.tails[q] \in old \ {n} /\ s.tails[q] # s.prev[n]
      BY <1>2, <1>3, <1>4, <2>1, <2>5 DEF Reciprocal
    <3>2. QED
      BY <1>1, <1>4, <2>1, <2>5, <3>1
  <2>6. QED
    BY <2>2, <2>3, <2>4, <2>5
<1>7. QED
  BY <1>5, <1>6

-----------------------------------------------------------------------------
(***************************************************************************)
(* Subtrees, and the hierarchy they hang in.                                 *)
(***************************************************************************)

\* A subtree holds its root and all children of its members, and every other
\* member hangs under a member; it lies in every set closed that way.
LEMMA SubtreeClosed ==
  ASSUME NEW t, t.ids \subseteq Notes, NEW n \in t.ids
  PROVE  /\ n \in Subtree(t, n)
         /\ Subtree(t, n) \subseteq t.ids
         /\ \A c \in t.ids : t.parent[c] \in Subtree(t, n) => c \in Subtree(t, n)
BY DEF Subtree

LEMMA SubtreeLeast ==
  ASSUME NEW t, NEW n, NEW S \in SUBSET Notes, n \in S,
         \A c \in t.ids : t.parent[c] \in S => c \in S
  PROVE  Subtree(t, n) \subseteq S
BY DEF Subtree

LEMMA SubtreeUnder ==
  ASSUME NEW t, t.ids \subseteq Notes, NEW n \in t.ids, NEW m \in Subtree(t, n), m # n
  PROVE  t.parent[m] \in Subtree(t, n)
<1> DEFINE D == Subtree(t, n)
           S == {x \in D : x = n \/ t.parent[x] \in D}
<1>1. n \in S /\ S \in SUBSET Notes
  BY SubtreeClosed
<1>2. \A c \in t.ids : t.parent[c] \in S => c \in S
  BY SubtreeClosed
<1> HIDE DEF S
<1>3. D \subseteq S
  BY <1>1, <1>2, SubtreeLeast
<1>4. QED
  BY <1>3 DEF S

\* The depths of a valid hierarchy.
LEMMA DepthsDefined ==
  ASSUME NEW t, HierarchyValid(t)
  PROVE  Depths(t) \in [t.ids -> 1..MaxDepth] /\ IsDepthMap(t, Depths(t))
BY DEF HierarchyValid, Depths

\* Validity and subtrees are read off ids and parent alone.
LEMMA SameHierarchy ==
  ASSUME NEW t, NEW u, u.ids = t.ids, u.parent = t.parent
  PROVE  /\ HierarchyValid(u) = HierarchyValid(t)
         /\ Depths(u) = Depths(t)
         /\ \A n : Subtree(u, n) = Subtree(t, n)
         /\ \A p : DepthOf(u, p) = DepthOf(t, p)
<1>1. \A d : IsDepthMap(u, d) <=> IsDepthMap(t, d)
  BY DEF IsDepthMap
<1>2. Depths(u) = Depths(t)
  BY <1>1 DEF Depths
<1>3. HierarchyValid(u) = HierarchyValid(t)
  BY <1>1 DEF HierarchyValid
<1>4. \A n : Subtree(u, n) = Subtree(t, n)
  BY DEF Subtree
<1>5. QED
  BY <1>2, <1>3, <1>4 DEF DepthOf

\* A new note where validate_database_parent allows it.
LEMMA HierarchyWithNew ==
  ASSUME NEW t, NEW u, t.ids \subseteq Notes, HierarchyValid(t),
         NEW n \in Notes \ t.ids, NEW p \in NoteOrNull, NewParentAllowed(t, p),
         u.ids = t.ids \cup {n}, u.parent[n] = p,
         \A m \in t.ids : u.parent[m] = t.parent[m]
  PROVE  HierarchyValid(u)
<1> DEFINE d == Depths(t)
           e == [m \in u.ids |-> IF m = n THEN DepthOf(t, p) + 1 ELSE d[m]]
<1>1. d \in [t.ids -> 1..MaxDepth] /\ IsDepthMap(t, d)
  BY DepthsDefined
<1>2. DepthOf(t, p) \in Nat /\ DepthOf(t, p) + 1 \in 1..MaxDepth
  BY <1>1, MaxDepthAssumption DEF DepthOf, NewParentAllowed
<1>3. DepthOf(t, p) = IF p = Null THEN 0 ELSE d[p]
  BY DEF DepthOf
<1> HIDE DEF d
<1>4. e \in [u.ids -> 1..MaxDepth]
  BY <1>1, <1>2
<1>5. \A m \in u.ids : u.parent[m] # Null => u.parent[m] \in t.ids
  BY DEF HierarchyValid, NewParentAllowed
<1>6. IsDepthMap(u, e)
  <2> SUFFICES ASSUME NEW m \in u.ids
               PROVE  e[m] = IF u.parent[m] = Null THEN 1 ELSE e[u.parent[m]] + 1
    BY DEF IsDepthMap
  <2>1. u.parent[m] # Null => e[u.parent[m]] = d[u.parent[m]]
    BY <1>5
  <2>2. CASE m = n
    BY <1>2, <1>3, <2>1, <2>2
  <2>3. CASE m # n
    BY <1>1, <2>1, <2>3 DEF IsDepthMap
  <2>4. QED
    BY <2>2, <2>3
<1>7. QED
  BY <1>4, <1>5, <1>6 DEF HierarchyValid

\* A moved note where validate_database_parent allows it.
LEMMA HierarchyWithMoved ==
  ASSUME NEW t, NEW u, t.ids \subseteq Notes, HierarchyValid(t),
         NEW n \in t.ids, NEW p \in NoteOrNull, ParentAllowed(t, n, p),
         u.ids = t.ids, u.parent[n] = p,
         \A m \in t.ids \ {n} : u.parent[m] = t.parent[m]
  PROVE  HierarchyValid(u)
<1> DEFINE d == Depths(t)
           D == Subtree(t, n)
           e == [m \in u.ids |-> IF m \in D THEN DepthOf(t, p) + (d[m] - d[n]) + 1 ELSE d[m]]
<1>1. d \in [t.ids -> 1..MaxDepth] /\ IsDepthMap(t, d)
  BY DepthsDefined
<1>2. /\ n \in D /\ D \subseteq t.ids
      /\ \A c \in t.ids : t.parent[c] \in D => c \in D
      /\ \A m \in D : m # n => t.parent[m] \in D
  BY SubtreeClosed, SubtreeUnder
<1>3. CASE t.parent[n] = p
  <2>1. \A m \in t.ids : u.parent[m] = t.parent[m]
    BY <1>3
  <2>2. IsDepthMap(u, d)
    BY <1>1, <2>1 DEF IsDepthMap
  <2>3. QED
    BY <1>1, <2>1, <2>2 DEF HierarchyValid
<1>4. CASE t.parent[n] # p
  <2>1. /\ p # Null => p \in t.ids \ D
        /\ \A m \in D : DepthOf(t, p) + (d[m] - d[n]) + 1 <= MaxDepth
    BY <1>4 DEF ParentAllowed
  <2>2. DepthOf(t, p) = IF p = Null THEN 0 ELSE d[p]
    BY DEF DepthOf
  <2>3. DepthOf(t, p) \in Nat
    BY <1>1, <2>1, <2>2
  <2>4. \A m \in D : d[m] >= d[n]
    <3> DEFINE S == {m \in D : d[m] >= d[n]}
    <3>1. n \in S /\ S \in SUBSET Notes
      BY <1>1, <1>2
    <3>2. ASSUME NEW c \in t.ids, t.parent[c] \in S PROVE c \in S
      <4>1. t.parent[c] # Null /\ t.parent[c] \in t.ids
        BY <1>2, <3>2, NullAssumption
      <4>2. d[c] = d[t.parent[c]] + 1
        BY <1>1, <4>1 DEF IsDepthMap
      <4>3. d[c] \in Nat /\ d[n] \in Nat /\ d[t.parent[c]] \in Nat
        BY <1>1, <4>1
      <4>4. QED
        BY <1>2, <3>2, <4>2, <4>3
    <3> HIDE DEF S
    <3>3. D \subseteq S
      BY <3>1, <3>2, SubtreeLeast
    <3>4. QED
      BY <3>3 DEF S
  <2> HIDE DEF d, D
  <2>5. \A m \in D : DepthOf(t, p) + (d[m] - d[n]) + 1 \in 1..MaxDepth
    <3> TAKE m \in D
    <3>1. d[m] \in Nat /\ d[n] \in Nat /\ d[m] >= d[n]
      BY <1>1, <1>2, <2>4
    <3>2. QED
      BY <2>1, <2>3, <3>1, MaxDepthAssumption
  <2>6. e \in [u.ids -> 1..MaxDepth]
    BY <1>1, <2>5
  <2>7. \A m \in u.ids : u.parent[m] # Null => u.parent[m] \in u.ids
    BY <2>1 DEF HierarchyValid
  <2>8. IsDepthMap(u, e)
    <3> SUFFICES ASSUME NEW m \in u.ids
                 PROVE  e[m] = IF u.parent[m] = Null THEN 1 ELSE e[u.parent[m]] + 1
      BY DEF IsDepthMap
    <3>1. m \in t.ids /\ d[m] \in Nat /\ d[n] \in Nat
      BY <1>1
    <3>2. CASE m = n
      <4>1. e[m] = DepthOf(t, p) + 1
        BY <1>2, <2>3, <3>1, <3>2
      <4>2. p # Null => e[p] = d[p]
        BY <2>1
      <4>3. QED
        BY <2>2, <3>2, <4>1, <4>2
    <3>3. CASE m # n /\ m \in D
      <4>1. u.parent[m] = t.parent[m] /\ t.parent[m] \in D /\ t.parent[m] # Null
        BY <1>2, <3>1, <3>3, NullAssumption
      <4>2. d[m] = d[t.parent[m]] + 1
        BY <1>1, <3>1, <4>1 DEF IsDepthMap
      <4>3. d[t.parent[m]] \in Nat
        BY <1>1, <1>2, <4>1
      <4>4. /\ e[m] = DepthOf(t, p) + (d[m] - d[n]) + 1
            /\ e[t.parent[m]] = DepthOf(t, p) + (d[t.parent[m]] - d[n]) + 1
        BY <1>2, <3>3, <4>1
      <4>5. QED
        BY <2>3, <3>1, <4>1, <4>2, <4>3, <4>4
    <3>4. CASE m \notin D
      <4>1. m # n /\ u.parent[m] = t.parent[m] /\ t.parent[m] \notin D
        BY <1>2, <3>1, <3>4
      <4>2. t.parent[m] # Null => e[t.parent[m]] = d[t.parent[m]]
        BY <2>7, <4>1
      <4>3. QED
        BY <1>1, <3>4, <4>1, <4>2 DEF IsDepthMap
    <3>5. QED
      BY <3>2, <3>3, <3>4
  <2>9. QED
    BY <2>6, <2>7, <2>8 DEF HierarchyValid
<1>5. QED
  BY <1>3, <1>4

\* A vault without one of its subtrees.
LEMMA HierarchyWithout ==
  ASSUME NEW t, NEW u, t.ids \subseteq Notes, HierarchyValid(t), NEW n \in t.ids,
         u.ids = t.ids \ Subtree(t, n),
         \A m \in u.ids : u.parent[m] = t.parent[m]
  PROVE  HierarchyValid(u)
<1> DEFINE d == Depths(t)
           e == [m \in u.ids |-> d[m]]
<1>1. d \in [t.ids -> 1..MaxDepth] /\ IsDepthMap(t, d)
  BY DepthsDefined
<1>2. \A m \in u.ids : u.parent[m] # Null => u.parent[m] \in u.ids
  BY SubtreeClosed DEF HierarchyValid
<1> HIDE DEF d
<1>3. e \in [u.ids -> 1..MaxDepth]
  BY <1>1
<1>4. IsDepthMap(u, e)
  BY <1>1, <1>2 DEF IsDepthMap
<1>5. QED
  BY <1>2, <1>3, <1>4 DEF HierarchyValid

\* Whole sibling lists leave; the chains and the index of the others stay.
LEMMA DropOrdered ==
  ASSUME NEW s \in Stores, NEW I \in SUBSET Notes, NEW D,
         Ordered(s, I), IndexMatches(s, I),
         \A m \in I : m \in D <=> s.parent[m] \in D
  PROVE  /\ Ordered(DropLists(DropNotes(s, D), D), I \ D)
         /\ IndexMatches(DropLists(DropNotes(s, D), D), I \ D)
<1> DEFINE u == DropLists(DropNotes(s, D), D)
           J == I \ D
<1>1. /\ \A m \in J : u.parent[m] = s.parent[m] /\ u.prev[m] = s.prev[m] /\ u.next[m] = s.next[m]
      /\ \A q \in NoteOrNull :
            /\ u.heads[q] = IF q \in D THEN Null ELSE s.heads[q]
            /\ u.tails[q] = IF q \in D THEN Null ELSE s.tails[q]
  BY DEF DropLists, DropNotes, Stores
<1> HIDE DEF u
<1>2. Reciprocal(u, J)
  BY <1>1 DEF Ordered, Reciprocal
<1>3. SingleBoundaries(u, J)
  BY <1>1 DEF Ordered, SingleBoundaries
<1>4. NoRings(u, J)
  <2> SUFFICES ASSUME NEW S \in SUBSET J, S # {}
               PROVE  (\E m \in S : u.prev[m] \notin S) /\ (\E m \in S : u.next[m] \notin S)
    BY DEF NoRings
  <2>1. S \in SUBSET I
    OBVIOUS
  <2>2. QED
    BY <1>1, <2>1 DEF Ordered, NoRings
<1>5. IndexMatches(u, J)
  <2> SUFFICES ASSUME NEW q \in NoteOrNull
               PROVE  LET list == {m \in J : u.parent[m] = q}
                      IN  /\ list = {} => u.heads[q] = Null /\ u.tails[q] = Null
                          /\ list # {} => /\ u.heads[q] \in list /\ u.prev[u.heads[q]] = Null
                                          /\ u.tails[q] \in list /\ u.next[u.tails[q]] = Null
    BY DEF IndexMatches
  <2> DEFINE list == {m \in J : u.parent[m] = q}
  <2>1. CASE q \in D
    BY <1>1, <2>1
  <2>2. CASE q \notin D
    <3>1. list = {m \in I : s.parent[m] = q}
      BY <1>1, <2>2
    <3>2. QED
      BY <1>1, <2>2, <3>1 DEF IndexMatches
  <2>3. QED
    BY <2>1, <2>2
<1>6. QED
  BY <1>2, <1>3, <1>4, <1>5 DEF Ordered, u

-----------------------------------------------------------------------------
(***************************************************************************)
(* Memory and rows: what a load builds, and that the SQL statements change    *)
(* the columns exactly as the store's operations do.                         *)
(***************************************************************************)

\* Nonempty lists of ordered notes have both ends.
LEMMA EndsExist ==
  ASSUME NEW t, NEW I \in SUBSET Notes, Ordered(t, I), NEW p, NEW x \in I, t.parent[x] = p
  PROVE  /\ \E m \in I : t.parent[m] = p /\ t.prev[m] = Null
         /\ \E m \in I : t.parent[m] = p /\ t.next[m] = Null
<1> DEFINE S == {m \in I : t.parent[m] = p}
<1>1. S \in SUBSET I /\ S # {}
  OBVIOUS
<1>2. PICK m \in S : t.prev[m] \notin S
  BY <1>1 DEF Ordered, NoRings
<1>3. PICK k \in S : t.next[k] \notin S
  BY <1>1 DEF Ordered, NoRings
<1>4. QED
  BY <1>2, <1>3 DEF Ordered, Reciprocal

\* The index a load computes matches the rows it accepts.
LEMMA HydratedIndex ==
  ASSUME NEW t, t.ids \in SUBSET Notes, Ordered(t, t.ids)
  PROVE  Ordered(Hydrated(t), t.ids) /\ IndexMatches(Hydrated(t), t.ids)
<1> DEFINE s == Hydrated(t)
<1>1. /\ s.ids = t.ids /\ s.parent = t.parent /\ s.prev = t.prev /\ s.next = t.next
      /\ \A p \in NoteOrNull : /\ s.heads[p] = EndOf(t, p, t.prev)
                               /\ s.tails[p] = EndOf(t, p, t.next)
  BY DEF Hydrated
<1> HIDE DEF s
<1>2. Ordered(s, t.ids)
  BY <1>1 DEF Ordered, Reciprocal, SingleBoundaries, NoRings
<1>3. ASSUME NEW p \in NoteOrNull
      PROVE  LET list == {m \in t.ids : s.parent[m] = p}
             IN  /\ list = {} => s.heads[p] = Null /\ s.tails[p] = Null
                 /\ list # {} => /\ s.heads[p] \in list /\ s.prev[s.heads[p]] = Null
                                 /\ s.tails[p] \in list /\ s.next[s.tails[p]] = Null
  <2> DEFINE list == {m \in t.ids : s.parent[m] = p}
  <2>1. list = Siblings(t, p)
    BY <1>1 DEF Siblings
  <2>2. CASE list = {}
    BY <1>1, <2>1, <2>2 DEF EndOf
  <2>3. CASE list # {}
    <3>1. /\ \E m \in Siblings(t, p) : t.prev[m] = Null
          /\ \E m \in Siblings(t, p) : t.next[m] = Null
      BY <2>1, <2>3, EndsExist DEF Siblings
    <3>2. QED
      BY <1>1, <2>1, <3>1 DEF EndOf
  <2>4. QED
    BY <2>2, <2>3
<1>4. QED
  BY <1>2, <1>3 DEF IndexMatches, s

\* A store with ordered notes and a matching index is what a load of its columns
\* would build.
LEMMA StoreIsHydrated ==
  ASSUME NEW s \in Stores, Ordered(s, s.ids), IndexMatches(s, s.ids)
  PROVE  s = Hydrated(Columns(s))
<1> DEFINE t == Columns(s)
<1>1. /\ t.ids = s.ids /\ t.parent = s.parent /\ t.prev = s.prev /\ t.next = s.next
      /\ t.collapsed = s.collapsed
  BY DEF Columns
<1> HIDE DEF t
<1>2. s.ids \subseteq Notes /\ Null \notin Notes
  BY NullAssumption DEF Stores
<1>3. \A p \in NoteOrNull : s.heads[p] = EndOf(t, p, t.prev) /\ s.tails[p] = EndOf(t, p, t.next)
  <2> TAKE p \in NoteOrNull
  <2>1. CASE Siblings(t, p) = {}
    BY <1>1, <2>1 DEF EndOf, Siblings, IndexMatches
  <2>2. CASE Siblings(t, p) # {}
    <3>1. /\ s.heads[p] \in Siblings(t, p) /\ s.prev[s.heads[p]] = Null
          /\ s.tails[p] \in Siblings(t, p) /\ s.next[s.tails[p]] = Null
      BY <1>1, <2>2 DEF Siblings, IndexMatches
    <3>2. /\ \A m \in Siblings(t, p) : s.prev[m] = Null => m = s.heads[p]
          /\ \A m \in Siblings(t, p) : s.next[m] = Null => m = s.tails[p]
      BY <1>1, <3>1 DEF Siblings, Ordered, SingleBoundaries
    <3>3. QED
      BY <1>1, <3>1, <3>2 DEF EndOf
  <2>3. QED
    BY <2>1, <2>2
<1>4. /\ s.heads = [p \in NoteOrNull |-> EndOf(t, p, t.prev)]
      /\ s.tails = [p \in NoteOrNull |-> EndOf(t, p, t.next)]
  BY <1>3 DEF Stores
<1>5. s = [ids |-> s.ids, parent |-> s.parent, prev |-> s.prev, next |-> s.next,
           collapsed |-> s.collapsed, heads |-> s.heads, tails |-> s.tails]
  BY DEF Stores
<1>6. QED
  BY <1>1, <1>4, <1>5 DEF Hydrated, t

\* Two tables are equal when their columns are.
LEMMA TableEquality ==
  ASSUME NEW t \in Tables, NEW u \in Tables, t.ids = u.ids,
         \A m \in Notes : /\ t.parent[m] = u.parent[m]
                          /\ t.prev[m] = u.prev[m] /\ t.next[m] = u.next[m]
                          /\ t.collapsed[m] = u.collapsed[m]
  PROVE  t = u
<1>1. t.parent = u.parent /\ t.prev = u.prev /\ t.next = u.next /\ t.collapsed = u.collapsed
  BY DEF Tables
<1>2. /\ t = [ids |-> t.ids, parent |-> t.parent, prev |-> t.prev, next |-> t.next,
              collapsed |-> t.collapsed]
      /\ u = [ids |-> u.ids, parent |-> u.parent, prev |-> u.prev, next |-> u.next,
              collapsed |-> u.collapsed]
  BY DEF Tables
<1>3. QED
  BY <1>1, <1>2

LEMMA ColumnsOfHydrated ==
  ASSUME NEW t \in Tables
  PROVE  Columns(Hydrated(t)) = t
BY DEF Columns, Hydrated, Tables

\* What an UPDATE leaves in each row.
LEMMA UpdateFields ==
  ASSUME NEW t \in Tables, NEW n, NEW value
  PROVE  /\ LET u == UpdatePrev(t, n, value)
            IN  /\ u.ids = t.ids /\ u.parent = t.parent /\ u.next = t.next
                /\ u.collapsed = t.collapsed
                /\ \A m \in Notes : u.prev[m] = IF m = n /\ n \in t.ids THEN value ELSE t.prev[m]
         /\ LET u == UpdateNext(t, n, value)
            IN  /\ u.ids = t.ids /\ u.parent = t.parent /\ u.prev = t.prev
                /\ u.collapsed = t.collapsed
                /\ \A m \in Notes : u.next[m] = IF m = n /\ n \in t.ids THEN value ELSE t.next[m]
BY DEF UpdatePrev, UpdateNext, Tables

\* INSERT and its two UPDATEs do to the columns what NoteOrdering.insert does.
LEMMA InsertRowMatches ==
  ASSUME NEW s \in Stores, NEW n \in Notes \ s.ids, NEW p \in NoteOrNull, NEW c \in BOOLEAN,
         NEW prev \in s.ids \cup {Null}, NEW next \in s.ids \cup {Null}
  PROVE  InsertRow(Columns(s), n, p, prev, next, c)
           = Columns(LinkIn(AddNote(s, n, p, c), n, p, prev, next))
<1> DEFINE t == Columns(s)
           row == [AddNote(t, n, p, c) EXCEPT
                      !.prev = [@ EXCEPT ![n] = prev], !.next = [@ EXCEPT ![n] = next]]
           u == UpdateNext(row, prev, n)
           w == UpdatePrev(u, next, n)
           added == AddNote(s, n, p, c)
           linked == LinkIn(added, n, p, prev, next)
<1>1. prev \in NoteOrNull /\ next \in NoteOrNull /\ n \in NoteOrNull /\ Null \notin Notes
  BY NullAssumption DEF NoteOrNull, Stores
<1>2. t \in Tables /\ row \in Tables
  BY <1>1, ColumnsType DEF AddNote, Tables
<1>3. /\ row.ids = s.ids \cup {n}
      /\ \A m \in Notes : /\ row.parent[m] = IF m = n THEN p ELSE s.parent[m]
                          /\ row.prev[m] = IF m = n THEN prev ELSE s.prev[m]
                          /\ row.next[m] = IF m = n THEN next ELSE s.next[m]
                          /\ row.collapsed[m] = IF m = n THEN c ELSE s.collapsed[m]
  BY DEF AddNote, Columns, Stores
<1>4. /\ added.ids = s.ids \cup {n} /\ added.prev = s.prev /\ added.next = s.next
      /\ \A m \in Notes : /\ added.parent[m] = IF m = n THEN p ELSE s.parent[m]
                          /\ added.collapsed[m] = IF m = n THEN c ELSE s.collapsed[m]
  BY DEF AddNote, Stores
<1>4a. added \in Stores
  BY AddNoteType
<1> HIDE DEF t, row, added
<1>5. u \in Tables /\ w \in Tables
  BY <1>1, <1>2, UpdateType
<1>6. /\ u.ids = row.ids /\ u.parent = row.parent /\ u.prev = row.prev /\ u.collapsed = row.collapsed
      /\ \A m \in Notes : u.next[m] = IF m = prev /\ prev \in row.ids THEN n ELSE row.next[m]
  BY <1>2, UpdateFields
<1> HIDE DEF u
<1>7. /\ w.ids = u.ids /\ w.parent = u.parent /\ w.next = u.next /\ w.collapsed = u.collapsed
      /\ \A m \in Notes : w.prev[m] = IF m = next /\ next \in u.ids THEN n ELSE u.prev[m]
  BY <1>5, UpdateFields
<1> HIDE DEF w
<1>8. /\ linked.ids = added.ids /\ linked.parent = added.parent /\ linked.collapsed = added.collapsed
      /\ \A m \in Notes :
            /\ linked.prev[m] = IF m = n THEN prev ELSE IF m = next THEN n ELSE added.prev[m]
            /\ linked.next[m] = IF m = n THEN next ELSE IF m = prev THEN n ELSE added.next[m]
  BY <1>1, <1>4a, LinkInFields
<1>9. linked \in Stores
  BY <1>1, <1>4a, LinkInType
<1> HIDE DEF linked
<1>10. /\ Columns(linked) \in Tables /\ Columns(linked).ids = linked.ids
       /\ Columns(linked).parent = linked.parent /\ Columns(linked).prev = linked.prev
       /\ Columns(linked).next = linked.next /\ Columns(linked).collapsed = linked.collapsed
  BY <1>9, ColumnsType DEF Columns
<1>11. w.ids = Columns(linked).ids
  BY <1>3, <1>4, <1>6, <1>7, <1>8, <1>10
<1>12. ASSUME NEW m \in Notes
       PROVE  /\ w.parent[m] = Columns(linked).parent[m]
              /\ w.prev[m] = Columns(linked).prev[m]
              /\ w.next[m] = Columns(linked).next[m]
              /\ w.collapsed[m] = Columns(linked).collapsed[m]
  BY <1>1, <1>3, <1>4, <1>6, <1>7, <1>8, <1>10, <1>12
<1>13. w = Columns(linked)
  BY <1>5, <1>10, <1>11, <1>12, TableEquality
<1>14. QED
  BY <1>13 DEF InsertRow, w, u, row, t, linked, added

\* The two UPDATEs around a note do what NoteOrdering.remove does.
LEMMA ClosedGapMatches ==
  ASSUME NEW s \in Stores, NEW n \in s.ids, s.prev[n] \in s.ids \cup {Null},
         s.next[n] \in s.ids \cup {Null}
  PROVE  UpdatePrev(UpdateNext(Columns(s), s.prev[n], s.next[n]), s.next[n], s.prev[n])
           = Columns(LinkOut(s, n))
<1> DEFINE t == Columns(s)
           u == UpdateNext(t, s.prev[n], s.next[n])
           w == UpdatePrev(u, s.next[n], s.prev[n])
           out == LinkOut(s, n)
<1>1. n \in Notes /\ s.prev[n] \in NoteOrNull /\ s.next[n] \in NoteOrNull /\ Null \notin Notes
  BY NullAssumption DEF NoteOrNull, Stores
<1>2. /\ t \in Tables /\ t.ids = s.ids /\ t.parent = s.parent /\ t.prev = s.prev
      /\ t.next = s.next /\ t.collapsed = s.collapsed
  BY ColumnsType DEF Columns
<1> HIDE DEF t
<1>3. u \in Tables /\ w \in Tables
  BY <1>1, <1>2, UpdateType
<1>4. /\ u.ids = t.ids /\ u.parent = t.parent /\ u.prev = t.prev /\ u.collapsed = t.collapsed
      /\ \A m \in Notes : u.next[m] = IF m = s.prev[n] /\ s.prev[n] \in t.ids THEN s.next[n] ELSE t.next[m]
  BY <1>2, UpdateFields
<1> HIDE DEF u
<1>5. /\ w.ids = u.ids /\ w.parent = u.parent /\ w.next = u.next /\ w.collapsed = u.collapsed
      /\ \A m \in Notes : w.prev[m] = IF m = s.next[n] /\ s.next[n] \in u.ids THEN s.prev[n] ELSE u.prev[m]
  BY <1>3, UpdateFields
<1> HIDE DEF w
<1>6. /\ out.ids = s.ids /\ out.parent = s.parent /\ out.collapsed = s.collapsed
      /\ \A m \in Notes :
            /\ out.prev[m] = IF m = s.next[n] THEN s.prev[n] ELSE s.prev[m]
            /\ out.next[m] = IF m = s.prev[n] THEN s.next[n] ELSE s.next[m]
  BY <1>1, LinkOutFields
<1>7. out \in Stores
  BY <1>1, LinkOutType
<1> HIDE DEF out
<1>8. /\ Columns(out) \in Tables /\ Columns(out).ids = out.ids
      /\ Columns(out).parent = out.parent /\ Columns(out).prev = out.prev
      /\ Columns(out).next = out.next /\ Columns(out).collapsed = out.collapsed
  BY <1>7, ColumnsType DEF Columns
<1>9. ASSUME NEW m \in Notes
      PROVE  /\ w.parent[m] = Columns(out).parent[m]
             /\ w.prev[m] = Columns(out).prev[m]
             /\ w.next[m] = Columns(out).next[m]
             /\ w.collapsed[m] = Columns(out).collapsed[m]
  BY <1>1, <1>2, <1>4, <1>5, <1>6, <1>8, <1>9
<1>10. w = Columns(out)
  BY <1>2, <1>3, <1>4, <1>5, <1>6, <1>8, <1>9, TableEquality
<1>11. QED
  BY <1>10 DEF w, u, t, out

\* DELETE does to the columns what dropping the records does.
LEMMA DropRowsMatches ==
  ASSUME NEW s \in Stores, NEW D
  PROVE  DropNotes(Columns(s), D) = Columns(DropLists(DropNotes(s, D), D))
<1> DEFINE t == Columns(s)
           u == DropNotes(t, D)
           left == DropLists(DropNotes(s, D), D)
<1>1. /\ t \in Tables /\ t.ids = s.ids /\ t.parent = s.parent /\ t.prev = s.prev
      /\ t.next = s.next /\ t.collapsed = s.collapsed
  BY ColumnsType DEF Columns
<1> HIDE DEF t
<1>2. u \in Tables
  BY <1>1, ExpandedType DEF DropNotes, Tables, NoteOrNull
<1>3. /\ u.ids = s.ids \ D
      /\ \A m \in Notes : /\ u.parent[m] = IF m \in D THEN Null ELSE s.parent[m]
                          /\ u.prev[m] = IF m \in D THEN Null ELSE s.prev[m]
                          /\ u.next[m] = IF m \in D THEN Null ELSE s.next[m]
                          /\ u.collapsed[m] = IF m \in D THEN Expanded ELSE s.collapsed[m]
  BY <1>1 DEF DropNotes, Tables
<1> HIDE DEF u
<1>4. left \in Stores
  BY DropType
<1>5. /\ left.ids = s.ids \ D
      /\ \A m \in Notes : /\ left.parent[m] = IF m \in D THEN Null ELSE s.parent[m]
                          /\ left.prev[m] = IF m \in D THEN Null ELSE s.prev[m]
                          /\ left.next[m] = IF m \in D THEN Null ELSE s.next[m]
                          /\ left.collapsed[m] = IF m \in D THEN Expanded ELSE s.collapsed[m]
  BY DEF DropLists, DropNotes, Stores
<1> HIDE DEF left
<1>6. /\ Columns(left) \in Tables /\ Columns(left).ids = left.ids
      /\ Columns(left).parent = left.parent /\ Columns(left).prev = left.prev
      /\ Columns(left).next = left.next /\ Columns(left).collapsed = left.collapsed
  BY <1>4, ColumnsType DEF Columns
<1> DEFINE v == Columns(left)
<1> HIDE DEF v
<1>7. ASSUME NEW m \in Notes
      PROVE  /\ u.parent[m] = v.parent[m] /\ u.prev[m] = v.prev[m]
             /\ u.next[m] = v.next[m] /\ u.collapsed[m] = v.collapsed[m]
  BY <1>3, <1>5, <1>6, <1>7 DEF v
<1>8. u.ids = v.ids /\ v \in Tables
  BY <1>3, <1>5, <1>6 DEF v
<1>9. u = v
  BY <1>2, <1>7, <1>8, TableEquality
<1>10. QED
  BY <1>9 DEF u, t, v, left

\* move_notes relinks the records as the UPDATEs relink the rows.
LEMMA LinkInOrderMatches ==
  ASSUME NEW s \in Stores, NEW R \in SUBSET Notes, NEW q \in Orders(R)
  PROVE  LinkInOrder(Columns(s), q) = Columns(LinkInOrder(s, q))
<1> DEFINE Listed == {q[i] : i \in DOMAIN q}
           At(n) == CHOOSE i \in DOMAIN q : q[i] = n
           newPrev(n) == IF At(n) = 1 THEN Null ELSE q[At(n) - 1]
           newNext(n) == IF At(n) = Len(q) THEN Null ELSE q[At(n) + 1]
           prevs(t) == [n \in Notes |-> IF n \notin Listed THEN t.prev[n] ELSE newPrev(n)]
           nexts(t) == [n \in Notes |-> IF n \notin Listed THEN t.next[n] ELSE newNext(n)]
           t == Columns(s)
           u == LinkInOrder(s, q)
<1>1. LinkInOrder(t, q) = [t EXCEPT !.prev = prevs(t), !.next = nexts(t)]
  BY DEF LinkInOrder
<1>2. u = [s EXCEPT !.prev = prevs(s), !.next = nexts(s)]
  BY DEF LinkInOrder
<1>3. prevs(t) = prevs(s) /\ nexts(t) = nexts(s)
  BY DEF Columns
<1> DEFINE v == LinkInOrder(t, q)
           w == Columns(u)
<1>4. t \in Tables /\ v \in Tables /\ u \in Stores /\ w \in Tables
  BY ColumnsType, LinkInOrderType
<1>5. w.ids = u.ids /\ w.parent = u.parent /\ w.collapsed = u.collapsed
      /\ w.prev = u.prev /\ w.next = u.next
  BY DEF Columns
<1>6. t.ids = s.ids /\ t.parent = s.parent /\ t.collapsed = s.collapsed
  BY DEF Columns
<1> HIDE DEF prevs, nexts, t, u, v, w
<1>7. u.ids = s.ids /\ u.parent = s.parent /\ u.collapsed = s.collapsed
      /\ u.prev = prevs(s) /\ u.next = nexts(s)
  BY <1>2 DEF Stores
<1>8. v.ids = s.ids /\ v.parent = s.parent /\ v.collapsed = s.collapsed
      /\ v.prev = prevs(s) /\ v.next = nexts(s)
  BY <1>1, <1>3, <1>4, <1>6 DEF Tables, v
<1>9. v = w
  BY <1>4, <1>5, <1>7, <1>8, TableEquality
<1>10. QED
  BY <1>9 DEF t, u, v, w
=============================================================================
