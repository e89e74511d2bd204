---------------------------- MODULE NoteOrdering ----------------------------
(***************************************************************************)
(* The linked note hierarchy of MetaList, as values and operators on them. *)
(*                                                                         *)
(* A note has a parent and the ids of the siblings before and after it     *)
(* (app/services/note_store.py, NoteRecord; the same columns are stored in  *)
(* the notes table).  A "table" is those columns; a "store" is a table with *)
(* the head and tail index of app/services/note_ordering.py beside it.      *)
(* Every operator takes the value it works on, so that one definition       *)
(* serves the in-memory store, the rows of an open transaction and the      *)
(* committed database.                                                      *)
(***************************************************************************)
EXTENDS Naturals, Sequences, FiniteSets

CONSTANTS
    Notes,      \* the note ids that can exist
    Null,       \* no note: Python's None, SQL's NULL
    MaxDepth    \* MAX_HIERARCHY_DEPTH (256 in the code)

ASSUME NotesAssumption == IsFiniteSet(Notes)    \* 128-bit uuids
ASSUME NullAssumption == Null \notin Notes
ASSUME MaxDepthAssumption == MaxDepth \in Nat \ {0}

NoteOrNull == Notes \cup {Null}

\* The collapsed column of a new note, and of one that is unfolded.
Expanded == FALSE

(***************************************************************************)
(* Type definitions.  A missing key of heads or tails is Null, and every    *)
(* column of an id that does not exist is reset (Null, not collapsed).      *)
(***************************************************************************)
Tables ==
    [ids : SUBSET Notes,
     parent : [Notes -> NoteOrNull],
     prev : [Notes -> NoteOrNull],
     next : [Notes -> NoteOrNull],
     collapsed : [Notes -> BOOLEAN]]

Stores ==
    [ids : SUBSET Notes,
     parent : [Notes -> NoteOrNull],
     prev : [Notes -> NoteOrNull],
     next : [Notes -> NoteOrNull],
     collapsed : [Notes -> BOOLEAN],
     heads : [NoteOrNull -> NoteOrNull],
     tails : [NoteOrNull -> NoteOrNull]]

EmptyTable ==
    [ids |-> {},
     parent |-> [n \in Notes |-> Null],
     prev |-> [n \in Notes |-> Null],
     next |-> [n \in Notes |-> Null],
     collapsed |-> [n \in Notes |-> Expanded]]

\* What the database keeps of a store.
Columns(s) ==
    [ids |-> s.ids, parent |-> s.parent, prev |-> s.prev, next |-> s.next,
     collapsed |-> s.collapsed]

-----------------------------------------------------------------------------
(***************************************************************************)
(* Reading the hierarchy.                                                   *)
(***************************************************************************)
Siblings(t, p) == {n \in t.ids : t.parent[n] = p}

\* The root and everything below it: the least set that holds n and the
\* children of its members.
Subtree(t, n) ==
    {m \in t.ids :
        \A S \in SUBSET Notes :
            (n \in S /\ \A c \in t.ids : t.parent[c] \in S => c \in S) => m \in S}

\* The siblings that follow n: the least set that holds n's next note and the
\* next note of its members.
LaterSiblings(t, n) ==
    {m \in t.ids :
        \A S \in SUBSET Notes :
            (/\ t.next[n] # Null => t.next[n] \in S
             /\ \A x \in S : t.next[x] # Null => t.next[x] \in S) => m \in S}

\* hierarchy_depths: the depth of every note, roots at 1.
IsDepthMap(t, d) ==
    \A n \in t.ids : d[n] = IF t.parent[n] = Null THEN 1 ELSE d[t.parent[n]] + 1

\* hierarchy_depths raises on a missing parent, on a cycle (no depths exist)
\* and above MaxDepth.
HierarchyValid(t) ==
    /\ \A n \in t.ids : t.parent[n] # Null => t.parent[n] \in t.ids
    /\ \E d \in [t.ids -> 1..MaxDepth] : IsDepthMap(t, d)

Depths(t) == CHOOSE d \in [t.ids -> 1..MaxDepth] : IsDepthMap(t, d)

DepthOf(t, p) == IF p = Null THEN 0 ELSE Depths(t)[p]

\* validate_database_parent for a new note.
NewParentAllowed(t, p) ==
    /\ p # Null => p \in t.ids
    /\ DepthOf(t, p) + 1 <= MaxDepth

\* Mutated ParentAllowed: the note's own subtree is not excluded.
ParentAllowedBelowItself(t, n, p) ==
    p # Null => p \in t.ids /\ DepthOf(t, p) + 1 <= MaxDepth

\* validate_database_parent for an existing note: nothing is checked when the
\* parent does not change; otherwise the parent exists outside the note's own
\* subtree and the whole subtree still fits.
ParentAllowed(t, n, p) ==
    \/ t.parent[n] = p
    \/ /\ p # Null => p \in t.ids /\ p \notin Subtree(t, n)
       /\ \A m \in Subtree(t, n) :
             DepthOf(t, p) + (Depths(t)[m] - Depths(t)[n]) + 1 <= MaxDepth

-----------------------------------------------------------------------------
(***************************************************************************)
(* What NoteOrdering.from_records accepts, for the notes of a set I: links   *)
(* are reciprocal and stay under one parent, no parent has two heads or two  *)
(* tails, and no sibling is off the chain (a set of notes closed under       *)
(* "previous" or under "next" would be a ring, or would hang off nothing).   *)
(***************************************************************************)
Reciprocal(t, I) ==
    \A n \in I :
        /\ t.prev[n] # Null =>
              /\ t.prev[n] \in I
              /\ t.parent[t.prev[n]] = t.parent[n]
              /\ t.next[t.prev[n]] = n
        /\ t.next[n] # Null =>
              /\ t.next[n] \in I
              /\ t.parent[t.next[n]] = t.parent[n]
              /\ t.prev[t.next[n]] = n

SingleBoundaries(t, I) ==
    \A m, n \in I :
        t.parent[m] = t.parent[n] =>
            /\ t.prev[m] = Null /\ t.prev[n] = Null => m = n
            /\ t.next[m] = Null /\ t.next[n] = Null => m = n

NoRings(t, I) ==
    \A S \in SUBSET I :
        S # {} =>
            /\ \E m \in S : t.prev[m] \notin S
            /\ \E m \in S : t.next[m] \notin S

Ordered(t, I) == Reciprocal(t, I) /\ SingleBoundaries(t, I) /\ NoRings(t, I)

\* The head and tail index of a store names the two ends of every sibling list.
IndexMatches(s, I) ==
    \A p \in NoteOrNull :
        LET list == {n \in I : s.parent[n] = p}
        IN  /\ list = {} => s.heads[p] = Null /\ s.tails[p] = Null
            /\ list # {} => /\ s.heads[p] \in list /\ s.prev[s.heads[p]] = Null
                            /\ s.tails[p] \in list /\ s.next[s.tails[p]] = Null

\* NoteStore.load_from_db accepts these rows.
Loadable(t) == HierarchyValid(t) /\ Ordered(t, t.ids)

EndOf(t, p, link) ==
    IF \E n \in Siblings(t, p) : link[n] = Null
    THEN CHOOSE n \in Siblings(t, p) : link[n] = Null
    ELSE Null

\* The store NoteStore.load_from_db builds from rows it accepts.
Hydrated(t) ==
    [ids |-> t.ids, parent |-> t.parent, prev |-> t.prev, next |-> t.next,
     collapsed |-> t.collapsed,
     heads |-> [p \in NoteOrNull |-> EndOf(t, p, t.prev)],
     tails |-> [p \in NoteOrNull |-> EndOf(t, p, t.next)]]

\* NoteOrdering.children: the walk from the head of p along next.
Children(s, p) ==
    LET walk[n \in NoteOrNull] == IF n = Null THEN << >> ELSE <<n>> \o walk[s.next[n]]
    IN  walk[s.heads[p]]

-----------------------------------------------------------------------------
(***************************************************************************)
(* NoteOrdering.insert and NoteOrdering.remove on a store.                  *)
(***************************************************************************)

\* A missing anchor is taken from the other one; with no anchor at all the note
\* is appended.
ResolvedPrev(s, p, prev, next) ==
    IF prev # Null THEN prev ELSE IF next # Null THEN s.prev[next] ELSE s.tails[p]

ResolvedNext(s, p, prev, next) ==
    LET before == ResolvedPrev(s, p, prev, next)
    IN  IF next # Null THEN next ELSE IF before # Null THEN s.next[before] ELSE Null

\* Mutated CanLinkIn: the anchors need not be neighbours.
CanLinkInAnywhere(s, n, p, prev, next) ==
    /\ prev # Null => prev \in s.ids /\ prev # n /\ s.parent[prev] = p
    /\ next # Null => next \in s.ids /\ next # n /\ s.parent[next] = p

\* The lookups and assertions of insert, for resolved anchors.
CanLinkIn(s, n, p, prev, next) ==
    /\ prev # Null => /\ prev \in s.ids /\ prev # n
                      /\ s.parent[prev] = p /\ s.next[prev] = next
    /\ next # Null => /\ next \in s.ids /\ next # n
                      /\ s.parent[next] = p /\ s.prev[next] = prev

\* Mutated LinkIn: the tail index misses a note appended to its list.
LinkInKeepingTail(s, n, p, prev, next) ==
    [s EXCEPT
        !.prev = [m \in Notes |-> IF m = n THEN prev ELSE IF m = next THEN n ELSE @[m]],
        !.next = [m \in Notes |-> IF m = n THEN next ELSE IF m = prev THEN n ELSE @[m]],
        !.heads = IF prev = Null THEN [@ EXCEPT ![p] = n] ELSE @]

LinkIn(s, n, p, prev, next) ==
    [s EXCEPT
        !.prev = [m \in Notes |-> IF m = n THEN prev ELSE IF m = next THEN n ELSE @[m]],
        !.next = [m \in Notes |-> IF m = n THEN next ELSE IF m = prev THEN n ELSE @[m]],
        !.heads = IF prev = Null THEN [@ EXCEPT ![p] = n] ELSE @,
        !.tails = IF next = Null THEN [@ EXCEPT ![p] = n] ELSE @]

\* The lookups and assertions of remove.
CanLinkOut(s, n) ==
    /\ IF s.prev[n] = Null THEN s.heads[s.parent[n]] = n ELSE s.next[s.prev[n]] = n
    /\ IF s.next[n] = Null THEN s.tails[s.parent[n]] = n ELSE s.prev[s.next[n]] = n

\* Mutated LinkOut: the tail index keeps the note that left its list.
LinkOutKeepingTail(s, n) ==
    [s EXCEPT
        !.prev = [m \in Notes |-> IF m = s.next[n] THEN s.prev[n] ELSE @[m]],
        !.next = [m \in Notes |-> IF m = s.prev[n] THEN s.next[n] ELSE @[m]],
        !.heads = IF s.prev[n] = Null THEN [@ EXCEPT ![s.parent[n]] = s.next[n]] ELSE @]

LinkOut(s, n) ==
    [s EXCEPT
        !.prev = [m \in Notes |-> IF m = s.next[n] THEN s.prev[n] ELSE @[m]],
        !.next = [m \in Notes |-> IF m = s.prev[n] THEN s.next[n] ELSE @[m]],
        !.heads = IF s.prev[n] = Null THEN [@ EXCEPT ![s.parent[n]] = s.next[n]] ELSE @,
        !.tails = IF s.next[n] = Null THEN [@ EXCEPT ![s.parent[n]] = s.prev[n]] ELSE @]

\* The ids of a removed subtree leave the record map and the boundary index.
DropNotes(t, D) ==
    [t EXCEPT
        !.ids = @ \ D,
        !.parent = [m \in Notes |-> IF m \in D THEN Null ELSE @[m]],
        !.prev = [m \in Notes |-> IF m \in D THEN Null ELSE @[m]],
        !.next = [m \in Notes |-> IF m \in D THEN Null ELSE @[m]],
        !.collapsed = [m \in Notes |-> IF m \in D THEN Expanded ELSE @[m]]]

DropLists(s, D) ==
    [s EXCEPT
        !.heads = [p \in NoteOrNull |-> IF p \in D THEN Null ELSE @[p]],
        !.tails = [p \in NoteOrNull |-> IF p \in D THEN Null ELSE @[p]]]

\* Mutated AddNote: the collapsed column is left without a value.
AddNoteWithoutFlag(s, n, p, collapsed) ==
    [s EXCEPT
        !.ids = @ \cup {n},
        !.parent = [@ EXCEPT ![n] = p],
        !.collapsed = [@ EXCEPT ![n] = Null]]

\* A record enters the map, not linked yet.
AddNote(s, n, p, collapsed) ==
    [s EXCEPT
        !.ids = @ \cup {n},
        !.parent = [@ EXCEPT ![n] = p],
        !.collapsed = [@ EXCEPT ![n] = collapsed]]

-----------------------------------------------------------------------------
(***************************************************************************)
(* The SQL statements of the usecases, on the columns of a table.  An        *)
(* UPDATE of an id that has no row changes nothing.                          *)
(***************************************************************************)
UpdatePrev(t, n, value) ==
    IF n \in t.ids THEN [t EXCEPT !.prev = [@ EXCEPT ![n] = value]] ELSE t

UpdateNext(t, n, value) ==
    IF n \in t.ids THEN [t EXCEPT !.next = [@ EXCEPT ![n] = value]] ELSE t

\* INSERT one row as given, then point the given neighbours at it.
InsertRow(t, n, p, prev, next, collapsed) ==
    LET row == [AddNote(t, n, p, collapsed) EXCEPT
                   !.prev = [@ EXCEPT ![n] = prev], !.next = [@ EXCEPT ![n] = next]]
    IN  UpdatePrev(UpdateNext(row, prev, n), next, n)

\* Mutated MoveRow: the old neighbours are not pointed at each other.
MoveRowLeavingGap(t, n, oldPrev, oldNext, p, prev, next) ==
    LET placed == [t EXCEPT !.parent = [@ EXCEPT ![n] = p],
                            !.prev = [@ EXCEPT ![n] = prev],
                            !.next = [@ EXCEPT ![n] = next]]
    IN  UpdatePrev(UpdateNext(placed, prev, n), next, n)

\* Close the gap at the old place, write the row, point the new neighbours at it.
MoveRow(t, n, oldPrev, oldNext, p, prev, next) ==
    LET closed == UpdatePrev(UpdateNext(t, oldPrev, oldNext), oldNext, oldPrev)
        placed == [closed EXCEPT !.parent = [@ EXCEPT ![n] = p],
                                 !.prev = [@ EXCEPT ![n] = prev],
                                 !.next = [@ EXCEPT ![n] = next]]
    IN  UpdatePrev(UpdateNext(placed, prev, n), next, n)

DeleteRows(t, D, oldPrev, oldNext) ==
    DropNotes(UpdatePrev(UpdateNext(t, oldPrev, oldNext), oldNext, oldPrev), D)

SetCollapsed(t, n, value) == [t EXCEPT !.collapsed = [@ EXCEPT ![n] = value]]

\* The orders of a set of notes, and those of them that put the notes of First
\* before the others and keep the order of t within both groups.
Orders(R) ==
    {q \in [1..Cardinality(R) -> R] : \A r \in R : \E i \in DOMAIN q : q[i] = r}

\* Mutated Regrouped: the groups lose their order.
RegroupedUnordered(t, R, First) ==
    {q \in Orders(R) :
        \A i, j \in DOMAIN q : i < j => (q[j] \in First => q[i] \in First)}

Regrouped(t, R, First) ==
    {q \in Orders(R) :
        \A i, j \in DOMAIN q : i < j =>
            \/ q[i] \in First /\ q[j] \notin First
            \/ (q[i] \in First <=> q[j] \in First) /\ q[j] \in LaterSiblings(t, q[i])}

\* New prev and next columns for the notes of a sequence, in its order.
LinkInOrder(t, q) ==
    LET Listed == {q[i] : i \in DOMAIN q}
        At(n) == CHOOSE i \in DOMAIN q : q[i] = n
    IN  [t EXCEPT
            !.prev = [n \in Notes |-> IF n \notin Listed THEN @[n]
                                      ELSE IF At(n) = 1 THEN Null ELSE q[At(n) - 1]],
            !.next = [n \in Notes |-> IF n \notin Listed THEN @[n]
                                      ELSE IF At(n) = Len(q) THEN Null ELSE q[At(n) + 1]]]
=============================================================================
