---------------------------- MODULE SiblingLists ----------------------------
(***************************************************************************)
(* What the note hierarchy promises a user: for every note, and for the      *)
(* vault itself (Null), an ordered list of notes.  A command changes one     *)
(* note's place and leaves the order of all other notes as it was; nothing   *)
(* else (a failed request, a rollback, a restart, a collapse) changes any     *)
(* list.  No pointers, no head and tail index, no two copies.                *)
(***************************************************************************)
EXTENDS Naturals, Sequences, SequencesExt

CONSTANTS Notes, Null

VARIABLE lists      \* parent (or Null) -> its children, in order

Parents == Notes \cup {Null}

Members == UNION {ToSet(lists[p]) : p \in Parents}

\* n and every note below it.
Family(n) ==
    {m \in Members :
        \A S \in SUBSET Notes :
            (n \in S /\ \A p \in S : ToSet(lists[p]) \subseteq S) => m \in S}

\* A list no note of which is listed twice, without n.
TakeOut(list, n) ==
    IF n \in ToSet(list) THEN RemoveAt(list, CHOOSE i \in DOMAIN list : list[i] = n) ELSE list

Without(n) == [p \in Parents |-> TakeOut(lists[p], n)]

Init == lists = [p \in Parents |-> << >>]

Create(n, p, i) ==
    /\ n \notin Members
    /\ p \in Members \cup {Null}
    /\ lists' = [lists EXCEPT ![p] = InsertAt(@, i, n)]

Delete(n) ==
    /\ n \in Members
    /\ lists' = [p \in Parents |-> IF p \in Family(n) THEN << >> ELSE Without(n)[p]]

Move(n, p, i) ==
    /\ n \in Members
    /\ p \in (Members \cup {Null}) \ Family(n)
    /\ i \in 1..(Len(Without(n)[p]) + 1)
    /\ lists' = [Without(n) EXCEPT ![p] = InsertAt(@, i, n)]

Precedes(list, m, n) ==
    \E i, j \in DOMAIN list : i < j /\ list[i] = m /\ list[j] = n

\* The roots of S gathered before the others, both groups in their old order.
Gather(S) ==
    \E list \in [DOMAIN lists[Null] -> ToSet(lists[Null])] :
        /\ \A i, j \in DOMAIN list : i < j =>
              \/ list[i] \in S /\ list[j] \notin S
              \/ (list[i] \in S <=> list[j] \in S) /\ Precedes(lists[Null], list[i], list[j])
        /\ lists' = [lists EXCEPT ![Null] = list]

Next ==
    \/ \E n \in Notes, p \in Parents :
           \E i \in 1..(Len(lists[p]) + 1) : Create(n, p, i) \/ Move(n, p, i)
    \/ \E n \in Notes : Delete(n)
    \/ \E S \in SUBSET Notes : Gather(S)

Spec == Init /\ [][Next]_lists
=============================================================================
