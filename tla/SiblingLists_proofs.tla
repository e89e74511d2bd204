------------------------- MODULE SiblingLists_proofs -------------------------
(***************************************************************************)
(* NoteCommands implements SiblingLists: what is committed is, for every      *)
(* note, a list of its children, and every request changes the lists by one   *)
(* step of SiblingLists or not at all.                                       *)
(***************************************************************************)
EXTENDS MCNoteCommands, NoteCommands_proofs, SequenceTheorems

-----------------------------------------------------------------------------
(***************************************************************************)
(* Lists with an element put in or taken out.                                *)
(***************************************************************************)
\* A list and one element are sequences.
LEMMA OneElement ==
  ASSUME NEW S, NEW n \in S
  PROVE  <<n>> \in Seq(S) /\ Len(<<n>>) = 1 /\ <<n>>[1] = n
OBVIOUS

\* The i-th place of the longer list is n; the places behind it move on.
LEMMA InsertedElements ==
  ASSUME NEW S, NEW q \in Seq(S), NEW i \in 1..(Len(q) + 1), NEW n \in S
  PROVE  /\ Lists!InsertAt(q, i, n) \in Seq(S) /\ Len(Lists!InsertAt(q, i, n)) = Len(q) + 1
         /\ \A j \in 1..(Len(q) + 1) :
               Lists!InsertAt(q, i, n)[j] = IF j < i THEN q[j] ELSE IF j = i THEN n ELSE q[j - 1]
<1> DEFINE a == SubSeq(q, 1, i - 1)
           b == SubSeq(q, i, Len(q))
<1>1. Len(q) \in Nat /\ i \in Nat /\ \A j \in 1..Len(q) : q[j] \in S
  BY LenProperties, ElementOfSeq
<1>2. a \in Seq(S) /\ Len(a) = i - 1 /\ \A j \in 1..(i - 1) : a[j] = q[j]
  <2>1. \A j \in 1..(i - 1) : q[j] \in S
    BY <1>1
  <2>2. i - 1 \in Int /\ 1 \in Int
    BY <1>1
  <2>3. /\ a \in Seq(S) /\ Len(a) = IF 1 <= i - 1 THEN i - 1 - 1 + 1 ELSE 0
        /\ \A j \in 1..(i - 1 - 1 + 1) : a[j] = q[1 + j - 1]
    BY <2>1, <2>2, SubSeqProperties
  <2> HIDE DEF a
  <2>4. QED
    BY <1>1, <2>3
<1>3. b \in Seq(S) /\ Len(b) = Len(q) - i + 1 /\ \A j \in 1..(Len(q) - i + 1) : b[j] = q[i + j - 1]
  <2>1. \A j \in i..Len(q) : q[j] \in S
    BY <1>1
  <2>2. i \in Int /\ Len(q) \in Int
    BY <1>1
  <2>3. /\ b \in Seq(S) /\ Len(b) = IF i <= Len(q) THEN Len(q) - i + 1 ELSE 0
        /\ \A j \in 1..(Len(q) - i + 1) : b[j] = q[i + j - 1]
    BY <2>1, <2>2, SubSeqProperties
  <2> HIDE DEF b
  <2>4. QED
    BY <1>1, <2>3
<1> DEFINE one == <<n>>
<1>4. one \in Seq(S) /\ Len(one) = 1 /\ one[1] = n
  BY OneElement
<1> HIDE DEF a, b, one
<1>5. /\ a \o one \in Seq(S) /\ Len(a \o one) = i
      /\ \A j \in 1..i : (a \o one)[j] = IF j < i THEN q[j] ELSE n
  <2>1. /\ a \o one \in Seq(S) /\ Len(a \o one) = Len(a) + Len(one)
        /\ \A j \in 1..(Len(a) + Len(one)) :
              (a \o one)[j] = IF j <= Len(a) THEN a[j] ELSE one[j - Len(a)]
    BY <1>2, <1>4, ConcatProperties
  <2>2. Len(a) + Len(one) = i /\ Len(a) = i - 1
    BY <1>1, <1>2, <1>4
  <2>3. ASSUME NEW j \in 1..i PROVE (a \o one)[j] = IF j < i THEN q[j] ELSE n
    <3>1. (a \o one)[j] = IF j <= Len(a) THEN a[j] ELSE one[j - Len(a)]
      BY <2>1, <2>2
    <3>2. ASSUME j < i PROVE (a \o one)[j] = q[j]
      BY <1>1, <1>2, <2>2, <3>1, <3>2
    <3>3. ASSUME j = i PROVE (a \o one)[j] = n
      <4>1. j - Len(a) = 1 /\ ~(j <= Len(a))
        BY <1>1, <2>2, <3>3
      <4>2. QED
        BY <1>4, <3>1, <3>3, <4>1
    <3>4. j < i \/ (j = i /\ ~(j < i))
      BY <1>1
    <3>5. QED
      BY <3>2, <3>3, <3>4, Zenon
  <2>4. QED
    BY <2>1, <2>2, <2>3
<1> DEFINE front == a \o one
           r == front \o b
<1>6. front \in Seq(S) /\ Len(front) = i /\ \A j \in 1..i : front[j] = IF j < i THEN q[j] ELSE n
  BY <1>5
<1> HIDE DEF front
<1>7. /\ r \in Seq(S) /\ Len(r) = Len(front) + Len(b)
      /\ \A j \in 1..(Len(front) + Len(b)) :
            r[j] = IF j <= Len(front) THEN front[j] ELSE b[j - Len(front)]
  BY <1>3, <1>6, ConcatProperties
<1>8. Lists!InsertAt(q, i, n) = r
  BY DEF Lists!InsertAt, front, a, b, one
<1> HIDE DEF r
<1>9. Len(r) = Len(q) + 1
  BY <1>1, <1>3, <1>6, <1>7
<1>10. ASSUME NEW j \in 1..(Len(q) + 1)
       PROVE  r[j] = IF j < i THEN q[j] ELSE IF j = i THEN n ELSE q[j - 1]
  <2>1. r[j] = IF j <= i THEN front[j] ELSE b[j - i]
    BY <1>1, <1>3, <1>6, <1>7
  <2>2. CASE j <= i
    BY <1>1, <1>6, <2>1, <2>2
  <2>3. CASE j > i
    <3>1. j - i \in 1..(Len(q) - i + 1) /\ i + (j - i) - 1 = j - 1
      BY <1>1, <2>3
    <3>2. b[j - i] = q[j - 1]
      BY <1>3, <3>1
    <3>3. QED
      BY <1>1, <2>1, <2>3, <3>2
  <2>4. QED
    BY <1>1, <2>2, <2>3
<1>11. QED
  BY <1>7, <1>8, <1>9, <1>10

\* Without its i-th element a list closes up.
LEMMA RemovedElements ==
  ASSUME NEW S, NEW q \in Seq(S), NEW i \in 1..Len(q)
  PROVE  /\ Lists!RemoveAt(q, i) \in Seq(S) /\ Len(Lists!RemoveAt(q, i)) = Len(q) - 1
         /\ \A j \in 1..(Len(q) - 1) :
               Lists!RemoveAt(q, i)[j] = IF j < i THEN q[j] ELSE q[j + 1]
<1> DEFINE a == SubSeq(q, 1, i - 1)
           b == SubSeq(q, i + 1, Len(q))
<1>1. Len(q) \in Nat /\ i \in Nat /\ \A j \in 1..Len(q) : q[j] \in S
  BY LenProperties, ElementOfSeq
<1>2. a \in Seq(S) /\ Len(a) = i - 1 /\ \A j \in 1..(i - 1) : a[j] = q[j]
  <2>1. \A j \in 1..(i - 1) : q[j] \in S
    BY <1>1
  <2>2. i - 1 \in Int /\ 1 \in Int
    BY <1>1
  <2>3. /\ a \in Seq(S) /\ Len(a) = IF 1 <= i - 1 THEN i - 1 - 1 + 1 ELSE 0
        /\ \A j \in 1..(i - 1 - 1 + 1) : a[j] = q[1 + j - 1]
    BY <2>1, <2>2, SubSeqProperties
  <2> HIDE DEF a
  <2>4. QED
    BY <1>1, <2>3
<1>3. b \in Seq(S) /\ Len(b) = Len(q) - i /\ \A j \in 1..(Len(q) - i) : b[j] = q[i + j]
  <2>1. \A j \in (i + 1)..Len(q) : q[j] \in S
    BY <1>1
  <2>2. i + 1 \in Int /\ Len(q) \in Int
    BY <1>1
  <2>3. /\ b \in Seq(S) /\ Len(b) = IF i + 1 <= Len(q) THEN Len(q) - (i + 1) + 1 ELSE 0
        /\ \A j \in 1..(Len(q) - (i + 1) + 1) : b[j] = q[(i + 1) + j - 1]
    BY <2>1, <2>2, SubSeqProperties
  <2> HIDE DEF b
  <2>4. QED
    BY <1>1, <2>3
<1> DEFINE r == a \o b
<1> HIDE DEF a, b
<1>4. /\ r \in Seq(S) /\ Len(r) = Len(a) + Len(b)
      /\ \A j \in 1..(Len(a) + Len(b)) : r[j] = IF j <= Len(a) THEN a[j] ELSE b[j - Len(a)]
  BY <1>2, <1>3, ConcatProperties
<1>5. Lists!RemoveAt(q, i) = r
  BY DEF Lists!RemoveAt, a, b
<1> HIDE DEF r
<1>6. Len(r) = Len(q) - 1
  BY <1>1, <1>2, <1>3, <1>4
<1>7. ASSUME NEW j \in 1..(Len(q) - 1)
      PROVE  r[j] = IF j < i THEN q[j] ELSE q[j + 1]
  <2>1. r[j] = IF j <= i - 1 THEN a[j] ELSE b[j - (i - 1)]
    <3>1. Len(a) + Len(b) = Len(q) - 1 /\ Len(a) = i - 1
      BY <1>1, <1>2, <1>3
    <3>2. QED
      BY <1>4, <3>1
  <2>2. CASE j < i
    BY <1>1, <1>2, <2>1, <2>2
  <2>3. CASE j >= i
    <3>1. j - (i - 1) \in 1..(Len(q) - i) /\ i + (j - (i - 1)) = j + 1
      BY <1>1, <2>3
    <3>2. b[j - (i - 1)] = q[j + 1]
      BY <1>3, <3>1
    <3>3. QED
      BY <1>1, <2>1, <2>3, <3>2
  <2>4. QED
    BY <1>1, <2>2, <2>3
<1>8. QED
  BY <1>4, <1>5, <1>6, <1>7

\* A note before a list.
LEMMA FirstElement ==
  ASSUME NEW S, NEW q \in Seq(S), NEW n \in S, NEW r, r = <<n>> \o q
  PROVE  /\ r \in Seq(S) /\ Len(r) = Len(q) + 1 /\ r[1] = n
         /\ \A i \in 1..Len(q) : r[i + 1] = q[i]
<1> DEFINE one == <<n>>
<1>1. one \in Seq(S) /\ Len(one) = 1 /\ one[1] = n
  BY OneElement
<1>2. r = one \o q
  OBVIOUS
<1>3. Len(q) \in Nat
  BY LenProperties
<1> HIDE DEF one
<1>4. /\ one \o q \in Seq(S) /\ Len(one \o q) = Len(one) + Len(q)
      /\ \A i \in 1..(Len(one) + Len(q)) :
            (one \o q)[i] = IF i <= Len(one) THEN one[i] ELSE q[i - Len(one)]
  BY <1>1, ConcatProperties
<1>5. /\ r \in Seq(S) /\ Len(r) = 1 + Len(q)
      /\ \A i \in 1..(1 + Len(q)) : r[i] = IF i <= 1 THEN one[i] ELSE q[i - 1]
  <2>1. /\ r \in Seq(S) /\ Len(r) = Len(one) + Len(q)
        /\ \A i \in 1..(Len(one) + Len(q)) :
              r[i] = IF i <= Len(one) THEN one[i] ELSE q[i - Len(one)]
    BY <1>2, <1>4
  <2>2. QED
    BY <1>1, <2>1
<1>6. r[1] = n
  BY <1>1, <1>3, <1>5
<1>7. ASSUME NEW i \in 1..Len(q) PROVE r[i + 1] = q[i]
  <2>1. i + 1 \in 1..(1 + Len(q)) /\ ~(i + 1 <= 1) /\ i + 1 - 1 = i
    BY <1>3
  <2>2. QED
    BY <1>5, <2>1
<1>8. QED
  BY <1>3, <1>5, <1>6, <1>7

-----------------------------------------------------------------------------
(***************************************************************************)
(* The list of a parent, as the links have it.                               *)
(***************************************************************************)
IsList(t, I, p, q) ==
    /\ q \in Seq(I)
    /\ \A m \in I : t.parent[m] = p <=> \E i \in 1..Len(q) : q[i] = m
    /\ \A i \in 1..Len(q) :
          /\ t.prev[q[i]] = IF i = 1 THEN Null ELSE q[i - 1]
          /\ t.next[q[i]] = IF i = Len(q) THEN Null ELSE q[i + 1]

\* The elements of a list are notes of I, and its places are numbered by naturals.
LEMMA ListPlaces ==
  ASSUME NEW t, NEW I, Null \notin I, NEW p, NEW q, IsList(t, I, p, q)
  PROVE  /\ Len(q) \in Nat
         /\ \A i \in 1..Len(q) :
               /\ q[i] \in I /\ q[i] # Null
               /\ i # 1 => i - 1 \in 1..Len(q)
               /\ i # Len(q) => i + 1 \in 1..Len(q)
<1>1. q \in Seq(I) /\ Len(q) \in Nat
  BY LenProperties DEF IsList
<1>2. \A i \in 1..Len(q) : q[i] \in I
  BY <1>1, ElementOfSeq
<1>3. QED
  BY <1>1, <1>2

\* No note is in its list twice.
LEMMA ListDistinct ==
  ASSUME NEW t, NEW I, Null \notin I, NEW p, NEW q, IsList(t, I, p, q)
  PROVE  \A i, j \in 1..Len(q) : q[i] = q[j] => i = j
<1> DEFINE T == {i \in 1..Len(q) : \E j \in 1..Len(q) : i < j /\ q[j] = q[i]}
<1>1. /\ Len(q) \in Nat
      /\ \A i \in 1..Len(q) : q[i] # Null /\ (i # 1 => i - 1 \in 1..Len(q))
      /\ \A i \in 1..Len(q) : t.prev[q[i]] = IF i = 1 THEN Null ELSE q[i - 1]
  BY ListPlaces DEF IsList
<1>2. T = {}
  <2> SUFFICES ASSUME T # {}
               PROVE  FALSE
    OBVIOUS
  <2>1. T \in SUBSET (1..Len(q))
    OBVIOUS
  <2>2. PICK i \in T : \A j \in T : i <= j
    <3> HIDE DEF T
    <3>1. QED
      BY <1>1, <2>1, LeastAndGreatest
  <2>3. PICK j \in 1..Len(q) : i \in 1..Len(q) /\ i < j /\ q[j] = q[i]
    OBVIOUS
  <2>4. j # 1 /\ t.prev[q[j]] = q[j - 1] /\ j - 1 \in 1..Len(q) /\ q[j - 1] # Null
    BY <1>1, <2>3
  <2>5. i # 1 /\ i - 1 \in 1..Len(q) /\ q[i - 1] = q[j - 1]
    BY <1>1, <2>3, <2>4
  <2>6. i - 1 \in T
    BY <2>3, <2>4, <2>5
  <2> HIDE DEF T
  <2>7. QED
    BY <2>2, <2>3, <2>6
<1>3. QED
  <2> SUFFICES ASSUME NEW i \in 1..Len(q), NEW j \in 1..Len(q), q[i] = q[j], i # j
               PROVE  FALSE
    OBVIOUS
  <2>1. i < j \/ j < i
    BY <1>1
  <2>2. i \in T \/ j \in T
    BY <2>1
  <2> HIDE DEF T
  <2>3. QED
    BY <1>2, <2>2

\* The links leave no choice: of two lists of one parent, each goes on as the other.
LEMMA ListPrefix ==
  ASSUME NEW t, NEW I, Null \notin I, NEW p, NEW q, NEW r,
         IsList(t, I, p, q), IsList(t, I, p, r)
  PROVE  Len(q) <= Len(r) /\ \A i \in 1..Len(q) : q[i] = r[i]
<1> DEFINE T == {i \in 1..Len(q) : ~(i \in 1..Len(r) /\ q[i] = r[i])}
<1>1. /\ Len(q) \in Nat
      /\ \A i \in 1..Len(q) : q[i] \in I /\ q[i] # Null /\ (i # 1 => i - 1 \in 1..Len(q))
                              /\ (i # Len(q) => i + 1 \in 1..Len(q))
      /\ \A i \in 1..Len(q) : /\ t.prev[q[i]] = IF i = 1 THEN Null ELSE q[i - 1]
                              /\ t.next[q[i]] = IF i = Len(q) THEN Null ELSE q[i + 1]
      /\ \A m \in I : t.parent[m] = p <=> \E i \in 1..Len(q) : q[i] = m
  BY ListPlaces DEF IsList
<1>2. /\ Len(r) \in Nat
      /\ \A i \in 1..Len(r) : r[i] \in I /\ r[i] # Null /\ (i # 1 => i - 1 \in 1..Len(r))
                              /\ (i # Len(r) => i + 1 \in 1..Len(r))
      /\ \A i \in 1..Len(r) : /\ t.prev[r[i]] = IF i = 1 THEN Null ELSE r[i - 1]
                              /\ t.next[r[i]] = IF i = Len(r) THEN Null ELSE r[i + 1]
      /\ \A m \in I : t.parent[m] = p <=> \E i \in 1..Len(r) : r[i] = m
  BY ListPlaces DEF IsList
<1>3. T = {}
  <2> SUFFICES ASSUME T # {}
               PROVE  FALSE
    OBVIOUS
  <2>1. T \in SUBSET (1..Len(q))
    OBVIOUS
  <2>2. PICK i \in T : \A j \in T : i <= j
    <3> HIDE DEF T
    <3>1. QED
      BY <1>1, <2>1, LeastAndGreatest
  <2>3. i \in 1..Len(q) /\ ~(i \in 1..Len(r) /\ q[i] = r[i])
    OBVIOUS
  <2>4. CASE i = 1
    <3>1. t.parent[q[1]] = p /\ q[1] \in I /\ t.prev[q[1]] = Null
      BY <1>1, <2>3, <2>4
    <3>2. PICK j \in 1..Len(r) : r[j] = q[1]
      BY <1>2, <3>1
    <3>3. j = 1
      BY <1>2, <3>1, <3>2
    <3>4. QED
      BY <2>3, <2>4, <3>2, <3>3
  <2>5. CASE i # 1
    <3>1. i - 1 \in 1..Len(q) /\ i - 1 \notin T
      <4>1. i - 1 \in 1..Len(q) /\ i - 1 < i
        BY <1>1, <2>3, <2>5
      <4> HIDE DEF T
      <4>2. QED
        BY <2>2, <2>3, <4>1
    <3>2. i - 1 \in 1..Len(r) /\ q[i - 1] = r[i - 1]
      BY <3>1
    <3>3. t.next[q[i - 1]] = q[i] /\ q[i] # Null
      <4>1. i - 1 # Len(q) /\ (i - 1) + 1 = i
        BY <1>1, <2>3
      <4>2. t.next[q[i - 1]] = q[(i - 1) + 1]
        BY <1>1, <3>1, <4>1
      <4>3. q[(i - 1) + 1] = q[i]
        BY <4>1
      <4>4. QED
        BY <1>1, <2>3, <4>2, <4>3
    <3>4. i - 1 # Len(r) /\ i \in 1..Len(r) /\ r[i] = q[i]
      <4>1. i - 1 # Len(r)
        BY <1>2, <3>2, <3>3
      <4>2. (i - 1) + 1 = i
        BY <2>3
      <4>3. QED
        BY <1>2, <3>2, <3>3, <4>1, <4>2
    <3>5. QED
      BY <2>3, <3>4
  <2>6. QED
    BY <2>4, <2>5
<1>4. \A i \in 1..Len(q) : i \in 1..Len(r) /\ q[i] = r[i]
  BY <1>3
<1>5. Len(q) <= Len(r)
  <2>1. CASE Len(q) = 0
    BY <1>2, <2>1
  <2>2. CASE Len(q) # 0
    BY <1>1, <1>2, <1>4, <2>2
  <2>3. QED
    BY <2>1, <2>2
<1>6. QED
  BY <1>4, <1>5

\* A parent has only one list.
LEMMA ListUnique ==
  ASSUME NEW t, NEW I, Null \notin I, NEW p, NEW q, NEW r,
         IsList(t, I, p, q), IsList(t, I, p, r)
  PROVE  q = r
<1>1. q \in Seq(I) /\ r \in Seq(I) /\ Len(q) \in Nat /\ Len(r) \in Nat
  BY ListPlaces DEF IsList
<1>2. Len(q) <= Len(r) /\ (\A i \in 1..Len(q) : q[i] = r[i]) /\ Len(r) <= Len(q)
  BY ListPrefix
<1>3. Len(q) = Len(r)
  BY <1>1, <1>2
<1>4. QED
  BY <1>1, <1>2, <1>3, SeqEqual

\* A list is read off the notes, their parents and their links.
LEMMA SameListLinks ==
  ASSUME NEW t, NEW u, NEW I, NEW p, NEW q, IsList(t, I, p, q),
         \A m \in I : /\ u.parent[m] = t.parent[m]
                      /\ t.parent[m] = p => u.prev[m] = t.prev[m] /\ u.next[m] = t.next[m]
  PROVE  IsList(u, I, p, q)
<1>1. /\ q \in Seq(I) /\ \A i \in 1..Len(q) : q[i] \in I
      /\ \A m \in I : t.parent[m] = p <=> \E i \in 1..Len(q) : q[i] = m
      /\ \A i \in 1..Len(q) : /\ t.prev[q[i]] = IF i = 1 THEN Null ELSE q[i - 1]
                              /\ t.next[q[i]] = IF i = Len(q) THEN Null ELSE q[i + 1]
  BY ElementOfSeq DEF IsList
<1>2. \A i \in 1..Len(q) : t.parent[q[i]] = p
  BY <1>1
<1>3. \A i \in 1..Len(q) : u.prev[q[i]] = t.prev[q[i]] /\ u.next[q[i]] = t.next[q[i]]
  BY <1>1, <1>2
<1>4. \A m \in I : u.parent[m] = t.parent[m]
  OBVIOUS
<1>5. \A m \in I : u.parent[m] = p <=> \E i \in 1..Len(q) : q[i] = m
  BY <1>1, <1>4, Zenon
<1>6. QED
  BY <1>1, <1>3, <1>5 DEF IsList

-----------------------------------------------------------------------------
(***************************************************************************)
(* A note linked into a list, or out of it.                                  *)
(***************************************************************************)
\* A gap of the list of p is a place in it.
LEMMA GapPlace ==
  ASSUME NEW s, NEW I, Null \notin I, NEW p, NEW q, IsList(s, I, p, q),
         NEW prev, NEW next, Gap(s, I, p, prev, next)
  PROVE  \E i \in 1..(Len(q) + 1) :
            /\ prev = IF i = 1 THEN Null ELSE q[i - 1]
            /\ next = IF i = Len(q) + 1 THEN Null ELSE q[i]
<1>1. /\ Len(q) \in Nat
      /\ \A i \in 1..Len(q) : q[i] \in I /\ q[i] # Null /\ (i # 1 => i - 1 \in 1..Len(q))
                              /\ (i # Len(q) => i + 1 \in 1..Len(q))
      /\ \A i \in 1..Len(q) : /\ s.prev[q[i]] = IF i = 1 THEN Null ELSE q[i - 1]
                              /\ s.next[q[i]] = IF i = Len(q) THEN Null ELSE q[i + 1]
      /\ \A m \in I : s.parent[m] = p <=> \E i \in 1..Len(q) : q[i] = m
  BY ListPlaces DEF IsList
<1>2. CASE prev = Null /\ next = Null
  <2>1. Len(q) = 0
    <3> SUFFICES ASSUME Len(q) # 0
                 PROVE  FALSE
      OBVIOUS
    <3>1. 1 \in 1..Len(q)
      BY <1>1
    <3>2. q[1] \in I /\ s.parent[q[1]] = p
      BY <1>1, <3>1
    <3>3. QED
      BY <1>2, <3>2 DEF Gap
  <2>2. QED
    BY <1>2, <2>1
<1>3. CASE prev = Null /\ next # Null
  <2>1. next \in I /\ s.parent[next] = p /\ s.prev[next] = Null
    BY <1>3 DEF Gap
  <2>2. PICK j \in 1..Len(q) : q[j] = next
    BY <1>1, <2>1
  <2>3. j = 1
    BY <1>1, <2>1, <2>2
  <2>4. 1 \in 1..(Len(q) + 1) /\ 1 # Len(q) + 1
    BY <1>1, <2>2, <2>3
  <2>5. QED
    BY <1>3, <2>2, <2>3, <2>4
<1>4. CASE prev # Null
  <2>1. prev \in I /\ s.parent[prev] = p /\ s.next[prev] = next
    BY <1>4 DEF Gap
  <2>2. PICK j \in 1..Len(q) : q[j] = prev
    BY <1>1, <2>1
  <2>3. next = IF j = Len(q) THEN Null ELSE q[j + 1]
    BY <1>1, <2>1, <2>2
  <2> DEFINE i == j + 1
  <2>4. i \in 1..(Len(q) + 1) /\ i # 1 /\ i - 1 = j /\ (i = Len(q) + 1 <=> j = Len(q))
    BY <1>1
  <2>5. /\ prev = IF i = 1 THEN Null ELSE q[i - 1]
        /\ next = IF i = Len(q) + 1 THEN Null ELSE q[i]
    BY <2>2, <2>3, <2>4
  <2>6. QED
    BY <2>4, <2>5
<1>5. QED
  BY <1>2, <1>3, <1>4

\* A note inserted into a gap of a list gets one place of it.
LEMMA ListInserted ==
  ASSUME NEW s, NEW u, NEW I \in SUBSET Notes, NEW n \in Notes \ I, NEW p, NEW q,
         NEW prev, NEW next, IsList(s, I, p, q), Gap(s, I, p, prev, next),
         Inserted(s, u, n, prev, next),
         u.parent[n] = p, \A m \in I : u.parent[m] = s.parent[m]
  PROVE  \E i \in 1..(Len(q) + 1) : IsList(u, I \cup {n}, p, Lists!InsertAt(q, i, n))
<1>0. Null \notin I /\ I \subseteq Notes /\ n # Null
  BY NullAssumption
<1>1. /\ Len(q) \in Nat
      /\ \A i \in 1..Len(q) : q[i] \in I /\ q[i] # Null /\ q[i] # n /\ q[i] \in Notes
                              /\ (i # 1 => i - 1 \in 1..Len(q))
                              /\ (i # Len(q) => i + 1 \in 1..Len(q))
      /\ \A i \in 1..Len(q) : /\ s.prev[q[i]] = IF i = 1 THEN Null ELSE q[i - 1]
                              /\ s.next[q[i]] = IF i = Len(q) THEN Null ELSE q[i + 1]
      /\ \A m \in I : s.parent[m] = p <=> \E i \in 1..Len(q) : q[i] = m
  BY <1>0, ListPlaces DEF IsList
<1>2. \A i, j \in 1..Len(q) : q[i] = q[j] => i = j
  BY <1>0, ListDistinct
<1>3. PICK i \in 1..(Len(q) + 1) :
            /\ prev = IF i = 1 THEN Null ELSE q[i - 1]
            /\ next = IF i = Len(q) + 1 THEN Null ELSE q[i]
  BY <1>0, GapPlace
<1> DEFINE J == I \cup {n}
           r == Lists!InsertAt(q, i, n)
<1>4. /\ r \in Seq(J) /\ Len(r) = Len(q) + 1
      /\ \A j \in 1..(Len(q) + 1) : r[j] = IF j < i THEN q[j] ELSE IF j = i THEN n ELSE q[j - 1]
  <2>1. q \in Seq(J)
    <3>1. q \in Seq(I)
      BY DEF IsList
    <3>2. QED
      BY <3>1
  <2>2. n \in J
    OBVIOUS
  <2> HIDE DEF J
  <2>3. QED
    BY <2>1, <2>2, InsertedElements
<1> HIDE DEF r
<1>5. \A m \in J : u.parent[m] = p <=> \E j \in 1..Len(r) : r[j] = m
  <2> SUFFICES ASSUME NEW m \in J
               PROVE  u.parent[m] = p <=> \E j \in 1..Len(r) : r[j] = m
    OBVIOUS
  <2>1. CASE m = n
    <3>1. r[i] = n /\ i \in 1..Len(r)
      BY <1>1, <1>4
    <3>2. QED
      BY <2>1, <3>1
  <2>2. CASE m # n
    <3>1. u.parent[m] = p <=> \E j \in 1..Len(q) : q[j] = m
      BY <1>1, <2>2
    <3>2. ASSUME NEW j \in 1..Len(q), q[j] = m PROVE \E k \in 1..Len(r) : r[k] = m
      <4>1. CASE j < i
        <5>1. j \in 1..(Len(q) + 1) /\ r[j] = q[j]
          BY <1>1, <1>4, <4>1
        <5>2. QED
          BY <1>4, <3>2, <5>1
      <4>2. CASE ~(j < i)
        <5>1. j + 1 \in 1..(Len(q) + 1) /\ ~(j + 1 < i) /\ j + 1 # i /\ j + 1 - 1 = j
          BY <1>1, <4>2
        <5>2. r[j + 1] = q[j]
          BY <1>4, <5>1
        <5>3. QED
          BY <1>4, <3>2, <5>1, <5>2
      <4>3. QED
        BY <4>1, <4>2
    <3>3. ASSUME NEW k \in 1..Len(r), r[k] = m PROVE \E j \in 1..Len(q) : q[j] = m
      <4>1. k \in 1..(Len(q) + 1) /\ k # i
        BY <1>4, <2>2, <3>3
      <4>2. CASE k < i
        <5>1. k \in 1..Len(q) /\ r[k] = q[k]
          BY <1>1, <1>4, <4>1, <4>2
        <5>2. QED
          BY <3>3, <5>1
      <4>3. CASE ~(k < i)
        <5>1. k - 1 \in 1..Len(q) /\ r[k] = q[k - 1]
          BY <1>1, <1>4, <4>1, <4>3
        <5>2. QED
          BY <3>3, <5>1
      <4>4. QED
        BY <4>2, <4>3
    <3>4. QED
      BY <3>1, <3>2, <3>3
  <2>3. QED
    BY <2>1, <2>2
<1>6. ASSUME NEW j \in 1..Len(r)
      PROVE  /\ u.prev[r[j]] = IF j = 1 THEN Null ELSE r[j - 1]
             /\ u.next[r[j]] = IF j = Len(r) THEN Null ELSE r[j + 1]
  <2>1. j \in 1..(Len(q) + 1) /\ Len(r) = Len(q) + 1
    BY <1>4, <1>6
  <2>2. n \in Notes /\ u.prev[n] = prev /\ u.next[n] = next
    BY DEF Inserted
  <2>3. ASSUME NEW k \in 1..Len(q)
        PROVE  /\ u.prev[q[k]] = IF k = i THEN n ELSE s.prev[q[k]]
               /\ u.next[q[k]] = IF k = i - 1 THEN n ELSE s.next[q[k]]
    <3>1. q[k] \in Notes /\ q[k] # n /\ q[k] # Null
      BY <1>1
    <3>2. q[k] = next <=> k = i
      <4>1. CASE i = Len(q) + 1
        BY <1>1, <1>3, <3>1, <4>1
      <4>2. CASE i # Len(q) + 1
        <5>1. i \in 1..Len(q) /\ next = q[i]
          BY <1>1, <1>3, <4>2
        <5>2. QED
          BY <1>2, <5>1
      <4>3. QED
        BY <4>1, <4>2
    <3>3. q[k] = prev <=> k = i - 1
      <4>1. CASE i = 1
        BY <1>1, <1>3, <3>1, <4>1
      <4>2. CASE i # 1
        <5>1. i - 1 \in 1..Len(q) /\ prev = q[i - 1]
          BY <1>1, <1>3, <4>2
        <5>2. QED
          BY <1>2, <5>1
      <4>3. QED
        BY <4>1, <4>2
    <3>4. QED
      BY <3>1, <3>2, <3>3 DEF Inserted
  <2>4. CASE j < i
    <3>1. j \in 1..Len(q) /\ r[j] = q[j]
      BY <1>1, <1>4, <2>1, <2>4
    <3>2. u.prev[q[j]] = IF j = 1 THEN Null ELSE q[j - 1]
      BY <1>1, <2>3, <2>4, <3>1
    <3>3. j # 1 => j - 1 \in 1..(Len(q) + 1) /\ r[j - 1] = q[j - 1]
      <4>1. j # 1 => j - 1 \in 1..(Len(q) + 1) /\ j - 1 < i
        BY <1>1, <2>1, <2>4
      <4>2. QED
        BY <1>4, <4>1
    <3>4. j # Len(r) /\ r[j + 1] = IF j = i - 1 THEN n ELSE q[j + 1]
      <4>1. j + 1 \in 1..(Len(q) + 1) /\ j # Len(q) + 1
        BY <1>1, <3>1
      <4>2. j = i - 1 => j + 1 = i
        BY <2>4
      <4>3. j # i - 1 => j + 1 < i
        BY <1>1, <2>1, <2>4
      <4>4. QED
        BY <1>4, <2>1, <4>1, <4>2, <4>3
    <3>5. u.next[q[j]] = IF j = i - 1 THEN n ELSE q[j + 1]
      <4>1. CASE j = i - 1
        BY <2>3, <3>1, <4>1
      <4>2. CASE j # i - 1
        <5>1. j # Len(q) /\ u.next[q[j]] = s.next[q[j]]
          BY <1>1, <2>3, <2>4, <3>1, <4>2
        <5>2. QED
          BY <1>1, <3>1, <4>2, <5>1
      <4>3. QED
        BY <4>1, <4>2
    <3>6. QED
      BY <3>1, <3>2, <3>3, <3>4, <3>5
  <2>5. CASE j = i
    <3>1. r[j] = n
      BY <1>4, <2>1, <2>5
    <3>2. j # 1 => r[j - 1] = q[j - 1]
      <4>1. j # 1 => j - 1 \in 1..(Len(q) + 1) /\ j - 1 < i
        BY <1>1, <2>1, <2>5
      <4>2. QED
        BY <1>4, <4>1
    <3>3. j # Len(q) + 1 => r[j + 1] = q[j]
      <4>1. j # Len(q) + 1 => /\ j + 1 \in 1..(Len(q) + 1) /\ ~(j + 1 < i) /\ j + 1 # i
                              /\ j + 1 - 1 = j
        BY <1>1, <2>1, <2>5
      <4>2. QED
        BY <1>4, <4>1
    <3>4. QED
      BY <1>3, <2>1, <2>2, <2>5, <3>1, <3>2, <3>3
  <2>6. CASE j > i
    <3>1. j - 1 \in 1..Len(q) /\ r[j] = q[j - 1]
      BY <1>1, <1>4, <2>1, <2>6
    <3> DEFINE k == j - 1
    <3>2. k \in 1..Len(q) /\ k # i - 1 /\ (k = Len(q) <=> j = Len(r)) /\ j # 1 /\ r[j] = q[k]
          /\ k + 1 = j /\ j - 1 = k
      BY <1>1, <2>1, <2>6, <3>1
    <3> HIDE DEF k
    <3>3. u.next[q[k]] = IF k = Len(q) THEN Null ELSE q[k + 1]
      BY <1>1, <2>3, <3>2
    <3>4. k # Len(q) => r[j + 1] = q[k + 1]
      <4>1. k # Len(q) => /\ j + 1 \in 1..(Len(q) + 1) /\ ~(j + 1 < i) /\ j + 1 # i
                          /\ j + 1 - 1 = k + 1
        BY <1>1, <2>1, <2>6, <3>2
      <4>2. QED
        BY <1>4, <4>1
    <3>5. u.prev[q[k]] = IF k = i THEN n ELSE q[k - 1]
      <4>1. CASE k = i
        BY <2>3, <3>2, <4>1
      <4>2. CASE k # i
        <5>1. u.prev[q[k]] = s.prev[q[k]] /\ k # 1
          BY <1>1, <2>3, <2>6, <3>2, <4>2
        <5>2. QED
          BY <1>1, <3>2, <4>2, <5>1
      <4>3. QED
        BY <4>1, <4>2
    <3>6. r[j - 1] = IF k = i THEN n ELSE q[k - 1]
      <4>1. k \in 1..(Len(q) + 1) /\ ~(k < i)
        BY <1>1, <2>6, <3>2
      <4>2. QED
        BY <1>4, <3>2, <4>1
    <3>7. QED
      BY <3>2, <3>3, <3>4, <3>5, <3>6
  <2>7. QED
    BY <1>1, <2>1, <2>4, <2>5, <2>6
<1>7. IsList(u, J, p, r)
  BY <1>4, <1>5, <1>6 DEF IsList
<1>8. QED
  BY <1>7 DEF r

\* The lists of the other parents stay.
LEMMA ListBesideInserted ==
  ASSUME NEW s, NEW u, NEW I \in SUBSET Notes, NEW n \in Notes \ I, NEW p, NEW q,
         NEW prev, NEW next, NEW o, o # p, IsList(s, I, o, q), Gap(s, I, p, prev, next),
         Inserted(s, u, n, prev, next),
         u.parent[n] = p, \A m \in I : u.parent[m] = s.parent[m]
  PROVE  IsList(u, I \cup {n}, o, q)
<1>0. Null \notin I /\ I \subseteq Notes /\ n # Null
  BY NullAssumption
<1>1. /\ Len(q) \in Nat
      /\ \A i \in 1..Len(q) : q[i] \in I /\ q[i] # Null /\ q[i] # n /\ q[i] \in Notes
      /\ \A i \in 1..Len(q) : /\ s.prev[q[i]] = IF i = 1 THEN Null ELSE q[i - 1]
                              /\ s.next[q[i]] = IF i = Len(q) THEN Null ELSE q[i + 1]
      /\ \A m \in I : s.parent[m] = o <=> \E i \in 1..Len(q) : q[i] = m
  BY <1>0, ListPlaces DEF IsList
<1>2. \A i \in 1..Len(q) : q[i] # prev /\ q[i] # next
  BY <1>1 DEF Gap
<1>3. \A i \in 1..Len(q) : u.prev[q[i]] = s.prev[q[i]] /\ u.next[q[i]] = s.next[q[i]]
  BY <1>1, <1>2 DEF Inserted
<1>4. q \in Seq(I \cup {n})
  <2>1. q \in Seq(I)
    BY DEF IsList
  <2>2. QED
    BY <2>1
<1>5. \A m \in I \cup {n} : u.parent[m] = o <=> \E i \in 1..Len(q) : q[i] = m
  BY <1>1
<1>6. QED
  BY <1>1, <1>3, <1>4, <1>5 DEF IsList

\* What NoteOrdering.remove writes.
Removed(s, u, n) ==
    \A m \in Notes :
        /\ u.prev[m] = IF m = s.next[n] THEN s.prev[n] ELSE s.prev[m]
        /\ u.next[m] = IF m = s.prev[n] THEN s.next[n] ELSE s.next[m]

\* A list that never had the note.
LEMMA NotTaken ==
  ASSUME NEW I, NEW q \in Seq(I), NEW n, \A i \in 1..Len(q) : q[i] # n
  PROVE  Lists!TakeOut(q, n) = q
<1>1. DOMAIN q = 1..Len(q)
  BY LenProperties
<1>2. n \notin Lists!ToSet(q)
  BY <1>1 DEF Lists!ToSet
<1>3. QED
  BY <1>2 DEF Lists!TakeOut

\* A list without a note of it.
LEMMA TakenOut ==
  ASSUME NEW s, NEW I, Null \notin I, NEW p, NEW q, IsList(s, I, p, q), NEW n
  PROVE  \A i \in 1..Len(q) : q[i] = n => Lists!TakeOut(q, n) = Lists!RemoveAt(q, i)
<1>1. DOMAIN q = 1..Len(q) /\ \A i, j \in 1..Len(q) : q[i] = q[j] => i = j
  <2>1. q \in Seq(I)
    BY DEF IsList
  <2>2. DOMAIN q = 1..Len(q)
    BY <2>1, LenProperties
  <2>3. \A i, j \in 1..Len(q) : q[i] = q[j] => i = j
    BY ListDistinct
  <2>4. QED
    BY <2>2, <2>3
<1>2. n \in Lists!ToSet(q) <=> \E i \in 1..Len(q) : q[i] = n
  BY <1>1 DEF Lists!ToSet
<1>3. ASSUME NEW i \in 1..Len(q), q[i] = n PROVE Lists!TakeOut(q, n) = Lists!RemoveAt(q, i)
  <2>1. (CHOOSE j \in DOMAIN q : q[j] = n) = i
    BY <1>1, <1>3
  <2>2. QED
    BY <1>2, <1>3, <2>1 DEF Lists!TakeOut
<1>4. QED
  BY <1>3

\* Taking a note out of its list leaves the list of the others.
LEMMA ListRemoved ==
  ASSUME NEW s, NEW u, NEW I \in SUBSET Notes, NEW n \in I, NEW q,
         IsList(s, I, s.parent[n], q), Removed(s, u, n),
         \A m \in I \ {n} : u.parent[m] = s.parent[m]
  PROVE  IsList(u, I \ {n}, s.parent[n], Lists!TakeOut(q, n))
<1> DEFINE p == s.parent[n]
           J == I \ {n}
<1>0. Null \notin I /\ I \subseteq Notes /\ n \in Notes /\ n # Null
  BY NullAssumption
<1>1. /\ Len(q) \in Nat
      /\ \A i \in 1..Len(q) : q[i] \in I /\ q[i] # Null /\ q[i] \in Notes
                              /\ (i # 1 => i - 1 \in 1..Len(q))
                              /\ (i # Len(q) => i + 1 \in 1..Len(q))
      /\ \A i \in 1..Len(q) : /\ s.prev[q[i]] = IF i = 1 THEN Null ELSE q[i - 1]
                              /\ s.next[q[i]] = IF i = Len(q) THEN Null ELSE q[i + 1]
      /\ \A m \in I : s.parent[m] = p <=> \E i \in 1..Len(q) : q[i] = m
      /\ q \in Seq(I)
  BY <1>0, ListPlaces DEF IsList
<1>2. \A i, j \in 1..Len(q) : q[i] = q[j] => i = j
  BY <1>0, ListDistinct
<1>3. PICK k \in 1..Len(q) : q[k] = n
  BY <1>1
<1> DEFINE r == Lists!RemoveAt(q, k)
<1>4. /\ r \in Seq(I) /\ Len(r) = Len(q) - 1
      /\ \A j \in 1..(Len(q) - 1) : r[j] = IF j < k THEN q[j] ELSE q[j + 1]
  BY <1>1, RemovedElements
<1>5. Lists!TakeOut(q, n) = r
  BY <1>0, <1>3, TakenOut
<1> HIDE DEF r
<1>6. ASSUME NEW j \in 1..(Len(q) - 1) PROVE r[j] \in J
  <2>1. CASE j < k
    <3>1. j \in 1..Len(q) /\ r[j] = q[j] /\ j # k
      BY <1>1, <1>4, <2>1
    <3>2. QED
      BY <1>1, <1>2, <1>3, <3>1
  <2>2. CASE ~(j < k)
    <3>1. j + 1 \in 1..Len(q) /\ r[j] = q[j + 1] /\ j + 1 # k
      BY <1>1, <1>4, <2>2
    <3>2. QED
      BY <1>1, <1>2, <1>3, <3>1
  <2>3. QED
    BY <2>1, <2>2
<1>7. r \in Seq(J)
  <2>1. r \in [1..Len(r) -> I] /\ Len(r) \in Nat
    BY <1>4, LenProperties
  <2>2. r \in [1..Len(r) -> J]
    BY <1>4, <1>6, <2>1
  <2>3. QED
    BY <2>1, <2>2
<1>8. \A m \in J : u.parent[m] = p <=> \E j \in 1..Len(r) : r[j] = m
  <2> SUFFICES ASSUME NEW m \in J
               PROVE  u.parent[m] = p <=> \E j \in 1..Len(r) : r[j] = m
    OBVIOUS
  <2>1. u.parent[m] = p <=> \E j \in 1..Len(q) : q[j] = m
    BY <1>1
  <2>2. ASSUME NEW j \in 1..Len(q), q[j] = m PROVE \E i \in 1..Len(r) : r[i] = m
    <3>1. j # k
      BY <1>3, <2>2
    <3>2. CASE j < k
      <4>1. j \in 1..(Len(q) - 1)
        BY <1>1, <3>2
      <4>2. r[j] = q[j]
        BY <1>4, <3>2, <4>1
      <4>3. QED
        BY <1>4, <2>2, <4>1, <4>2
    <3>3. CASE ~(j < k)
      <4>1. j - 1 \in 1..(Len(q) - 1) /\ ~(j - 1 < k) /\ j - 1 + 1 = j
        BY <1>1, <3>1, <3>3
      <4>2. r[j - 1] = q[j]
        BY <1>4, <4>1
      <4>3. QED
        BY <1>4, <2>2, <4>1, <4>2
    <3>4. QED
      BY <3>2, <3>3
  <2>3. ASSUME NEW i \in 1..Len(r), r[i] = m PROVE \E j \in 1..Len(q) : q[j] = m
    <3>1. i \in 1..(Len(q) - 1) /\ r[i] = IF i < k THEN q[i] ELSE q[i + 1]
      BY <1>4
    <3>2. i \in 1..Len(q) /\ i + 1 \in 1..Len(q)
      BY <1>1, <3>1
    <3>3. QED
      BY <2>3, <3>1, <3>2
  <2>4. QED
    BY <2>1, <2>2, <2>3
<1>9. ASSUME NEW i \in 1..Len(q), i # k
      PROVE  /\ u.prev[q[i]] = IF i = k + 1 THEN s.prev[n] ELSE s.prev[q[i]]
             /\ u.next[q[i]] = IF i = k - 1 THEN s.next[n] ELSE s.next[q[i]]
  <2>1. q[i] \in Notes /\ q[i] # Null
    BY <1>1
  <2>2. q[i] = s.next[n] <=> i = k + 1
    <3>1. CASE k = Len(q)
      BY <1>1, <1>3, <2>1, <3>1
    <3>2. CASE k # Len(q)
      <4>1. k + 1 \in 1..Len(q) /\ s.next[n] = q[k + 1]
        BY <1>1, <1>3, <3>2
      <4>2. QED
        BY <1>2, <4>1
    <3>3. QED
      BY <3>1, <3>2
  <2>3. q[i] = s.prev[n] <=> i = k - 1
    <3>1. CASE k = 1
      BY <1>1, <1>3, <2>1, <3>1
    <3>2. CASE k # 1
      <4>1. k - 1 \in 1..Len(q) /\ s.prev[n] = q[k - 1]
        BY <1>1, <1>3, <3>2
      <4>2. QED
        BY <1>2, <4>1
    <3>3. QED
      BY <3>1, <3>2
  <2>4. QED
    BY <2>1, <2>2, <2>3 DEF Removed
<1>10. ASSUME NEW j \in 1..Len(r)
       PROVE  /\ u.prev[r[j]] = IF j = 1 THEN Null ELSE r[j - 1]
              /\ u.next[r[j]] = IF j = Len(r) THEN Null ELSE r[j + 1]
  <2>1. j \in 1..(Len(q) - 1) /\ Len(r) = Len(q) - 1
    BY <1>4
  <2>2. CASE j < k
    <3>1. j \in 1..Len(q) /\ r[j] = q[j] /\ j # k /\ j # k + 1
      BY <1>1, <1>4, <2>1, <2>2
    <3>2. u.prev[q[j]] = IF j = 1 THEN Null ELSE q[j - 1]
      BY <1>1, <1>9, <3>1
    <3>3. j # 1 => r[j - 1] = q[j - 1]
      <4>1. j # 1 => j - 1 \in 1..(Len(q) - 1) /\ j - 1 < k
        BY <1>1, <2>1, <2>2
      <4>2. QED
        BY <1>4, <4>1
    <3>4. CASE j # k - 1
      <4>1. j + 1 \in 1..(Len(q) - 1) /\ j + 1 < k /\ j # Len(q) /\ j # Len(r)
        BY <1>1, <2>1, <2>2, <3>4
      <4>2. r[j + 1] = q[j + 1]
        BY <1>4, <4>1
      <4>3. u.next[q[j]] = q[j + 1]
        BY <1>1, <1>9, <3>1, <3>4, <4>1
      <4>4. QED
        BY <3>1, <3>2, <3>3, <4>1, <4>2, <4>3
    <3>5. CASE j = k - 1
      <4>1. u.next[q[j]] = IF k = Len(q) THEN Null ELSE q[k + 1]
        <5>1. s.next[n] = IF k = Len(q) THEN Null ELSE q[k + 1]
          BY <1>1, <1>3
        <5>2. u.next[q[j]] = s.next[n]
          BY <1>9, <3>1, <3>5
        <5>3. QED
          BY <5>1, <5>2
      <4>2. j = Len(r) <=> k = Len(q)
        BY <1>1, <2>1, <3>5
      <4>3. j # Len(r) => r[j + 1] = q[k + 1]
        <5>1. j # Len(r) => j + 1 \in 1..(Len(q) - 1) /\ ~(j + 1 < k) /\ j + 1 + 1 = k + 1
          BY <1>1, <2>1, <3>5
        <5>2. QED
          BY <1>4, <5>1
      <4>4. QED
        BY <3>1, <3>2, <3>3, <4>1, <4>2, <4>3
    <3>6. QED
      BY <3>4, <3>5
  <2>3. CASE ~(j < k)
    <3> DEFINE i == j + 1
    <3>1. /\ i \in 1..Len(q) /\ i # k /\ i # k - 1 /\ r[j] = q[i] /\ i - 1 = j
          /\ (i = Len(q) <=> j = Len(r))
      BY <1>1, <1>4, <2>1, <2>3
    <3> HIDE DEF i
    <3>2. u.next[q[i]] = IF i = Len(q) THEN Null ELSE q[i + 1]
      BY <1>1, <1>9, <3>1
    <3>3. j # Len(r) => r[j + 1] = q[i + 1]
      <4>1. j # Len(r) => j + 1 \in 1..(Len(q) - 1) /\ ~(j + 1 < k) /\ j + 1 + 1 = i + 1
        BY <1>1, <2>1, <2>3, <3>1
      <4>2. QED
        BY <1>4, <4>1
    <3>4. CASE i = k + 1
      <4>1. u.prev[q[i]] = IF k = 1 THEN Null ELSE q[k - 1]
        <5>1. s.prev[n] = IF k = 1 THEN Null ELSE q[k - 1]
          BY <1>1, <1>3
        <5>2. u.prev[q[i]] = s.prev[n]
          BY <1>9, <3>1, <3>4
        <5>3. QED
          BY <5>1, <5>2
      <4>2. j = k
        BY <1>1, <3>1, <3>4
      <4>3. j # 1 => r[j - 1] = q[k - 1]
        <5>1. j # 1 => j - 1 \in 1..(Len(q) - 1) /\ j - 1 < k
          BY <1>1, <2>1, <4>2
        <5>2. QED
          BY <1>4, <4>2, <5>1
      <4>4. QED
        BY <3>1, <3>2, <3>3, <4>1, <4>2, <4>3
    <3>5. CASE i # k + 1
      <4>1. j # 1 /\ j - 1 \in 1..(Len(q) - 1) /\ ~(j - 1 < k) /\ j - 1 + 1 = i - 1 /\ i # 1
        BY <1>1, <2>1, <2>3, <3>1, <3>5
      <4>2. r[j - 1] = q[i - 1]
        BY <1>4, <4>1
      <4>3. u.prev[q[i]] = q[i - 1]
        BY <1>1, <1>9, <3>1, <3>5, <4>1
      <4>4. QED
        BY <3>1, <3>2, <3>3, <4>1, <4>2, <4>3
    <3>6. QED
      BY <3>4, <3>5
  <2>4. QED
    BY <2>2, <2>3
<1>11. IsList(u, J, p, r)
  BY <1>7, <1>8, <1>10 DEF IsList
<1>12. QED
  BY <1>5, <1>11

\* The lists of the other parents stay.
LEMMA ListBesideRemoved ==
  ASSUME NEW s, NEW u, NEW I \in SUBSET Notes, NEW n \in I, NEW q, NEW o, o # s.parent[n],
         Reciprocal(s, I), IsList(s, I, o, q), Removed(s, u, n),
         \A m \in I \ {n} : u.parent[m] = s.parent[m]
  PROVE  IsList(u, I \ {n}, o, q) /\ Lists!TakeOut(q, n) = q
<1>0. Null \notin I /\ I \subseteq Notes /\ n \in Notes
  BY NullAssumption
<1>1. /\ Len(q) \in Nat
      /\ \A i \in 1..Len(q) : q[i] \in I /\ q[i] # Null /\ q[i] \in Notes
      /\ \A i \in 1..Len(q) : /\ s.prev[q[i]] = IF i = 1 THEN Null ELSE q[i - 1]
                              /\ s.next[q[i]] = IF i = Len(q) THEN Null ELSE q[i + 1]
      /\ \A m \in I : s.parent[m] = o <=> \E i \in 1..Len(q) : q[i] = m
      /\ q \in Seq(I)
  BY <1>0, ListPlaces DEF IsList
<1>2. \A i \in 1..Len(q) : q[i] # n /\ q[i] # s.prev[n] /\ q[i] # s.next[n]
  BY <1>1 DEF Reciprocal
<1>3. \A i \in 1..Len(q) : u.prev[q[i]] = s.prev[q[i]] /\ u.next[q[i]] = s.next[q[i]]
  BY <1>1, <1>2 DEF Removed
<1>4. q \in Seq(I \ {n})
  <2>1. q \in [1..Len(q) -> I \ {n}]
    <3>1. q \in [1..Len(q) -> I]
      BY <1>1, LenProperties
    <3>2. QED
      BY <1>2, <3>1
  <2>2. Len(q) \in Nat
    BY <1>1
  <2>3. QED
    BY <2>1, <2>2
<1>5. \A m \in I \ {n} : u.parent[m] = o <=> \E i \in 1..Len(q) : q[i] = m
  BY <1>1
<1>6. IsList(u, I \ {n}, o, q)
  BY <1>1, <1>3, <1>4, <1>5 DEF IsList
<1>7. Lists!TakeOut(q, n) = q
  <2>1. q \in Seq(I) /\ \A i \in 1..Len(q) : q[i] # n
    BY <1>1, <1>2
  <2>2. QED
    BY <2>1, NotTaken
<1>8. QED
  BY <1>6, <1>7

-----------------------------------------------------------------------------
(***************************************************************************)
(* NoteOrdering.children: the walk along next ends, and it gives the list.   *)
(***************************************************************************)
\* A note and what the walk gives from it.
Chain(t, n, q) ==
    /\ q \in Seq(t.ids) /\ Len(q) \in Nat \ {0} /\ q[1] = n
    /\ \A i \in 1..Len(q) : t.next[q[i]] = IF i = Len(q) THEN Null ELSE q[i + 1]

\* A note that nothing follows is all of its walk.
LEMMA ChainAlone ==
  ASSUME NEW t, NEW n \in t.ids, t.next[n] = Null
  PROVE  Chain(t, n, <<n>>)
<1> DEFINE q == <<n>>
<1>1. q \in Seq(t.ids) /\ Len(q) = 1 /\ q[1] = n
  BY OneElement
<1> HIDE DEF q
<1>2. \A i \in 1..Len(q) : i = 1
  BY <1>1
<1>3. Chain(t, n, q)
  BY <1>1, <1>2 DEF Chain
<1>4. QED
  BY <1>3 DEF q

\* A note comes before the walk from the note that follows it.
LEMMA ChainBefore ==
  ASSUME NEW t, NEW n \in t.ids, NEW m, t.next[n] = m, NEW q, Chain(t, m, q)
  PROVE  Chain(t, n, <<n>> \o q)
<1> DEFINE r == <<n>> \o q
<1>1. /\ q \in Seq(t.ids) /\ Len(q) \in Nat /\ Len(q) # 0 /\ q[1] = m
      /\ \A i \in 1..Len(q) : t.next[q[i]] = IF i = Len(q) THEN Null ELSE q[i + 1]
  BY DEF Chain
<1>0. r = <<n>> \o q
  OBVIOUS
<1> HIDE DEF r
<1>2. /\ r \in Seq(t.ids) /\ Len(r) = Len(q) + 1 /\ r[1] = n
      /\ \A i \in 1..Len(q) : r[i + 1] = q[i]
  <2> DEFINE I == t.ids
  <2>1. q \in Seq(I) /\ n \in I
    BY <1>1
  <2> HIDE DEF I
  <2>2. /\ r \in Seq(I) /\ Len(r) = Len(q) + 1 /\ r[1] = n
        /\ \A i \in 1..Len(q) : r[i + 1] = q[i]
    BY <1>0, <2>1, FirstElement
  <2>3. QED
    BY <2>2 DEF I
<1>3. ASSUME NEW j \in 1..Len(r)
      PROVE  t.next[r[j]] = IF j = Len(r) THEN Null ELSE r[j + 1]
  <2>1. CASE j = 1
    <3>1. 1 \in 1..Len(q) /\ j # Len(r)
      BY <1>1, <1>2, <2>1
    <3>2. r[1 + 1] = q[1]
      BY <1>2, <3>1
    <3>3. QED
      BY <1>1, <1>2, <2>1, <3>1, <3>2
  <2>2. CASE j # 1
    <3> DEFINE i == j - 1
    <3>1. i \in 1..Len(q) /\ i + 1 = j /\ (i = Len(q) <=> j = Len(r))
      BY <1>1, <1>2, <2>2
    <3> HIDE DEF i
    <3>2. r[j] = q[i]
      BY <1>2, <3>1
    <3>3. i # Len(q) => r[j + 1] = q[i + 1]
      <4>1. i # Len(q) => i + 1 \in 1..Len(q) /\ (i + 1) + 1 = j + 1
        BY <1>1, <3>1
      <4>2. QED
        BY <1>2, <4>1
    <3>4. QED
      BY <1>1, <3>1, <3>2, <3>3
  <2>3. QED
    BY <2>1, <2>2
<1>4. Chain(t, n, r)
  BY <1>1, <1>2, <1>3 DEF Chain
<1>5. QED
  BY <1>4 DEF r

\* Two walks from one note agree as far as the first goes.
LEMMA ChainPrefix ==
  ASSUME NEW t, Null \notin t.ids, NEW n, NEW q, NEW r, Chain(t, n, q), Chain(t, n, r)
  PROVE  Len(q) <= Len(r) /\ \A i \in 1..Len(q) : q[i] = r[i]
<1> DEFINE T == {i \in 1..Len(q) : ~(i \in 1..Len(r) /\ q[i] = r[i])}
<1>1. /\ q \in Seq(t.ids) /\ Len(q) \in Nat /\ Len(q) # 0 /\ q[1] = n
      /\ \A i \in 1..Len(q) : t.next[q[i]] = IF i = Len(q) THEN Null ELSE q[i + 1]
  BY DEF Chain
<1>2. /\ Len(r) \in Nat /\ Len(r) # 0 /\ r[1] = n
      /\ \A i \in 1..Len(r) : t.next[r[i]] = IF i = Len(r) THEN Null ELSE r[i + 1]
  BY DEF Chain
<1>3. \A i \in 1..Len(q) : q[i] # Null
  BY <1>1, ElementOfSeq
<1>4. T = {}
  <2> SUFFICES ASSUME T # {}
               PROVE  FALSE
    OBVIOUS
  <2>1. T \in SUBSET (1..Len(q))
    OBVIOUS
  <2>2. PICK i \in T : \A j \in T : i <= j
    <3> HIDE DEF T
    <3>1. QED
      BY <1>1, <2>1, LeastAndGreatest
  <2>3. i \in 1..Len(q) /\ ~(i \in 1..Len(r) /\ q[i] = r[i])
    OBVIOUS
  <2>4. i # 1
    BY <1>1, <1>2, <2>3
  <2>5. i - 1 \in 1..Len(q) /\ i - 1 \notin T
    <3>1. i - 1 \in 1..Len(q) /\ i - 1 < i
      BY <1>1, <2>3, <2>4
    <3> HIDE DEF T
    <3>2. QED
      BY <2>2, <2>3, <3>1
  <2>6. i - 1 \in 1..Len(r) /\ q[i - 1] = r[i - 1]
    BY <2>5
  <2>7. t.next[q[i - 1]] = q[i] /\ q[i] # Null
    <3>1. i - 1 # Len(q) /\ (i - 1) + 1 = i
      BY <1>1, <2>3
    <3>2. t.next[q[i - 1]] = q[(i - 1) + 1]
      BY <1>1, <2>5, <3>1
    <3>3. QED
      BY <1>3, <2>3, <3>1, <3>2
  <2>8. i - 1 # Len(r)
    BY <1>2, <2>6, <2>7
  <2>9. i \in 1..Len(r) /\ r[i] = q[i]
    <3>1. (i - 1) + 1 = i
      BY <2>3
    <3>2. t.next[r[i - 1]] = r[(i - 1) + 1]
      BY <1>2, <2>6, <2>8
    <3>3. QED
      BY <1>2, <2>6, <2>7, <2>8, <3>1, <3>2
  <2>10. QED
    BY <2>3, <2>9
<1>5. \A i \in 1..Len(q) : i \in 1..Len(r) /\ q[i] = r[i]
  BY <1>4
<1>6. Len(q) <= Len(r)
  BY <1>1, <1>2, <1>5
<1>7. QED
  BY <1>5, <1>6

\* There is one walk from a note.
LEMMA ChainUnique ==
  ASSUME NEW t, Null \notin t.ids, NEW n, NEW q, NEW r, Chain(t, n, q), Chain(t, n, r)
  PROVE  q = r
<1>1. q \in Seq(t.ids) /\ r \in Seq(t.ids) /\ Len(q) \in Nat /\ Len(r) \in Nat
  BY DEF Chain
<1>2. Len(q) <= Len(r) /\ (\A i \in 1..Len(q) : q[i] = r[i]) /\ Len(r) <= Len(q)
  BY ChainPrefix
<1>3. Len(q) = Len(r)
  BY <1>1, <1>2
<1>4. QED
  BY <1>1, <1>2, <1>3, SeqEqual

\* Where links have no rings, the notes that nothing ends from would be one.
LEMMA ChainExists ==
  ASSUME NEW t, t.ids \in SUBSET Notes, Reciprocal(t, t.ids), NoRings(t, t.ids),
         NEW n \in t.ids
  PROVE  \E q : Chain(t, n, q)
<1> DEFINE Bad == {m \in t.ids : ~\E q : Chain(t, m, q)}
<1>1. ASSUME NEW m \in Bad PROVE t.next[m] \in Bad
  <2>1. m \in t.ids /\ ~\E q : Chain(t, m, q)
    OBVIOUS
  <2>2. t.next[m] # Null
    BY <2>1, ChainAlone
  <2>3. t.next[m] \in t.ids
    BY <2>1, <2>2 DEF Reciprocal
  <2>4. ~\E q : Chain(t, t.next[m], q)
    BY <2>1, ChainBefore
  <2>5. QED
    BY <2>3, <2>4
<1>2. Bad \in SUBSET t.ids
  OBVIOUS
<1>3. Bad = {}
  <2> HIDE DEF Bad
  <2>1. QED
    BY <1>1, <1>2 DEF NoRings
<1>4. QED
  BY <1>3

\* One step of the walk, with f for what comes after.
Follow(t, f, m) == IF m = Null THEN << >> ELSE <<m>> \o f[t.next[m]]

\* The walk from every note exists.
LEMMA FollowExists ==
  ASSUME NEW t, t.ids \in SUBSET Notes, Reciprocal(t, t.ids), NoRings(t, t.ids), Clean(t)
  PROVE  \E f : f = [m \in NoteOrNull |-> Follow(t, f, m)]
<1> DEFINE chain(m) == CHOOSE q : Chain(t, m, q)
           f == [m \in NoteOrNull |-> IF m = Null THEN << >> ELSE
                                      IF m \in t.ids THEN chain(m) ELSE <<m>>]
<1>1. Null \notin Notes /\ Null \notin t.ids /\ Null \in NoteOrNull
  BY NullAssumption DEF NoteOrNull
<1>2. \A m \in t.ids : Chain(t, m, chain(m))
  BY ChainExists
<1> HIDE DEF chain
<1>3. /\ f[Null] = << >> /\ \A m \in t.ids : f[m] = chain(m)
      /\ \A m \in Notes \ t.ids : f[m] = <<m>>
  BY <1>1 DEF NoteOrNull
<1> DEFINE Fits == \A m \in NoteOrNull : f[m] = Follow(t, f, m)
<1>4. f = [m \in NoteOrNull |-> f[m]]
  OBVIOUS
<1> HIDE DEF f
<1>5. f[Null] = Follow(t, f, Null)
  BY <1>3 DEF Follow
<1>6. ASSUME NEW m \in Notes, t.next[m] = Null PROVE Follow(t, f, m) = <<m>>
  <2>1. Follow(t, f, m) = <<m>> \o << >>
    BY <1>1, <1>3, <1>6 DEF Follow
  <2>2. <<m>> \in Seq(Notes)
    BY OneElement
  <2>3. QED
    BY <2>1, <2>2, ConcatEmptySeq
<1>7. ASSUME NEW m \in t.ids PROVE f[m] = Follow(t, f, m)
  <2>1. Chain(t, m, chain(m))
    BY <1>2
  <2>2. CASE t.next[m] = Null
    <3>1. Chain(t, m, <<m>>)
      BY <2>2, ChainAlone
    <3>2. chain(m) = <<m>>
      BY <1>1, <2>1, <3>1, ChainUnique
    <3>3. QED
      BY <1>3, <1>6, <2>2, <3>2
  <2>3. CASE t.next[m] # Null
    <3>1. t.next[m] \in t.ids
      BY <2>3 DEF Reciprocal
    <3>2. Chain(t, t.next[m], chain(t.next[m]))
      BY <1>2, <3>1
    <3>3. Chain(t, m, <<m>> \o chain(t.next[m]))
      BY <3>2, ChainBefore
    <3>4. chain(m) = <<m>> \o chain(t.next[m])
      BY <1>1, <2>1, <3>3, ChainUnique
    <3>5. QED
      BY <1>1, <1>3, <3>1, <3>4 DEF Follow
  <2>4. QED
    BY <2>2, <2>3
<1>8. ASSUME NEW m \in Notes \ t.ids PROVE f[m] = Follow(t, f, m)
  BY <1>3, <1>6 DEF Clean
<1>9. Fits
  BY <1>5, <1>7, <1>8 DEF NoteOrNull
<1>10. f = [m \in NoteOrNull |-> Follow(t, f, m)]
  BY <1>4, <1>9
<1>11. QED
  BY <1>10

\* What the walk gives from a note is that note and those after it.
LEMMA FollowIsChain ==
  ASSUME NEW t, t.ids \in SUBSET Notes, Reciprocal(t, t.ids), NoRings(t, t.ids),
         NEW f, f = [m \in NoteOrNull |-> Follow(t, f, m)], NEW n \in t.ids
  PROVE  Chain(t, n, f[n])
<1> DEFINE Bad == {m \in t.ids : ~Chain(t, m, f[m])}
<1>1. Null \notin Notes /\ Null \in NoteOrNull /\ \A m \in t.ids : m \in NoteOrNull /\ m # Null
  BY NullAssumption DEF NoteOrNull
<1>2. /\ f[Null] = << >>
      /\ \A m \in t.ids : f[m] = <<m>> \o f[t.next[m]]
  <2>1. \A m \in NoteOrNull : f[m] = Follow(t, f, m)
    BY Zenon
  <2>2. QED
    BY <1>1, <2>1 DEF Follow
<1>3. ASSUME NEW m \in Bad PROVE t.next[m] \in Bad
  <2>1. m \in t.ids /\ ~Chain(t, m, f[m])
    OBVIOUS
  <2>2. t.next[m] # Null
    <3> SUFFICES ASSUME t.next[m] = Null
                 PROVE  FALSE
      OBVIOUS
    <3>1. <<m>> \in Seq(Notes)
      BY <2>1, OneElement
    <3>2. f[m] = <<m>>
      BY <1>2, <2>1, <3>1, ConcatEmptySeq
    <3>3. QED
      BY <2>1, <3>2, ChainAlone
  <2>3. t.next[m] \in t.ids
    BY <2>1, <2>2 DEF Reciprocal
  <2>4. ~Chain(t, t.next[m], f[t.next[m]])
    <3> SUFFICES ASSUME Chain(t, t.next[m], f[t.next[m]])
                 PROVE  FALSE
      OBVIOUS
    <3>1. Chain(t, m, <<m>> \o f[t.next[m]])
      BY <2>1, ChainBefore
    <3>2. f[m] = <<m>> \o f[t.next[m]]
      BY <1>2, <2>1
    <3>3. QED
      BY <2>1, <3>1, <3>2
  <2>5. QED
    BY <2>3, <2>4
<1>4. Bad \in SUBSET t.ids
  OBVIOUS
<1>5. Bad = {}
  <2> HIDE DEF Bad
  <2>1. QED
    BY <1>3, <1>4 DEF NoRings
<1>6. QED
  BY <1>5

\* From the head of a list the walk gives the list.
LEMMA HeadGivesList ==
  ASSUME NEW s, s.ids \in SUBSET Notes, Ordered(s, s.ids), NEW p,
         NEW h \in s.ids, s.parent[h] = p, s.prev[h] = Null, NEW q, Chain(s, h, q)
  PROVE  IsList(s, s.ids, p, q)
<1>1. /\ Reciprocal(s, s.ids) /\ SingleBoundaries(s, s.ids) /\ NoRings(s, s.ids)
      /\ Null \notin s.ids
  BY NullAssumption DEF Ordered
<1>2. /\ q \in Seq(s.ids) /\ Len(q) \in Nat /\ Len(q) # 0 /\ q[1] = h
      /\ \A i \in 1..Len(q) : s.next[q[i]] = IF i = Len(q) THEN Null ELSE q[i + 1]
  BY DEF Chain
<1>3. \A i \in 1..Len(q) : q[i] \in s.ids /\ q[i] # Null
  BY <1>1, <1>2, ElementOfSeq
<1>4. ASSUME NEW i \in 1..Len(q), i # 1
      PROVE  i - 1 \in 1..Len(q) /\ s.next[q[i - 1]] = q[i]
  <2>1. i - 1 \in 1..Len(q) /\ i - 1 # Len(q) /\ (i - 1) + 1 = i
    BY <1>2, <1>4
  <2>2. s.next[q[i - 1]] = q[(i - 1) + 1]
    BY <1>2, <2>1
  <2>3. QED
    BY <2>1, <2>2
<1>5. \A i \in 1..Len(q) : s.prev[q[i]] = IF i = 1 THEN Null ELSE q[i - 1]
  BY <1>1, <1>2, <1>3, <1>4 DEF Reciprocal
<1>6. \A i \in 1..Len(q) : s.parent[q[i]] = p
  <2> DEFINE T == {i \in 1..Len(q) : s.parent[q[i]] # p}
  <2> SUFFICES ASSUME T # {}
               PROVE  FALSE
    OBVIOUS
  <2>1. T \in SUBSET (1..Len(q))
    OBVIOUS
  <2>2. PICK i \in T : \A j \in T : i <= j
    <3> HIDE DEF T
    <3>1. QED
      BY <1>2, <2>1, LeastAndGreatest
  <2>3. i \in 1..Len(q) /\ s.parent[q[i]] # p /\ i # 1
    BY <1>2
  <2>4. i - 1 \in 1..Len(q) /\ i - 1 \notin T
    <3>1. i - 1 \in 1..Len(q) /\ ~(i <= i - 1)
      BY <1>2, <2>3
    <3> HIDE DEF T
    <3>2. QED
      BY <2>2, <3>1
  <2>5. s.parent[q[i - 1]] = p /\ s.next[q[i - 1]] = q[i]
    BY <1>4, <2>3, <2>4
  <2>6. QED
    BY <1>1, <1>3, <2>3, <2>4, <2>5 DEF Reciprocal
<1>7. ASSUME NEW m \in s.ids, s.parent[m] = p
      PROVE  \E i \in 1..Len(q) : q[i] = m
  <2> DEFINE S == {x \in s.ids : s.parent[x] = p /\ ~\E i \in 1..Len(q) : q[i] = x}
  <2>1. ASSUME NEW x \in S PROVE s.prev[x] \in S
    <3>1. x \in s.ids /\ s.parent[x] = p /\ ~\E i \in 1..Len(q) : q[i] = x
      OBVIOUS
    <3>2. s.prev[x] # Null
      <4>1. x # h /\ 1 \in 1..Len(q)
        BY <1>2, <3>1
      <4>2. QED
        BY <1>1, <3>1, <4>1 DEF SingleBoundaries
    <3>3. s.prev[x] \in s.ids /\ s.parent[s.prev[x]] = p /\ s.next[s.prev[x]] = x
      BY <1>1, <3>1, <3>2 DEF Reciprocal
    <3>4. ASSUME NEW i \in 1..Len(q), q[i] = s.prev[x] PROVE FALSE
      <4>1. i # Len(q) /\ x = q[i + 1]
        BY <1>1, <1>2, <3>1, <3>3, <3>4
      <4>2. i + 1 \in 1..Len(q)
        BY <1>2, <4>1
      <4>3. QED
        BY <3>1, <4>1, <4>2
    <3>5. QED
      BY <3>3, <3>4
  <2>2. S \in SUBSET s.ids
    OBVIOUS
  <2>3. S = {}
    <3> HIDE DEF S
    <3>1. QED
      BY <1>1, <2>1, <2>2 DEF NoRings
  <2>4. QED
    BY <1>7, <2>3
<1>8. QED
  BY <1>2, <1>5, <1>6, <1>7 DEF IsList

\* NoteOrdering.children gives the list of every parent of a sound store.
LEMMA ChildrenAreList ==
  ASSUME NEW s, Sound(s), Clean(s), NEW p \in NoteOrNull
  PROVE  IsList(s, s.ids, p, Children(s, p))
<1> DEFINE walk[n \in NoteOrNull] == IF n = Null THEN << >> ELSE <<n>> \o walk[s.next[n]]
<1>1. /\ s.ids \in SUBSET Notes /\ Null \notin Notes /\ Null \in NoteOrNull
      /\ Ordered(s, s.ids) /\ Reciprocal(s, s.ids) /\ NoRings(s, s.ids)
      /\ IndexMatches(s, s.ids)
  BY NullAssumption DEF Sound, Stores, Ordered, NoteOrNull
<1>2. walk = CHOOSE f : f = [m \in NoteOrNull |-> Follow(s, f, m)]
  BY DEF Follow
<1>3. Children(s, p) = walk[s.heads[p]]
  BY DEF Children
<1> HIDE DEF walk
<1>4. walk = [m \in NoteOrNull |-> Follow(s, walk, m)]
  BY <1>1, <1>2, FollowExists
<1> DEFINE list == {n \in s.ids : s.parent[n] = p}
<1>5. /\ list = {} => s.heads[p] = Null
      /\ list # {} => s.heads[p] \in list /\ s.prev[s.heads[p]] = Null
  BY <1>1 DEF IndexMatches
<1>6. CASE list = {}
  <2> DEFINE q == walk[Null]
  <2>1. q = << >>
    <3>1. walk[Null] = Follow(s, walk, Null)
      BY <1>1, <1>4, Zenon
    <3>2. QED
      BY <3>1 DEF Follow
  <2>2. q \in Seq(s.ids) /\ Len(q) = 0
    BY <2>1
  <2>3. Children(s, p) = q
    BY <1>3, <1>5, <1>6
  <2> HIDE DEF q
  <2>4. 1..Len(q) = {}
    BY <2>2
  <2>5. IsList(s, s.ids, p, q)
    BY <1>6, <2>2, <2>4 DEF IsList
  <2>6. QED
    BY <2>3, <2>5
<1>7. CASE list # {}
  <2>1. s.heads[p] \in s.ids /\ s.parent[s.heads[p]] = p /\ s.prev[s.heads[p]] = Null
    BY <1>5, <1>7
  <2>2. Chain(s, s.heads[p], walk[s.heads[p]])
    BY <1>1, <1>4, <2>1, FollowIsChain
  <2>3. QED
    BY <1>1, <1>3, <2>1, <2>2, HeadGivesList
<1>8. QED
  BY <1>6, <1>7

\* Any list of its parent is what children gives.
LEMMA ChildrenAre ==
  ASSUME NEW s, Sound(s), Clean(s), NEW p \in NoteOrNull, NEW q, IsList(s, s.ids, p, q)
  PROVE  Children(s, p) = q
<1>1. Null \notin s.ids
  BY NullAssumption DEF Sound, Stores
<1>2. QED
  BY <1>1, ChildrenAreList, ListUnique

-----------------------------------------------------------------------------
(***************************************************************************)
(* What a reader of the database is shown: SiblingLists' value of lists.     *)
(***************************************************************************)
Shown == [p \in NoteOrNull |-> Children(Hydrated(db), p)]

\* For a store in memory and its committed columns, Shown is the lists of the store.
LEMMA ShownLists ==
  ASSUME NEW s, Sound(s), Clean(s), db = Columns(s)
  PROVE  \A p \in NoteOrNull : IsList(s, s.ids, p, Shown[p])
<1>1. Hydrated(db) = s
  BY StoreIsHydrated DEF Sound
<1>2. QED
  BY <1>1, ChildrenAreList DEF Shown

\* Any lists of the committed columns are the ones that are shown.
LEMMA ShownNext ==
  ASSUME NEW u, Sound(u), Clean(u), db' = Columns(u),
         NEW F, F = [p \in NoteOrNull |-> F[p]],
         \A p \in NoteOrNull : IsList(u, u.ids, p, F[p])
  PROVE  Shown' = F
<1>1. Hydrated(db') = u
  BY StoreIsHydrated DEF Sound
<1>2. Shown' = [p \in NoteOrNull |-> Children(u, p)]
  BY <1>1 DEF Shown
<1>3. \A p \in NoteOrNull : Children(u, p) = F[p]
  BY ChildrenAre
<1>4. [p \in NoteOrNull |-> Children(u, p)] = [p \in NoteOrNull |-> F[p]]
  BY <1>3
<1>5. QED
  BY <1>2, <1>4

\* The elements of a list of p are the notes under p.
LEMMA ListElements ==
  ASSUME NEW s, NEW p, NEW q, IsList(s, s.ids, p, q)
  PROVE  Lists!ToSet(q) = Siblings(s, p)
<1> DEFINE I == s.ids
<1>1. q \in Seq(I)
  BY DEF IsList
<1> HIDE DEF I
<1>2. DOMAIN q = 1..Len(q) /\ \A i \in 1..Len(q) : q[i] \in I
  BY <1>1, LenProperties, ElementOfSeq
<1>3. Lists!ToSet(q) = {q[i] : i \in 1..Len(q)}
  BY <1>2 DEF Lists!ToSet
<1>4. \A m \in I : s.parent[m] = p <=> \E i \in 1..Len(q) : q[i] = m
  BY DEF IsList, I
<1>5. Siblings(s, p) = {m \in I : s.parent[m] = p}
  BY DEF Siblings, I
<1>6. QED
  BY <1>2, <1>3, <1>4, <1>5

\* The notes in the lists are the notes, and the family of one is its subtree.
LEMMA ShownMembers ==
  ASSUME NEW s, Sound(s), Clean(s), db = Columns(s)
  PROVE  /\ \A p \in NoteOrNull : Lists!ToSet(Shown[p]) = Siblings(s, p)
         /\ Lists!Members = s.ids
         /\ \A n \in s.ids : Lists!Family(n) = Subtree(s, n)
<1>1. ASSUME NEW p \in NoteOrNull PROVE Lists!ToSet(Shown[p]) = Siblings(s, p)
  BY ShownLists, ListElements
<1>2. Lists!Members = UNION {Lists!ToSet(Shown[p]) : p \in NoteOrNull}
  BY DEF Lists!Members, Shown, Lists!Parents, NoteOrNull
<1>3. /\ s.ids \in SUBSET Notes /\ Null \notin Notes
      /\ \A m \in s.ids : s.parent[m] \in NoteOrNull
  BY NullAssumption DEF Sound, Stores
<1>4. Lists!Members = s.ids
  <2>1. \A m : m \in Lists!Members <=> \E p \in NoteOrNull : m \in Siblings(s, p)
    BY <1>1, <1>2
  <2>2. \A m : m \in s.ids <=> \E p \in NoteOrNull : m \in Siblings(s, p)
    BY <1>3 DEF Siblings
  <2>3. QED
    BY <2>1, <2>2
<1>5. ASSUME NEW n \in s.ids
      PROVE  Lists!Family(n) = Subtree(s, n)
  <2>1. Lists!Family(n) = {m \in Lists!Members :
             \A S \in SUBSET Notes :
                (n \in S /\ \A p \in S : Lists!ToSet(Shown[p]) \subseteq S) => m \in S}
    BY DEF Lists!Family, Shown, NoteOrNull
  <2>2. ASSUME NEW S \in SUBSET Notes
        PROVE  (\A p \in S : Lists!ToSet(Shown[p]) \subseteq S)
                 <=> (\A c \in s.ids : s.parent[c] \in S => c \in S)
    <3>1. \A p \in S : Lists!ToSet(Shown[p]) = {c \in s.ids : s.parent[c] = p}
      BY <1>1 DEF Siblings, NoteOrNull
    <3>2. QED
      BY <3>1
  <2>3. QED
    BY <1>4, <2>1, <2>2 DEF Subtree
<1>6. QED
  BY <1>1, <1>4, <1>5

-----------------------------------------------------------------------------
(***************************************************************************)
(* What a command does to the store, seen from the lists.                    *)
(***************************************************************************)
\* What tells a list of SiblingLists what Lists!Next allows.
Placed(n, p) == \E i \in 1..(Len(Shown[p]) + 1) : Lists!Create(n, p, i) \/ Lists!Move(n, p, i)

\* A created note is one Create.
LEMMA CreatedStep ==
  ASSUME NEW s, Sound(s), Clean(s), NEW u, Sound(u), Clean(u),
         db = Columns(s), db' = Columns(u),
         NEW n, NEW p, NEW prev, NEW next, Created(s, u, n, p, prev, next)
  PROVE  n \in Notes /\ p \in NoteOrNull /\ Placed(n, p)
<1>1. /\ n \in Notes \ s.ids /\ p \in s.ids \cup {Null} /\ Gap(s, s.ids, p, prev, next)
      /\ Inserted(s, u, n, prev, next)
      /\ u.ids = s.ids \cup {n} /\ u.parent[n] = p
      /\ \A m \in s.ids : u.parent[m] = s.parent[m]
  BY DEF Created, Sound, Stores
<1>2. s.ids \in SUBSET Notes /\ p \in NoteOrNull
  BY <1>1 DEF Sound, Stores, NoteOrNull
<1>3. \A o \in NoteOrNull : IsList(s, s.ids, o, Shown[o])
  BY ShownLists
<1>4. PICK i \in 1..(Len(Shown[p]) + 1) :
             IsList(u, s.ids \cup {n}, p, Lists!InsertAt(Shown[p], i, n))
  <2> DEFINE I == s.ids
             q == Shown[p]
  <2>1. /\ I \in SUBSET Notes /\ n \in Notes \ I /\ IsList(s, I, p, q)
        /\ Gap(s, I, p, prev, next) /\ \A m \in I : u.parent[m] = s.parent[m]
    BY <1>1, <1>2, <1>3
  <2> HIDE DEF I, q
  <2>2. \E i \in 1..(Len(q) + 1) : IsList(u, I \cup {n}, p, Lists!InsertAt(q, i, n))
    BY <1>1, <2>1, ListInserted
  <2>3. QED
    BY <2>2 DEF I, q
<1>5. \A o \in NoteOrNull \ {p} : IsList(u, s.ids \cup {n}, o, Shown[o])
  BY <1>1, <1>2, <1>3, ListBesideInserted
<1> DEFINE F == [Shown EXCEPT ![p] = Lists!InsertAt(@, i, n)]
<1>6. /\ F = [o \in NoteOrNull |-> F[o]]
      /\ F[p] = Lists!InsertAt(Shown[p], i, n) /\ \A o \in NoteOrNull \ {p} : F[o] = Shown[o]
  BY <1>2 DEF Shown
<1>7. F = [Shown EXCEPT ![p] = Lists!InsertAt(@, i, n)]
  OBVIOUS
<1> HIDE DEF F
<1>8. \A o \in NoteOrNull : IsList(u, u.ids, o, F[o])
  BY <1>1, <1>2, <1>4, <1>5, <1>6
<1>9. Shown' = F
  BY <1>6, <1>8, ShownNext
<1>10. n \notin Lists!Members /\ p \in Lists!Members \cup {Null}
  BY <1>1, ShownMembers
<1>11. Lists!Create(n, p, i)
  BY <1>2, <1>7, <1>9, <1>10 DEF Lists!Create, Shown
<1>12. QED
  BY <1>1, <1>2, <1>11 DEF Placed

\* Without a note, every list is what it was without that note.
LEMMA TakenLists ==
  ASSUME NEW s, Sound(s), Clean(s), db = Columns(s), NEW n \in s.ids,
         NEW d, Removed(s, d, n), \A m \in s.ids \ {n} : d.parent[m] = s.parent[m]
  PROVE  \A o \in NoteOrNull : IsList(d, s.ids \ {n}, o, Lists!TakeOut(Shown[o], n))
<1> DEFINE I == s.ids
<1>1. /\ I \in SUBSET Notes /\ n \in I /\ Reciprocal(s, I)
      /\ \A o \in NoteOrNull : IsList(s, I, o, Shown[o])
      /\ \A m \in I \ {n} : d.parent[m] = s.parent[m]
  BY ShownLists DEF Sound, Ordered, Stores
<1> HIDE DEF I
<1>2. ASSUME NEW o \in NoteOrNull
      PROVE  IsList(d, I \ {n}, o, Lists!TakeOut(Shown[o], n))
  <2> DEFINE q == Shown[o]
  <2>1. IsList(s, I, o, q)
    BY <1>1
  <2> HIDE DEF q
  <2>2. CASE o = s.parent[n]
    <3>1. IsList(d, I \ {n}, s.parent[n], Lists!TakeOut(q, n))
      BY <1>1, <2>1, <2>2, ListRemoved
    <3>2. QED
      BY <2>2, <3>1 DEF q
  <2>3. CASE o # s.parent[n]
    <3>1. IsList(d, I \ {n}, o, q) /\ Lists!TakeOut(q, n) = q
      <4>1. Removed(s, d, n)
        OBVIOUS
      <4>2. /\ I \in SUBSET Notes /\ n \in I /\ Reciprocal(s, I)
            /\ \A m \in I \ {n} : d.parent[m] = s.parent[m]
        BY <1>1
      <4>3. QED
        BY <2>1, <2>3, <4>1, <4>2, ListBesideRemoved, SMTT(60)
    <3>2. QED
      BY <3>1 DEF q
  <2>4. QED
    BY <2>2, <2>3
<1>3. QED
  BY <1>2 DEF I

\* Taking a note out makes no list longer.
LEMMA TakenLength ==
  ASSUME NEW s, Sound(s), Clean(s), db = Columns(s), NEW n, NEW p \in NoteOrNull
  PROVE  /\ Len(Shown[p]) \in Nat /\ Len(Lists!TakeOut(Shown[p], n)) \in Nat
         /\ Len(Lists!TakeOut(Shown[p], n)) <= Len(Shown[p])
<1> DEFINE I == s.ids
           q == Shown[p]
<1>1. Null \notin I /\ IsList(s, I, p, q)
  BY NullAssumption, ShownLists DEF Sound, Stores
<1> HIDE DEF I, q
<1>2. q \in Seq(I) /\ Len(q) \in Nat
  BY <1>1, ListPlaces DEF IsList
<1>3. ASSUME NEW i \in 1..Len(q), q[i] = n
      PROVE  Len(Lists!TakeOut(q, n)) \in Nat /\ Len(Lists!TakeOut(q, n)) <= Len(q)
  <2>1. Lists!TakeOut(q, n) = Lists!RemoveAt(q, i)
    BY <1>1, <1>3, TakenOut
  <2>2. Len(Lists!RemoveAt(q, i)) = Len(q) - 1
    BY <1>2, RemovedElements
  <2>3. QED
    BY <1>2, <2>1, <2>2
<1>4. ASSUME \A i \in 1..Len(q) : q[i] # n
      PROVE  Lists!TakeOut(q, n) = q
  BY <1>2, <1>4, NotTaken
<1>5. Len(Lists!TakeOut(q, n)) \in Nat /\ Len(Lists!TakeOut(q, n)) <= Len(q)
  BY <1>2, <1>3, <1>4
<1>6. QED
  BY <1>2, <1>5 DEF q

\* A moved note is one Move.
LEMMA MovedStep ==
  ASSUME NEW s, Sound(s), Clean(s), NEW u, Sound(u), Clean(u),
         db = Columns(s), db' = Columns(u),
         NEW n, NEW p, NEW prev, NEW next, Moved(s, u, n, p, prev, next)
  PROVE  n \in Notes /\ p \in NoteOrNull /\ Placed(n, p)
<1> DEFINE d == Detached(s, n, p)
           J == s.ids \ {n}
<1>1. /\ n \in s.ids /\ p \in (s.ids \cup {Null}) \ Subtree(s, n) /\ Gap(d, J, p, prev, next)
      /\ Inserted(d, u, n, prev, next)
      /\ u.ids = s.ids /\ u.parent[n] = p
      /\ \A m \in J : u.parent[m] = s.parent[m]
  BY DEF Moved, Sound, Stores
<1>2. s \in Stores /\ s.ids \in SUBSET Notes /\ p \in NoteOrNull /\ n \in Notes
  BY <1>1 DEF Sound, Stores, NoteOrNull
<1>3. Removed(s, d, n) /\ \A m \in J : d.parent[m] = s.parent[m]
  <2> DEFINE out == LinkOut(s, n)
  <2>1. out \in Stores
    BY <1>2, LinkOutType
  <2>2. /\ out.parent = s.parent
        /\ \A m \in Notes :
             /\ out.prev[m] = IF m = s.next[n] THEN s.prev[n] ELSE s.prev[m]
             /\ out.next[m] = IF m = s.prev[n] THEN s.next[n] ELSE s.next[m]
    BY <1>2, LinkOutFields
  <2>3. d = [out EXCEPT !.parent = [@ EXCEPT ![n] = p]]
    BY DEF Detached
  <2> HIDE DEF out, d
  <2>4. d.prev = out.prev /\ d.next = out.next /\ \A m \in J : d.parent[m] = out.parent[m]
    BY <1>2, <2>1, <2>3 DEF Stores
  <2>5. QED
    BY <2>2, <2>4 DEF Removed
<1> DEFINE W == [o \in NoteOrNull |-> Lists!TakeOut(Shown[o], n)]
<1>4. \A o \in NoteOrNull : W[o] = Lists!TakeOut(Shown[o], n)
  OBVIOUS
<1>5. W = Lists!Without(n)
  BY DEF Lists!Without, Lists!Parents, NoteOrNull, Shown
<1>6. W = [o \in NoteOrNull |-> W[o]]
  OBVIOUS
<1> HIDE DEF d, W
<1>7. \A o \in NoteOrNull : IsList(d, J, o, W[o])
  BY <1>1, <1>3, <1>4, TakenLists
<1>8. n \in Notes \ J /\ J \in SUBSET Notes /\ J \cup {n} = u.ids
  BY <1>1, <1>2
<1>9. \A m \in J : u.parent[m] = d.parent[m]
  BY <1>1, <1>3
<1> HIDE DEF J
<1>10. PICK i \in 1..(Len(W[p]) + 1) : IsList(u, J \cup {n}, p, Lists!InsertAt(W[p], i, n))
  <2> DEFINE q == W[p]
  <2>1. IsList(d, J, p, q)
    BY <1>2, <1>7
  <2> HIDE DEF q
  <2>2. \E i \in 1..(Len(q) + 1) : IsList(u, J \cup {n}, p, Lists!InsertAt(q, i, n))
    BY <1>1, <1>8, <1>9, <2>1, ListInserted
  <2>3. QED
    BY <2>2 DEF q
<1>11. \A o \in NoteOrNull \ {p} : IsList(u, J \cup {n}, o, W[o])
  BY <1>1, <1>7, <1>8, <1>9, ListBesideInserted
<1> DEFINE F == [W EXCEPT ![p] = Lists!InsertAt(@, i, n)]
<1>12. /\ F = [o \in NoteOrNull |-> F[o]]
       /\ F[p] = Lists!InsertAt(W[p], i, n) /\ \A o \in NoteOrNull \ {p} : F[o] = W[o]
  BY <1>2, <1>6
<1>13. F = [Lists!Without(n) EXCEPT ![p] = Lists!InsertAt(@, i, n)]
  BY <1>5
<1> HIDE DEF F
<1>14. \A o \in NoteOrNull : IsList(u, u.ids, o, F[o])
  BY <1>8, <1>10, <1>11, <1>12
<1>15. Shown' = F
  BY <1>12, <1>14, ShownNext
<1>16. n \in Lists!Members /\ p \in (Lists!Members \cup {Null}) \ Lists!Family(n)
  BY <1>1, ShownMembers
<1>17. i \in 1..(Len(Lists!Without(n)[p]) + 1)
  BY <1>5
<1>18. Lists!Move(n, p, i)
  BY <1>13, <1>15, <1>16, <1>17 DEF Lists!Move, Shown
<1>19. i \in 1..(Len(Shown[p]) + 1)
  <2>1. W[p] = Lists!TakeOut(Shown[p], n)
    BY <1>2, <1>4
  <2>2. Len(Shown[p]) \in Nat /\ Len(W[p]) \in Nat /\ Len(W[p]) <= Len(Shown[p])
    BY <1>2, <2>1, TakenLength
  <2>3. QED
    BY <2>2
<1>20. QED
  BY <1>2, <1>18, <1>19 DEF Placed

\* A deleted subtree is one Delete.
LEMMA DeletedStep ==
  ASSUME NEW s, Sound(s), Clean(s), NEW u, Sound(u), Clean(u),
         db = Columns(s), db' = Columns(u), NEW n, Deleted(s, u, n)
  PROVE  n \in Notes /\ Lists!Delete(n)
<1> DEFINE D == Subtree(s, n)
           d == LinkOut(s, n)
           J == s.ids \ {n}
<1>1. /\ n \in s.ids /\ u = DropLists(DropNotes(d, D), D)
  BY DEF Deleted
<1>2. s \in Stores /\ s.ids \in SUBSET Notes /\ n \in Notes /\ Null \notin Notes
  BY <1>1, NullAssumption DEF Sound, Stores
<1>3. d \in Stores
  BY <1>2, LinkOutType
<1>4. /\ d.parent = s.parent /\ d.ids = s.ids /\ Removed(s, d, n)
  BY <1>2, LinkOutFields DEF Removed
<1>5. /\ n \in D /\ D \subseteq s.ids /\ \A c \in s.ids : s.parent[c] \in D => c \in D
      /\ \A m \in D \ {n} : s.parent[m] \in D
  BY <1>1, <1>2, SubtreeClosed, SubtreeUnder
<1> HIDE DEF D, d
<1>6. /\ u.ids = J \ D
      /\ \A m \in J \ D : u.parent[m] = s.parent[m] /\ u.prev[m] = d.prev[m] /\ u.next[m] = d.next[m]
  <2>1. u.ids = s.ids \ D
    BY <1>1, <1>3, <1>4 DEF DropLists, DropNotes, Stores
  <2>2. \A m \in Notes \ D : /\ u.parent[m] = d.parent[m]
                             /\ u.prev[m] = d.prev[m] /\ u.next[m] = d.next[m]
    BY <1>1, <1>3 DEF DropLists, DropNotes, Stores
  <2>3. QED
    BY <1>2, <1>4, <1>5, <2>1, <2>2
<1> DEFINE F == [p \in NoteOrNull |-> IF p \in D THEN << >> ELSE Lists!TakeOut(Shown[p], n)]
<1>7. F = [p \in NoteOrNull |-> IF p \in Lists!Family(n) THEN << >> ELSE Lists!Without(n)[p]]
  <2>1. D = Lists!Family(n)
    BY <1>1, ShownMembers DEF D
  <2>2. \A p \in NoteOrNull : Lists!Without(n)[p] = Lists!TakeOut(Shown[p], n)
    BY DEF Lists!Without, Lists!Parents, NoteOrNull, Shown
  <2> HIDE DEF D
  <2>3. QED
    BY <2>1, <2>2
<1>8. /\ F = [p \in NoteOrNull |-> F[p]]
      /\ \A p \in NoteOrNull : F[p] = IF p \in D THEN << >> ELSE Lists!TakeOut(Shown[p], n)
  OBVIOUS
<1> HIDE DEF F
<1>9. \A p \in NoteOrNull : IsList(d, J, p, Lists!TakeOut(Shown[p], n))
  BY <1>1, <1>4, TakenLists
<1> HIDE DEF J
<1>10. ASSUME NEW p \in NoteOrNull, p \in D PROVE IsList(u, u.ids, p, F[p])
  <2> DEFINE q == F[p]
  <2>1. q = << >>
    BY <1>8, <1>10
  <2>2. q \in Seq(u.ids) /\ Len(q) = 0
    BY <2>1
  <2>3. \A m \in u.ids : u.parent[m] # p
    BY <1>5, <1>6, <1>10 DEF J
  <2> HIDE DEF q
  <2>4. IsList(u, u.ids, p, q)
    BY <2>2, <2>3 DEF IsList
  <2>5. QED
    BY <2>4 DEF q
<1>11. ASSUME NEW p \in NoteOrNull, p \notin D PROVE IsList(u, u.ids, p, F[p])
  <2> DEFINE q == F[p]
             K == J \ D
  <2>1. IsList(d, J, p, q)
    BY <1>8, <1>9, <1>11
  <2>2. u.ids = K
    BY <1>6
  <2>3. \A m \in J : s.parent[m] = p => m \in K
    BY <1>5, <1>11 DEF J
  <2> HIDE DEF q, K
  <2>4. /\ q \in Seq(J) /\ Len(q) \in Nat /\ \A i \in 1..Len(q) : q[i] \in J
        /\ \A m \in J : d.parent[m] = p <=> \E i \in 1..Len(q) : q[i] = m
        /\ \A i \in 1..Len(q) : /\ d.prev[q[i]] = IF i = 1 THEN Null ELSE q[i - 1]
                                /\ d.next[q[i]] = IF i = Len(q) THEN Null ELSE q[i + 1]
    BY <2>1, LenProperties, ElementOfSeq DEF IsList
  <2>5. \A i \in 1..Len(q) : q[i] \in K
    BY <1>4, <2>3, <2>4
  <2>6. q \in Seq(K)
    <3>1. q \in [1..Len(q) -> J]
      BY <2>4, LenProperties
    <3>2. q \in [1..Len(q) -> K]
      BY <2>5, <3>1
    <3>3. QED
      BY <2>4, <3>2
  <2>7. \A m \in K : u.parent[m] = p <=> \E i \in 1..Len(q) : q[i] = m
    <3>1. \A m \in K : m \in J /\ u.parent[m] = d.parent[m]
      BY <1>4, <1>6 DEF K
    <3>2. QED
      BY <2>4, <3>1
  <2>8. \A i \in 1..Len(q) : u.prev[q[i]] = d.prev[q[i]] /\ u.next[q[i]] = d.next[q[i]]
    BY <1>6, <2>5 DEF K
  <2>9. IsList(u, K, p, q)
    BY <2>4, <2>6, <2>7, <2>8 DEF IsList
  <2>10. QED
    BY <2>2, <2>9 DEF q
<1>12. Shown' = F
  BY <1>8, <1>10, <1>11, ShownNext
<1>13. n \in Lists!Members
  BY <1>1, ShownMembers
<1>14. Lists!Delete(n)
  BY <1>7, <1>12, <1>13 DEF Lists!Delete, Lists!Parents, NoteOrNull, Shown
<1>15. QED
  BY <1>2, <1>14

\* A change of a collapse flag changes no list.
LEMMA FlaggedStep ==
  ASSUME NEW s, Sound(s), Clean(s), NEW u, Sound(u), Clean(u),
         db = Columns(s), db' = Columns(u), Flagged(s, u)
  PROVE  Shown' = Shown
<1>1. \A p \in NoteOrNull : IsList(u, u.ids, p, Shown[p])
  BY ShownLists, SameListLinks DEF Flagged
<1>2. Shown = [p \in NoteOrNull |-> Shown[p]]
  BY DEF Shown
<1> DEFINE F == Shown
<1>3. F = [p \in NoteOrNull |-> F[p]] /\ \A p \in NoteOrNull : IsList(u, u.ids, p, F[p])
  BY <1>1, <1>2
<1> HIDE DEF F
<1>4. Shown' = F
  BY <1>3, ShownNext
<1>5. QED
  BY <1>4 DEF F

\* A list of all the notes of a table that are under p.
ListOf(t, p, l) == t.ids \in SUBSET Notes /\ IsList(t, t.ids, p, l)

\* The siblings that follow a note stand behind it in the list.
LEMMA LaterInList ==
  ASSUME NEW t, NEW p, NEW l, ListOf(t, p, l)
  PROVE  \A a \in 1..Len(l) : \A m \in LaterSiblings(t, l[a]) :
             \E b \in 1..Len(l) : a < b /\ l[b] = m
<1> SUFFICES ASSUME NEW a \in 1..Len(l), NEW m \in LaterSiblings(t, l[a])
             PROVE  \E b \in 1..Len(l) : a < b /\ l[b] = m
  OBVIOUS
<1>0. t.ids \in SUBSET Notes /\ IsList(t, t.ids, p, l)
  BY DEF ListOf
<1> DEFINE S == {x \in t.ids : \E k \in 1..Len(l) : a < k /\ l[k] = x}
<1>1. /\ Len(l) \in Nat
      /\ \A i \in 1..Len(l) : l[i] \in t.ids /\ l[i] # Null
                              /\ (i # Len(l) => i + 1 \in 1..Len(l))
      /\ \A i \in 1..Len(l) : t.next[l[i]] = IF i = Len(l) THEN Null ELSE l[i + 1]
  <2>1. Null \notin t.ids
    BY <1>0, NullAssumption
  <2>2. QED
    BY <1>0, <2>1, ListPlaces DEF IsList
<1>2. ASSUME NEW i \in 1..Len(l), a <= i, t.next[l[i]] # Null
      PROVE  t.next[l[i]] \in S
  <2>1. i # Len(l) /\ i + 1 \in 1..Len(l) /\ a < i + 1
    BY <1>1, <1>2
  <2>2. t.next[l[i]] = l[i + 1] /\ l[i + 1] \in t.ids
    BY <1>1, <2>1
  <2>3. QED
    BY <2>1, <2>2
<1>3. t.next[l[a]] # Null => t.next[l[a]] \in S
  <2>1. a <= a
    BY <1>1
  <2> HIDE DEF S
  <2>2. QED
    BY <1>2, <2>1
<1>4. ASSUME NEW x \in S, t.next[x] # Null PROVE t.next[x] \in S
  <2>1. PICK k \in 1..Len(l) : a < k /\ l[k] = x
    OBVIOUS
  <2>2. a <= k
    BY <1>1, <2>1
  <2> HIDE DEF S
  <2>3. QED
    BY <1>2, <1>4, <2>1, <2>2
<1>5. S \in SUBSET Notes
  BY <1>0
<1>6. m \in S
  <2> HIDE DEF S
  <2>1. QED
    BY <1>3, <1>4, <1>5 DEF LaterSiblings
<1>7. QED
  BY <1>6

\* So a note precedes them in the list.
LEMMA LaterIsPreceded ==
  ASSUME NEW t, NEW l, ListOf(t, Null, l), DOMAIN l = 1..Len(l),
         NEW x, \E a \in 1..Len(l) : l[a] = x, NEW y \in LaterSiblings(t, x)
  PROVE  Lists!Precedes(l, x, y)
<1>1. PICK a \in 1..Len(l) : l[a] = x
  OBVIOUS
<1>2. \A k \in 1..Len(l) : \A m \in LaterSiblings(t, l[k]) :
          \E b \in 1..Len(l) : k < b /\ l[b] = m
  BY LaterInList
<1>3. \E b \in 1..Len(l) : a < b /\ l[b] = y
  BY <1>1, <1>2
<1>4. QED
  BY <1>1, <1>3 DEF Lists!Precedes

\* A list has as many places as its parent has notes.
LEMMA ListCounts ==
  ASSUME NEW t, NEW I, Null \notin I, NEW p, NEW l, IsList(t, I, p, l),
         NEW R, R = {m \in I : t.parent[m] = p}
  PROVE  Cardinality(R) = Len(l)
<1>1. /\ l \in Seq(I) /\ Len(l) \in Nat /\ \A i \in 1..Len(l) : l[i] \in I
      /\ \A m \in I : t.parent[m] = p <=> \E i \in 1..Len(l) : l[i] = m
  BY ListPlaces DEF IsList
<1>2. \A i, j \in 1..Len(l) : l[i] = l[j] => i = j
  BY ListDistinct
<1>3. l \in [1..Len(l) -> R] /\ DOMAIN l = 1..Len(l)
  <2>1. l \in [1..Len(l) -> I] /\ DOMAIN l = 1..Len(l)
    BY <1>1, LenProperties
  <2>2. \A i \in 1..Len(l) : l[i] \in R
    BY <1>1
  <2>3. QED
    BY <2>1, <2>2
<1>4. l \in Bijection(1..Len(l), R)
  <2>1. l \in Injection(1..Len(l), R)
    BY <1>2, <1>3 DEF Injection, IsInjective
  <2>2. l \in Surjection(1..Len(l), R)
    BY <1>1, <1>3 DEF Surjection
  <2>3. QED
    BY <2>1, <2>2 DEF Bijection
<1>5. ExistsBijection(1..Len(l), R)
  BY <1>4 DEF ExistsBijection
<1>6. QED
  BY <1>1, <1>5, FS_CountingElements

\* A regrouping of the roots is one Gather.
LEMMA ReorderedStep ==
  ASSUME NEW s, Sound(s), Clean(s), NEW u, Sound(u), Clean(u),
         db = Columns(s), db' = Columns(u),
         NEW S \in SUBSET Notes, NEW q, Reordered(s, u, S, q)
  PROVE  Lists!Gather(S)
<1> DEFINE R == Siblings(s, Null)
           N == Cardinality(R)
           w == LinkInOrder(s, q)
           l == Shown[Null]
           I == s.ids
<1>1. q \in Orders(R) /\ u = Hydrated(w)
  BY DEF Reordered, Regrouped
<1>2. \A i, j \in DOMAIN q : i < j =>
          \/ q[i] \in S /\ q[j] \notin S
          \/ (q[i] \in S <=> q[j] \in S) /\ q[j] \in LaterSiblings(s, q[i])
  BY DEF Reordered, Regrouped
<1>3. /\ s \in Stores /\ I \in SUBSET Notes /\ Null \notin Notes /\ Null \in NoteOrNull
      /\ R = {m \in I : s.parent[m] = Null} /\ R \in SUBSET Notes /\ R \subseteq I
  BY NullAssumption DEF Sound, Stores, NoteOrNull, Siblings
<1>4. /\ u.ids = w.ids /\ u.parent = w.parent /\ u.prev = w.prev /\ u.next = w.next
  BY <1>1 DEF Hydrated
<1>5. /\ \A p \in NoteOrNull : IsList(s, I, p, Shown[p])
      /\ IsList(s, I, Null, l)
  BY <1>3, ShownLists
<1>6. w = LinkInOrder(s, q) /\ N = Cardinality(R)
  OBVIOUS
<1>7. Lists!ToSet(l) = R
  BY <1>3, ShownMembers
<1>8. Shown = [p \in NoteOrNull |-> Shown[p]]
  BY DEF Shown
<1>9. IsList(s, s.ids, Null, l) /\ s.ids = I
  BY <1>5
<1> HIDE DEF R, N, w, l, I
<1>10. /\ N \in Nat /\ q \in [1..N -> R]
       /\ \A m \in R : \E i \in 1..N : q[i] = m
       /\ \A i, j \in 1..N : q[i] = q[j] => i = j
       /\ \A i \in 1..N : /\ w.prev[q[i]] = IF i = 1 THEN Null ELSE q[i - 1]
                          /\ w.next[q[i]] = IF i = N THEN Null ELSE q[i + 1]
       /\ \A m \in Notes \ R : w.prev[m] = s.prev[m] /\ w.next[m] = s.next[m]
       /\ w.ids = s.ids /\ w.parent = s.parent
  <2>1. s \in Stores /\ R \in SUBSET Notes /\ q \in Orders(R) /\ w = LinkInOrder(s, q)
        /\ N = Cardinality(R)
    BY <1>1, <1>3, <1>6
  <2>2. QED
    BY <2>1, OrderLinks, SMTT(60)
<1>11. Len(l) = N
  BY <1>3, <1>5, <1>6, ListCounts
<1>12. /\ l \in Seq(I) /\ DOMAIN l = 1..N
       /\ \A m \in I : s.parent[m] = Null <=> \E i \in 1..N : l[i] = m
  BY <1>5, <1>11, LenProperties DEF IsList
<1>13. q \in Seq(I) /\ Len(q) = N /\ DOMAIN q = 1..N
  <2>1. q \in [1..N -> I]
    BY <1>3, <1>10
  <2>2. q \in Seq(I)
    BY <1>10, <2>1
  <2>3. DOMAIN q = 1..N /\ DOMAIN q = 1..Len(q) /\ Len(q) \in Nat
    BY <2>1, <2>2, LenProperties
  <2>4. Len(q) = N
    BY <1>10, <2>3
  <2>5. QED
    BY <2>2, <2>3, <2>4
<1>14. IsList(u, I, Null, q)
  <2>1. \A m \in I : u.parent[m] = Null <=> m \in R
    BY <1>3, <1>4, <1>10
  <2>2. \A i \in 1..N : q[i] \in R
    BY <1>10
  <2>3. \A m \in I : u.parent[m] = Null <=> \E i \in 1..N : q[i] = m
    BY <1>10, <2>1, <2>2
  <2>4. QED
    BY <1>4, <1>10, <1>13, <2>3 DEF IsList
<1>15. ASSUME NEW p \in NoteOrNull \ {Null} PROVE IsList(u, I, p, Shown[p])
  <2>1. \A m \in I : /\ u.parent[m] = s.parent[m]
                     /\ s.parent[m] = p => u.prev[m] = s.prev[m] /\ u.next[m] = s.next[m]
    BY <1>3, <1>4, <1>10
  <2>2. QED
    BY <1>5, <2>1, SameListLinks
<1> DEFINE F == [Shown EXCEPT ![Null] = q]
<1>16. /\ F = [p \in NoteOrNull |-> F[p]]
       /\ F[Null] = q /\ \A p \in NoteOrNull \ {Null} : F[p] = Shown[p]
  BY <1>3, <1>8
<1>17. F = [Shown EXCEPT ![Null] = q]
  OBVIOUS
<1> HIDE DEF F
<1>18. \A p \in NoteOrNull : IsList(u, u.ids, p, F[p])
  BY <1>4, <1>9, <1>10, <1>14, <1>15, <1>16
<1>19. Shown' = F
  BY <1>16, <1>18, ShownNext
<1>20. q \in [DOMAIN l -> Lists!ToSet(l)]
  BY <1>7, <1>10, <1>12
<1>21. ASSUME NEW i \in DOMAIN q, NEW j \in DOMAIN q, q[j] \in LaterSiblings(s, q[i])
       PROVE  Lists!Precedes(l, q[i], q[j])
  <2>1. PICK a \in 1..N : l[a] = q[i]
    <3>1. q[i] \in R
      BY <1>10, <1>13
    <3>2. q[i] \in I /\ s.parent[q[i]] = Null
      BY <1>3, <3>1
    <3>3. QED
      BY <1>12, <3>2
  <2>2. ListOf(s, Null, l)
    BY <1>3, <1>9 DEF ListOf
  <2>3. DOMAIN l = 1..Len(l) /\ \E k \in 1..Len(l) : l[k] = q[i]
    BY <1>11, <1>12, <2>1
  <2>4. QED
    BY <1>21, <2>2, <2>3, LaterIsPreceded
<1>22. \A i, j \in DOMAIN q : i < j =>
           \/ q[i] \in S /\ q[j] \notin S
           \/ (q[i] \in S <=> q[j] \in S) /\ Lists!Precedes(l, q[i], q[j])
  BY <1>2, <1>21
<1>23. \E list \in [DOMAIN Shown[Null] -> Lists!ToSet(Shown[Null])] :
           /\ \A i, j \in DOMAIN list : i < j =>
                 \/ list[i] \in S /\ list[j] \notin S
                 \/ (list[i] \in S <=> list[j] \in S) /\ Lists!Precedes(Shown[Null], list[i], list[j])
           /\ Shown' = [Shown EXCEPT ![Null] = list]
  BY <1>17, <1>19, <1>20, <1>22 DEF l
<1>24. QED
  BY <1>23 DEF Lists!Gather, Shown

\* Whatever changed a store between two commits is one step of the lists, or none.
LEMMA ChangedStep ==
  ASSUME NEW s, Sound(s), Clean(s), NEW u, Sound(u), Clean(u),
         db = Columns(s), db' = Columns(u), Changed(s, u)
  PROVE  [Lists!Next]_Shown
<1>1. ASSUME NEW n \in Notes, NEW p \in NoteOrNull, Placed(n, p) PROVE Lists!Next
  <2>1. p \in Lists!Parents
    BY DEF Lists!Parents, NoteOrNull
  <2>2. \E i \in 1..(Len(Shown[p]) + 1) : Lists!Create(n, p, i) \/ Lists!Move(n, p, i)
    BY <1>1 DEF Placed
  <2>3. QED
    BY <2>1, <2>2 DEF Lists!Next, Shown
<1>2. ASSUME NEW n, NEW p, NEW prev, NEW next, Created(s, u, n, p, prev, next) PROVE Lists!Next
  BY <1>1, <1>2, CreatedStep
<1>3. ASSUME NEW n, NEW p, NEW prev, NEW next, Moved(s, u, n, p, prev, next) PROVE Lists!Next
  BY <1>1, <1>3, MovedStep
<1>4. ASSUME NEW n, Deleted(s, u, n) PROVE Lists!Next
  <2>1. n \in Notes /\ Lists!Delete(n)
    BY <1>4, DeletedStep
  <2>2. QED
    BY <2>1 DEF Lists!Next
<1>5. ASSUME NEW S \in SUBSET Notes, NEW q, Reordered(s, u, S, q) PROVE Lists!Next
  <2>1. Lists!Gather(S)
    BY <1>5, ReorderedStep
  <2>2. QED
    BY <2>1 DEF Lists!Next
<1>6. ASSUME Flagged(s, u) PROVE Shown' = Shown
  BY <1>6, FlaggedStep
<1>7. QED
  BY <1>2, <1>3, <1>4, <1>5, <1>6 DEF Changed

-----------------------------------------------------------------------------
(***************************************************************************)
(* Between two commits the store is ahead of the database by one change.     *)
(***************************************************************************)
ListsInv ==
    /\ Clean(store)
    /\ Clean(Hydrated(db))
    /\ phase # "applied" => rows = db
    /\ phase = "applied" => Changed(Hydrated(db), store)

\* A store that is equal to the committed rows is what a load of them builds.
LEMMA CommittedStore ==
  ASSUME StoreInv
  PROVE  /\ rows = db => store = Hydrated(db)
         /\ Sound(store) /\ Sound(Hydrated(db)) /\ db = Columns(Hydrated(db))
         /\ db \in Tables /\ Loadable(db) /\ rows = Columns(store)
<1>1. /\ Sound(store) /\ rows = Columns(store) /\ Loadable(db) /\ db \in Tables
  BY DEF StoreInv, TypeOK
<1>2. store = Hydrated(rows)
  BY <1>1, StoreIsHydrated DEF Sound
<1>3. QED
  BY <1>1, <1>2, HydratedSound, ColumnsOfHydrated

\* Each step keeps the database at most one change behind.
LEMMA ListsInvStep ==
  ASSUME StoreInv, ListsInv, [StoreNext]_storeVars
  PROVE  ListsInv'
<1>1. CASE Command
  <2>1. phase = "idle" /\ phase' = "applied" /\ db' = db
    BY <1>1, CommandKeeps
  <2>2. store = Hydrated(db) /\ Sound(store) /\ Clean(store) /\ Clean(Hydrated(db))
    BY <2>1, CommittedStore DEF ListsInv
  <2>3. Changed(store, store')
    BY <1>1, CommandChanges
  <2>4. Clean(store')
    BY <2>2, <2>3, ChangedClean
  <2>5. Hydrated(db)' = Hydrated(db)
    BY <2>1 DEF Hydrated
  <2>6. QED
    BY <2>1, <2>2, <2>3, <2>4, <2>5 DEF ListsInv
<1>2. CASE Commit
  <2>1. db' = rows /\ rows' = rows /\ store' = store /\ phase' = "idle"
    BY <1>2 DEF Commit
  <2>2. rows = Columns(store)
    BY CommittedStore
  <2>3. Hydrated(db') = store
    BY <2>1, <2>2, CommittedStore, StoreIsHydrated DEF Sound
  <2>4. Clean(Hydrated(db'))
    BY <2>3 DEF ListsInv
  <2>5. QED
    BY <2>1, <2>4 DEF ListsInv
<1>3. CASE Reload
  <2>1. store' = Hydrated(db) /\ rows' = db /\ db' = db /\ phase' = "idle"
    BY <1>3, CommittedStore DEF Reload
  <2>2. QED
    BY <2>1 DEF ListsInv
<1>4. CASE UNCHANGED storeVars
  BY <1>4 DEF storeVars, ListsInv
<1>5. QED
  BY <1>1, <1>2, <1>3, <1>4 DEF StoreNext, Rollback, Restart

\* Only a commit changes the lists, by one step.
LEMMA ListsStep ==
  ASSUME StoreInv, ListsInv, [StoreNext]_storeVars
  PROVE  [Lists!Next]_Shown
<1>1. CASE db' = db
  BY <1>1 DEF Shown
<1>2. CASE Commit
  <2> DEFINE s == Hydrated(db)
  <2>1. phase = "applied" /\ db' = rows /\ store' = store
    BY <1>2 DEF Commit
  <2>2. Changed(s, store) /\ Clean(s) /\ Clean(store)
    BY <2>1 DEF ListsInv
  <2>3. Sound(s) /\ Sound(store) /\ db = Columns(s) /\ db' = Columns(store)
    BY <2>1, CommittedStore
  <2> HIDE DEF s
  <2>4. QED
    BY <2>2, <2>3, ChangedStep
<1>3. QED
  BY <1>1, <1>2, CommandKeeps DEF StoreNext, Rollback, Restart, Reload, storeVars

\* Every list of a vault with no note is empty.
LEMMA EmptyLists ==
  ASSUME StoreInit
  PROVE  Lists!Init
<1> DEFINE e == Hydrated(EmptyTable)
<1>1. Sound(e)
  BY EmptyTableType, EmptySound, HydratedSound
<1>2. Clean(e) /\ e.ids = {}
  BY DEF Clean, Hydrated, EmptyTable
<1>3. db = EmptyTable
  BY DEF StoreInit
<1> HIDE DEF e
<1>4. ASSUME NEW p \in NoteOrNull PROVE Children(e, p) = << >>
  <2>1. IsList(e, e.ids, p, Children(e, p))
    BY <1>1, <1>2, ChildrenAreList
  <2>2. QED
    BY <1>2, <2>1 DEF IsList
<1>5. Shown = [p \in NoteOrNull |-> << >>]
  BY <1>3, <1>4 DEF Shown, e
<1>6. QED
  BY <1>5 DEF Lists!Init, Lists!Parents, Shown, NoteOrNull

\* NoteCommands implements SiblingLists: for every vault and every run of
\* commands, failed requests, rollbacks and restarts, what is committed changes by
\* one Create, Move, Delete or Gather of the lists at a time, and by no part of one
\* (ImplementsSiblingLists of MCNoteCommands; app/usecases, app/db/session.py).
THEOREM CommitsAreListSteps == StoreSpec => ImplementsSiblingLists
<1>1. StoreInit => ListsInv /\ Lists!Init
  <2> SUFFICES ASSUME StoreInit PROVE ListsInv
    BY EmptyLists
  <2>1. /\ store = Hydrated(EmptyTable) /\ rows = EmptyTable /\ db = EmptyTable
        /\ phase = "idle"
    BY DEF StoreInit
  <2>2. Clean(Hydrated(EmptyTable))
    BY DEF Clean, Hydrated, EmptyTable
  <2>3. QED
    BY <2>1, <2>2 DEF ListsInv
<1>2. StoreInv /\ ListsInv /\ [StoreNext]_storeVars => ListsInv'
  BY ListsInvStep
<1>3. StoreInv /\ ListsInv /\ [StoreNext]_storeVars => [Lists!Next]_Shown
  BY ListsStep
<1>4. [Lists!Next]_Shown => [Lists!Next]_([p \in NoteOrNull |-> Children(Hydrated(db), p)])
  BY DEF Shown
<1>5. StoreSpec => []StoreInv
  BY StoreInvariant
<1>6. QED
  BY <1>1, <1>2, <1>3, <1>4, <1>5, PTL DEF StoreSpec, ImplementsSiblingLists, Lists!Spec
=============================================================================
