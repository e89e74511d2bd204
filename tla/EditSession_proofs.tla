------------------------ MODULE EditSession_proofs ------------------------
(***************************************************************************)
(* The proofs about EditSession, for any set of notes, any sessions, any     *)
(* number of texts and of failures: its types, one view request at a time,   *)
(* autosaves that end on a dirty note, and that typed text is kept as long   *)
(* as the view requests are answered.                                        *)
(*                                                                           *)
(* A command is the list of its remaining steps, so most of what must hold   *)
(* is about lists: every program has a shape (Shape: which step may follow   *)
(* which), each step of a command takes its head away or replaces it by the  *)
(* wait for an answer, and both keep the shape.  BaseInv adds to the types   *)
(* what the program left says of the mode, the target and the requests.      *)
(* KeepInv adds where the texts are: on the page, in the editor's snapshot,  *)
(* on their way, in the warm view, and stored.                               *)
(***************************************************************************)
EXTENDS EditSession, TLAPS, FiniteSetTheorems, SequenceTheorems

-----------------------------------------------------------------------------
(*****************************************************************************)
(* The shape of a program, and its tail.                                     *)
(*****************************************************************************)
\* The steps of commands.
Steps == Awaits \cup Effects

\* Steps that only a program begins with, or that replace its first step.
First == {"idleSave", "autosaving", "saving", "split", "splitting", "viewing", "waiting",
          "discard", "undoing", "drop", "enter"}
\* Steps that take over the text a refresh returned.
Adopts == {"adopt", "adoptAny", "adoptSome"}
\* Steps that end the edit of the current note without asking whether it was saved.
Ends == {"leave", "exit", "swap"}
\* Steps that wait for the answer to the note's text.
Sends == {"saving", "autosaving", "splitting"}
\* Steps that act on the command's target.
Aimed == {"enter", "swap", "deleting", "drop", "decide", "confirm", "forget"}

\* What stands before what in a program: a refresh before its text is adopted, a save and the
\* calls about it before the note is left, the split and its refresh before dirty is reset.
Shape(s) ==
    /\ s \in Seq(Steps)
    /\ \A i \in 1..Len(s) : s[i] = "choose" => i = Len(s)
    /\ \A i \in 2..Len(s) :
         /\ s[i] \notin First
         /\ s[i] \in Adopts => s[i - 1] \in {"refresh", "viewing"}
         /\ s[i] \in Ends =>
              \/ i = 2 /\ s[1] \in {"maybeCall", "calling", "discard"}
              \/ i > 2 /\ s[i - 1] = "maybeCall" /\ s[i - 2] \in {"save", "saving"}
         /\ s[i] = "swap" => i <= 3
         /\ s[i] = "forget" => i = 2 /\ s[1] = "deleting"
         /\ s[i] = "choose" => s[i - 1] = "creating"
         /\ s[i] = "refreshNow" => s[i - 1] = "leave"
         /\ s[i] = "saved" =>
              /\ i <= 4 /\ s[i - 1] = "adoptSome"
              /\ i >= 3 => s[i - 2] \in {"refresh", "viewing"}
              /\ i = 4 => s[1] \in {"split", "splitting"}

\* The steps a command has left.
Left(s) == {s[i] : i \in 1..Len(s)}

\* The tail of a list, element by element.
LEMMA TailIs ==
    ASSUME NEW s \in Seq(Steps), s # <<>>
    PROVE  /\ Tail(s) \in Seq(Steps) /\ Len(s) \in Nat \ {0} /\ Len(Tail(s)) = Len(s) - 1
           /\ Head(s) = s[1] /\ Len(s) >= 1
           /\ \A i \in 1..Len(Tail(s)) : Tail(s)[i] = s[i + 1]
           /\ Tail(s) # <<>> <=> Len(s) >= 2
  BY SMT

\* A list whose head is replaced, element by element.
LEMMA PutIs ==
    ASSUME NEW s \in Seq(Steps), s # <<>>, NEW b \in Steps
    PROVE  /\ <<b>> \o Tail(s) \in Seq(Steps) /\ Len(<<b>> \o Tail(s)) = Len(s)
           /\ (<<b>> \o Tail(s))[1] = b
           /\ <<b>> \o Tail(s) # <<>>
           /\ \A i \in 2..Len(s) : (<<b>> \o Tail(s))[i] = s[i]
  BY SMT

\* Doing a step keeps the shape.
LEMMA ShapeOfTail ==
    ASSUME NEW s, Shape(s), s # <<>>
    PROVE  Shape(Tail(s))
<1> DEFINE t == Tail(s)
<1>1. /\ s \in Seq(Steps) /\ t \in Seq(Steps) /\ Len(s) \in Nat \ {0} /\ Len(t) = Len(s) - 1
      /\ \A i \in 1..Len(t) : t[i] = s[i + 1]
  BY TailIs DEF Shape
<1> HIDE DEF t
<1>2. \A i \in 1..Len(t) : t[i] = "choose" => i = Len(t)
  BY <1>1 DEF Shape
<1>3. ASSUME NEW i \in 2..Len(t)
      PROVE  /\ i + 1 \in 2..Len(s) /\ t[i] = s[i + 1] /\ t[i - 1] = s[i] /\ t[1] = s[2]
             /\ i > 2 => t[i - 2] = s[i - 1]
             /\ 2 \in 2..Len(s) /\ s[2] \notin First
  <2>1. /\ i \in 1..Len(t) /\ i - 1 \in 1..Len(t) /\ 1 \in 1..Len(t) /\ (i - 1) + 1 = i /\ 1 + 1 = 2
        /\ i + 1 \in 2..Len(s) /\ 2 \in 2..Len(s)
    BY <1>1
  <2>2. t[i] = s[i + 1] /\ t[i - 1] = s[(i - 1) + 1] /\ t[1] = s[1 + 1]
    BY <1>1, <2>1
  <2>3. CASE i > 2
    <3>1. i - 2 \in 1..Len(t) /\ (i - 2) + 1 = i - 1
      BY <1>1, <2>3
    <3>2. t[i - 2] = s[(i - 2) + 1]
      BY <1>1, <3>1
    <3> QED BY <2>1, <2>2, <3>1, <3>2 DEF Shape
  <2>4. CASE i = 2
    BY <2>1, <2>2, <2>4 DEF Shape
  <2> QED BY <2>3, <2>4
<1>4. ASSUME NEW i \in 2..Len(t)
      PROVE  /\ t[i] \notin First
             /\ t[i] \in Adopts => t[i - 1] \in {"refresh", "viewing"}
             /\ t[i] \in Ends =>
                  \/ i = 2 /\ t[1] \in {"maybeCall", "calling", "discard"}
                  \/ i > 2 /\ t[i - 1] = "maybeCall" /\ t[i - 2] \in {"save", "saving"}
             /\ t[i] = "swap" => i <= 3
             /\ t[i] = "choose" => t[i - 1] = "creating"
             /\ t[i] = "refreshNow" => t[i - 1] = "leave"
  BY <1>3 DEF Shape, First
<1>5. ASSUME NEW i \in 2..Len(t)
      PROVE  t[i] # "forget"
  BY <1>3 DEF Shape
<1>6. ASSUME NEW i \in 2..Len(t), t[i] = "saved"
      PROVE  /\ i <= 4 /\ t[i - 1] = "adoptSome"
             /\ i >= 3 => t[i - 2] \in {"refresh", "viewing"}
             /\ i = 4 => t[1] \in {"split", "splitting"}
  BY <1>3, <1>6 DEF Shape
<1> QED BY <1>1, <1>2, <1>4, <1>5, <1>6 DEF Shape, t

\* What doing a step says of the next one.
LEMMA AfterTail ==
    ASSUME NEW s, Shape(s), s # <<>>
    PROVE  /\ Shape(Tail(s)) /\ Left(Tail(s)) \subseteq Left(s)
           /\ s[1] \in Steps /\ s[1] \in Left(s) /\ Head(s) = s[1] /\ Len(s) \in Nat /\ Len(s) >= 1
           /\ Tail(s) # <<>> <=> Len(s) >= 2
           /\ Tail(s) # <<>> =>
                /\ Tail(s)[1] = s[2] /\ Tail(s)[1] \notin First
                /\ Tail(s)[1] \in Adopts => s[1] \in {"refresh", "viewing"}
                /\ Tail(s)[1] \in Ends => s[1] \in {"maybeCall", "calling", "discard"}
                /\ Tail(s)[1] = "choose" => s[1] = "creating"
                /\ Tail(s)[1] = "refreshNow" => s[1] = "leave"
           /\ Len(Tail(s)) >= 2 =>
                /\ Tail(s)[2] \in Ends => Tail(s)[1] = "maybeCall" /\ s[1] \in {"save", "saving"}
           /\ "swap" \in Left(Tail(s)) =>
                s[1] \in {"maybeCall", "calling", "discard", "save", "saving"}
           /\ "forget" \in Left(s) => s[1] \in {"deleting", "forget"}
           /\ "saved" \in Left(Tail(s)) =>
                s[1] \in {"adoptSome", "refresh", "viewing", "split", "splitting"}
           /\ s[1] = "choose" => Tail(s) = <<>>
<1> DEFINE t == Tail(s)
<1>1. /\ s \in Seq(Steps) /\ t \in Seq(Steps) /\ Len(s) \in Nat \ {0} /\ Len(t) = Len(s) - 1
      /\ \A i \in 1..Len(t) : t[i] = s[i + 1]
      /\ Head(s) = s[1] /\ (t # <<>> <=> Len(s) >= 2) /\ Shape(t)
  BY TailIs, ShapeOfTail DEF Shape
<1> HIDE DEF t
<1>2. Left(t) \subseteq Left(s)
  BY <1>1 DEF Left
<1>3. s[1] \in Steps /\ s[1] \in Left(s)
  BY <1>1, ElementOfSeq DEF Left
<1>4. ASSUME t # <<>>
      PROVE  /\ 2 \in 2..Len(s) /\ 2 \in 1..Len(s) /\ 1 \in 1..Len(t) /\ t[1] = s[2]
  <2>1. 2 \in 2..Len(s) /\ 2 \in 1..Len(s) /\ 1 \in 1..Len(t) /\ 1 + 1 = 2
    BY <1>1, <1>4
  <2> QED BY <2>1, <1>1
<1>5. ASSUME t # <<>>
      PROVE  /\ t[1] \notin First
             /\ t[1] \in Adopts => s[1] \in {"refresh", "viewing"}
             /\ t[1] \in Ends => s[1] \in {"maybeCall", "calling", "discard"}
             /\ t[1] = "choose" => s[1] = "creating"
             /\ t[1] = "refreshNow" => s[1] = "leave"
  BY <1>4, <1>5 DEF Shape
<1>6. ASSUME Len(t) >= 2
      PROVE  3 \in 2..Len(s) /\ t[2] = s[3] /\ t[1] = s[2]
  <2>1. 2 \in 1..Len(t) /\ 1 \in 1..Len(t) /\ 3 \in 2..Len(s) /\ 2 + 1 = 3 /\ 1 + 1 = 2
    BY <1>1, <1>6
  <2> QED BY <2>1, <1>1
<1>7. ASSUME Len(t) >= 2
      PROVE  /\ t[2] \in Ends => t[1] = "maybeCall" /\ s[1] \in {"save", "saving"}
  BY <1>6, <1>7 DEF Shape
<1>8. ASSUME NEW x \in Left(t)
      PROVE  \E i \in 2..Len(s) : s[i] = x
  <2>1. PICK j \in 1..Len(t) : t[j] = x
    BY <1>8 DEF Left
  <2>2. j + 1 \in 2..Len(s) /\ s[j + 1] = x
    BY <2>1, <1>1
  <2> QED BY <2>2
<1>9. ASSUME "swap" \in Left(t)
      PROVE  s[1] \in {"maybeCall", "calling", "discard", "save", "saving"}
  <2>1. PICK i \in 2..Len(s) : s[i] = "swap"
    BY <1>8, <1>9
  <2>2. i <= 3 /\ (i = 2 \/ i = 3)
    BY <2>1, <1>1 DEF Shape
  <2> QED BY <2>1, <2>2 DEF Shape, Ends
<1>10. ASSUME "forget" \in Left(s)
       PROVE  s[1] \in {"deleting", "forget"}
  <2>1. PICK i \in 1..Len(s) : s[i] = "forget"
    BY <1>10 DEF Left
  <2>2. CASE i = 1
    BY <2>1, <2>2
  <2>3. CASE i # 1
    BY <2>1, <2>3, <1>1 DEF Shape
  <2> QED BY <2>2, <2>3
<1>11. ASSUME "saved" \in Left(t)
       PROVE  s[1] \in {"adoptSome", "refresh", "viewing", "split", "splitting"}
  <2>1. PICK i \in 2..Len(s) : s[i] = "saved"
    BY <1>8, <1>11
  <2>2. i = 2 \/ i = 3 \/ i = 4
    BY <2>1, <1>1 DEF Shape
  <2> QED BY <2>1, <2>2 DEF Shape
<1>12. s[1] = "choose" => t = <<>>
  BY <1>1 DEF Shape
<1>13. Len(s) \in Nat /\ Len(s) >= 1
  BY <1>1
<1> QED BY <1>1, <1>2, <1>3, <1>4, <1>5, <1>7, <1>9, <1>10, <1>11, <1>12, <1>13 DEF t

\* A step that waits takes the place of the one that sent.
Turns(a, b) ==
    \/ a = "save" /\ b = "saving"
    \/ a = "idleSave" /\ b = "autosaving"
    \/ a = "split" /\ b = "splitting"
    \/ a = "maybeCall" /\ b = "calling"
    \/ a \in {"refresh", "refreshNow", "waiting"} /\ b = "viewing"
    \/ a = "refreshNow" /\ b = "waiting"

\* Waiting keeps the shape and adds no step but the wait.
LEMMA AfterPut ==
    ASSUME NEW s, Shape(s), s # <<>>, NEW b, Turns(s[1], b)
    PROVE  /\ Shape(<<b>> \o Tail(s)) /\ Left(<<b>> \o Tail(s)) \subseteq {b} \cup Left(s)
           /\ <<b>> \o Tail(s) # <<>> /\ (<<b>> \o Tail(s))[1] = b
           /\ Len(<<b>> \o Tail(s)) = Len(s)
           /\ Len(s) >= 2 => (<<b>> \o Tail(s))[2] = s[2]
           /\ b \notin Aimed /\ b # "saved" /\ b \in Awaits
<1> DEFINE u == <<b>> \o Tail(s)
<1>1. b \in Steps /\ b # "choose" /\ b \notin Aimed /\ b # "saved" /\ b \in Awaits
  BY SMT DEF Turns, Steps, Awaits, Effects, Aimed
<1>2. /\ s \in Seq(Steps) /\ u \in Seq(Steps) /\ Len(u) = Len(s) /\ u[1] = b /\ u # <<>>
      /\ \A i \in 2..Len(s) : u[i] = s[i]
      /\ Len(s) \in Nat \ {0}
  BY <1>1, PutIs, TailIs DEF Shape
<1> HIDE DEF u
<1>3. \A i \in 1..Len(u) : u[i] = "choose" => i = Len(u)
  BY <1>1, <1>2 DEF Shape
<1>4. ASSUME NEW i \in 2..Len(u)
      PROVE  /\ u[i] \notin First
             /\ u[i] \in Adopts => u[i - 1] \in {"refresh", "viewing"}
             /\ u[i] \in Ends =>
                  \/ i = 2 /\ u[1] \in {"maybeCall", "calling", "discard"}
                  \/ i > 2 /\ u[i - 1] = "maybeCall" /\ u[i - 2] \in {"save", "saving"}
             /\ u[i] = "swap" => i <= 3
             /\ u[i] = "forget" => i = 2 /\ u[1] = "deleting"
             /\ u[i] = "choose" => u[i - 1] = "creating"
             /\ u[i] = "refreshNow" => u[i - 1] = "leave"
             /\ u[i] = "saved" =>
                  /\ i <= 4 /\ u[i - 1] = "adoptSome"
                  /\ i >= 3 => u[i - 2] \in {"refresh", "viewing"}
                  /\ i = 4 => u[1] \in {"split", "splitting"}
  <2>1. i \in 2..Len(s) /\ u[i] = s[i]
    BY <1>2
  <2>2. CASE i = 2
    BY <2>1, <2>2, <1>2 DEF Shape, Turns
  <2>3. CASE i = 3
    <3>1. u[2] = s[2]
      BY <1>2, <2>1, <2>3
    <3> QED BY <3>1, <2>1, <2>3, <1>2 DEF Shape, Turns
  <2>4. CASE i > 3
    <3>1. u[i - 1] = s[i - 1] /\ u[i - 2] = s[i - 2]
      BY <1>2, <2>1, <2>4
    <3> QED BY <3>1, <2>1, <2>4, <1>2 DEF Shape, Turns
  <2> QED BY <2>2, <2>3, <2>4
<1>5. Left(u) \subseteq {b} \cup Left(s)
  <2>1. ASSUME NEW i \in 1..Len(u)
        PROVE  u[i] \in {b} \cup Left(s)
    <3>1. CASE i = 1
      BY <3>1, <1>2
    <3>2. CASE i # 1
      BY <3>2, <1>2 DEF Left
    <3> QED BY <3>1, <3>2
  <2> QED BY <2>1 DEF Left
<1>6. Len(s) >= 2 => u[2] = s[2]
  BY <1>2 DEF Shape
<1> QED BY <1>1, <1>2, <1>3, <1>4, <1>5, <1>6 DEF Shape, u

-----------------------------------------------------------------------------
(*****************************************************************************)
(* Joining short lists.                                                      *)
(*****************************************************************************)
\* Two lists, joined.
LEMMA Joined ==
    ASSUME NEW s \in Seq(Steps), NEW t \in Seq(Steps)
    PROVE  /\ s \o t \in Seq(Steps) /\ Len(s \o t) = Len(s) + Len(t)
           /\ \A i \in 1..Len(s) : (s \o t)[i] = s[i]
           /\ \A i \in 1..Len(t) : (s \o t)[Len(s) + i] = t[i]
           /\ <<>> \o t = t /\ s \o <<>> = s
  BY SMT

\* A list that has the elements of two lists, one after the other, is the two joined.
LEMMA IsJoined ==
    ASSUME NEW s \in Seq(Steps), NEW t \in Seq(Steps), NEW u \in Seq(Steps),
           Len(u) = Len(s) + Len(t),
           \A i \in 1..Len(s) : u[i] = s[i],
           \A i \in 1..Len(t) : u[Len(s) + i] = t[i]
    PROVE  s \o t = u
<1> DEFINE v == s \o t
<1>1. v \in Seq(Steps) /\ Len(v) = Len(s) + Len(t) /\ Len(s) \in Nat /\ Len(t) \in Nat
  BY Joined
<1>2. ASSUME NEW i \in 1..Len(v)
      PROVE  v[i] = u[i]
  <2>1. CASE i <= Len(s)
    BY <1>1, <2>1, Joined
  <2>2. CASE i > Len(s)
    <3>1. i - Len(s) \in 1..Len(t) /\ Len(s) + (i - Len(s)) = i
      BY <1>1, <2>2
    <3> QED BY <3>1, Joined
  <2> QED BY <1>1, <2>1, <2>2
<1> HIDE DEF v
<1>3. v = u
  BY <1>1, <1>2, SeqEqual
<1> QED BY <1>3 DEF v

\* A list of one and one of one.
LEMMA Join11 ==
    ASSUME NEW a \in Steps, NEW b \in Steps
    PROVE  <<a>> \o <<b>> = <<a, b>>
<1> DEFINE s == <<a>>
           t == <<b>>
           u == <<a, b>>
<1>1. s \in Seq(Steps) /\ t \in Seq(Steps) /\ u \in Seq(Steps)
  OBVIOUS
<1>2. /\ Len(s) = 1 /\ Len(t) = 1 /\ Len(u) = 2
      /\ u[1] = s[1]
      /\ u[2] = t[1]
  OBVIOUS
<1> HIDE DEF s, t, u
<1>3. (\A i \in 1..1 : i = 1) /\ (\A i \in 1..1 : i = 1)
  OBVIOUS
<1>4. Len(u) = Len(s) + Len(t) /\ (\A i \in 1..Len(s) : u[i] = s[i]) /\ (\A i \in 1..Len(t) : u[Len(s) + i] = t[i])
  BY <1>2, <1>3
<1>5. s \o t = u
  BY <1>1, <1>2, <1>4, IsJoined
<1> QED BY <1>5 DEF s, t, u

\* A list of one and one of two.
LEMMA Join12 ==
    ASSUME NEW a \in Steps, NEW b \in Steps, NEW c \in Steps
    PROVE  <<a>> \o <<b, c>> = <<a, b, c>>
<1> DEFINE s == <<a>>
           t == <<b, c>>
           u == <<a, b, c>>
<1>1. s \in Seq(Steps) /\ t \in Seq(Steps) /\ u \in Seq(Steps)
  OBVIOUS
<1>2. /\ Len(s) = 1 /\ Len(t) = 2 /\ Len(u) = 3
      /\ u[1] = s[1]
      /\ u[2] = t[1] /\ u[3] = t[2]
  OBVIOUS
<1> HIDE DEF s, t, u
<1>3. (\A i \in 1..1 : i = 1) /\ (\A i \in 1..2 : i = 1 \/ i = 2)
  OBVIOUS
<1>4. Len(u) = Len(s) + Len(t) /\ (\A i \in 1..Len(s) : u[i] = s[i]) /\ (\A i \in 1..Len(t) : u[Len(s) + i] = t[i])
  BY <1>2, <1>3
<1>5. s \o t = u
  BY <1>1, <1>2, <1>4, IsJoined
<1> QED BY <1>5 DEF s, t, u

\* A list of one and one of four.
LEMMA Join14 ==
    ASSUME NEW a \in Steps, NEW b \in Steps, NEW c \in Steps, NEW d \in Steps, NEW e \in Steps
    PROVE  <<a>> \o <<b, c, d, e>> = <<a, b, c, d, e>>
<1> DEFINE s == <<a>>
           t == <<b, c, d, e>>
           u == <<a, b, c, d, e>>
<1>1. s \in Seq(Steps) /\ t \in Seq(Steps) /\ u \in Seq(Steps)
  OBVIOUS
<1>2. /\ Len(s) = 1 /\ Len(t) = 4 /\ Len(u) = 5
      /\ u[1] = s[1]
      /\ u[2] = t[1] /\ u[3] = t[2] /\ u[4] = t[3] /\ u[5] = t[4]
  OBVIOUS
<1> HIDE DEF s, t, u
<1>3. (\A i \in 1..1 : i = 1) /\ (\A i \in 1..4 : i = 1 \/ i = 2 \/ i = 3 \/ i = 4)
  OBVIOUS
<1>4. Len(u) = Len(s) + Len(t) /\ (\A i \in 1..Len(s) : u[i] = s[i]) /\ (\A i \in 1..Len(t) : u[Len(s) + i] = t[i])
  BY <1>2, <1>3
<1>5. s \o t = u
  BY <1>1, <1>2, <1>4, IsJoined
<1> QED BY <1>5 DEF s, t, u

\* A list of two and one of two.
LEMMA Join22 ==
    ASSUME NEW a \in Steps, NEW b \in Steps, NEW c \in Steps, NEW d \in Steps
    PROVE  <<a, b>> \o <<c, d>> = <<a, b, c, d>>
<1> DEFINE s == <<a, b>>
           t == <<c, d>>
           u == <<a, b, c, d>>
<1>1. s \in Seq(Steps) /\ t \in Seq(Steps) /\ u \in Seq(Steps)
  OBVIOUS
<1>2. /\ Len(s) = 2 /\ Len(t) = 2 /\ Len(u) = 4
      /\ u[1] = s[1] /\ u[2] = s[2]
      /\ u[3] = t[1] /\ u[4] = t[2]
  OBVIOUS
<1> HIDE DEF s, t, u
<1>3. (\A i \in 1..2 : i = 1 \/ i = 2) /\ (\A i \in 1..2 : i = 1 \/ i = 2)
  OBVIOUS
<1>4. Len(u) = Len(s) + Len(t) /\ (\A i \in 1..Len(s) : u[i] = s[i]) /\ (\A i \in 1..Len(t) : u[Len(s) + i] = t[i])
  BY <1>2, <1>3
<1>5. s \o t = u
  BY <1>1, <1>2, <1>4, IsJoined
<1> QED BY <1>5 DEF s, t, u

\* A list of three and one of one.
LEMMA Join31 ==
    ASSUME NEW a \in Steps, NEW b \in Steps, NEW c \in Steps, NEW d \in Steps
    PROVE  <<a, b, c>> \o <<d>> = <<a, b, c, d>>
<1> DEFINE s == <<a, b, c>>
           t == <<d>>
           u == <<a, b, c, d>>
<1>1. s \in Seq(Steps) /\ t \in Seq(Steps) /\ u \in Seq(Steps)
  OBVIOUS
<1>2. /\ Len(s) = 3 /\ Len(t) = 1 /\ Len(u) = 4
      /\ u[1] = s[1] /\ u[2] = s[2] /\ u[3] = s[3]
      /\ u[4] = t[1]
  OBVIOUS
<1> HIDE DEF s, t, u
<1>3. (\A i \in 1..3 : i = 1 \/ i = 2 \/ i = 3) /\ (\A i \in 1..1 : i = 1)
  OBVIOUS
<1>4. Len(u) = Len(s) + Len(t) /\ (\A i \in 1..Len(s) : u[i] = s[i]) /\ (\A i \in 1..Len(t) : u[Len(s) + i] = t[i])
  BY <1>2, <1>3
<1>5. s \o t = u
  BY <1>1, <1>2, <1>4, IsJoined
<1> QED BY <1>5 DEF s, t, u

\* A list of three and one of two.
LEMMA Join32 ==
    ASSUME NEW a \in Steps, NEW b \in Steps, NEW c \in Steps, NEW d \in Steps, NEW e \in Steps
    PROVE  <<a, b, c>> \o <<d, e>> = <<a, b, c, d, e>>
<1> DEFINE s == <<a, b, c>>
           t == <<d, e>>
           u == <<a, b, c, d, e>>
<1>1. s \in Seq(Steps) /\ t \in Seq(Steps) /\ u \in Seq(Steps)
  OBVIOUS
<1>2. /\ Len(s) = 3 /\ Len(t) = 2 /\ Len(u) = 5
      /\ u[1] = s[1] /\ u[2] = s[2] /\ u[3] = s[3]
      /\ u[4] = t[1] /\ u[5] = t[2]
  OBVIOUS
<1> HIDE DEF s, t, u
<1>3. (\A i \in 1..3 : i = 1 \/ i = 2 \/ i = 3) /\ (\A i \in 1..2 : i = 1 \/ i = 2)
  OBVIOUS
<1>4. Len(u) = Len(s) + Len(t) /\ (\A i \in 1..Len(s) : u[i] = s[i]) /\ (\A i \in 1..Len(t) : u[Len(s) + i] = t[i])
  BY <1>2, <1>3
<1>5. s \o t = u
  BY <1>1, <1>2, <1>4, IsJoined
<1> QED BY <1>5 DEF s, t, u

\* A list of three and one of three.
LEMMA Join33 ==
    ASSUME NEW a \in Steps, NEW b \in Steps, NEW c \in Steps, NEW d \in Steps, NEW e \in Steps, NEW f \in Steps
    PROVE  <<a, b, c>> \o <<d, e, f>> = <<a, b, c, d, e, f>>
<1> DEFINE s == <<a, b, c>>
           t == <<d, e, f>>
           u == <<a, b, c, d, e, f>>
<1>1. s \in Seq(Steps) /\ t \in Seq(Steps) /\ u \in Seq(Steps)
  OBVIOUS
<1>2. /\ Len(s) = 3 /\ Len(t) = 3 /\ Len(u) = 6
      /\ u[1] = s[1] /\ u[2] = s[2] /\ u[3] = s[3]
      /\ u[4] = t[1] /\ u[5] = t[2] /\ u[6] = t[3]
  OBVIOUS
<1> HIDE DEF s, t, u
<1>3. (\A i \in 1..3 : i = 1 \/ i = 2 \/ i = 3) /\ (\A i \in 1..3 : i = 1 \/ i = 2 \/ i = 3)
  OBVIOUS
<1>4. Len(u) = Len(s) + Len(t) /\ (\A i \in 1..Len(s) : u[i] = s[i]) /\ (\A i \in 1..Len(t) : u[Len(s) + i] = t[i])
  BY <1>2, <1>3
<1>5. s \o t = u
  BY <1>1, <1>2, <1>4, IsJoined
<1> QED BY <1>5 DEF s, t, u

\* A list of four and one of one.
LEMMA Join41 ==
    ASSUME NEW a \in Steps, NEW b \in Steps, NEW c \in Steps, NEW d \in Steps, NEW e \in Steps
    PROVE  <<a, b, c, d>> \o <<e>> = <<a, b, c, d, e>>
<1> DEFINE s == <<a, b, c, d>>
           t == <<e>>
           u == <<a, b, c, d, e>>
<1>1. s \in Seq(Steps) /\ t \in Seq(Steps) /\ u \in Seq(Steps)
  OBVIOUS
<1>2. /\ Len(s) = 4 /\ Len(t) = 1 /\ Len(u) = 5
      /\ u[1] = s[1] /\ u[2] = s[2] /\ u[3] = s[3] /\ u[4] = s[4]
      /\ u[5] = t[1]
  OBVIOUS
<1> HIDE DEF s, t, u
<1>3. (\A i \in 1..4 : i = 1 \/ i = 2 \/ i = 3 \/ i = 4) /\ (\A i \in 1..1 : i = 1)
  OBVIOUS
<1>4. Len(u) = Len(s) + Len(t) /\ (\A i \in 1..Len(s) : u[i] = s[i]) /\ (\A i \in 1..Len(t) : u[Len(s) + i] = t[i])
  BY <1>2, <1>3
<1>5. s \o t = u
  BY <1>1, <1>2, <1>4, IsJoined
<1> QED BY <1>5 DEF s, t, u

\* A list of four and one of two.
LEMMA Join42 ==
    ASSUME NEW a \in Steps, NEW b \in Steps, NEW c \in Steps, NEW d \in Steps, NEW e \in Steps, NEW f \in Steps
    PROVE  <<a, b, c, d>> \o <<e, f>> = <<a, b, c, d, e, f>>
<1> DEFINE s == <<a, b, c, d>>
           t == <<e, f>>
           u == <<a, b, c, d, e, f>>
<1>1. s \in Seq(Steps) /\ t \in Seq(Steps) /\ u \in Seq(Steps)
  OBVIOUS
<1>2. /\ Len(s) = 4 /\ Len(t) = 2 /\ Len(u) = 6
      /\ u[1] = s[1] /\ u[2] = s[2] /\ u[3] = s[3] /\ u[4] = s[4]
      /\ u[5] = t[1] /\ u[6] = t[2]
  OBVIOUS
<1> HIDE DEF s, t, u
<1>3. (\A i \in 1..4 : i = 1 \/ i = 2 \/ i = 3 \/ i = 4) /\ (\A i \in 1..2 : i = 1 \/ i = 2)
  OBVIOUS
<1>4. Len(u) = Len(s) + Len(t) /\ (\A i \in 1..Len(s) : u[i] = s[i]) /\ (\A i \in 1..Len(t) : u[Len(s) + i] = t[i])
  BY <1>2, <1>3
<1>5. s \o t = u
  BY <1>1, <1>2, <1>4, IsJoined
<1> QED BY <1>5 DEF s, t, u

-----------------------------------------------------------------------------
(*****************************************************************************)
(* The programs, step by step.                                               *)
(*****************************************************************************)
\* The steps that programs are written with.
LEMMA StepNames ==
    {"save", "maybeCall", "leave", "refreshNow", "discard", "enter", "refresh", "adopt", "creating", "choose",
     "calling", "exit", "confirm", "undoing", "adoptSome"} \subseteq Steps
  BY DEF Steps, Awaits, Effects

\* DeselectNote, written out.
LEMMA DeselectIs ==
    /\ page[current] # NoText =>
         DeselectNote = <<"save", "maybeCall", "leave", "refreshNow">>
    /\ page[current] = NoText => DeselectNote = <<"discard", "leave", "refreshNow">>
<1>1. /\ "save" \in Steps /\ "maybeCall" \in Steps /\ "leave" \in Steps /\ "refreshNow" \in Steps
      /\ "discard" \in Steps
  BY StepNames
<1>2. <<"save", "maybeCall">> \o <<"leave", "refreshNow">> = <<"save", "maybeCall", "leave", "refreshNow">>
  BY <1>1, Join22
<1>3. <<"discard">> \o <<"leave", "refreshNow">> = <<"discard", "leave", "refreshNow">>
  BY <1>1, Join12
<1> QED BY <1>2, <1>3 DEF DeselectNote

\* The other programs that are joined from parts, written out.
LEMMA ProgramsAre ==
    /\ \A recordEdit \in BOOLEAN : ~editing =>
         SelectNote(recordEdit) = IF recordEdit THEN <<"enter", "maybeCall", "refresh", "adopt">>
                                                ELSE <<"enter", "refresh", "adopt">>
    /\ CreateNote = IF hasEdits /\ current # NoNote THEN <<"save", "creating", "choose">>
                                                    ELSE <<"creating", "choose">>
    /\ MoveNote = IF hasEdits /\ current # NoNote
                  THEN <<"save", "calling", "maybeCall", "refresh", "adopt">>
                  ELSE <<"calling", "maybeCall", "refresh", "adopt">>
    /\ CopyNote = IF hasEdits /\ current # NoNote THEN <<"save", "calling">> ELSE <<"calling">>
    /\ \A outside \in BOOLEAN :
         SetNoteCollapse(outside) =
           IF editing /\ outside
           THEN <<"save", "maybeCall", "exit", "calling", "maybeCall", "refresh">>
           ELSE <<"calling", "maybeCall", "refresh">>
    /\ ToggleTodoDone =
         IF editing THEN <<"save", "maybeCall", "exit", "calling", "maybeCall", "refresh">>
                    ELSE <<"calling", "maybeCall", "refresh">>
    /\ SetEmbeddedNoteCollapse =
         IF editing
         THEN IF page[current] # NoText
              THEN <<"save", "maybeCall", "leave", "refreshNow", "calling", "refresh">>
              ELSE <<"discard", "leave", "refreshNow", "calling", "refresh">>
         ELSE <<"calling", "refresh">>
    /\ (IF editing THEN DeselectNote ELSE <<>>) \o <<"confirm">> =
         IF editing
         THEN IF page[current] # NoText
              THEN <<"save", "maybeCall", "leave", "refreshNow", "confirm">>
              ELSE <<"discard", "leave", "refreshNow", "confirm">>
         ELSE <<"confirm">>
    /\ ~(dirty /\ current # NoNote) => UndoOrRedo = <<"undoing", "refresh", "adoptSome">>
<1>1. /\ "save" \in Steps /\ "maybeCall" \in Steps /\ "leave" \in Steps /\ "refreshNow" \in Steps
      /\ "discard" \in Steps /\ "enter" \in Steps /\ "refresh" \in Steps /\ "adopt" \in Steps
      /\ "creating" \in Steps /\ "choose" \in Steps /\ "calling" \in Steps /\ "exit" \in Steps
      /\ "confirm" \in Steps /\ "undoing" \in Steps /\ "adoptSome" \in Steps
  BY StepNames
<1>2. \A s \in Seq(Steps) : <<>> \o s = s
  BY Joined, EmptySeq
<1>3. ASSUME NEW recordEdit \in BOOLEAN, ~editing
      PROVE  SelectNote(recordEdit) = IF recordEdit THEN <<"enter", "maybeCall", "refresh", "adopt">>
                                                    ELSE <<"enter", "refresh", "adopt">>
  <2>1. <<>> \o <<"enter">> = <<"enter">>
    <3>1. <<"enter">> \in Seq(Steps)
      BY <1>1
    <3> QED BY <3>1, <1>2
  <2>2. <<"enter">> \o <<>> = <<"enter">>
    <3>1. <<"enter">> \in Seq(Steps)
      BY <1>1
    <3> QED BY <3>1, Joined, EmptySeq
  <2>3. <<"enter">> \o <<"maybeCall">> = <<"enter", "maybeCall">>
    BY <1>1, Join11
  <2>4. <<"enter">> \o <<"refresh", "adopt">> = <<"enter", "refresh", "adopt">>
    BY <1>1, Join12
  <2>5. <<"enter", "maybeCall">> \o <<"refresh", "adopt">> = <<"enter", "maybeCall", "refresh", "adopt">>
    BY <1>1, Join22
  <2>6. CASE recordEdit
    BY <1>3, <2>1, <2>3, <2>5, <2>6 DEF SelectNote
  <2>7. CASE ~recordEdit
    BY <1>3, <2>1, <2>2, <2>4, <2>7 DEF SelectNote
  <2> QED BY <2>6, <2>7
<1>4. /\ CreateNote = IF hasEdits /\ current # NoNote THEN <<"save", "creating", "choose">>
                                                      ELSE <<"creating", "choose">>
      /\ MoveNote = IF hasEdits /\ current # NoNote
                    THEN <<"save", "calling", "maybeCall", "refresh", "adopt">>
                    ELSE <<"calling", "maybeCall", "refresh", "adopt">>
      /\ CopyNote = IF hasEdits /\ current # NoNote THEN <<"save", "calling">> ELSE <<"calling">>
  <2>1. <<"save">> \o <<"creating", "choose">> = <<"save", "creating", "choose">>
    BY <1>1, Join12
  <2>2. <<"save">> \o <<"calling", "maybeCall", "refresh", "adopt">> =
             <<"save", "calling", "maybeCall", "refresh", "adopt">>
    BY <1>1, Join14
  <2>3. <<"save">> \o <<"calling">> = <<"save", "calling">>
    BY <1>1, Join11
  <2>4. /\ <<"creating", "choose">> \in Seq(Steps) /\ <<"calling">> \in Seq(Steps)
        /\ <<"calling", "maybeCall", "refresh", "adopt">> \in Seq(Steps)
    BY <1>1
  <2>5. CASE hasEdits /\ current # NoNote
    BY <2>1, <2>2, <2>3, <2>5 DEF CreateNote, MoveNote, CopyNote, SaveIfEdited
  <2>6. CASE ~(hasEdits /\ current # NoNote)
    BY <2>4, <1>2, <2>6 DEF CreateNote, MoveNote, CopyNote, SaveIfEdited
  <2> QED BY <2>5, <2>6
<1>5. <<"save", "maybeCall", "exit">> \o <<"calling", "maybeCall", "refresh">> =
             <<"save", "maybeCall", "exit", "calling", "maybeCall", "refresh">>
  BY <1>1, Join33
<1>6. <<>> \o <<"calling", "maybeCall", "refresh">> = <<"calling", "maybeCall", "refresh">>
  <2>1. <<"calling", "maybeCall", "refresh">> \in Seq(Steps)
    BY <1>1
  <2> QED BY <2>1, <1>2
<1>7. ASSUME NEW outside \in BOOLEAN
      PROVE  SetNoteCollapse(outside) =
               IF editing /\ outside
               THEN <<"save", "maybeCall", "exit", "calling", "maybeCall", "refresh">>
               ELSE <<"calling", "maybeCall", "refresh">>
  BY <1>5, <1>6 DEF SetNoteCollapse, SaveAndExitEditing
<1>8. ToggleTodoDone =
         IF editing THEN <<"save", "maybeCall", "exit", "calling", "maybeCall", "refresh">>
                    ELSE <<"calling", "maybeCall", "refresh">>
  BY <1>5, <1>6 DEF ToggleTodoDone, SaveAndExitEditing
<1>9. SetEmbeddedNoteCollapse =
         IF editing
         THEN IF page[current] # NoText
              THEN <<"save", "maybeCall", "leave", "refreshNow", "calling", "refresh">>
              ELSE <<"discard", "leave", "refreshNow", "calling", "refresh">>
         ELSE <<"calling", "refresh">>
  <2>1. <<"save", "maybeCall", "leave", "refreshNow">> \o <<"calling", "refresh">> =
             <<"save", "maybeCall", "leave", "refreshNow", "calling", "refresh">>
    BY <1>1, Join42
  <2>2. <<"discard", "leave", "refreshNow">> \o <<"calling", "refresh">> =
             <<"discard", "leave", "refreshNow", "calling", "refresh">>
    BY <1>1, Join32
  <2>3. <<"calling", "refresh">> \in Seq(Steps)
    BY <1>1
  <2>4. CASE editing
    BY DeselectIs, <2>1, <2>2, <2>4 DEF SetEmbeddedNoteCollapse
  <2>5. CASE ~editing
    BY <1>2, <2>3, <2>5 DEF SetEmbeddedNoteCollapse
  <2> QED BY <2>4, <2>5
<1>10. (IF editing THEN DeselectNote ELSE <<>>) \o <<"confirm">> =
         IF editing
         THEN IF page[current] # NoText
              THEN <<"save", "maybeCall", "leave", "refreshNow", "confirm">>
              ELSE <<"discard", "leave", "refreshNow", "confirm">>
         ELSE <<"confirm">>
  <2>1. <<"save", "maybeCall", "leave", "refreshNow">> \o <<"confirm">> =
             <<"save", "maybeCall", "leave", "refreshNow", "confirm">>
    BY <1>1, Join41
  <2>2. <<"discard", "leave", "refreshNow">> \o <<"confirm">> =
             <<"discard", "leave", "refreshNow", "confirm">>
    BY <1>1, Join31
  <2>3. <<"confirm">> \in Seq(Steps)
    BY <1>1
  <2>4. CASE editing
    BY DeselectIs, <2>1, <2>2, <2>4
  <2>5. CASE ~editing
    BY <1>2, <2>3, <2>5
  <2> QED BY <2>4, <2>5
<1>11. ~(dirty /\ current # NoNote) => UndoOrRedo = <<"undoing", "refresh", "adoptSome">>
  <2>1. <<"undoing", "refresh", "adoptSome">> \in Seq(Steps)
    BY <1>1
  <2> QED BY <2>1, <1>2 DEF UndoOrRedo
<1> QED BY <1>3, <1>4, <1>7, <1>8, <1>9, <1>10, <1>11

\* Every program has the shape.
LEMMA ShapesOfPrograms ==
    /\ Shape(<<>>)
    /\ Shape(<<"save", "maybeCall", "leave", "refreshNow">>)
    /\ Shape(<<"discard", "leave", "refreshNow">>)
    /\ Shape(<<"enter", "maybeCall", "refresh", "adopt">>)
    /\ Shape(<<"enter", "refresh", "adopt">>)
    /\ Shape(<<"save", "creating", "choose">>)
    /\ Shape(<<"creating", "choose">>)
    /\ Shape(<<"save", "calling", "maybeCall", "refresh", "adopt">>)
    /\ Shape(<<"calling", "maybeCall", "refresh", "adopt">>)
    /\ Shape(<<"save", "calling">>)
    /\ Shape(<<"calling">>)
    /\ Shape(<<"save", "maybeCall", "exit", "calling", "maybeCall", "refresh">>)
    /\ Shape(<<"calling", "maybeCall", "refresh">>)
    /\ Shape(<<"save", "maybeCall", "leave", "refreshNow", "calling", "refresh">>)
    /\ Shape(<<"discard", "leave", "refreshNow", "calling", "refresh">>)
    /\ Shape(<<"calling", "refresh">>)
    /\ Shape(<<"save", "maybeCall", "leave", "refreshNow", "confirm">>)
    /\ Shape(<<"discard", "leave", "refreshNow", "confirm">>)
    /\ Shape(<<"confirm">>)
    /\ Shape(<<"undoing", "refresh", "adoptSome">>)
    /\ Shape(<<"save", "maybeCall", "swap", "refresh", "adoptAny">>)
    /\ Shape(<<"calling", "decide">>)
    /\ Shape(<<"drop", "deleting", "refresh">>)
    /\ Shape(<<"deleting", "forget", "refresh">>)
    /\ Shape(<<"split", "refresh", "adoptSome", "saved">>)
    /\ Shape(<<"idleSave">>)
<1>1. Shape(<<>>)
  BY SMT DEF Shape
<1>2. Shape(<<"save", "maybeCall", "leave", "refreshNow">>)
  BY SMT DEF Shape, First, Adopts, Ends, Steps, Awaits, Effects
<1>3. Shape(<<"discard", "leave", "refreshNow">>)
  BY SMT DEF Shape, First, Adopts, Ends, Steps, Awaits, Effects
<1>4. Shape(<<"enter", "maybeCall", "refresh", "adopt">>)
  BY SMT DEF Shape, First, Adopts, Ends, Steps, Awaits, Effects
<1>5. Shape(<<"enter", "refresh", "adopt">>)
  BY SMT DEF Shape, First, Adopts, Ends, Steps, Awaits, Effects
<1>6. Shape(<<"save", "creating", "choose">>)
  BY SMT DEF Shape, First, Adopts, Ends, Steps, Awaits, Effects
<1>7. Shape(<<"creating", "choose">>)
  BY SMT DEF Shape, First, Adopts, Ends, Steps, Awaits, Effects
<1>8. Shape(<<"save", "calling", "maybeCall", "refresh", "adopt">>)
  BY SMT DEF Shape, First, Adopts, Ends, Steps, Awaits, Effects
<1>9. Shape(<<"calling", "maybeCall", "refresh", "adopt">>)
  BY SMT DEF Shape, First, Adopts, Ends, Steps, Awaits, Effects
<1>10. Shape(<<"save", "calling">>)
  BY SMT DEF Shape, First, Adopts, Ends, Steps, Awaits, Effects
<1>11. Shape(<<"calling">>)
  BY SMT DEF Shape, First, Adopts, Ends, Steps, Awaits, Effects
<1>12. Shape(<<"save", "maybeCall", "exit", "calling", "maybeCall", "refresh">>)
  BY SMT DEF Shape, First, Adopts, Ends, Steps, Awaits, Effects
<1>13. Shape(<<"calling", "maybeCall", "refresh">>)
  BY SMT DEF Shape, First, Adopts, Ends, Steps, Awaits, Effects
<1>14. Shape(<<"save", "maybeCall", "leave", "refreshNow", "calling", "refresh">>)
  BY SMT DEF Shape, First, Adopts, Ends, Steps, Awaits, Effects
<1>15. Shape(<<"discard", "leave", "refreshNow", "calling", "refresh">>)
  BY SMT DEF Shape, First, Adopts, Ends, Steps, Awaits, Effects
<1>16. Shape(<<"calling", "refresh">>)
  BY SMT DEF Shape, First, Adopts, Ends, Steps, Awaits, Effects
<1>17. Shape(<<"save", "maybeCall", "leave", "refreshNow", "confirm">>)
  BY SMT DEF Shape, First, Adopts, Ends, Steps, Awaits, Effects
<1>18. Shape(<<"discard", "leave", "refreshNow", "confirm">>)
  BY SMT DEF Shape, First, Adopts, Ends, Steps, Awaits, Effects
<1>19. Shape(<<"confirm">>)
  BY SMT DEF Shape, First, Adopts, Ends, Steps, Awaits, Effects
<1>20. Shape(<<"undoing", "refresh", "adoptSome">>)
  BY SMT DEF Shape, First, Adopts, Ends, Steps, Awaits, Effects
<1>21. Shape(<<"save", "maybeCall", "swap", "refresh", "adoptAny">>)
  BY SMT DEF Shape, First, Adopts, Ends, Steps, Awaits, Effects
<1>22. Shape(<<"calling", "decide">>)
  BY SMT DEF Shape, First, Adopts, Ends, Steps, Awaits, Effects
<1>23. Shape(<<"drop", "deleting", "refresh">>)
  BY SMT DEF Shape, First, Adopts, Ends, Steps, Awaits, Effects
<1>24. Shape(<<"deleting", "forget", "refresh">>)
  BY SMT DEF Shape, First, Adopts, Ends, Steps, Awaits, Effects
<1>25. Shape(<<"split", "refresh", "adoptSome", "saved">>)
  BY SMT DEF Shape, First, Adopts, Ends, Steps, Awaits, Effects
<1>26. Shape(<<"idleSave">>)
  BY SMT DEF Shape, First, Adopts, Ends, Steps, Awaits, Effects
<1> QED BY <1>1, <1>2, <1>3, <1>4, <1>5, <1>6, <1>7, <1>8, <1>9, <1>10, <1>11, <1>12, <1>13, <1>14, <1>15,
           <1>16, <1>17, <1>18, <1>19, <1>20, <1>21, <1>22, <1>23, <1>24, <1>25, <1>26

\* The steps of every program.
LEMMA StepsOfPrograms ==
    /\ Left(<<>>) = {}
    /\ Left(<<"save", "maybeCall", "leave", "refreshNow">>) = {"save", "maybeCall", "leave", "refreshNow"}
    /\ Left(<<"discard", "leave", "refreshNow">>) = {"discard", "leave", "refreshNow"}
    /\ Left(<<"enter", "maybeCall", "refresh", "adopt">>) = {"enter", "maybeCall", "refresh", "adopt"}
    /\ Left(<<"enter", "refresh", "adopt">>) = {"enter", "refresh", "adopt"}
    /\ Left(<<"save", "creating", "choose">>) = {"save", "creating", "choose"}
    /\ Left(<<"creating", "choose">>) = {"creating", "choose"}
    /\ Left(<<"save", "calling", "maybeCall", "refresh", "adopt">>)
         = {"save", "calling", "maybeCall", "refresh", "adopt"}
    /\ Left(<<"calling", "maybeCall", "refresh", "adopt">>) = {"calling", "maybeCall", "refresh", "adopt"}
    /\ Left(<<"save", "calling">>) = {"save", "calling"}
    /\ Left(<<"calling">>) = {"calling"}
    /\ Left(<<"save", "maybeCall", "exit", "calling", "maybeCall", "refresh">>)
         = {"save", "maybeCall", "exit", "calling", "refresh"}
    /\ Left(<<"calling", "maybeCall", "refresh">>) = {"calling", "maybeCall", "refresh"}
    /\ Left(<<"save", "maybeCall", "leave", "refreshNow", "calling", "refresh">>)
         = {"save", "maybeCall", "leave", "refreshNow", "calling", "refresh"}
    /\ Left(<<"discard", "leave", "refreshNow", "calling", "refresh">>)
         = {"discard", "leave", "refreshNow", "calling", "refresh"}
    /\ Left(<<"calling", "refresh">>) = {"calling", "refresh"}
    /\ Left(<<"save", "maybeCall", "leave", "refreshNow", "confirm">>)
         = {"save", "maybeCall", "leave", "refreshNow", "confirm"}
    /\ Left(<<"discard", "leave", "refreshNow", "confirm">>) = {"discard", "leave", "refreshNow", "confirm"}
    /\ Left(<<"confirm">>) = {"confirm"}
    /\ Left(<<"undoing", "refresh", "adoptSome">>) = {"undoing", "refresh", "adoptSome"}
    /\ Left(<<"save", "maybeCall", "swap", "refresh", "adoptAny">>)
         = {"save", "maybeCall", "swap", "refresh", "adoptAny"}
    /\ Left(<<"calling", "decide">>) = {"calling", "decide"}
    /\ Left(<<"drop", "deleting", "refresh">>) = {"drop", "deleting", "refresh"}
    /\ Left(<<"deleting", "forget", "refresh">>) = {"deleting", "forget", "refresh"}
    /\ Left(<<"split", "refresh", "adoptSome", "saved">>) = {"split", "refresh", "adoptSome", "saved"}
    /\ Left(<<"idleSave">>) = {"idleSave"}
<1>1. Left(<<>>) = {}
  BY SMT DEF Left
<1>2. Left(<<"save", "maybeCall", "leave", "refreshNow">>) = {"save", "maybeCall", "leave", "refreshNow"}
  BY SMT DEF Left
<1>3. Left(<<"discard", "leave", "refreshNow">>) = {"discard", "leave", "refreshNow"}
  BY SMT DEF Left
<1>4. Left(<<"enter", "maybeCall", "refresh", "adopt">>) = {"enter", "maybeCall", "refresh", "adopt"}
  BY SMT DEF Left
<1>5. Left(<<"enter", "refresh", "adopt">>) = {"enter", "refresh", "adopt"}
  BY SMT DEF Left
<1>6. Left(<<"save", "creating", "choose">>) = {"save", "creating", "choose"}
  BY SMT DEF Left
<1>7. Left(<<"creating", "choose">>) = {"creating", "choose"}
  BY SMT DEF Left
<1>8. Left(<<"save", "calling", "maybeCall", "refresh", "adopt">>)
        = {"save", "calling", "maybeCall", "refresh", "adopt"}
  BY SMT DEF Left
<1>9. Left(<<"calling", "maybeCall", "refresh", "adopt">>) = {"calling", "maybeCall", "refresh", "adopt"}
  BY SMT DEF Left
<1>10. Left(<<"save", "calling">>) = {"save", "calling"}
  BY SMT DEF Left
<1>11. Left(<<"calling">>) = {"calling"}
  BY SMT DEF Left
<1>12. Left(<<"save", "maybeCall", "exit", "calling", "maybeCall", "refresh">>)
         = {"save", "maybeCall", "exit", "calling", "refresh"}
  BY SMT DEF Left
<1>13. Left(<<"calling", "maybeCall", "refresh">>) = {"calling", "maybeCall", "refresh"}
  BY SMT DEF Left
<1>14. Left(<<"save", "maybeCall", "leave", "refreshNow", "calling", "refresh">>)
         = {"save", "maybeCall", "leave", "refreshNow", "calling", "refresh"}
  BY SMT DEF Left
<1>15. Left(<<"discard", "leave", "refreshNow", "calling", "refresh">>)
         = {"discard", "leave", "refreshNow", "calling", "refresh"}
  BY SMT DEF Left
<1>16. Left(<<"calling", "refresh">>) = {"calling", "refresh"}
  BY SMT DEF Left
<1>17. Left(<<"save", "maybeCall", "leave", "refreshNow", "confirm">>)
         = {"save", "maybeCall", "leave", "refreshNow", "confirm"}
  BY SMT DEF Left
<1>18. Left(<<"discard", "leave", "refreshNow", "confirm">>) = {"discard", "leave", "refreshNow", "confirm"}
  BY SMT DEF Left
<1>19. Left(<<"confirm">>) = {"confirm"}
  BY SMT DEF Left
<1>20. Left(<<"undoing", "refresh", "adoptSome">>) = {"undoing", "refresh", "adoptSome"}
  BY SMT DEF Left
<1>21. Left(<<"save", "maybeCall", "swap", "refresh", "adoptAny">>)
         = {"save", "maybeCall", "swap", "refresh", "adoptAny"}
  BY SMT DEF Left
<1>22. Left(<<"calling", "decide">>) = {"calling", "decide"}
  BY SMT DEF Left
<1>23. Left(<<"drop", "deleting", "refresh">>) = {"drop", "deleting", "refresh"}
  BY SMT DEF Left
<1>24. Left(<<"deleting", "forget", "refresh">>) = {"deleting", "forget", "refresh"}
  BY SMT DEF Left
<1>25. Left(<<"split", "refresh", "adoptSome", "saved">>) = {"split", "refresh", "adoptSome", "saved"}
  BY SMT DEF Left
<1>26. Left(<<"idleSave">>) = {"idleSave"}
  BY SMT DEF Left
<1> QED BY <1>1, <1>2, <1>3, <1>4, <1>5, <1>6, <1>7, <1>8, <1>9, <1>10, <1>11, <1>12, <1>13, <1>14, <1>15,
           <1>16, <1>17, <1>18, <1>19, <1>20, <1>21, <1>22, <1>23, <1>24, <1>25, <1>26

-----------------------------------------------------------------------------
(*****************************************************************************)
(* The programs that a command may start with.                               *)
(*****************************************************************************)
\* A program that may begin: it has the shape, its target exists when it acts on it, and its first
\* step fits the mode.
Sound(p, n) ==
    /\ Shape(p)
    /\ Left(p) \cap Aimed # {} => n \in made
    /\ "swap" \in Left(p) => editing
    /\ "forget" \in Left(p) => ~editing
    /\ "saved" \in Left(p) => p[1] = "split"
    /\ p # <<>> =>
         /\ p[1] \notin Sends \cup Adopts \cup Ends \cup {"viewing", "waiting", "choose", "saved", "refreshNow"}
         /\ p[1] = "idleSave" => editing /\ dirty
         /\ p[1] = "split" => editing /\ connected
         /\ p[1] = "enter" => ~editing
         /\ p[1] = "discard" => page[current] = NoText
         /\ p[1] = "undoing" /\ editing => ~dirty
    /\ Len(p) >= 2 /\ p[1] \in {"maybeCall", "calling"} => p[2] \notin Ends

\* The programs may begin where the code begins them.
LEMMA SoundPrograms ==
    /\ \A n : Sound(<<>>, n)
    /\ \A n : Sound(<<"save", "maybeCall", "leave", "refreshNow">>, n)
    /\ (page[current] = NoText => \A n : Sound(<<"discard", "leave", "refreshNow">>, n))
    /\ (~editing => \A n \in made : Sound(<<"enter", "maybeCall", "refresh", "adopt">>, n))
    /\ (~editing => \A n \in made : Sound(<<"enter", "refresh", "adopt">>, n))
    /\ (\A n : Sound(<<"save", "creating", "choose">>, n))
    /\ (\A n : Sound(<<"creating", "choose">>, n))
    /\ (\A n : Sound(<<"save", "calling", "maybeCall", "refresh", "adopt">>, n))
    /\ (\A n : Sound(<<"calling", "maybeCall", "refresh", "adopt">>, n))
    /\ (\A n : Sound(<<"save", "calling">>, n))
    /\ (\A n : Sound(<<"calling">>, n))
    /\ (\A n : Sound(<<"save", "maybeCall", "exit", "calling", "maybeCall", "refresh">>, n))
    /\ (\A n : Sound(<<"calling", "maybeCall", "refresh">>, n))
    /\ (\A n : Sound(<<"save", "maybeCall", "leave", "refreshNow", "calling", "refresh">>, n))
    /\ (page[current] = NoText => \A n : Sound(<<"discard", "leave", "refreshNow", "calling", "refresh">>, n))
    /\ (\A n : Sound(<<"calling", "refresh">>, n))
    /\ (\A n \in made : Sound(<<"save", "maybeCall", "leave", "refreshNow", "confirm">>, n))
    /\ (page[current] = NoText => \A n \in made : Sound(<<"discard", "leave", "refreshNow", "confirm">>, n))
    /\ (\A n \in made : Sound(<<"confirm">>, n))
    /\ ((editing => ~dirty) => \A n : Sound(<<"undoing", "refresh", "adoptSome">>, n))
    /\ (editing => \A n \in made : Sound(<<"save", "maybeCall", "swap", "refresh", "adoptAny">>, n))
    /\ (\A n \in made : Sound(<<"calling", "decide">>, n))
    /\ (\A n \in made : Sound(<<"drop", "deleting", "refresh">>, n))
    /\ (~editing => \A n \in made : Sound(<<"deleting", "forget", "refresh">>, n))
    /\ (editing /\ connected => \A n : Sound(<<"split", "refresh", "adoptSome", "saved">>, n))
    /\ (editing /\ dirty => \A n : Sound(<<"idleSave">>, n))
<1> USE DEF Aimed, Sends, Adopts, Ends
<1>1. \A n : Sound(<<>>, n)
  BY ShapesOfPrograms, StepsOfPrograms DEF Sound
<1>2. \A n : Sound(<<"save", "maybeCall", "leave", "refreshNow">>, n)
  <2> DEFINE p == <<"save", "maybeCall", "leave", "refreshNow">>
  <2>1. Shape(p)
    BY ShapesOfPrograms
  <2>2. Left(p) = {"save", "maybeCall", "leave", "refreshNow"}
    BY StepsOfPrograms
  <2>3. p # <<>> /\ Len(p) >= 1 /\ p[1] = "save" /\ p[2] = "maybeCall"
    OBVIOUS
  <2> QED BY <2>1, <2>2, <2>3 DEF Sound
<1>3. page[current] = NoText => \A n : Sound(<<"discard", "leave", "refreshNow">>, n)
  <2> DEFINE p == <<"discard", "leave", "refreshNow">>
  <2>1. Shape(p)
    BY ShapesOfPrograms
  <2>2. Left(p) = {"discard", "leave", "refreshNow"}
    BY StepsOfPrograms
  <2>3. p # <<>> /\ Len(p) >= 1 /\ p[1] = "discard" /\ p[2] = "leave"
    OBVIOUS
  <2> QED BY <2>1, <2>2, <2>3 DEF Sound
<1>4. ~editing => \A n \in made : Sound(<<"enter", "maybeCall", "refresh", "adopt">>, n)
  <2> DEFINE p == <<"enter", "maybeCall", "refresh", "adopt">>
  <2>1. Shape(p)
    BY ShapesOfPrograms
  <2>2. Left(p) = {"enter", "maybeCall", "refresh", "adopt"}
    BY StepsOfPrograms
  <2>3. p # <<>> /\ Len(p) >= 1 /\ p[1] = "enter" /\ p[2] = "maybeCall"
    OBVIOUS
  <2> QED BY <2>1, <2>2, <2>3 DEF Sound
<1>5. ~editing => \A n \in made : Sound(<<"enter", "refresh", "adopt">>, n)
  <2> DEFINE p == <<"enter", "refresh", "adopt">>
  <2>1. Shape(p)
    BY ShapesOfPrograms
  <2>2. Left(p) = {"enter", "refresh", "adopt"}
    BY StepsOfPrograms
  <2>3. p # <<>> /\ Len(p) >= 1 /\ p[1] = "enter" /\ p[2] = "refresh"
    OBVIOUS
  <2> QED BY <2>1, <2>2, <2>3 DEF Sound
<1>6. \A n : Sound(<<"save", "creating", "choose">>, n)
  <2> DEFINE p == <<"save", "creating", "choose">>
  <2>1. Shape(p)
    BY ShapesOfPrograms
  <2>2. Left(p) = {"save", "creating", "choose"}
    BY StepsOfPrograms
  <2>3. p # <<>> /\ Len(p) >= 1 /\ p[1] = "save" /\ p[2] = "creating"
    OBVIOUS
  <2> QED BY <2>1, <2>2, <2>3 DEF Sound
<1>7. \A n : Sound(<<"creating", "choose">>, n)
  <2> DEFINE p == <<"creating", "choose">>
  <2>1. Shape(p)
    BY ShapesOfPrograms
  <2>2. Left(p) = {"creating", "choose"}
    BY StepsOfPrograms
  <2>3. p # <<>> /\ Len(p) >= 1 /\ p[1] = "creating" /\ p[2] = "choose"
    OBVIOUS
  <2> QED BY <2>1, <2>2, <2>3 DEF Sound
<1>8. \A n : Sound(<<"save", "calling", "maybeCall", "refresh", "adopt">>, n)
  <2> DEFINE p == <<"save", "calling", "maybeCall", "refresh", "adopt">>
  <2>1. Shape(p)
    BY ShapesOfPrograms
  <2>2. Left(p) = {"save", "calling", "maybeCall", "refresh", "adopt"}
    BY StepsOfPrograms
  <2>3. p # <<>> /\ Len(p) >= 1 /\ p[1] = "save" /\ p[2] = "calling"
    OBVIOUS
  <2> QED BY <2>1, <2>2, <2>3 DEF Sound
<1>9. \A n : Sound(<<"calling", "maybeCall", "refresh", "adopt">>, n)
  <2> DEFINE p == <<"calling", "maybeCall", "refresh", "adopt">>
  <2>1. Shape(p)
    BY ShapesOfPrograms
  <2>2. Left(p) = {"calling", "maybeCall", "refresh", "adopt"}
    BY StepsOfPrograms
  <2>3. p # <<>> /\ Len(p) >= 1 /\ p[1] = "calling" /\ p[2] = "maybeCall"
    OBVIOUS
  <2> QED BY <2>1, <2>2, <2>3 DEF Sound
<1>10. \A n : Sound(<<"save", "calling">>, n)
  <2> DEFINE p == <<"save", "calling">>
  <2>1. Shape(p)
    BY ShapesOfPrograms
  <2>2. Left(p) = {"save", "calling"}
    BY StepsOfPrograms
  <2>3. p # <<>> /\ Len(p) >= 1 /\ p[1] = "save" /\ p[2] = "calling"
    OBVIOUS
  <2> QED BY <2>1, <2>2, <2>3 DEF Sound
<1>11. \A n : Sound(<<"calling">>, n)
  <2> DEFINE p == <<"calling">>
  <2>1. Shape(p)
    BY ShapesOfPrograms
  <2>2. Left(p) = {"calling"}
    BY StepsOfPrograms
  <2>3. p # <<>> /\ Len(p) >= 1 /\ p[1] = "calling" /\ Len(p) = 1
    OBVIOUS
  <2> QED BY <2>1, <2>2, <2>3 DEF Sound
<1>12. \A n : Sound(<<"save", "maybeCall", "exit", "calling", "maybeCall", "refresh">>, n)
  <2> DEFINE p == <<"save", "maybeCall", "exit", "calling", "maybeCall", "refresh">>
  <2>1. Shape(p)
    BY ShapesOfPrograms
  <2>2. Left(p) = {"save", "maybeCall", "exit", "calling", "refresh"}
    BY StepsOfPrograms
  <2>3. p # <<>> /\ Len(p) >= 1 /\ p[1] = "save" /\ p[2] = "maybeCall"
    OBVIOUS
  <2> QED BY <2>1, <2>2, <2>3 DEF Sound
<1>13. \A n : Sound(<<"calling", "maybeCall", "refresh">>, n)
  <2> DEFINE p == <<"calling", "maybeCall", "refresh">>
  <2>1. Shape(p)
    BY ShapesOfPrograms
  <2>2. Left(p) = {"calling", "maybeCall", "refresh"}
    BY StepsOfPrograms
  <2>3. p # <<>> /\ Len(p) >= 1 /\ p[1] = "calling" /\ p[2] = "maybeCall"
    OBVIOUS
  <2> QED BY <2>1, <2>2, <2>3 DEF Sound
<1>14. \A n : Sound(<<"save", "maybeCall", "leave", "refreshNow", "calling", "refresh">>, n)
  <2> DEFINE p == <<"save", "maybeCall", "leave", "refreshNow", "calling", "refresh">>
  <2>1. Shape(p)
    BY ShapesOfPrograms
  <2>2. Left(p) = {"save", "maybeCall", "leave", "refreshNow", "calling", "refresh"}
    BY StepsOfPrograms
  <2>3. p # <<>> /\ Len(p) >= 1 /\ p[1] = "save" /\ p[2] = "maybeCall"
    OBVIOUS
  <2> QED BY <2>1, <2>2, <2>3 DEF Sound
<1>15. page[current] = NoText => \A n : Sound(<<"discard", "leave", "refreshNow", "calling", "refresh">>, n)
  <2> DEFINE p == <<"discard", "leave", "refreshNow", "calling", "refresh">>
  <2>1. Shape(p)
    BY ShapesOfPrograms
  <2>2. Left(p) = {"discard", "leave", "refreshNow", "calling", "refresh"}
    BY StepsOfPrograms
  <2>3. p # <<>> /\ Len(p) >= 1 /\ p[1] = "discard" /\ p[2] = "leave"
    OBVIOUS
  <2> QED BY <2>1, <2>2, <2>3 DEF Sound
<1>16. \A n : Sound(<<"calling", "refresh">>, n)
  <2> DEFINE p == <<"calling", "refresh">>
  <2>1. Shape(p)
    BY ShapesOfPrograms
  <2>2. Left(p) = {"calling", "refresh"}
    BY StepsOfPrograms
  <2>3. p # <<>> /\ Len(p) >= 1 /\ p[1] = "calling" /\ p[2] = "refresh"
    OBVIOUS
  <2> QED BY <2>1, <2>2, <2>3 DEF Sound
<1>17. \A n \in made : Sound(<<"save", "maybeCall", "leave", "refreshNow", "confirm">>, n)
  <2> DEFINE p == <<"save", "maybeCall", "leave", "refreshNow", "confirm">>
  <2>1. Shape(p)
    BY ShapesOfPrograms
  <2>2. Left(p) = {"save", "maybeCall", "leave", "refreshNow", "confirm"}
    BY StepsOfPrograms
  <2>3. p # <<>> /\ Len(p) >= 1 /\ p[1] = "save" /\ p[2] = "maybeCall"
    OBVIOUS
  <2> QED BY <2>1, <2>2, <2>3 DEF Sound
<1>18. page[current] = NoText => \A n \in made : Sound(<<"discard", "leave", "refreshNow", "confirm">>, n)
  <2> DEFINE p == <<"discard", "leave", "refreshNow", "confirm">>
  <2>1. Shape(p)
    BY ShapesOfPrograms
  <2>2. Left(p) = {"discard", "leave", "refreshNow", "confirm"}
    BY StepsOfPrograms
  <2>3. p # <<>> /\ Len(p) >= 1 /\ p[1] = "discard" /\ p[2] = "leave"
    OBVIOUS
  <2> QED BY <2>1, <2>2, <2>3 DEF Sound
<1>19. \A n \in made : Sound(<<"confirm">>, n)
  <2> DEFINE p == <<"confirm">>
  <2>1. Shape(p)
    BY ShapesOfPrograms
  <2>2. Left(p) = {"confirm"}
    BY StepsOfPrograms
  <2>3. p # <<>> /\ Len(p) >= 1 /\ p[1] = "confirm" /\ Len(p) = 1
    OBVIOUS
  <2> QED BY <2>1, <2>2, <2>3 DEF Sound
<1>20. (editing => ~dirty) => \A n : Sound(<<"undoing", "refresh", "adoptSome">>, n)
  <2> DEFINE p == <<"undoing", "refresh", "adoptSome">>
  <2>1. Shape(p)
    BY ShapesOfPrograms
  <2>2. Left(p) = {"undoing", "refresh", "adoptSome"}
    BY StepsOfPrograms
  <2>3. p # <<>> /\ Len(p) >= 1 /\ p[1] = "undoing" /\ p[2] = "refresh"
    OBVIOUS
  <2> QED BY <2>1, <2>2, <2>3 DEF Sound
<1>21. editing => \A n \in made : Sound(<<"save", "maybeCall", "swap", "refresh", "adoptAny">>, n)
  <2> DEFINE p == <<"save", "maybeCall", "swap", "refresh", "adoptAny">>
  <2>1. Shape(p)
    BY ShapesOfPrograms
  <2>2. Left(p) = {"save", "maybeCall", "swap", "refresh", "adoptAny"}
    BY StepsOfPrograms
  <2>3. p # <<>> /\ Len(p) >= 1 /\ p[1] = "save" /\ p[2] = "maybeCall"
    OBVIOUS
  <2> QED BY <2>1, <2>2, <2>3 DEF Sound
<1>22. \A n \in made : Sound(<<"calling", "decide">>, n)
  <2> DEFINE p == <<"calling", "decide">>
  <2>1. Shape(p)
    BY ShapesOfPrograms
  <2>2. Left(p) = {"calling", "decide"}
    BY StepsOfPrograms
  <2>3. p # <<>> /\ Len(p) >= 1 /\ p[1] = "calling" /\ p[2] = "decide"
    OBVIOUS
  <2> QED BY <2>1, <2>2, <2>3 DEF Sound
<1>23. \A n \in made : Sound(<<"drop", "deleting", "refresh">>, n)
  <2> DEFINE p == <<"drop", "deleting", "refresh">>
  <2>1. Shape(p)
    BY ShapesOfPrograms
  <2>2. Left(p) = {"drop", "deleting", "refresh"}
    BY StepsOfPrograms
  <2>3. p # <<>> /\ Len(p) >= 1 /\ p[1] = "drop" /\ p[2] = "deleting"
    OBVIOUS
  <2> QED BY <2>1, <2>2, <2>3 DEF Sound
<1>24. ~editing => \A n \in made : Sound(<<"deleting", "forget", "refresh">>, n)
  <2> DEFINE p == <<"deleting", "forget", "refresh">>
  <2>1. Shape(p)
    BY ShapesOfPrograms
  <2>2. Left(p) = {"deleting", "forget", "refresh"}
    BY StepsOfPrograms
  <2>3. p # <<>> /\ Len(p) >= 1 /\ p[1] = "deleting" /\ p[2] = "forget"
    OBVIOUS
  <2> QED BY <2>1, <2>2, <2>3 DEF Sound
<1>25. editing /\ connected => \A n : Sound(<<"split", "refresh", "adoptSome", "saved">>, n)
  <2> DEFINE p == <<"split", "refresh", "adoptSome", "saved">>
  <2>1. Shape(p)
    BY ShapesOfPrograms
  <2>2. Left(p) = {"split", "refresh", "adoptSome", "saved"}
    BY StepsOfPrograms
  <2>3. p # <<>> /\ Len(p) >= 1 /\ p[1] = "split" /\ p[2] = "refresh"
    OBVIOUS
  <2> QED BY <2>1, <2>2, <2>3 DEF Sound
<1>26. editing /\ dirty => \A n : Sound(<<"idleSave">>, n)
  <2> DEFINE p == <<"idleSave">>
  <2>1. Shape(p)
    BY ShapesOfPrograms
  <2>2. Left(p) = {"idleSave"}
    BY StepsOfPrograms
  <2>3. p # <<>> /\ Len(p) >= 1 /\ p[1] = "idleSave" /\ Len(p) = 1
    OBVIOUS
  <2> QED BY <2>1, <2>2, <2>3 DEF Sound
<1> QED BY <1>2, <1>1, <1>3, <1>4, <1>5, <1>6, <1>7, <1>8, <1>9, <1>10, <1>11, <1>12, <1>13, <1>14, <1>15,
           <1>16, <1>17, <1>18, <1>19, <1>20, <1>21, <1>22, <1>23, <1>24, <1>25, <1>26

\* So may the programs as the commands give them.
LEMMA ProgramsAreSound ==
    ASSUME editing <=> current # NoNote
    PROVE  /\ editing => \A n : Sound(DeselectNote, n)
           /\ \A n : Sound(CreateNote, n) /\ Sound(MoveNote, n) /\ Sound(CopyNote, n)
           /\ \A n : Sound(ToggleTodoDone, n) /\ Sound(SetEmbeddedNoteCollapse, n)
           /\ \A n : \A outside \in BOOLEAN : Sound(SetNoteCollapse(outside), n)
           /\ editing /\ connected => \A n : Sound(SplitNote, n)
           /\ (editing => ~dirty) => \A n : Sound(UndoOrRedo, n)
           /\ editing /\ dirty => \A n : Sound(<<"idleSave">>, n)
           /\ \A n \in made :
                /\ Sound(AskAndDelete, n) /\ Sound(DeleteNote, n) /\ Sound(DeleteNoteOutsideEdit, n)
                /\ Sound((IF editing THEN DeselectNote ELSE <<>>) \o <<"confirm">>, n)
                /\ editing => Sound(SwitchNotes, n)
                /\ ~editing => Sound(SelectNote(TRUE), n) /\ Sound(SelectNote(FALSE), n)
<1>1. ASSUME editing
      PROVE  \A n : Sound(DeselectNote, n)
  <2>1. \A n : Sound(<<"save", "maybeCall", "leave", "refreshNow">>, n)
    BY SoundPrograms
  <2>2. page[current] = NoText => \A n : Sound(<<"discard", "leave", "refreshNow">>, n)
    BY SoundPrograms
  <2> QED BY <2>1, <2>2, DeselectIs
<1>2. \A n : Sound(CreateNote, n) /\ Sound(MoveNote, n) /\ Sound(CopyNote, n)
  BY ProgramsAre, SoundPrograms
<1>3. \A n : Sound(ToggleTodoDone, n) /\ Sound(SetEmbeddedNoteCollapse, n)
  BY ProgramsAre, SoundPrograms
<1>4. \A n : \A outside \in BOOLEAN : Sound(SetNoteCollapse(outside), n)
  BY ProgramsAre, SoundPrograms
<1>5. ASSUME editing, connected
      PROVE  \A n : Sound(SplitNote, n)
  BY <1>5, SoundPrograms DEF SplitNote
<1>6. ASSUME editing => ~dirty
      PROVE  \A n : Sound(UndoOrRedo, n)
  BY <1>6, ProgramsAre, SoundPrograms
<1>7. ASSUME editing, dirty
      PROVE  \A n : Sound(<<"idleSave">>, n)
  BY <1>7, SoundPrograms
<1>8. \A n \in made : Sound(AskAndDelete, n) /\ Sound(DeleteNote, n)
  BY SoundPrograms DEF AskAndDelete, DeleteNote
<1>9. \A n \in made : Sound(DeleteNoteOutsideEdit, n)
  BY SoundPrograms DEF DeleteNoteOutsideEdit
<1>10. \A n \in made : Sound((IF editing THEN DeselectNote ELSE <<>>) \o <<"confirm">>, n)
  BY ProgramsAre, SoundPrograms
<1>11. \A n \in made : editing => Sound(SwitchNotes, n)
  BY SoundPrograms DEF SwitchNotes
<1>12. \A n \in made : ~editing => Sound(SelectNote(TRUE), n) /\ Sound(SelectNote(FALSE), n)
  <2>1. ~editing => /\ SelectNote(TRUE) = <<"enter", "maybeCall", "refresh", "adopt">>
                    /\ SelectNote(FALSE) = <<"enter", "refresh", "adopt">>
    BY ProgramsAre
  <2> QED BY <2>1, SoundPrograms
<1> QED BY <1>1, <1>2, <1>3, <1>4, <1>5, <1>6, <1>7, <1>8, <1>9, <1>10, <1>11, <1>12

-----------------------------------------------------------------------------
(*****************************************************************************)
(* The invariant about programs, modes, requests and notes that exist.       *)
(*****************************************************************************)
\* The step the command is at is one of S.
Now(S) == todo # <<>> /\ todo[1] \in S

\* The program left has the shape, and a command that has steps left holds the gate.
ProgramFits == Shape(todo) /\ (todo # <<>> => running)

\* A command that still acts on its target has one that existed.
TargetFits ==
    /\ Left(todo) \cap Aimed # {} => target \in made
    /\ Now({"choose"}) => target \in made

\* What the program left says of the mode (a note stays dirty until its autosave is answered).
ModeFits ==
    /\ "swap" \in Left(todo) => editing \/ content = NoText
    /\ "forget" \in Left(todo) => ~editing
    /\ Now({"idleSave"}) => editing /\ dirty
    /\ Now({"autosaving"}) => dirty
    /\ Now({"split"}) => editing /\ connected
    /\ Now({"splitting"}) /\ editing => connected

\* A text is sent for the note that is edited; a waiter waits only inside its command.
SentFits ==
    /\ Now(Sends) => sending.note \in Notes /\ (editing => current = sending.note)
    /\ sending # NothingSent => running /\ (todo = <<>> \/ todo[1] \in Sends)
    /\ got # NoText => running
    /\ waiting["command"] # "no" => Now({"waiting"})

\* At most one view request.
OneRequest == views = {} \/ \E v \in views : views = {v}

\* A note that was never made has no text anywhere.
MadeFits ==
    /\ \A n \in Notes : n \notin made => server[n] = NoText /\ page[n] = NoText /\ owed[n] = 0
    /\ \A v \in views : v.built => \A n \in Notes : v.view[n] # NotShown => n \in made
    /\ editing => current \in made
    /\ confirming # NoNote => confirming \in made

\* The invariant of the first theorems.
BaseInv == TypeOK /\ ProgramFits /\ TargetFits /\ ModeFits /\ SentFits /\ OneRequest /\ MadeFits

\* What t, the tail of s, has to do with s.
TailFits(s, t) ==
    /\ Shape(t) /\ Left(t) \subseteq Left(s)
    /\ s[1] \in Left(s) /\ Head(s) = s[1] /\ Len(s) \in Nat /\ Len(s) >= 1
    /\ t # <<>> <=> Len(s) >= 2
    /\ t # <<>> =>
         /\ t[1] = s[2] /\ t[1] \notin First
         /\ t[1] \in Adopts => s[1] \in {"refresh", "viewing"}
         /\ t[1] \in Ends => s[1] \in {"maybeCall", "calling", "discard"}
         /\ t[1] = "choose" => s[1] = "creating"
         /\ t[1] = "refreshNow" => s[1] = "leave"
    /\ Len(t) >= 2 /\ t[2] \in Ends => t[1] = "maybeCall" /\ s[1] \in {"save", "saving"}
    /\ "swap" \in Left(t) => s[1] \in {"maybeCall", "calling", "discard", "save", "saving"}
    /\ "forget" \in Left(s) => s[1] \in {"deleting", "forget"}
    /\ "saved" \in Left(t) => s[1] \in {"adoptSome", "refresh", "viewing", "split", "splitting"}
    /\ s[1] = "choose" => t = <<>>

\* What u, which is s with b for its first step, has to do with s.
PutFits(s, b, u) ==
    /\ Shape(u) /\ Left(u) \subseteq {b} \cup Left(s)
    /\ u # <<>> /\ u[1] = b /\ Len(u) = Len(s)
    /\ Len(s) >= 2 => u[2] = s[2]
    /\ b \notin Aimed /\ b # "saved" /\ b \in Awaits

\* The program left, after a step.
LEMMA TodoTail == ProgramFits /\ todo # <<>> => TailFits(todo, Tail(todo))
  BY AfterTail DEF ProgramFits, TailFits

\* The program left, when a step waits.
LEMMA TodoPut ==
    ASSUME ProgramFits, todo # <<>>
    PROVE  \A b : Turns(todo[1], b) => PutFits(todo, b, <<b>> \o Tail(todo))
  BY AfterPut DEF ProgramFits, PutFits

\* A command begins, or goes on with another program.
Begins ==
    /\ ~running \/ Now({"decide", "choose"})
    /\ running' = TRUE /\ target' \in Notes \cup {NoNote} /\ Sound(todo', target')
    /\ confirming' \in {confirming, NoNote}
    /\ UNCHANGED <<modeVars, connected, domVars, sending, got, otherVars>>

\* The dialog is closed without a deletion.
Dismisses ==
    /\ confirming' = NoNote
    /\ UNCHANGED <<running, target, todo, modeVars, connected, domVars, sending, got, otherVars>>

\* Every action of the user that starts a command begins a sound program or closes the dialog.
LEMMA CommandsBegin ==
    ASSUME BaseInv
    PROVE  /\ Decide \/ Choose => Begins
           /\ LeaveNote \/ PressCreate \/ PressMove \/ PressDelete \/ PressCopy \/ PressUndo => Begins
           /\ PressSplit \/ IdleTimer => Begins
           /\ \A n \in Notes : PressNote(n) \/ PressToggle(n) \/ PressCollapse(n) \/ PressEmbedded(n) => Begins
           /\ AnswerDialog => Begins \/ Dismisses
<1> USE DEF Begins, Start, Run, gateVars
<1>1. /\ editing <=> current # NoNote
      /\ current \in Notes \cup {NoNote} /\ confirming \in Notes \cup {NoNote} /\ target \in Notes \cup {NoNote}
      /\ editing => current \in made
      /\ confirming # NoNote => confirming \in made
      /\ \A n \in Notes : page[n] # NoText => n \in made
      /\ todo # <<>> => TailFits(todo, Tail(todo))
      /\ TargetFits
  BY TodoTail DEF BaseInv, TypeOK, MadeFits
<1>2. Decide => Begins
  <2>1. ASSUME Decide
        PROVE  Now({"decide", "choose"}) /\ target \in made /\ running = TRUE
    BY <1>1, <2>1 DEF Decide, At, Now, TailFits, TargetFits, Aimed, BaseInv, TypeOK
  <2>2. ASSUME Decide
        PROVE  Sound(todo', target')
    BY <1>1, <2>1, <2>2, ProgramsAreSound DEF Decide
  <2> QED BY <1>1, <2>1, <2>2 DEF Decide
<1>3. Choose => Begins
  <2>1. ASSUME Choose
        PROVE  Now({"decide", "choose"}) /\ target \in made /\ Tail(todo) = <<>> /\ running = TRUE
    BY <1>1, <2>1 DEF Choose, At, Now, TailFits, TargetFits, Aimed, BaseInv, TypeOK
  <2>2. ASSUME Choose, editing
        PROVE  Sound(todo', target')
    <3>1. Sound(SwitchNotes, target)
      BY <1>1, <2>1, <2>2, ProgramsAreSound
    <3>2. SwitchNotes \in Seq(Steps)
      BY <3>1 DEF Sound, Shape
    <3> QED BY <2>1, <2>2, <3>1, <3>2, Joined, EmptySeq DEF Choose
  <2>3. ASSUME Choose, ~editing
        PROVE  Sound(todo', target')
    <3>1. Sound(SelectNote(FALSE), target)
      BY <1>1, <2>1, <2>3, ProgramsAreSound
    <3>2. SelectNote(FALSE) \in Seq(Steps)
      BY <3>1 DEF Sound, Shape
    <3> QED BY <2>1, <2>3, <3>1, <3>2, Joined, EmptySeq DEF Choose
  <2> QED BY <1>1, <2>1, <2>2, <2>3 DEF Choose
<1>4. LeaveNote \/ PressCreate \/ PressMove \/ PressDelete \/ PressCopy \/ PressUndo => Begins
  BY <1>1, ProgramsAreSound DEF LeaveNote, PressCreate, PressMove, PressDelete, PressCopy, PressUndo
<1>5. PressSplit \/ IdleTimer => Begins
  BY <1>1, ProgramsAreSound DEF PressSplit, IdleTimer
<1>6. ASSUME NEW n \in Notes
      PROVE  PressNote(n) \/ PressToggle(n) \/ PressCollapse(n) \/ PressEmbedded(n) => Begins
  BY <1>1, ProgramsAreSound DEF PressNote, PressToggle, PressCollapse, PressEmbedded
<1>7. AnswerDialog => Begins \/ Dismisses
  BY <1>1, ProgramsAreSound DEF AnswerDialog, Dismisses
<1> QED BY <1>2, <1>3, <1>4, <1>5, <1>6, <1>7

-----------------------------------------------------------------------------
(*****************************************************************************)
(* Every step keeps it.                                                      *)
(*****************************************************************************)
\* The facts about the program left that the actions' proofs use.
LEMMA TodoSteps ==
    ASSUME BaseInv
    PROVE  /\ todo # <<>> => TailFits(todo, Tail(todo))
           /\ \A x : At(x) => running /\ todo # <<>> /\ todo[1] = x
           /\ At("save") => PutFits(todo, "saving", <<"saving">> \o Tail(todo))
           /\ At("idleSave") => PutFits(todo, "autosaving", <<"autosaving">> \o Tail(todo))
           /\ At("split") => PutFits(todo, "splitting", <<"splitting">> \o Tail(todo))
           /\ At("maybeCall") => PutFits(todo, "calling", <<"calling">> \o Tail(todo))
           /\ At("refresh") \/ At("refreshNow") \/ Now({"waiting"})
                => PutFits(todo, "viewing", <<"viewing">> \o Tail(todo))
           /\ At("refreshNow") => PutFits(todo, "waiting", <<"waiting">> \o Tail(todo))
           /\ Yielded => todo = <<>> \/ todo[1] \in Awaits
<1>1. ProgramFits /\ (todo # <<>> => TailFits(todo, Tail(todo)))
  BY TodoTail DEF BaseInv
<1>2. \A x : At(x) => running /\ todo # <<>> /\ todo[1] = x
  BY <1>1 DEF At, TailFits
<1>3. todo # <<>> => \A b : Turns(todo[1], b) => PutFits(todo, b, <<b>> \o Tail(todo))
  BY <1>1, TodoPut
<1>4. Yielded => todo = <<>> \/ todo[1] \in Awaits
  BY <1>1 DEF Yielded, ProgramFits, TailFits
<1> QED BY <1>1, <1>2, <1>3, <1>4 DEF Turns, Now

\* A step of a command that creates nothing: done, waiting, or given up.
StepsOn ==
    /\ todo # <<>>
    /\ \/ todo' = <<>>
       \/ todo' = Tail(todo) /\ todo[1] # "creating"
       \/ \E b : Turns(todo[1], b) /\ todo' = <<b>> \o Tail(todo)
    /\ UNCHANGED <<running, target, made>>

\* These actions are such steps.
LEMMA CommandsStepOn ==
    ASSUME BaseInv
    PROVE  /\ Save \/ MaybeCall \/ HistoryAnswered \/ Leave \/ Exit \/ AdoptContent \/ Refresh => StepsOn
           /\ \A w \in {"command", "links"} :
                ViewIdle(w) => StepsOn \/ UNCHANGED <<todo, running, target, made>>
<1> USE DEF StepsOn, Turns, gateVars, otherVars, historyVars, Throw, Continue, Await
<1>1. (\A x : At(x) => todo # <<>> /\ todo[1] = x) /\ SentFits
  BY TodoSteps DEF BaseInv
<1>2. ASSUME Save
      PROVE  StepsOn
  <2>1. todo # <<>> /\ todo[1] # "creating" /\ UNCHANGED <<running, target, made>>
    BY <1>1, <1>2 DEF Save
  <2>2. todo' = <<>> \/ todo' = Tail(todo) \/ todo' = <<"saving">> \o Tail(todo)
    BY <1>1, <1>2 DEF Save
  <2>3. Turns(todo[1], "saving")
    BY <1>1, <1>2 DEF Save
  <2> HIDE DEF Turns
  <2> QED BY <2>1, <2>2, <2>3
<1>3. ASSUME MaybeCall
      PROVE  StepsOn
  <2>1. todo # <<>> /\ todo[1] # "creating" /\ UNCHANGED <<running, target, made>>
    BY <1>1, <1>3 DEF MaybeCall
  <2>2. todo' = Tail(todo) \/ todo' = <<"calling">> \o Tail(todo)
    BY <1>1, <1>3 DEF MaybeCall
  <2>3. Turns(todo[1], "calling")
    BY <1>1, <1>3 DEF MaybeCall
  <2> HIDE DEF Turns
  <2> QED BY <2>1, <2>2, <2>3
<1>4. HistoryAnswered => StepsOn
  BY <1>1 DEF HistoryAnswered
<1>5. Leave => StepsOn
  BY <1>1 DEF Leave
<1>6. Exit => StepsOn
  BY <1>1 DEF Exit
<1>7. AdoptContent => StepsOn
  BY <1>1 DEF AdoptContent, Adopt
<1>8. ASSUME Refresh
      PROVE  StepsOn
  <2>1. todo # <<>> /\ todo[1] # "creating" /\ UNCHANGED <<running, target, made>>
    BY <1>1, <1>8 DEF Refresh
  <2>2. todo' = Tail(todo) \/ todo' = <<"viewing">> \o Tail(todo)
          \/ (todo[1] = "refreshNow" /\ todo' = <<"waiting">> \o Tail(todo))
    BY <1>1, <1>8 DEF Refresh
  <2>3. Turns(todo[1], "viewing") /\ (todo[1] = "refreshNow" => Turns(todo[1], "waiting"))
    BY <1>1, <1>8 DEF Refresh
  <2> HIDE DEF Turns
  <2> QED BY <2>1, <2>2, <2>3
<1>9. ASSUME NEW w \in {"command", "links"}, ViewIdle(w)
      PROVE  StepsOn \/ UNCHANGED <<todo, running, target, made>>
  BY <1>1, <1>9 DEF ViewIdle, SentFits, Now
<1> QED BY <1>2, <1>3, <1>4, <1>5, <1>6, <1>7, <1>8, <1>9

\* Such a step keeps what the program has to do with its target.
LEMMA StepsOnKeepPrograms ==
    ASSUME BaseInv, StepsOn
    PROVE  ProgramFits' /\ TargetFits'
<1> USE DEF ProgramFits, TargetFits, Now
<1>1. todo # <<>> /\ TailFits(todo, Tail(todo)) /\ ProgramFits /\ TargetFits
  BY TodoTail DEF BaseInv, StepsOn
<1>2. CASE todo' = <<>>
  BY <1>2, ShapesOfPrograms, StepsOfPrograms DEF StepsOn
<1>3. CASE todo' = Tail(todo) /\ todo[1] # "creating"
  BY <1>1, <1>3 DEF StepsOn, TailFits
<1>4. ASSUME NEW b, Turns(todo[1], b), todo' = <<b>> \o Tail(todo)
      PROVE  ProgramFits' /\ TargetFits'
  <2>1. PutFits(todo, b, todo') /\ b # "choose"
    BY <1>1, <1>4, TodoPut DEF Turns
  <2> QED BY <1>1, <2>1 DEF StepsOn, PutFits
<1> QED BY <1>2, <1>3, <1>4 DEF StepsOn

\* Every step keeps the shape and the target.
LEMMA ProgramKept ==
    ASSUME BaseInv, Next
    PROVE  ProgramFits' /\ TargetFits'
<1> USE DEF Throw, Continue, Await, Now, gateVars, otherVars, historyVars, viewVars, serverVars, domVars,
            loopVars, modeVars, commandVars, ProgramFits, TargetFits, TailFits, PutFits, First, Aimed
<1>1. /\ todo # <<>> => TailFits(todo, Tail(todo))
      /\ \A x : At(x) => running /\ todo # <<>> /\ todo[1] = x
      /\ At("save") => PutFits(todo, "saving", <<"saving">> \o Tail(todo))
      /\ At("idleSave") => PutFits(todo, "autosaving", <<"autosaving">> \o Tail(todo))
      /\ At("split") => PutFits(todo, "splitting", <<"splitting">> \o Tail(todo))
      /\ At("maybeCall") => PutFits(todo, "calling", <<"calling">> \o Tail(todo))
      /\ At("refresh") \/ At("refreshNow") \/ Now({"waiting"})
           => PutFits(todo, "viewing", <<"viewing">> \o Tail(todo))
      /\ At("refreshNow") => PutFits(todo, "waiting", <<"waiting">> \o Tail(todo))
      /\ ProgramFits /\ TargetFits /\ SentFits /\ MadeFits
  BY TodoSteps DEF BaseInv
<1>2. Shape(<<>>) /\ Left(<<>>) = {}
  BY ShapesOfPrograms, StepsOfPrograms
<1>3. CASE Begins
  BY <1>1, <1>2, <1>3 DEF Begins, Sound
<1>4. CASE Dismisses
  BY <1>1, <1>4 DEF Dismisses
<1>5. CASE Save
  BY <1>5, CommandsStepOn, StepsOnKeepPrograms
<1>6. CASE IdleSave
  BY <1>1, <1>2, <1>6 DEF IdleSave, Reconcile
<1>7. CASE SaveAnswered
  BY <1>1, <1>2, <1>7 DEF SaveAnswered
<1>8. CASE Split
  BY <1>1, <1>2, <1>8 DEF Split
<1>9. CASE SplitAnswered
  BY <1>1, <1>2, <1>9 DEF SplitAnswered
<1>10. CASE Saved
  BY <1>1, <1>2, <1>10 DEF Saved
<1>11. CASE MaybeCall
  BY <1>11, CommandsStepOn, StepsOnKeepPrograms
<1>12. CASE CallAnswered
  BY <1>1, <1>2, <1>12 DEF CallAnswered
<1>13. CASE Refused
  BY <1>1, <1>2, <1>13 DEF Refused
<1>14. CASE NoteCreated
  BY <1>1, <1>2, <1>14 DEF NoteCreated
<1>15. CASE NoteDeleted
  BY <1>1, <1>2, <1>15 DEF NoteDeleted
<1>16. CASE HistoryAnswered
  BY <1>16, CommandsStepOn, StepsOnKeepPrograms
<1>17. CASE OpenDialog
  BY <1>1, <1>2, <1>17 DEF OpenDialog
<1>18. CASE Forget
  BY <1>1, <1>2, <1>18 DEF Forget
<1>19. CASE Drop
  BY <1>1, <1>2, <1>19 DEF Drop, ClearEditing
<1>20. CASE Leave
  BY <1>20, CommandsStepOn, StepsOnKeepPrograms
<1>21. CASE Discard
  BY <1>1, <1>2, <1>21 DEF Discard
<1>22. CASE Exit
  BY <1>22, CommandsStepOn, StepsOnKeepPrograms
<1>23. CASE Enter
  BY <1>1, <1>2, <1>23 DEF Enter
<1>24. CASE Swap
  BY <1>1, <1>2, <1>24 DEF Swap
<1>25. CASE AdoptContent
  BY <1>25, CommandsStepOn, StepsOnKeepPrograms
<1>26. CASE Refresh
  BY <1>26, CommandsStepOn, StepsOnKeepPrograms
<1>27. CASE Finish
  BY <1>1, <1>2, <1>27 DEF Finish
<1>28. CASE ScrollPoll
  BY <1>1, <1>2, <1>28 DEF ScrollPoll, Sent, EditedNote
<1>29. CASE StartCheck
  BY <1>1, <1>2, <1>29 DEF StartCheck
<1>30. CASE CheckAnswered
  BY <1>1, <1>2, <1>30 DEF CheckAnswered
<1>31. CASE TitleTimer
  BY <1>1, <1>2, <1>31 DEF TitleTimer, Sent, EditedNote
<1>32. CASE Type
  BY <1>1, <1>2, <1>32 DEF Type
<1>33. CASE CheckFails
  BY <1>1, <1>2, <1>33 DEF CheckFails, Disconnect, ClearEditing, Counted
<1>34. CASE CommandFails
  BY <1>1, <1>2, <1>34 DEF CommandFails, Disconnect, ClearEditing, Counted
<1>35. CASE BackgroundFails
  BY <1>1, <1>2, <1>35 DEF BackgroundFails, Disconnect, ClearEditing, Counted
<1>36. ASSUME NEW v \in views, CommandViewed(v)
      PROVE  ProgramFits' /\ TargetFits'
  BY <1>1, <1>2, <1>36 DEF CommandViewed, ApplyView, ClearEditing
<1>37. ASSUME NEW v \in views, BackgroundViewed(v)
      PROVE  ProgramFits' /\ TargetFits'
  BY <1>1, <1>2, <1>37 DEF BackgroundViewed, ApplyView, ClearEditing
<1>38. ASSUME NEW v \in views, BuildView(v)
      PROVE  ProgramFits' /\ TargetFits'
  BY <1>1, <1>2, <1>38 DEF BuildView
<1>39. ASSUME NEW w \in {"command", "links"}, ViewIdle(w)
      PROVE  ProgramFits' /\ TargetFits'
  BY <1>1, <1>39, CommandsStepOn, StepsOnKeepPrograms
<1> QED BY CommandsBegin, <1>3, <1>4, <1>5, <1>6, <1>7, <1>8, <1>9, <1>10, <1>11, <1>12, <1>13, <1>14, <1>15,
           <1>16, <1>17, <1>18, <1>19, <1>20, <1>21, <1>22, <1>23, <1>24, <1>25, <1>26, <1>27, <1>28, <1>29,
           <1>30, <1>31, <1>32, <1>33, <1>34, <1>35, <1>36, <1>37, <1>38, <1>39
       DEF Next, Command, Loops, Waiters, Serve, User, Failures

\* What happens while a command waits keeps what its program says of the mode.
LEMMA QuietStepsKeepModes ==
    ASSUME BaseInv, Yielded, UNCHANGED <<todo, dirty>>,
           \/ UNCHANGED <<editing, content>> /\ (connected' = connected \/ ~editing)
           \/ editing' = FALSE /\ content' = NoText
    PROVE  ModeFits'
<1>1. ModeFits /\ (todo = <<>> \/ todo[1] \in Awaits)
  BY TodoSteps DEF BaseInv
<1> QED BY <1>1 DEF ModeFits, Now, Awaits

\* Every step keeps what the program says of the mode.
LEMMA ModeKept ==
    ASSUME BaseInv, Next
    PROVE  ModeFits'
<1> USE DEF Throw, Continue, Await, Now, gateVars, otherVars, historyVars, viewVars, serverVars, domVars,
            loopVars, modeVars, commandVars, ModeFits, TailFits, PutFits, First, Aimed
<1>1. /\ todo # <<>> => TailFits(todo, Tail(todo))
      /\ \A x : At(x) => running /\ todo # <<>> /\ todo[1] = x
      /\ At("save") => PutFits(todo, "saving", <<"saving">> \o Tail(todo))
      /\ At("idleSave") => PutFits(todo, "autosaving", <<"autosaving">> \o Tail(todo))
      /\ At("split") => PutFits(todo, "splitting", <<"splitting">> \o Tail(todo))
      /\ At("maybeCall") => PutFits(todo, "calling", <<"calling">> \o Tail(todo))
      /\ At("refresh") \/ At("refreshNow") \/ Now({"waiting"})
           => PutFits(todo, "viewing", <<"viewing">> \o Tail(todo))
      /\ At("refreshNow") => PutFits(todo, "waiting", <<"waiting">> \o Tail(todo))
      /\ ProgramFits /\ ModeFits /\ SentFits
  BY TodoSteps DEF BaseInv
<1>2. Shape(<<>>) /\ Left(<<>>) = {}
  BY ShapesOfPrograms, StepsOfPrograms
<1>3. CASE Begins
  BY <1>1, <1>2, <1>3 DEF Begins, Sound, Sends
<1>4. CASE Dismisses
  BY <1>1, <1>4 DEF Dismisses
<1>5. CASE Save
  BY <1>1, <1>2, <1>5 DEF Save, Reconcile, CannotSave, NothingToSave
<1>6. CASE IdleSave
  BY <1>1, <1>2, <1>6 DEF IdleSave, Reconcile
<1>7. CASE SaveAnswered
  BY <1>1, <1>2, <1>7 DEF SaveAnswered
<1>8. CASE Split
  BY <1>1, <1>2, <1>8 DEF Split
<1>9. CASE SplitAnswered
  BY <1>1, <1>2, <1>9 DEF SplitAnswered
<1>10. CASE Saved
  BY <1>1, <1>2, <1>10 DEF Saved
<1>11. CASE MaybeCall
  BY <1>1, <1>2, <1>11 DEF MaybeCall
<1>12. CASE CallAnswered
  BY <1>1, <1>2, <1>12 DEF CallAnswered
<1>13. CASE Refused
  BY <1>1, <1>2, <1>13 DEF Refused
<1>14. CASE NoteCreated
  BY <1>1, <1>2, <1>14 DEF NoteCreated
<1>15. CASE NoteDeleted
  BY <1>1, <1>2, <1>15 DEF NoteDeleted
<1>16. CASE HistoryAnswered
  <2>1. todo # <<>> /\ todo[1] = "undoing" /\ (todo' = <<>> \/ todo' = Tail(todo))
    BY <1>1, <1>16 DEF HistoryAnswered
  <2>2. UNCHANGED <<editing, content>> \/ (editing' = FALSE /\ content' = NoText)
    BY <1>16 DEF HistoryAnswered, ClearEditing
  <2>3. connected' = connected
    BY <1>16 DEF HistoryAnswered
  <2> QED BY <1>1, <1>2, <2>1, <2>2, <2>3
<1>17. CASE OpenDialog
  BY <1>1, <1>2, <1>17 DEF OpenDialog
<1>18. CASE Forget
  BY <1>1, <1>2, <1>18 DEF Forget
<1>19. CASE Drop
  BY <1>1, <1>2, <1>19 DEF Drop, ClearEditing
<1>20. CASE Leave
  BY <1>1, <1>2, <1>20 DEF Leave, ClearEditing
<1>21. CASE Discard
  BY <1>1, <1>2, <1>21 DEF Discard
<1>22. CASE Exit
  BY <1>1, <1>2, <1>22 DEF Exit, ClearEditing
<1>23. CASE Enter
  BY <1>1, <1>2, <1>23 DEF Enter
<1>24. CASE Swap
  BY <1>1, <1>2, <1>24 DEF Swap
<1>25. CASE AdoptContent
  <2>1. todo # <<>> /\ todo[1] \in Adopts /\ (todo' = <<>> \/ todo' = Tail(todo))
    BY <1>1, <1>25 DEF AdoptContent, Adopt, Adopts
  <2>2. UNCHANGED <<editing, dirty, connected>>
    BY <1>25 DEF AdoptContent
  <2> QED BY <1>1, <1>2, <2>1, <2>2 DEF Adopts
<1>26. CASE Refresh
  BY <1>1, <1>2, <1>26 DEF Refresh, Sent, EditedNote
<1>27. CASE Finish
  BY <1>1, <1>2, <1>27 DEF Finish
<1>28. CASE ScrollPoll
  BY <1>1, <1>2, <1>28 DEF ScrollPoll, Sent, EditedNote
<1>29. CASE StartCheck
  BY <1>1, <1>2, <1>29 DEF StartCheck
<1>30. CASE CheckAnswered
  BY <1>1, <1>2, <1>30 DEF CheckAnswered
<1>31. CASE TitleTimer
  BY <1>1, <1>2, <1>31 DEF TitleTimer, Sent, EditedNote
<1>32. CASE Type
  BY <1>1, <1>2, <1>32 DEF Type
<1>33. CASE CheckFails
  <2>1. Yielded /\ UNCHANGED <<todo, dirty>>
    BY <1>33 DEF CheckFails
  <2>2. \/ UNCHANGED <<editing, content>> /\ (connected' = connected \/ ~editing)
        \/ editing' = FALSE /\ content' = NoText
    BY <1>33 DEF CheckFails, Disconnect, ClearEditing
  <2> QED BY <2>1, <2>2, QuietStepsKeepModes
<1>34. CASE CommandFails
  BY <1>1, <1>2, <1>34 DEF CommandFails, Disconnect, ClearEditing, Counted
<1>35. CASE BackgroundFails
  <2>1. Yielded /\ UNCHANGED <<todo, dirty>>
    BY <1>35 DEF BackgroundFails
  <2>2. \/ UNCHANGED <<editing, content>> /\ (connected' = connected \/ ~editing)
        \/ editing' = FALSE /\ content' = NoText
    BY <1>35 DEF BackgroundFails, Disconnect, ClearEditing
  <2> QED BY <2>1, <2>2, QuietStepsKeepModes
<1>36. ASSUME NEW v \in views, CommandViewed(v)
      PROVE  ModeFits'
  BY <1>1, <1>2, <1>36 DEF CommandViewed, ApplyView, ClearEditing
<1>37. ASSUME NEW v \in views, BackgroundViewed(v)
      PROVE  ModeFits'
  <2>1. Yielded /\ UNCHANGED <<todo, dirty>>
    BY <1>37 DEF BackgroundViewed
  <2>2. \/ UNCHANGED <<editing, content>> /\ (connected' = connected \/ ~editing)
        \/ editing' = FALSE /\ content' = NoText
    BY <1>37 DEF BackgroundViewed, ApplyView, ClearEditing
  <2> QED BY <2>1, <2>2, QuietStepsKeepModes
<1>38. ASSUME NEW v \in views, BuildView(v)
      PROVE  ModeFits'
  BY <1>1, <1>2, <1>38 DEF BuildView
<1>39. ASSUME NEW w \in {"command", "links"}, ViewIdle(w)
      PROVE  ModeFits'
  <2>1. todo' = todo \/ (Now({"waiting"}) /\ todo' = <<"viewing">> \o Tail(todo))
    BY <1>1, <1>39 DEF ViewIdle, SentFits
  <2>2. UNCHANGED <<modeVars, connected>>
    BY <1>39 DEF ViewIdle
  <2> QED BY <1>1, <2>1, <2>2
<1> QED BY CommandsBegin, <1>3, <1>4, <1>5, <1>6, <1>7, <1>8, <1>9, <1>10, <1>11, <1>12, <1>13, <1>14, <1>15,
           <1>16, <1>17, <1>18, <1>19, <1>20, <1>21, <1>22, <1>23, <1>24, <1>25, <1>26, <1>27, <1>28, <1>29,
           <1>30, <1>31, <1>32, <1>33, <1>34, <1>35, <1>36, <1>37, <1>38, <1>39
       DEF Next, Command, Loops, Waiters, Serve, User, Failures

\* Every step keeps what is known of the text sent and of the waiter.
LEMMA SentKept ==
    ASSUME BaseInv, Next
    PROVE  SentFits'
<1> USE DEF Throw, Continue, Await, Now, gateVars, otherVars, historyVars, viewVars, serverVars, domVars,
            loopVars, modeVars, commandVars, SentFits, TailFits, PutFits, First, Sends
<1>1. /\ todo # <<>> => TailFits(todo, Tail(todo))
      /\ \A x : At(x) => running /\ todo # <<>> /\ todo[1] = x
      /\ At("save") => PutFits(todo, "saving", <<"saving">> \o Tail(todo))
      /\ At("idleSave") => PutFits(todo, "autosaving", <<"autosaving">> \o Tail(todo))
      /\ At("split") => PutFits(todo, "splitting", <<"splitting">> \o Tail(todo))
      /\ At("maybeCall") => PutFits(todo, "calling", <<"calling">> \o Tail(todo))
      /\ At("refresh") \/ At("refreshNow") \/ Now({"waiting"})
           => PutFits(todo, "viewing", <<"viewing">> \o Tail(todo))
      /\ At("refreshNow") => PutFits(todo, "waiting", <<"waiting">> \o Tail(todo))
      /\ waiting \in [{"command", "links"} -> {"no"} \cup Notes \cup {NoNote}]
      /\ ProgramFits /\ SentFits /\ ModeFits /\ (editing <=> current # NoNote) /\ current \in Notes \cup {NoNote}
  BY TodoSteps DEF BaseInv, TypeOK
<1>2. Shape(<<>>) /\ Left(<<>>) = {}
  BY ShapesOfPrograms, StepsOfPrograms
<1>3. CASE Begins
  <2>1. (sending = NothingSent /\ got = NoText) \/ Now({"decide", "choose"})
    BY <1>1, <1>3 DEF Begins
  <2>2. sending' = NothingSent /\ running' = TRUE
    BY <1>1, <2>1, <1>3 DEF Begins
  <2>3. waiting["command"] = "no" /\ waiting' = waiting
    BY <1>1, <1>3 DEF Begins, ProgramFits
  <2>4. ~Now(Sends)'
    BY <1>3 DEF Begins, Sound
  <2> QED BY <2>2, <2>3, <2>4
<1>4. CASE Dismisses
  BY <1>1, <1>4 DEF Dismisses
<1>5. CASE Save
  <2>1. At("save") /\ todo # <<>> /\ todo[1] \notin Sends \cup {"waiting"} /\ UNCHANGED <<running, got, waiting>>
    BY <1>1, <1>5 DEF Save, Reconcile, CannotSave, NothingToSave
  <2>2. sending = NothingSent /\ waiting["command"] = "no"
    BY <1>1, <2>1
  <2>3. \/ (todo' = <<>> \/ todo' = Tail(todo)) /\ sending' = sending
        \/ /\ todo' = <<"saving">> \o Tail(todo) /\ sending'.note = current /\ current \in Notes /\ current' = current
    BY <1>1, <1>5 DEF Save, Reconcile, CannotSave, NothingToSave
  <2> QED BY <1>1, <1>2, <2>1, <2>2, <2>3
<1>6. CASE IdleSave
  <2>1. At("idleSave") /\ todo # <<>> /\ todo[1] \notin Sends \cup {"waiting"} /\ UNCHANGED <<running, got, waiting>>
    BY <1>1, <1>6 DEF IdleSave, Reconcile
  <2>2. sending = NothingSent /\ waiting["command"] = "no"
    BY <1>1, <2>1
  <2>3. \/ (todo' = <<>> \/ todo' = Tail(todo)) /\ sending' = sending
        \/ /\ todo' = <<"autosaving">> \o Tail(todo) /\ sending'.note = current /\ current \in Notes
                /\ current' = current
    BY <1>1, <1>6 DEF IdleSave, Reconcile, ModeFits
  <2> QED BY <1>1, <1>2, <2>1, <2>2, <2>3
<1>7. CASE SaveAnswered
  BY <1>1, <1>2, <1>7 DEF SaveAnswered
<1>8. CASE Split
  <2>1. At("split") /\ todo # <<>> /\ todo[1] \notin Sends \cup {"waiting"} /\ UNCHANGED <<running, got, waiting>>
    BY <1>1, <1>8 DEF Split
  <2>2. sending = NothingSent /\ waiting["command"] = "no"
    BY <1>1, <2>1
  <2>3. /\ todo' = <<"splitting">> \o Tail(todo) /\ sending'.note = current
        /\ current \in Notes /\ current' = current
    BY <1>1, <1>8 DEF Split, ModeFits
  <2> QED BY <1>1, <1>2, <2>1, <2>2, <2>3
<1>9. CASE SplitAnswered
  BY <1>1, <1>2, <1>9 DEF SplitAnswered
<1>10. CASE Saved
  BY <1>1, <1>2, <1>10 DEF Saved
<1>11. CASE MaybeCall
  <2>1. At("maybeCall") /\ todo # <<>> /\ todo[1] \notin Sends \cup {"waiting"}
          /\ UNCHANGED <<running, sending, waiting>>
    BY <1>1, <1>11 DEF MaybeCall
  <2>2. sending = NothingSent /\ waiting["command"] = "no"
    BY <1>1, <2>1
  <2>3. (todo' = Tail(todo) \/ todo' = <<"calling">> \o Tail(todo)) /\ got' = got
    BY <1>1, <1>11 DEF MaybeCall
  <2> QED BY <1>1, <1>2, <2>1, <2>2, <2>3
<1>12. CASE CallAnswered
  BY <1>1, <1>2, <1>12 DEF CallAnswered
<1>13. CASE Refused
  BY <1>1, <1>2, <1>13 DEF Refused
<1>14. CASE NoteCreated
  BY <1>1, <1>2, <1>14 DEF NoteCreated
<1>15. CASE NoteDeleted
  BY <1>1, <1>2, <1>15 DEF NoteDeleted
<1>16. CASE HistoryAnswered
  <2>1. todo # <<>> /\ todo[1] = "undoing" /\ (todo' = <<>> \/ todo' = Tail(todo))
    BY <1>1, <1>16 DEF HistoryAnswered
  <2>2. sending = NothingSent /\ waiting["command"] = "no"
    BY <1>1, <2>1
  <2>3. UNCHANGED <<running, sending, got, waiting>>
    BY <1>16 DEF HistoryAnswered
  <2> QED BY <1>1, <1>2, <2>1, <2>2, <2>3
<1>17. CASE OpenDialog
  BY <1>1, <1>2, <1>17 DEF OpenDialog
<1>18. CASE Forget
  BY <1>1, <1>2, <1>18 DEF Forget
<1>19. CASE Drop
  <2>1. todo # <<>> /\ todo[1] \notin Sends \cup {"waiting"} /\ UNCHANGED <<running, sending, waiting>>
    BY <1>1, <1>19 DEF Drop
  <2>2. sending = NothingSent /\ waiting["command"] = "no"
    BY <1>1, <2>1
  <2>3. (todo' = <<>> \/ todo' = Tail(todo)) /\ got' = got
    BY <1>1, <1>19 DEF Drop
  <2> QED BY <1>1, <1>2, <2>1, <2>2, <2>3
<1>20. CASE Leave
  BY <1>1, <1>2, <1>20 DEF Leave, ClearEditing
<1>21. CASE Discard
  BY <1>1, <1>2, <1>21 DEF Discard
<1>22. CASE Exit
  BY <1>1, <1>2, <1>22 DEF Exit, ClearEditing
<1>23. CASE Enter
  BY <1>1, <1>2, <1>23 DEF Enter
<1>24. CASE Swap
  BY <1>1, <1>2, <1>24 DEF Swap
<1>25. CASE AdoptContent
  <2>1. todo # <<>> /\ todo[1] \notin Sends \cup {"waiting"} /\ UNCHANGED <<running, sending, waiting>>
    BY <1>1, <1>25 DEF AdoptContent, Adopt
  <2>2. sending = NothingSent /\ waiting["command"] = "no"
    BY <1>1, <2>1
  <2>3. (todo' = <<>> \/ todo' = Tail(todo)) /\ got' = got
    BY <1>1, <1>25 DEF AdoptContent, Adopt
  <2> QED BY <1>1, <1>2, <2>1, <2>2, <2>3
<1>26. CASE Refresh
  <2>1. (At("refresh") \/ At("refreshNow")) /\ todo # <<>> /\ todo[1] \notin Sends \cup {"waiting"} /\ running
          /\ UNCHANGED <<running, sending>>
    BY <1>1, <1>26 DEF Refresh
  <2>2. sending = NothingSent /\ waiting["command"] = "no"
    BY <1>1, <2>1
  <2>3. \/ todo' = Tail(todo) /\ waiting' = waiting
        \/ todo' = <<"viewing">> \o Tail(todo) /\ waiting' = waiting
        \/ At("refreshNow") /\ todo' = <<"waiting">> \o Tail(todo)
    BY <1>1, <1>26 DEF Refresh
  <2> QED BY <1>1, <2>1, <2>2, <2>3
<1>27. CASE Finish
  BY <1>1, <1>2, <1>27 DEF Finish
<1>28. CASE ScrollPoll
  BY <1>1, <1>2, <1>28 DEF ScrollPoll, Sent, EditedNote
<1>29. CASE StartCheck
  BY <1>1, <1>2, <1>29 DEF StartCheck
<1>30. CASE CheckAnswered
  BY <1>1, <1>2, <1>30 DEF CheckAnswered
<1>31. CASE TitleTimer
  <2>1. UNCHANGED <<todo, running, sending, got, editing, current>> /\ (~running => todo = <<>>)
    BY <1>1, <1>31 DEF TitleTimer, ProgramFits
  <2>2. waiting'["command"] = waiting["command"]
    BY <1>1, <1>31 DEF TitleTimer, EditedNote
  <2> QED BY <1>1, <2>1, <2>2
<1>32. CASE Type
  BY <1>1, <1>2, <1>32 DEF Type
<1>33. CASE CheckFails
  BY <1>1, <1>2, <1>33 DEF CheckFails, Disconnect, ClearEditing, Counted
<1>34. CASE CommandFails
  <2>1. todo' = <<>> /\ running /\ running' = running /\ waiting'["command"] = "no"
    BY <1>1, <1>34 DEF CommandFails
  <2> QED BY <1>1, <1>2, <2>1
<1>35. CASE BackgroundFails
  BY <1>1, <1>2, <1>35 DEF BackgroundFails, Disconnect, ClearEditing, Counted
<1>36. ASSUME NEW v \in views, CommandViewed(v)
      PROVE  SentFits'
  BY <1>1, <1>2, <1>36 DEF CommandViewed, ApplyView, ClearEditing
<1>37. ASSUME NEW v \in views, BackgroundViewed(v)
      PROVE  SentFits'
  BY <1>1, <1>2, <1>37 DEF BackgroundViewed, ApplyView, ClearEditing
<1>38. ASSUME NEW v \in views, BuildView(v)
      PROVE  SentFits'
  BY <1>1, <1>2, <1>38 DEF BuildView
<1>39. ASSUME NEW w \in {"command", "links"}, ViewIdle(w)
      PROVE  SentFits'
  <2>1. UNCHANGED <<running, sending, got, editing, current>>
    BY <1>39 DEF ViewIdle
  <2>2. CASE w = "command"
    <3>1. Now({"waiting"}) /\ todo' = <<"viewing">> \o Tail(todo) /\ waiting'["command"] = "no"
      BY <1>1, <1>39, <2>2 DEF ViewIdle
    <3> QED BY <1>1, <2>1, <3>1
  <2>3. CASE w = "links"
    <3>1. todo' = todo /\ waiting'["command"] = waiting["command"]
      BY <1>1, <1>39, <2>3 DEF ViewIdle
    <3> QED BY <1>1, <2>1, <3>1
  <2> QED BY <2>2, <2>3
<1> QED BY CommandsBegin, <1>3, <1>4, <1>5, <1>6, <1>7, <1>8, <1>9, <1>10, <1>11, <1>12, <1>13, <1>14, <1>15,
           <1>16, <1>17, <1>18, <1>19, <1>20, <1>21, <1>22, <1>23, <1>24, <1>25, <1>26, <1>27, <1>28, <1>29,
           <1>30, <1>31, <1>32, <1>33, <1>34, <1>35, <1>36, <1>37, <1>38, <1>39
       DEF Next, Command, Loops, Waiters, Serve, User, Failures

\* Every step keeps at most one view request: a second one is ignored or waits.
LEMMA RequestKept ==
    ASSUME BaseInv, Next
    PROVE  OneRequest'
<1> USE DEF Throw, Continue, Await, Now, gateVars, otherVars, historyVars, viewVars, serverVars, domVars,
            loopVars, modeVars, commandVars, OneRequest
<1>1. OneRequest
  BY TodoSteps DEF BaseInv
<1>2. CASE Begins
  BY <1>1, <1>2 DEF Begins
<1>3. CASE Dismisses
  BY <1>1, <1>3 DEF Dismisses
<1>4. CASE Save
  BY <1>1, <1>4 DEF Save, Reconcile, CannotSave, NothingToSave
<1>5. CASE IdleSave
  BY <1>1, <1>5 DEF IdleSave, Reconcile
<1>6. CASE SaveAnswered
  BY <1>1, <1>6 DEF SaveAnswered
<1>7. CASE Split
  BY <1>1, <1>7 DEF Split
<1>8. CASE SplitAnswered
  BY <1>1, <1>8 DEF SplitAnswered
<1>9. CASE Saved
  BY <1>1, <1>9 DEF Saved
<1>10. CASE MaybeCall
  BY <1>1, <1>10 DEF MaybeCall
<1>11. CASE CallAnswered
  BY <1>1, <1>11 DEF CallAnswered
<1>12. CASE Refused
  BY <1>1, <1>12 DEF Refused
<1>13. CASE NoteCreated
  BY <1>1, <1>13 DEF NoteCreated
<1>14. CASE NoteDeleted
  BY <1>1, <1>14 DEF NoteDeleted
<1>15. CASE HistoryAnswered
  BY <1>1, <1>15 DEF HistoryAnswered, ClearEditing
<1>16. CASE OpenDialog
  BY <1>1, <1>16 DEF OpenDialog
<1>17. CASE Forget
  BY <1>1, <1>17 DEF Forget
<1>18. CASE Drop
  BY <1>1, <1>18 DEF Drop, ClearEditing
<1>19. CASE Leave
  BY <1>1, <1>19 DEF Leave, ClearEditing
<1>20. CASE Discard
  BY <1>1, <1>20 DEF Discard
<1>21. CASE Exit
  BY <1>1, <1>21 DEF Exit, ClearEditing
<1>22. CASE Enter
  BY <1>1, <1>22 DEF Enter
<1>23. CASE Swap
  BY <1>1, <1>23 DEF Swap
<1>24. CASE AdoptContent
  BY <1>1, <1>24 DEF AdoptContent, Adopt
<1>25. CASE Refresh
  BY <1>1, <1>25 DEF Refresh, Sent, EditedNote
<1>26. CASE Finish
  BY <1>1, <1>26 DEF Finish
<1>27. CASE ScrollPoll
  BY <1>1, <1>27 DEF ScrollPoll, Sent, EditedNote
<1>28. CASE StartCheck
  BY <1>1, <1>28 DEF StartCheck
<1>29. CASE CheckAnswered
  BY <1>1, <1>29 DEF CheckAnswered
<1>30. CASE TitleTimer
  BY <1>1, <1>30 DEF TitleTimer, Sent, EditedNote
<1>31. CASE Type
  BY <1>1, <1>31 DEF Type
<1>32. CASE CheckFails
  BY <1>1, <1>32 DEF CheckFails, Disconnect, ClearEditing, Counted
<1>33. CASE CommandFails
  BY <1>1, <1>33 DEF CommandFails, Disconnect, ClearEditing, Counted
<1>34. CASE BackgroundFails
  BY <1>1, <1>34 DEF BackgroundFails, Disconnect, ClearEditing, Counted
<1>35. ASSUME NEW v \in views, CommandViewed(v)
      PROVE  OneRequest'
  BY <1>1, <1>35 DEF CommandViewed, ApplyView, ClearEditing
<1>36. ASSUME NEW v \in views, BackgroundViewed(v)
      PROVE  OneRequest'
  BY <1>1, <1>36 DEF BackgroundViewed, ApplyView, ClearEditing
<1>37. ASSUME NEW v \in views, BuildView(v)
      PROVE  OneRequest'
  BY <1>1, <1>37 DEF BuildView
<1>38. ASSUME NEW w \in {"command", "links"}, ViewIdle(w)
      PROVE  OneRequest'
  BY <1>1, <1>38 DEF ViewIdle, Sent
<1> QED BY CommandsBegin, <1>2, <1>3, <1>4, <1>5, <1>6, <1>7, <1>8, <1>9, <1>10, <1>11, <1>12, <1>13, <1>14,
           <1>15, <1>16, <1>17, <1>18, <1>19, <1>20, <1>21, <1>22, <1>23, <1>24, <1>25, <1>26, <1>27, <1>28,
           <1>29, <1>30, <1>31, <1>32, <1>33, <1>34, <1>35, <1>36, <1>37, <1>38
       DEF Next, Command, Loops, Waiters, Serve, User, Failures

\* Every step keeps notes that were never made without a text.
LEMMA MadeKept ==
    ASSUME BaseInv, Next
    PROVE  MadeFits'
<1> USE DEF Throw, Continue, Await, Now, gateVars, otherVars, historyVars, viewVars, serverVars, domVars,
            loopVars, modeVars, commandVars, MadeFits, Aimed
<1>1. /\ (\A x : At(x) => todo # <<>> /\ todo[1] = x) /\ MadeFits /\ TargetFits /\ ModeFits
           /\ (todo # <<>> => todo[1] \in Left(todo))
      /\ (editing <=> current # NoNote) /\ current \in Notes \cup {NoNote} /\ target \in Notes \cup {NoNote}
      /\ server \in [Notes -> Texts \cup {NoText}] /\ owed \in [Notes -> 0..MaxTexts]
      /\ page \in [Notes -> Texts \cup {NoText}] /\ SentFits /\ views \subseteq Requests
      /\ (todo # <<>> /\ todo[1] \in Aimed => target \in made)
  BY TodoSteps DEF BaseInv, TypeOK, TailFits, TargetFits
<1>2. CASE Begins
  BY <1>1, <1>2 DEF Begins
<1>3. CASE Dismisses
  BY <1>1, <1>3 DEF Dismisses
<1>4. CASE Save
  BY <1>1, <1>4 DEF Save, Reconcile, CannotSave, NothingToSave
<1>5. CASE IdleSave
  BY <1>1, <1>5 DEF IdleSave, Reconcile
<1>6. CASE SaveAnswered
  BY <1>1, <1>6 DEF SaveAnswered
<1>7. CASE Split
  BY <1>1, <1>7 DEF Split
<1>8. CASE SplitAnswered
  BY <1>1, <1>8 DEF SplitAnswered
<1>9. CASE Saved
  BY <1>1, <1>9 DEF Saved
<1>10. CASE MaybeCall
  BY <1>1, <1>10 DEF MaybeCall
<1>11. CASE CallAnswered
  BY <1>1, <1>11 DEF CallAnswered
<1>12. CASE Refused
  BY <1>1, <1>12 DEF Refused
<1>13. CASE NoteCreated
  BY <1>1, <1>13 DEF NoteCreated
<1>14. CASE NoteDeleted
  BY <1>1, <1>14 DEF NoteDeleted
<1>15. CASE HistoryAnswered
  BY <1>1, <1>15 DEF HistoryAnswered, ClearEditing
<1>16. CASE OpenDialog
  BY <1>1, <1>16 DEF OpenDialog
<1>17. CASE Forget
  <2>1. ~editing
    BY <1>1, <1>17 DEF Forget, ModeFits
  <2> QED BY <1>1, <1>17, <2>1 DEF Forget
<1>18. CASE Drop
  BY <1>1, <1>18 DEF Drop, ClearEditing
<1>19. CASE Leave
  BY <1>1, <1>19 DEF Leave, ClearEditing
<1>20. CASE Discard
  BY <1>1, <1>20 DEF Discard
<1>21. CASE Exit
  BY <1>1, <1>21 DEF Exit, ClearEditing
<1>22. CASE Enter
  BY <1>1, <1>22 DEF Enter
<1>23. CASE Swap
  BY <1>1, <1>23 DEF Swap
<1>24. CASE AdoptContent
  BY <1>1, <1>24 DEF AdoptContent, Adopt
<1>25. CASE Refresh
  <2>1. UNCHANGED <<made, server, page, owed, editing, current, confirming>>
    BY <1>25 DEF Refresh
  <2>2. views' = views \/ views' = {Sent("command", EditedNote)}
    BY <1>25 DEF Refresh
  <2>3. \A v \in views' : v.built => v \in views
    BY <2>2 DEF Sent
  <2> QED BY <1>1, <2>1, <2>3
<1>26. CASE Finish
  BY <1>1, <1>26 DEF Finish
<1>27. CASE ScrollPoll
  BY <1>1, <1>27 DEF ScrollPoll, Sent, EditedNote
<1>28. CASE StartCheck
  BY <1>1, <1>28 DEF StartCheck
<1>29. CASE CheckAnswered
  BY <1>1, <1>29 DEF CheckAnswered
<1>30. CASE TitleTimer
  BY <1>1, <1>30 DEF TitleTimer, Sent, EditedNote
<1>31. CASE Type
  BY <1>1, <1>31 DEF Type
<1>32. CASE CheckFails
  BY <1>1, <1>32 DEF CheckFails, Disconnect, ClearEditing, Counted
<1>33. CASE CommandFails
  BY <1>1, <1>33 DEF CommandFails, Disconnect, ClearEditing, Counted
<1>34. CASE BackgroundFails
  BY <1>1, <1>34 DEF BackgroundFails, Disconnect, ClearEditing, Counted
<1>35. ASSUME NEW v \in views, CommandViewed(v)
      PROVE  MadeFits'
  <2>1. v.built /\ page' = ShownAfter(v) /\ views' \subseteq views
        /\ owed' \in {owed, [owed EXCEPT ![current] = 0]} /\ UNCHANGED <<made, server, confirming>>
        /\ (UNCHANGED <<editing, current>> \/ editing' = FALSE)
    BY <1>35 DEF CommandViewed, ApplyView, ClearEditing
  <2>2. \A n \in Notes : n \notin made => page'[n] = NoText /\ owed'[n] = 0 /\ server[n] = NoText
    BY <1>1, <2>1 DEF ShownAfter
  <2> QED BY <1>1, <2>1, <2>2
<1>36. ASSUME NEW v \in views, BackgroundViewed(v)
      PROVE  MadeFits'
  <2>1. v.built /\ page' = ShownAfter(v) /\ views' \subseteq views
        /\ owed' \in {owed, [owed EXCEPT ![current] = 0]} /\ UNCHANGED <<made, server, confirming>>
        /\ (UNCHANGED <<editing, current>> \/ editing' = FALSE)
    BY <1>36 DEF BackgroundViewed, ApplyView, ClearEditing
  <2>2. \A n \in Notes : n \notin made => page'[n] = NoText /\ owed'[n] = 0 /\ server[n] = NoText
    BY <1>1, <2>1 DEF ShownAfter
  <2> QED BY <1>1, <2>1, <2>2
<1>37. ASSUME NEW v \in views, BuildView(v)
      PROVE  MadeFits'
  <2>1. UNCHANGED <<made, server, page, owed, editing, current, confirming>>
    BY <1>37 DEF BuildView
  <2>2. PICK p : views' = (views \ {v}) \cup
           {[v EXCEPT !.built = TRUE, !.view = warm', !.payload = p]}
    BY <1>37 DEF BuildView
  <2>3. \A n \in Notes : warm'[n] # NotShown => n \in made
    BY <1>1, <1>37 DEF BuildView
  <2>4. v \in Requests
    BY <1>1
  <2>5. [v EXCEPT !.built = TRUE, !.view = warm', !.payload = p].view = warm'
    BY <2>4 DEF Requests
  <2> QED BY <1>1, <2>1, <2>2, <2>3, <2>5
<1>38. ASSUME NEW w \in {"command", "links"}, ViewIdle(w)
      PROVE  MadeFits'
  BY <1>1, <1>38 DEF ViewIdle, Sent
<1> QED BY CommandsBegin, <1>2, <1>3, <1>4, <1>5, <1>6, <1>7, <1>8, <1>9, <1>10, <1>11, <1>12, <1>13, <1>14,
           <1>15, <1>16, <1>17, <1>18, <1>19, <1>20, <1>21, <1>22, <1>23, <1>24, <1>25, <1>26, <1>27, <1>28,
           <1>29, <1>30, <1>31, <1>32, <1>33, <1>34, <1>35, <1>36, <1>37, <1>38
       DEF Next, Command, Loops, Waiters, Serve, User, Failures

-----------------------------------------------------------------------------
(*****************************************************************************)
(* The types, a part at a time.                                              *)
(*****************************************************************************)
\* Texts and their renderings.
LEMMA TextsAre ==
    /\ \A t \in Texts : Rendering(t) \in Texts /\ Rendering(t).text = t.text
    /\ \A k \in 0..MaxTexts : Stored(k) \in Texts /\ Stored(k).text = k
    /\ NoText \notin Texts /\ 0 \in 0..MaxTexts /\ MaxTexts \in Nat /\ NoNote \notin Notes
    /\ NothingSent \in [note: Notes \cup {NoNote}, text: Texts \cup {NoText}]
    /\ \A s \in Sessions : s.failures \in Nat
<1>1. MaxTexts \in Nat /\ 0 \in 0..MaxTexts
  BY EditSessionAssumption
<1>2. "none" # "stored" /\ "none" # "rendered"
  OBVIOUS
<1>3. NoText \notin Texts
  BY <1>2 DEF NoText, Texts
<1> QED BY <1>1, <1>3, EditSessionAssumption DEF Texts, Rendering, Stored, NothingSent

\* The types of the mode.
ModeTypes ==
    /\ editing \in BOOLEAN /\ current \in Notes \cup {NoNote} /\ (editing <=> current # NoNote)
    /\ content \in Texts \cup {NoText}
    /\ dirty \in BOOLEAN /\ hasEdits \in BOOLEAN /\ connected \in BOOLEAN

\* The types of the page, the store and the warm view.
PageTypes ==
    /\ page \in [Notes -> Texts \cup {NoText}] /\ editable \in Notes \cup {NoNote}
    /\ server \in [Notes -> Texts \cup {NoText}] /\ warm \in [Notes -> Shown \cup {NotShown}]
    /\ owed \in [Notes -> 0..MaxTexts]

\* The types of the gate and of what its command sends and got.
GateTypes ==
    /\ running \in BOOLEAN /\ target \in Notes \cup {NoNote} /\ confirming \in Notes \cup {NoNote}
    /\ sending \in [note: Notes \cup {NoNote}, text: Texts \cup {NoText}]
    /\ got \in Texts \cup {NoText}

\* The types of the view requests.
ViewTypes ==
    /\ views \subseteq Requests
    /\ waiting \in [{"command", "links"} -> {"no"} \cup Notes \cup {NoNote}]

\* The types of the loops, the bounds and the history.
CountTypes ==
    /\ pendingFetch \in BOOLEAN /\ titleTimer \in BOOLEAN /\ checking \in BOOLEAN
    /\ made \subseteq Notes /\ session \in Sessions /\ texts \in 0..MaxTexts /\ failures \in 0..session.failures

\* All of them.
AllTypes == ModeTypes /\ PageTypes /\ GateTypes /\ ViewTypes /\ CountTypes

\* TypeOK is these types and the type of the program.
LEMMA TypesAre == TypeOK <=> AllTypes /\ todo \in Seq(Steps)
  BY DEF TypeOK, AllTypes, ModeTypes, PageTypes, GateTypes, ViewTypes, CountTypes, Steps

\* A request that is sent is a request.
LEMMA SentIsRequest ==
    \A b \in Requesters, n \in Notes \cup {NoNote} : Sent(b, n) \in Requests
  BY DEF Sent, Requests

\* The page after a view is a page.
LEMMA ViewedPage ==
    ASSUME page \in [Notes -> Texts \cup {NoText}], views \subseteq Requests, NEW v \in views
    PROVE  ShownAfter(v) \in [Notes -> Texts \cup {NoText}]
<1>1. \A n \in Notes : v.view[n] \in Shown \cup {NotShown}
  BY DEF Requests
<1>2. \A n \in Notes : v.view[n] # NotShown => v.view[n].text \in Texts /\ Rendering(v.view[n].text) \in Texts
  BY <1>1, TextsAre DEF Shown
<1> QED BY <1>2 DEF ShownAfter

\* A view the server builds is a view.
LEMMA BuiltView ==
    ASSUME server \in [Notes -> Texts \cup {NoText}], NEW m \in Notes \cup {NoNote}
    PROVE  [n \in Notes |-> IF server[n] = NoText THEN NotShown
                             ELSE [text |-> server[n], edit |-> n = m]] \in [Notes -> Shown \cup {NotShown}]
<1>1. \A n \in Notes : server[n] # NoText => server[n] \in Texts
  OBVIOUS
<1>2. \A n \in Notes : (n = m) \in BOOLEAN
  OBVIOUS
<1> QED BY <1>1, <1>2 DEF Shown

\* Every step keeps the types of the mode.
LEMMA ModeTypesKept ==
    ASSUME BaseInv, Next
    PROVE  ModeTypes'
<1> USE DEF AllTypes, Aimed, Sends, Throw, Continue, Await, Now, gateVars, otherVars, historyVars, viewVars,
            serverVars, domVars,
            loopVars, modeVars, commandVars, ModeTypes
<1>1. /\ AllTypes /\ ModeFits /\ SentFits /\ TargetFits /\ (todo # <<>> => todo[1] \in Left(todo))
      /\ (todo # <<>> /\ todo[1] \in Aimed => target \in Notes) /\ (\A x : At(x) => todo # <<>> /\ todo[1] = x)
      /\ current \in Notes => page[current] \in Texts \cup {NoText}
  BY TodoSteps, TypesAre DEF BaseInv, TailFits, MadeFits, TargetFits, AllTypes, CountTypes, PageTypes
<1>2. /\ \A t \in Texts : Rendering(t) \in Texts
      /\ \A k \in 0..MaxTexts : Stored(k) \in Texts
      /\ NoText \notin Texts /\ 0 \in 0..MaxTexts /\ MaxTexts \in Nat /\ NoNote \notin Notes
      /\ NothingSent \in [note: Notes \cup {NoNote}, text: Texts \cup {NoText}]
      /\ \A b \in Requesters, n \in Notes \cup {NoNote} : Sent(b, n) \in Requests
      /\ \A s \in Sessions : s.failures \in Nat
  BY TextsAre, SentIsRequest
<1>3. CASE Begins
  BY <1>1, <1>2, <1>3 DEF Begins
<1>4. CASE Dismisses
  BY <1>1, <1>2, <1>4 DEF Dismisses
<1>5. CASE Save
  BY <1>1, <1>2, <1>5 DEF Save, Reconcile, CannotSave, NothingToSave
<1>6. CASE IdleSave
  <2>1. current \in Notes
    BY <1>1, <1>2, <1>6 DEF IdleSave, ModeFits
  <2>2. content' \in {content, page[current]} /\ UNCHANGED <<editing, current, connected>>
    BY <1>6 DEF IdleSave, Reconcile
  <2>3. dirty' \in BOOLEAN /\ hasEdits' \in BOOLEAN
    BY <1>1, <1>6 DEF IdleSave, Reconcile
  <2> QED BY <2>1, <2>2, <2>3, <1>1
<1>7. CASE SaveAnswered
  BY <1>1, <1>2, <1>7 DEF SaveAnswered
<1>8. CASE Split
  BY <1>1, <1>2, <1>8 DEF Split
<1>9. CASE SplitAnswered
  BY <1>1, <1>2, <1>9 DEF SplitAnswered
<1>10. CASE Saved
  BY <1>1, <1>2, <1>10 DEF Saved
<1>11. CASE MaybeCall
  BY <1>1, <1>2, <1>11 DEF MaybeCall
<1>12. CASE CallAnswered
  BY <1>1, <1>2, <1>12 DEF CallAnswered
<1>13. CASE Refused
  BY <1>1, <1>2, <1>13 DEF Refused
<1>14. CASE NoteCreated
  BY <1>1, <1>2, <1>14 DEF NoteCreated
<1>15. CASE NoteDeleted
  BY <1>1, <1>2, <1>15 DEF NoteDeleted
<1>16. CASE HistoryAnswered
  <2>1. UNCHANGED <<editing, current, content, hasEdits>>
          \/ (editing' = FALSE /\ current' = NoNote /\ content' = NoText /\ hasEdits' = FALSE)
    BY <1>16 DEF HistoryAnswered, ClearEditing
  <2>2. (dirty' = dirty \/ dirty' = FALSE) /\ connected' = connected
    BY <1>16 DEF HistoryAnswered
  <2>3. dirty' \in BOOLEAN /\ connected' \in BOOLEAN
    BY <2>2, <1>1
  <2>4. hasEdits' \in BOOLEAN /\ editing' \in BOOLEAN
    BY <2>1, <1>1
  <2>5. content' \in Texts \cup {NoText} /\ current' \in Notes \cup {NoNote} /\ (editing' <=> current' # NoNote)
    BY <2>1, <1>1
  <2> QED BY <2>3, <2>4, <2>5
<1>17. CASE OpenDialog
  BY <1>1, <1>2, <1>17 DEF OpenDialog
<1>18. CASE Forget
  <2>1. ~editing
    BY <1>1, <1>18 DEF Forget, ModeFits
  <2> QED BY <2>1, <1>1, <1>2, <1>18 DEF Forget
<1>19. CASE Drop
  BY <1>1, <1>2, <1>19 DEF Drop, ClearEditing
<1>20. CASE Leave
  BY <1>1, <1>2, <1>20 DEF Leave, ClearEditing
<1>21. CASE Discard
  BY <1>1, <1>2, <1>21 DEF Discard
<1>22. CASE Exit
  BY <1>1, <1>2, <1>22 DEF Exit, ClearEditing
<1>23. CASE Enter
  BY <1>1, <1>2, <1>23 DEF Enter
<1>24. CASE Swap
  <2>1. content # NoText => editing /\ target \in Notes
    BY <1>1, <1>24 DEF Swap, ModeFits
  <2> QED BY <2>1, <1>1, <1>2, <1>24 DEF Swap
<1>25. CASE AdoptContent
  <2>1. UNCHANGED <<editing, current, dirty, hasEdits, connected>>
    BY <1>25 DEF AdoptContent
  <2>2. content' \in {content, got}
    BY <1>25 DEF AdoptContent, Adopt
  <2> QED BY <2>1, <2>2, <1>1 DEF GateTypes
<1>26. CASE Refresh
  BY <1>1, <1>2, <1>26 DEF Refresh, EditedNote, Requesters
<1>27. CASE Finish
  BY <1>1, <1>2, <1>27 DEF Finish
<1>28. CASE ScrollPoll
  BY <1>1, <1>2, <1>28 DEF ScrollPoll, EditedNote, Requesters
<1>29. CASE StartCheck
  BY <1>1, <1>2, <1>29 DEF StartCheck
<1>30. CASE CheckAnswered
  BY <1>1, <1>2, <1>30 DEF CheckAnswered
<1>31. CASE TitleTimer
  BY <1>1, <1>2, <1>31 DEF TitleTimer, EditedNote, Requesters
<1>32. CASE Type
  <2>1. Stored(texts + 1) \in Texts
    BY <1>1, <1>2, <1>32 DEF Type, CountTypes
  <2>2. UNCHANGED <<editing, current, connected>>
        /\ content' = Stored(texts + 1) /\ dirty' = TRUE /\ hasEdits' = TRUE
    BY <1>32 DEF Type
  <2> QED BY <2>1, <2>2, <1>1
<1>33. CASE CheckFails
  BY <1>1, <1>2, <1>33 DEF CheckFails, Disconnect, ClearEditing, Counted
<1>34. CASE CommandFails
  <2>1. UNCHANGED <<editing, current, content, hasEdits>>
          \/ (editing' = FALSE /\ current' = NoNote /\ content' = NoText /\ hasEdits' = FALSE)
    BY <1>34 DEF CommandFails, Disconnect, ClearEditing
  <2>2. dirty' = dirty /\ (connected' = connected \/ connected' = FALSE)
    BY <1>34 DEF CommandFails, Disconnect
  <2>3. dirty' \in BOOLEAN /\ connected' \in BOOLEAN
    BY <2>2, <1>1
  <2>4. hasEdits' \in BOOLEAN /\ editing' \in BOOLEAN
    BY <2>1, <1>1
  <2>5. content' \in Texts \cup {NoText} /\ current' \in Notes \cup {NoNote} /\ (editing' <=> current' # NoNote)
    BY <2>1, <1>1
  <2> QED BY <2>3, <2>4, <2>5
<1>35. CASE BackgroundFails
  BY <1>1, <1>2, <1>35 DEF BackgroundFails, Disconnect, ClearEditing, Counted
<1>36. ASSUME NEW v \in views, CommandViewed(v)
      PROVE  ModeTypes'
  BY <1>1, <1>2, <1>36 DEF CommandViewed, ApplyView, ClearEditing
<1>37. ASSUME NEW v \in views, BackgroundViewed(v)
      PROVE  ModeTypes'
  BY <1>1, <1>2, <1>37 DEF BackgroundViewed, ApplyView, ClearEditing
<1>38. ASSUME NEW v \in views, BuildView(v)
      PROVE  ModeTypes'
  BY <1>1, <1>2, <1>38 DEF BuildView
<1>39. ASSUME NEW w \in {"command", "links"}, ViewIdle(w)
      PROVE  ModeTypes'
  BY <1>1, <1>2, <1>39 DEF ViewIdle
<1> QED BY CommandsBegin, <1>3, <1>4, <1>5, <1>6, <1>7, <1>8, <1>9, <1>10, <1>11, <1>12, <1>13, <1>14, <1>15,
           <1>16, <1>17, <1>18, <1>19, <1>20, <1>21, <1>22, <1>23, <1>24, <1>25, <1>26, <1>27, <1>28, <1>29,
           <1>30, <1>31, <1>32, <1>33, <1>34, <1>35, <1>36, <1>37, <1>38, <1>39
       DEF Next, Command, Loops, Waiters, Serve, User, Failures

\* Every step keeps the types of the page, the store and the warm view.
LEMMA PageTypesKept ==
    ASSUME BaseInv, Next
    PROVE  PageTypes'
<1> USE DEF AllTypes, Aimed, Sends, Throw, Continue, Await, Now, gateVars, otherVars, historyVars, viewVars,
            serverVars, domVars,
            loopVars, modeVars, commandVars, PageTypes
<1>1. /\ AllTypes /\ ModeFits /\ SentFits /\ TargetFits /\ (todo # <<>> => todo[1] \in Left(todo))
      /\ (todo # <<>> /\ todo[1] \in Aimed => target \in Notes) /\ (\A x : At(x) => todo # <<>> /\ todo[1] = x)
      /\ current \in Notes => page[current] \in Texts \cup {NoText}
  BY TodoSteps, TypesAre DEF BaseInv, TailFits, MadeFits, TargetFits, AllTypes, CountTypes, PageTypes
<1>2. /\ \A t \in Texts : Rendering(t) \in Texts
      /\ \A k \in 0..MaxTexts : Stored(k) \in Texts
      /\ NoText \notin Texts /\ 0 \in 0..MaxTexts /\ MaxTexts \in Nat /\ NoNote \notin Notes
      /\ NothingSent \in [note: Notes \cup {NoNote}, text: Texts \cup {NoText}]
      /\ \A b \in Requesters, n \in Notes \cup {NoNote} : Sent(b, n) \in Requests
      /\ \A s \in Sessions : s.failures \in Nat
  BY TextsAre, SentIsRequest
<1>3. CASE Begins
  BY <1>1, <1>2, <1>3 DEF Begins
<1>4. CASE Dismisses
  BY <1>1, <1>2, <1>4 DEF Dismisses
<1>5. CASE Save
  BY <1>1, <1>2, <1>5 DEF Save, Reconcile, CannotSave, NothingToSave
<1>6. CASE IdleSave
  BY <1>1, <1>2, <1>6 DEF IdleSave, Reconcile
<1>7. CASE SaveAnswered
  <2>1. UNCHANGED <<page, editable, warm>> /\ server' = [server EXCEPT ![sending.note] = sending.text]
        /\ owed' \in {owed, [owed EXCEPT ![sending.note] = 0]}
    BY <1>7 DEF SaveAnswered
  <2>2. sending.text \in Texts \cup {NoText}
    BY <1>1 DEF GateTypes
  <2>3. server' \in [Notes -> Texts \cup {NoText}]
    BY <2>1, <2>2, <1>1
  <2>4. owed' \in [Notes -> 0..MaxTexts]
    BY <2>1, <1>1, <1>2
  <2> QED BY <2>1, <2>3, <2>4, <1>1
<1>8. CASE Split
  BY <1>1, <1>2, <1>8 DEF Split
<1>9. CASE SplitAnswered
  <2>1. UNCHANGED <<page, editable, warm>> /\ server' = [server EXCEPT ![sending.note] = sending.text]
        /\ owed' \in {owed, [owed EXCEPT ![sending.note] = 0]}
    BY <1>9 DEF SplitAnswered
  <2>2. sending.text \in Texts \cup {NoText}
    BY <1>1 DEF GateTypes
  <2>3. server' \in [Notes -> Texts \cup {NoText}]
    BY <2>1, <2>2, <1>1
  <2>4. owed' \in [Notes -> 0..MaxTexts]
    BY <2>1, <1>1, <1>2
  <2> QED BY <2>1, <2>3, <2>4, <1>1
<1>10. CASE Saved
  BY <1>1, <1>2, <1>10 DEF Saved
<1>11. CASE MaybeCall
  BY <1>1, <1>2, <1>11 DEF MaybeCall
<1>12. CASE CallAnswered
  BY <1>1, <1>2, <1>12 DEF CallAnswered
<1>13. CASE Refused
  BY <1>1, <1>2, <1>13 DEF Refused
<1>14. CASE NoteCreated
  BY <1>1, <1>2, <1>14 DEF NoteCreated
<1>15. CASE NoteDeleted
  BY <1>1, <1>2, <1>15 DEF NoteDeleted
<1>16. CASE HistoryAnswered
  <2>1. UNCHANGED <<page, warm>> /\ editable' \in {editable, NoNote}
    BY <1>16 DEF HistoryAnswered
  <2>2. UNCHANGED <<server, owed>> \/ \E n \in Notes : owed' = [owed EXCEPT ![n] = 0]
        /\ server' \in {[server EXCEPT ![n] = Stored(0)], [server EXCEPT ![n] = NoText]}
    BY <1>16 DEF HistoryAnswered
  <2>3. Stored(0) \in Texts
    BY <1>2
  <2>4. server' \in [Notes -> Texts \cup {NoText}]
    BY <2>2, <2>3, <1>1
  <2>5. owed' \in [Notes -> 0..MaxTexts]
    BY <2>2, <1>1, <1>2
  <2> QED BY <2>1, <2>4, <2>5, <1>1, <1>2
<1>17. CASE OpenDialog
  BY <1>1, <1>2, <1>17 DEF OpenDialog
<1>18. CASE Forget
  BY <1>1, <1>2, <1>18 DEF Forget
<1>19. CASE Drop
  BY <1>1, <1>2, <1>19 DEF Drop, ClearEditing
<1>20. CASE Leave
  BY <1>1, <1>2, <1>20 DEF Leave, ClearEditing
<1>21. CASE Discard
  BY <1>1, <1>2, <1>21 DEF Discard
<1>22. CASE Exit
  BY <1>1, <1>2, <1>22 DEF Exit, ClearEditing
<1>23. CASE Enter
  BY <1>1, <1>2, <1>23 DEF Enter
<1>24. CASE Swap
  BY <1>1, <1>2, <1>24 DEF Swap
<1>25. CASE AdoptContent
  BY <1>1, <1>2, <1>25 DEF AdoptContent, Adopt
<1>26. CASE Refresh
  BY <1>1, <1>2, <1>26 DEF Refresh, EditedNote, Requesters
<1>27. CASE Finish
  BY <1>1, <1>2, <1>27 DEF Finish
<1>28. CASE ScrollPoll
  BY <1>1, <1>2, <1>28 DEF ScrollPoll, EditedNote, Requesters
<1>29. CASE StartCheck
  BY <1>1, <1>2, <1>29 DEF StartCheck
<1>30. CASE CheckAnswered
  BY <1>1, <1>2, <1>30 DEF CheckAnswered
<1>31. CASE TitleTimer
  BY <1>1, <1>2, <1>31 DEF TitleTimer, EditedNote, Requesters
<1>32. CASE Type
  <2>1. Stored(texts + 1) \in Texts /\ texts + 1 \in 0..MaxTexts
    BY <1>1, <1>2, <1>32 DEF Type, CountTypes
  <2>2. UNCHANGED <<editable, server, warm>> /\ page' = [page EXCEPT ![current] = Stored(texts + 1)]
        /\ owed' = [owed EXCEPT ![current] = texts + 1]
    BY <1>32 DEF Type
  <2> QED BY <2>1, <2>2, <1>1
<1>33. CASE CheckFails
  <2>1. owed' \in {owed, [owed EXCEPT ![current] = 0]} /\ editable' = NoNote /\ UNCHANGED <<page, server, warm>>
    BY <1>33 DEF CheckFails, Disconnect
  <2> QED BY <2>1, <1>1, <1>2
<1>34. CASE CommandFails
  <2>1. owed' \in {owed, [owed EXCEPT ![current] = 0]} /\ editable' \in {editable, NoNote} /\ UNCHANGED <<page, warm>>
    BY <1>34 DEF CommandFails, Disconnect
  <2>2. server' \in {server, [server EXCEPT ![sending.note] = sending.text]}
    BY <1>34 DEF CommandFails
  <2>3. sending.text \in Texts \cup {NoText}
    BY <1>1 DEF GateTypes
  <2> QED BY <2>1, <2>2, <2>3, <1>1, <1>2
<1>35. CASE BackgroundFails
  BY <1>1, <1>2, <1>35 DEF BackgroundFails, Disconnect, ClearEditing, Counted
<1>36. ASSUME NEW v \in views, CommandViewed(v)
      PROVE  PageTypes'
  <2>1. page' = ShownAfter(v) /\ owed' \in {owed, [owed EXCEPT ![current] = 0]} /\ UNCHANGED <<server, warm>>
    BY <1>36 DEF CommandViewed, ApplyView
  <2>2. editable' \in {editable, NoNote} \/ (InView(v) /\ editable' = v.note)
    BY <1>36 DEF CommandViewed, ApplyView
  <2>3. InView(v) => v.note \in Notes
    BY <1>1 DEF InView, ViewTypes, Requests
  <2>4. page' \in [Notes -> Texts \cup {NoText}]
    BY <2>1, <1>1, ViewedPage, TextsAre DEF PageTypes, ViewTypes
  <2> QED BY <2>1, <2>2, <2>3, <2>4, <1>1, <1>2
<1>37. ASSUME NEW v \in views, BackgroundViewed(v)
      PROVE  PageTypes'
  <2>1. page' = ShownAfter(v) /\ owed' \in {owed, [owed EXCEPT ![current] = 0]} /\ UNCHANGED <<server, warm>>
    BY <1>37 DEF BackgroundViewed, ApplyView
  <2>2. editable' \in {editable, NoNote} \/ (InView(v) /\ editable' = v.note)
    BY <1>37 DEF BackgroundViewed, ApplyView
  <2>3. InView(v) => v.note \in Notes
    BY <1>1 DEF InView, ViewTypes, Requests
  <2>4. page' \in [Notes -> Texts \cup {NoText}]
    BY <2>1, <1>1, ViewedPage, TextsAre DEF PageTypes, ViewTypes
  <2> QED BY <2>1, <2>2, <2>3, <2>4, <1>1, <1>2
<1>38. ASSUME NEW v \in views, BuildView(v)
      PROVE  PageTypes'
  <2>1. UNCHANGED <<page, editable, server, owed>>
    BY <1>38 DEF BuildView
  <2>2. v.note \in Notes \cup {NoNote}
    BY <1>1 DEF ViewTypes, Requests
  <2>3. warm' = [n \in Notes |-> IF server[n] = NoText THEN NotShown
                                 ELSE [text |-> server[n], edit |-> n = v.note]]
    BY <1>38 DEF BuildView
  <2>4. warm' \in [Notes -> Shown \cup {NotShown}]
    BY <1>1, <2>2, <2>3, BuiltView
  <2> QED BY <2>1, <2>2, <2>3, <2>4, <1>1
<1>39. ASSUME NEW w \in {"command", "links"}, ViewIdle(w)
      PROVE  PageTypes'
  BY <1>1, <1>2, <1>39 DEF ViewIdle
<1> QED BY CommandsBegin, <1>3, <1>4, <1>5, <1>6, <1>7, <1>8, <1>9, <1>10, <1>11, <1>12, <1>13, <1>14, <1>15,
           <1>16, <1>17, <1>18, <1>19, <1>20, <1>21, <1>22, <1>23, <1>24, <1>25, <1>26, <1>27, <1>28, <1>29,
           <1>30, <1>31, <1>32, <1>33, <1>34, <1>35, <1>36, <1>37, <1>38, <1>39
       DEF Next, Command, Loops, Waiters, Serve, User, Failures

\* Every step keeps the types of the gate.
LEMMA GateTypesKept ==
    ASSUME BaseInv, Next
    PROVE  GateTypes'
<1> USE DEF AllTypes, Aimed, Sends, Throw, Continue, Await, Now, gateVars, otherVars, historyVars, viewVars,
            serverVars, domVars,
            loopVars, modeVars, commandVars, GateTypes
<1>1. /\ AllTypes /\ ModeFits /\ SentFits /\ TargetFits /\ (todo # <<>> => todo[1] \in Left(todo))
      /\ (todo # <<>> /\ todo[1] \in Aimed => target \in Notes) /\ (\A x : At(x) => todo # <<>> /\ todo[1] = x)
      /\ current \in Notes => page[current] \in Texts \cup {NoText}
  BY TodoSteps, TypesAre DEF BaseInv, TailFits, MadeFits, TargetFits, AllTypes, CountTypes, PageTypes
<1>2. /\ \A t \in Texts : Rendering(t) \in Texts
      /\ \A k \in 0..MaxTexts : Stored(k) \in Texts
      /\ NoText \notin Texts /\ 0 \in 0..MaxTexts /\ MaxTexts \in Nat /\ NoNote \notin Notes
      /\ NothingSent \in [note: Notes \cup {NoNote}, text: Texts \cup {NoText}]
      /\ \A b \in Requesters, n \in Notes \cup {NoNote} : Sent(b, n) \in Requests
      /\ \A s \in Sessions : s.failures \in Nat
  BY TextsAre, SentIsRequest
<1>3. CASE Begins
  BY <1>1, <1>2, <1>3 DEF Begins
<1>4. CASE Dismisses
  BY <1>1, <1>2, <1>4 DEF Dismisses
<1>5. CASE Save
  <2>1. \/ sending' = sending
        \/ sending' = [note |-> current, text |-> page[current]] /\ current \in Notes
    BY <1>1, <1>5 DEF Save, Reconcile, CannotSave, NothingToSave, ModeTypes
  <2>2. UNCHANGED <<running, target, confirming, got>>
    BY <1>5 DEF Save
  <2> QED BY <2>1, <2>2, <1>1
<1>6. CASE IdleSave
  <2>1. \/ sending' = sending
        \/ sending' = [note |-> current, text |-> page[current]] /\ current \in Notes
    BY <1>1, <1>6 DEF IdleSave, Reconcile, ModeTypes, ModeFits
  <2>2. UNCHANGED <<running, target, confirming, got>>
    BY <1>6 DEF IdleSave
  <2> QED BY <2>1, <2>2, <1>1
<1>7. CASE SaveAnswered
  BY <1>1, <1>2, <1>7 DEF SaveAnswered
<1>8. CASE Split
  <2>1. \/ sending' = sending
        \/ sending' = [note |-> current, text |-> page[current]] /\ current \in Notes
    BY <1>1, <1>8 DEF Split, ModeTypes, ModeFits
  <2>2. UNCHANGED <<running, target, confirming, got>>
    BY <1>8 DEF Split
  <2> QED BY <2>1, <2>2, <1>1
<1>9. CASE SplitAnswered
  BY <1>1, <1>2, <1>9 DEF SplitAnswered
<1>10. CASE Saved
  BY <1>1, <1>2, <1>10 DEF Saved
<1>11. CASE MaybeCall
  BY <1>1, <1>2, <1>11 DEF MaybeCall
<1>12. CASE CallAnswered
  BY <1>1, <1>2, <1>12 DEF CallAnswered
<1>13. CASE Refused
  BY <1>1, <1>2, <1>13 DEF Refused
<1>14. CASE NoteCreated
  BY <1>1, <1>2, <1>14 DEF NoteCreated
<1>15. CASE NoteDeleted
  BY <1>1, <1>2, <1>15 DEF NoteDeleted
<1>16. CASE HistoryAnswered
  BY <1>1, <1>2, <1>16 DEF HistoryAnswered, ClearEditing
<1>17. CASE OpenDialog
  BY <1>1, <1>2, <1>17 DEF OpenDialog
<1>18. CASE Forget
  BY <1>1, <1>2, <1>18 DEF Forget
<1>19. CASE Drop
  BY <1>1, <1>2, <1>19 DEF Drop, ClearEditing
<1>20. CASE Leave
  BY <1>1, <1>2, <1>20 DEF Leave, ClearEditing
<1>21. CASE Discard
  BY <1>1, <1>2, <1>21 DEF Discard
<1>22. CASE Exit
  BY <1>1, <1>2, <1>22 DEF Exit, ClearEditing
<1>23. CASE Enter
  BY <1>1, <1>2, <1>23 DEF Enter
<1>24. CASE Swap
  BY <1>1, <1>2, <1>24 DEF Swap
<1>25. CASE AdoptContent
  BY <1>1, <1>2, <1>25 DEF AdoptContent, Adopt
<1>26. CASE Refresh
  BY <1>1, <1>2, <1>26 DEF Refresh, EditedNote, Requesters
<1>27. CASE Finish
  BY <1>1, <1>2, <1>27 DEF Finish
<1>28. CASE ScrollPoll
  BY <1>1, <1>2, <1>28 DEF ScrollPoll, EditedNote, Requesters
<1>29. CASE StartCheck
  BY <1>1, <1>2, <1>29 DEF StartCheck
<1>30. CASE CheckAnswered
  BY <1>1, <1>2, <1>30 DEF CheckAnswered
<1>31. CASE TitleTimer
  BY <1>1, <1>2, <1>31 DEF TitleTimer, EditedNote, Requesters
<1>32. CASE Type
  BY <1>1, <1>2, <1>32 DEF Type
<1>33. CASE CheckFails
  BY <1>1, <1>2, <1>33 DEF CheckFails, Disconnect, ClearEditing, Counted
<1>34. CASE CommandFails
  BY <1>1, <1>2, <1>34 DEF CommandFails, Disconnect, ClearEditing, Counted
<1>35. CASE BackgroundFails
  BY <1>1, <1>2, <1>35 DEF BackgroundFails, Disconnect, ClearEditing, Counted
<1>36. ASSUME NEW v \in views, CommandViewed(v)
      PROVE  GateTypes'
  <2>1. UNCHANGED <<running, target, confirming, sending>>
    BY <1>36 DEF CommandViewed, ApplyView
  <2>2. got' = NoText \/ (v.note \in Notes /\ got' = page'[v.note])
    BY <1>1, <1>36 DEF CommandViewed, InView, ViewTypes, Requests
  <2>3. page' \in [Notes -> Texts \cup {NoText}]
    BY <1>36, <1>1, ViewedPage, TextsAre DEF CommandViewed, ApplyView, PageTypes, ViewTypes
  <2> QED BY <2>1, <2>2, <2>3, <1>1
<1>37. ASSUME NEW v \in views, BackgroundViewed(v)
      PROVE  GateTypes'
  BY <1>1, <1>2, <1>37 DEF BackgroundViewed, ApplyView, ClearEditing
<1>38. ASSUME NEW v \in views, BuildView(v)
      PROVE  GateTypes'
  BY <1>1, <1>2, <1>38 DEF BuildView
<1>39. ASSUME NEW w \in {"command", "links"}, ViewIdle(w)
      PROVE  GateTypes'
  BY <1>1, <1>2, <1>39 DEF ViewIdle
<1> QED BY CommandsBegin, <1>3, <1>4, <1>5, <1>6, <1>7, <1>8, <1>9, <1>10, <1>11, <1>12, <1>13, <1>14, <1>15,
           <1>16, <1>17, <1>18, <1>19, <1>20, <1>21, <1>22, <1>23, <1>24, <1>25, <1>26, <1>27, <1>28, <1>29,
           <1>30, <1>31, <1>32, <1>33, <1>34, <1>35, <1>36, <1>37, <1>38, <1>39
       DEF Next, Command, Loops, Waiters, Serve, User, Failures

\* Every step keeps the types of the view requests.
LEMMA ViewTypesKept ==
    ASSUME BaseInv, Next
    PROVE  ViewTypes'
<1> USE DEF AllTypes, Aimed, Sends, Throw, Continue, Await, Now, gateVars, otherVars, historyVars, viewVars,
            serverVars, domVars,
            loopVars, modeVars, commandVars, ViewTypes
<1>1. /\ AllTypes /\ ModeFits /\ SentFits /\ TargetFits /\ (todo # <<>> => todo[1] \in Left(todo))
      /\ (todo # <<>> /\ todo[1] \in Aimed => target \in Notes) /\ (\A x : At(x) => todo # <<>> /\ todo[1] = x)
      /\ current \in Notes => page[current] \in Texts \cup {NoText}
  BY TodoSteps, TypesAre DEF BaseInv, TailFits, MadeFits, TargetFits, AllTypes, CountTypes, PageTypes
<1>2. /\ \A t \in Texts : Rendering(t) \in Texts
      /\ \A k \in 0..MaxTexts : Stored(k) \in Texts
      /\ NoText \notin Texts /\ 0 \in 0..MaxTexts /\ MaxTexts \in Nat /\ NoNote \notin Notes
      /\ NothingSent \in [note: Notes \cup {NoNote}, text: Texts \cup {NoText}]
      /\ \A b \in Requesters, n \in Notes \cup {NoNote} : Sent(b, n) \in Requests
      /\ \A s \in Sessions : s.failures \in Nat
  BY TextsAre, SentIsRequest
<1>3. CASE Begins
  BY <1>1, <1>2, <1>3 DEF Begins
<1>4. CASE Dismisses
  BY <1>1, <1>2, <1>4 DEF Dismisses
<1>5. CASE Save
  BY <1>1, <1>2, <1>5 DEF Save, Reconcile, CannotSave, NothingToSave
<1>6. CASE IdleSave
  BY <1>1, <1>2, <1>6 DEF IdleSave, Reconcile
<1>7. CASE SaveAnswered
  BY <1>1, <1>2, <1>7 DEF SaveAnswered
<1>8. CASE Split
  BY <1>1, <1>2, <1>8 DEF Split
<1>9. CASE SplitAnswered
  BY <1>1, <1>2, <1>9 DEF SplitAnswered
<1>10. CASE Saved
  BY <1>1, <1>2, <1>10 DEF Saved
<1>11. CASE MaybeCall
  BY <1>1, <1>2, <1>11 DEF MaybeCall
<1>12. CASE CallAnswered
  BY <1>1, <1>2, <1>12 DEF CallAnswered
<1>13. CASE Refused
  BY <1>1, <1>2, <1>13 DEF Refused
<1>14. CASE NoteCreated
  BY <1>1, <1>2, <1>14 DEF NoteCreated
<1>15. CASE NoteDeleted
  BY <1>1, <1>2, <1>15 DEF NoteDeleted
<1>16. CASE HistoryAnswered
  BY <1>1, <1>2, <1>16 DEF HistoryAnswered, ClearEditing
<1>17. CASE OpenDialog
  BY <1>1, <1>2, <1>17 DEF OpenDialog
<1>18. CASE Forget
  BY <1>1, <1>2, <1>18 DEF Forget
<1>19. CASE Drop
  BY <1>1, <1>2, <1>19 DEF Drop, ClearEditing
<1>20. CASE Leave
  BY <1>1, <1>2, <1>20 DEF Leave, ClearEditing
<1>21. CASE Discard
  BY <1>1, <1>2, <1>21 DEF Discard
<1>22. CASE Exit
  BY <1>1, <1>2, <1>22 DEF Exit, ClearEditing
<1>23. CASE Enter
  BY <1>1, <1>2, <1>23 DEF Enter
<1>24. CASE Swap
  BY <1>1, <1>2, <1>24 DEF Swap
<1>25. CASE AdoptContent
  BY <1>1, <1>2, <1>25 DEF AdoptContent, Adopt
<1>26. CASE Refresh
  <2>1. EditedNote \in Notes \cup {NoNote} /\ "command" \in Requesters
    BY <1>1 DEF EditedNote, ModeTypes, Requesters
  <2>2. views' = views \/ views' = {Sent("command", EditedNote)}
    BY <1>26 DEF Refresh
  <2>3. waiting' = waiting \/ waiting' = [waiting EXCEPT !["command"] = EditedNote]
    BY <1>26 DEF Refresh
  <2> QED BY <2>1, <2>2, <2>3, <1>1, <1>2
<1>27. CASE Finish
  BY <1>1, <1>2, <1>27 DEF Finish
<1>28. CASE ScrollPoll
  <2>1. EditedNote \in Notes \cup {NoNote} /\ "scroll" \in Requesters
    BY <1>1 DEF EditedNote, ModeTypes, Requesters
  <2>2. waiting' = waiting /\ (views' = views \/ views' = {Sent("scroll", EditedNote)})
    BY <1>28 DEF ScrollPoll
  <2> QED BY <2>1, <2>2, <1>1, <1>2
<1>29. CASE StartCheck
  BY <1>1, <1>2, <1>29 DEF StartCheck
<1>30. CASE CheckAnswered
  BY <1>1, <1>2, <1>30 DEF CheckAnswered
<1>31. CASE TitleTimer
  BY <1>1, <1>2, <1>31 DEF TitleTimer, EditedNote, Requesters
<1>32. CASE Type
  BY <1>1, <1>2, <1>32 DEF Type
<1>33. CASE CheckFails
  BY <1>1, <1>2, <1>33 DEF CheckFails, Disconnect, ClearEditing, Counted
<1>34. CASE CommandFails
  BY <1>1, <1>2, <1>34 DEF CommandFails, Disconnect, ClearEditing, Counted
<1>35. CASE BackgroundFails
  BY <1>1, <1>2, <1>35 DEF BackgroundFails, Disconnect, ClearEditing, Counted
<1>36. ASSUME NEW v \in views, CommandViewed(v)
      PROVE  ViewTypes'
  BY <1>1, <1>2, <1>36 DEF CommandViewed, ApplyView, ClearEditing
<1>37. ASSUME NEW v \in views, BackgroundViewed(v)
      PROVE  ViewTypes'
  BY <1>1, <1>2, <1>37 DEF BackgroundViewed, ApplyView, ClearEditing
<1>38. ASSUME NEW v \in views, BuildView(v)
      PROVE  ViewTypes'
  <2>1. waiting' = waiting
    BY <1>38 DEF BuildView
  <2>2. PICK p \in SUBSET Notes : views' = (views \ {v}) \cup
           {[v EXCEPT !.built = TRUE, !.view = warm', !.payload = p]}
    BY <1>38 DEF BuildView
  <2>3. v.note \in Notes \cup {NoNote}
    BY <1>1 DEF ViewTypes, Requests
  <2>4. warm' = [n \in Notes |-> IF server[n] = NoText THEN NotShown
                                 ELSE [text |-> server[n], edit |-> n = v.note]]
    BY <1>38 DEF BuildView
  <2>5. warm' \in [Notes -> Shown \cup {NotShown}]
    BY <1>1, <2>3, <2>4, BuiltView DEF PageTypes
  <2>6. [v EXCEPT !.built = TRUE, !.view = warm', !.payload = p] \in Requests
    BY <2>5, <1>1 DEF Requests
  <2> QED BY <2>1, <2>2, <2>3, <2>4, <2>5, <2>6, <1>1
<1>39. ASSUME NEW w \in {"command", "links"}, ViewIdle(w)
      PROVE  ViewTypes'
  <2>1. waiting[w] \in Notes \cup {NoNote} /\ w \in Requesters
    BY <1>1, <1>39 DEF ViewIdle, Requesters
  <2>2. views' = views \cup {Sent(w, waiting[w])} /\ waiting' = [waiting EXCEPT ![w] = "no"]
    BY <1>39 DEF ViewIdle
  <2> QED BY <2>1, <2>2, <1>1, <1>2
<1> QED BY CommandsBegin, <1>3, <1>4, <1>5, <1>6, <1>7, <1>8, <1>9, <1>10, <1>11, <1>12, <1>13, <1>14, <1>15,
           <1>16, <1>17, <1>18, <1>19, <1>20, <1>21, <1>22, <1>23, <1>24, <1>25, <1>26, <1>27, <1>28, <1>29,
           <1>30, <1>31, <1>32, <1>33, <1>34, <1>35, <1>36, <1>37, <1>38, <1>39
       DEF Next, Command, Loops, Waiters, Serve, User, Failures

\* Every step keeps the types of the loops, the bounds and the history.
LEMMA CountTypesKept ==
    ASSUME BaseInv, Next
    PROVE  CountTypes'
<1> USE DEF AllTypes, Aimed, Sends, Throw, Continue, Await, Now, gateVars, otherVars, historyVars, viewVars,
            serverVars, domVars,
            loopVars, modeVars, commandVars, CountTypes
<1>1. /\ AllTypes /\ ModeFits /\ SentFits /\ TargetFits /\ (todo # <<>> => todo[1] \in Left(todo))
      /\ (todo # <<>> /\ todo[1] \in Aimed => target \in Notes) /\ (\A x : At(x) => todo # <<>> /\ todo[1] = x)
      /\ current \in Notes => page[current] \in Texts \cup {NoText}
  BY TodoSteps, TypesAre DEF BaseInv, TailFits, MadeFits, TargetFits, AllTypes, CountTypes, PageTypes
<1>2. /\ \A t \in Texts : Rendering(t) \in Texts
      /\ \A k \in 0..MaxTexts : Stored(k) \in Texts
      /\ NoText \notin Texts /\ 0 \in 0..MaxTexts /\ MaxTexts \in Nat /\ NoNote \notin Notes
      /\ NothingSent \in [note: Notes \cup {NoNote}, text: Texts \cup {NoText}]
      /\ \A b \in Requesters, n \in Notes \cup {NoNote} : Sent(b, n) \in Requests
      /\ \A s \in Sessions : s.failures \in Nat
  BY TextsAre, SentIsRequest
<1>3. CASE Begins
  BY <1>1, <1>2, <1>3 DEF Begins
<1>4. CASE Dismisses
  BY <1>1, <1>2, <1>4 DEF Dismisses
<1>5. CASE Save
  BY <1>1, <1>2, <1>5 DEF Save, Reconcile, CannotSave, NothingToSave
<1>6. CASE IdleSave
  BY <1>1, <1>2, <1>6 DEF IdleSave, Reconcile
<1>7. CASE SaveAnswered
  BY <1>1, <1>2, <1>7 DEF SaveAnswered
<1>8. CASE Split
  BY <1>1, <1>2, <1>8 DEF Split
<1>9. CASE SplitAnswered
  BY <1>1, <1>2, <1>9 DEF SplitAnswered
<1>10. CASE Saved
  BY <1>1, <1>2, <1>10 DEF Saved
<1>11. CASE MaybeCall
  BY <1>1, <1>2, <1>11 DEF MaybeCall
<1>12. CASE CallAnswered
  BY <1>1, <1>2, <1>12 DEF CallAnswered
<1>13. CASE Refused
  BY <1>1, <1>2, <1>13 DEF Refused
<1>14. CASE NoteCreated
  BY <1>1, <1>2, <1>14 DEF NoteCreated
<1>15. CASE NoteDeleted
  BY <1>1, <1>2, <1>15 DEF NoteDeleted
<1>16. CASE HistoryAnswered
  BY <1>1, <1>2, <1>16 DEF HistoryAnswered, ClearEditing
<1>17. CASE OpenDialog
  BY <1>1, <1>2, <1>17 DEF OpenDialog
<1>18. CASE Forget
  BY <1>1, <1>2, <1>18 DEF Forget
<1>19. CASE Drop
  BY <1>1, <1>2, <1>19 DEF Drop, ClearEditing
<1>20. CASE Leave
  BY <1>1, <1>2, <1>20 DEF Leave, ClearEditing
<1>21. CASE Discard
  BY <1>1, <1>2, <1>21 DEF Discard
<1>22. CASE Exit
  BY <1>1, <1>2, <1>22 DEF Exit, ClearEditing
<1>23. CASE Enter
  BY <1>1, <1>2, <1>23 DEF Enter
<1>24. CASE Swap
  BY <1>1, <1>2, <1>24 DEF Swap
<1>25. CASE AdoptContent
  BY <1>1, <1>2, <1>25 DEF AdoptContent, Adopt
<1>26. CASE Refresh
  BY <1>1, <1>2, <1>26 DEF Refresh, EditedNote, Requesters
<1>27. CASE Finish
  BY <1>1, <1>2, <1>27 DEF Finish
<1>28. CASE ScrollPoll
  BY <1>1, <1>2, <1>28 DEF ScrollPoll, EditedNote, Requesters
<1>29. CASE StartCheck
  BY <1>1, <1>2, <1>29 DEF StartCheck
<1>30. CASE CheckAnswered
  <2>1. titleTimer' \in {titleTimer, "titles" \in session.background} /\ checking' = FALSE
          /\ UNCHANGED <<pendingFetch, historyVars>>
    BY <1>30 DEF CheckAnswered
  <2>2. ("titles" \in session.background) \in BOOLEAN
    OBVIOUS
  <2> QED BY <2>1, <2>2, <1>1
<1>31. CASE TitleTimer
  BY <1>1, <1>2, <1>31 DEF TitleTimer, EditedNote, Requesters
<1>32. CASE Type
  BY <1>1, <1>2, <1>32 DEF Type
<1>33. CASE CheckFails
  <2>1. failures' \in 0..session'.failures
    BY <1>1, <1>2, <1>33 DEF CheckFails, Counted
  <2>2. failures < session.failures /\ failures' = failures + 1
          /\ UNCHANGED <<pendingFetch, titleTimer, made, texts, session>> /\ checking' = FALSE
    BY <1>33 DEF CheckFails, Counted, Disconnect
  <2> QED BY <2>1, <2>2, <1>1
<1>34. CASE CommandFails
  BY <1>1, <1>2, <1>34 DEF CommandFails, Disconnect, ClearEditing, Counted
<1>35. CASE BackgroundFails
  BY <1>1, <1>2, <1>35 DEF BackgroundFails, Disconnect, ClearEditing, Counted
<1>36. ASSUME NEW v \in views, CommandViewed(v)
      PROVE  CountTypes'
  BY <1>1, <1>2, <1>36 DEF CommandViewed, ApplyView, ClearEditing
<1>37. ASSUME NEW v \in views, BackgroundViewed(v)
      PROVE  CountTypes'
  BY <1>1, <1>2, <1>37 DEF BackgroundViewed, ApplyView, ClearEditing
<1>38. ASSUME NEW v \in views, BuildView(v)
      PROVE  CountTypes'
  BY <1>1, <1>2, <1>38 DEF BuildView
<1>39. ASSUME NEW w \in {"command", "links"}, ViewIdle(w)
      PROVE  CountTypes'
  BY <1>1, <1>2, <1>39 DEF ViewIdle
<1> QED BY CommandsBegin, <1>3, <1>4, <1>5, <1>6, <1>7, <1>8, <1>9, <1>10, <1>11, <1>12, <1>13, <1>14, <1>15,
           <1>16, <1>17, <1>18, <1>19, <1>20, <1>21, <1>22, <1>23, <1>24, <1>25, <1>26, <1>27, <1>28, <1>29,
           <1>30, <1>31, <1>32, <1>33, <1>34, <1>35, <1>36, <1>37, <1>38, <1>39
       DEF Next, Command, Loops, Waiters, Serve, User, Failures

-----------------------------------------------------------------------------
(*****************************************************************************)
(* The first theorems.                                                       *)
(*****************************************************************************)
\* Every step keeps the types.
LEMMA TypesKept ==
    ASSUME BaseInv, Next
    PROVE  TypeOK'
<1>1. ProgramFits'
  BY ProgramKept
<1>2. (todo \in Seq(Steps))'
  BY <1>1 DEF ProgramFits, Shape
<1>3. AllTypes'
  BY ModeTypesKept, PageTypesKept, GateTypesKept, ViewTypesKept, CountTypesKept DEF AllTypes
<1> QED BY <1>2, <1>3
       DEF TypeOK, AllTypes, ModeTypes, PageTypes, GateTypes, ViewTypes, CountTypes, Steps

\* The invariant holds at first.
LEMMA BaseHoldsAtFirst == Init => BaseInv
<1> SUFFICES ASSUME Init PROVE BaseInv
  OBVIOUS
<1> USE DEF Init
<1>1. Shape(<<>>) /\ Left(<<>>) = {} /\ FirstNotes \subseteq Notes /\ NoNote \notin Notes
  BY ShapesOfPrograms, StepsOfPrograms, EditSessionAssumption
<1>2. \A n \in Notes : n \in FirstNotes => [text |-> Stored(0), edit |-> FALSE] \in Shown
  BY TextsAre DEF Shown
<1>3. AllTypes
  <2>1. ModeTypes
    BY <1>1 DEF ModeTypes
  <2>2. PageTypes
    <3>1. \A n \in Notes : page[n] \in Texts \cup {NoText} /\ server[n] \in Texts \cup {NoText}
                             /\ warm[n] \in Shown \cup {NotShown} /\ owed[n] \in 0..MaxTexts
      BY <1>2, TextsAre
    <3>2. /\ page = [n \in Notes |-> page[n]] /\ server = [n \in Notes |-> server[n]]
          /\ warm = [n \in Notes |-> warm[n]] /\ owed = [n \in Notes |-> owed[n]]
      OBVIOUS
    <3> QED BY <3>1, <3>2 DEF PageTypes
  <2>3. GateTypes
    BY TextsAre DEF GateTypes
  <2>4. ViewTypes
    BY DEF ViewTypes
  <2>5. CountTypes
    <3>1. session \in Sessions /\ failures = 0 /\ session.failures \in Nat
      BY TextsAre
    <3>2. failures \in 0..session.failures
      BY <3>1
    <3> QED BY <1>1, <3>1, <3>2, TextsAre DEF CountTypes
  <2> QED BY <2>1, <2>2, <2>3, <2>4, <2>5 DEF AllTypes
<1>4. TypeOK
  BY <1>1, <1>3, TypesAre DEF Shape
<1>5. ProgramFits /\ TargetFits /\ ModeFits /\ SentFits /\ OneRequest
  BY <1>1 DEF ProgramFits, TargetFits, ModeFits, SentFits, OneRequest, Now
<1>6. MadeFits
  BY <1>1 DEF MadeFits
<1> QED BY <1>4, <1>5, <1>6 DEF BaseInv

\* Every step, and a stutter, keeps the invariant.
LEMMA BaseIsKept == BaseInv /\ [Next]_vars => BaseInv'
<1> SUFFICES ASSUME BaseInv, [Next]_vars PROVE BaseInv'
  OBVIOUS
<1>1. CASE Next
  BY <1>1, TypesKept, ProgramKept, ModeKept, SentKept, RequestKept, MadeKept DEF BaseInv
<1>2. CASE UNCHANGED vars
  <2> USE DEF vars, modeVars, domVars, gateVars, commandVars, viewVars, loopVars, serverVars, historyVars,
              otherVars
  <2>1. TypeOK'
    BY <1>2 DEF BaseInv, TypeOK
  <2>2. ProgramFits' /\ TargetFits' /\ ModeFits' /\ SentFits' /\ OneRequest' /\ MadeFits'
    BY <1>2 DEF BaseInv, ProgramFits, TargetFits, ModeFits, SentFits, OneRequest, MadeFits, Now
  <2> QED BY <2>1, <2>2 DEF BaseInv
<1> QED BY <1>1, <1>2

\* The invariant holds, for any constants.
THEOREM BaseHolds == Spec => []BaseInv
  BY BaseHoldsAtFirst, BaseIsKept, PTL DEF Spec

\* The variables have their types; a note is edited exactly when there is a current one.
THEOREM EditTypes == Spec => []TypeOK
<1>1. BaseInv => TypeOK
  BY DEF BaseInv
<1> QED BY <1>1, BaseHolds, PTL

\* The browser never has two view requests in flight.
THEOREM ViewRequestsComeOneByOne == Spec => []OneViewRequest
<1>1. BaseInv => OneViewRequest
  <2> SUFFICES ASSUME BaseInv PROVE Cardinality(views) <= 1
    BY DEF OneViewRequest
  <2>1. CASE views = {}
    BY <2>1, FS_EmptySet
  <2>2. ASSUME NEW v \in views, views = {v}
        PROVE  Cardinality(views) <= 1
    <3>1. Cardinality({v}) = 1
      BY FS_Singleton
    <3> QED BY <2>2, <3>1
  <2> QED BY <2>1, <2>2 DEF BaseInv, OneRequest
<1> QED BY <1>1, BaseHolds, PTL

\* The note an autosave saved is still marked as edited when its answer arrives.
THEOREM AutosavesEndDirty == Spec => []AutosaveStaysDirty
<1>1. BaseInv => AutosaveStaysDirty
  BY TodoSteps DEF BaseInv, ModeFits, AutosaveStaysDirty, Now
<1> QED BY <1>1, BaseHolds, PTL

-----------------------------------------------------------------------------
(*****************************************************************************)
(* Where the texts are.                                                      *)
(*****************************************************************************)
\* The page shows what the user typed last into note n, if that has to be kept.
PageOwed(n) == owed[n] = 0 \/ page[n].text = owed[n]

\* What the user typed last into note n is stored, or need not be kept.
Safe(n) == owed[n] = 0 \/ server[n] = NoText \/ server[n].text = owed[n]

\* A command waits for its view only after it left the note: no note is edited then.
WaitFits ==
    /\ Now({"refreshNow", "waiting"}) => ~editing
    /\ waiting["command"] \in {"no", NoNote}

\* The page shows the text of the warm view, except for a text typed since and for one that the
\* view on its way brings.
PageFits ==
    \A n \in Notes :
        \/ warm[n] = NotShown
        \/ page[n].text = warm[n].text.text
        \/ PageOwed(n)
        \/ \E v \in views : v.built /\ n \in v.payload

\* A view that was built is the warm view; a command's view is the store's, and asks for the note
\* that is edited.
ViewFits ==
    \A v \in views :
        /\ v.built => v.view = warm
        /\ v.by = "command" =>
             /\ Now({"viewing"}) /\ v.note = EditedNote
             /\ v.built => \A n \in Notes : v.view[n] # NotShown => v.view[n].text = server[n]

\* The editor's snapshot, and the text a refresh returned to it, are of a page that shows the
\* typed text.
EditorFits ==
    /\ editing /\ content # NoText => PageOwed(current)
    /\ ~editing => content = NoText
    /\ Now(Adopts) /\ got # NoText => editing /\ PageOwed(current)

\* The text that is sent is the typed one; a note that was left while it is sent need not be kept.
SendingFits ==
    Now(Sends) =>
        /\ ~editing => owed[sending.note] = 0
        /\ todo[1] # "splitting" /\ owed[sending.note] # 0 => sending.text.text = owed[sending.note]

\* What the program left says of the text of the edited note: a note is left only once it is
\* stored, or gone from the page.
EndFits ==
    editing =>
        /\ Now(Ends) => Safe(current)
        /\ Now({"maybeCall", "calling"}) /\ Len(todo) >= 2 /\ todo[2] \in Ends => Safe(current)
        /\ ~Now({"enter"})
        /\ Now({"discard"}) => page[current] = NoText
        /\ Now({"undoing"}) => ~dirty
        /\ "saved" \in Left(todo) /\ ~Now({"split", "splitting"}) => owed[current] = 0

\* TypedTextIsKept, of one note.
Kept(n) == Safe(n) \/ (current = n /\ editing /\ dirty /\ page[n].text = owed[n])

\* The invariant of the theorem about typed text.
KeepInv ==
    /\ WaitFits /\ PageFits /\ ViewFits /\ EditorFits /\ SendingFits /\ EndFits
    /\ \A n \in Notes : Kept(n)

\* A step in which a request or a check fails finds no view request in flight.
Answered == failures' # failures => views = {}

\* The facts about the program left, as one formula.
TodoFacts ==
    /\ todo # <<>> => TailFits(todo, Tail(todo))
    /\ \A x : At(x) => running /\ todo # <<>> /\ todo[1] = x
    /\ At("save") => PutFits(todo, "saving", <<"saving">> \o Tail(todo))
    /\ At("idleSave") => PutFits(todo, "autosaving", <<"autosaving">> \o Tail(todo))
    /\ At("split") => PutFits(todo, "splitting", <<"splitting">> \o Tail(todo))
    /\ At("maybeCall") => PutFits(todo, "calling", <<"calling">> \o Tail(todo))
    /\ At("refresh") \/ At("refreshNow") \/ Now({"waiting"})
         => PutFits(todo, "viewing", <<"viewing">> \o Tail(todo))
    /\ At("refreshNow") => PutFits(todo, "waiting", <<"waiting">> \o Tail(todo))
    /\ Yielded => todo = <<>> \/ todo[1] \in Awaits
    /\ Left(<<>>) = {} /\ ProgramFits

\* The facts about the types, as one formula.
DataFacts ==
    /\ (editing <=> current # NoNote) /\ current \in Notes \cup {NoNote} /\ target \in Notes \cup {NoNote}
    /\ page \in [Notes -> Texts \cup {NoText}] /\ server \in [Notes -> Texts \cup {NoText}]
    /\ owed \in [Notes -> 0..MaxTexts] /\ warm \in [Notes -> Shown \cup {NotShown}]
    /\ views \subseteq Requests /\ NoNote \notin Notes /\ NoText.text = 0
    /\ waiting \in [{"command", "links"} -> {"no"} \cup Notes \cup {NoNote}]
    /\ sending \in [note: Notes \cup {NoNote}, text: Texts \cup {NoText}]

\* Both follow from the invariant.
LEMMA FactsHold == BaseInv => TodoFacts /\ DataFacts
<1> SUFFICES ASSUME BaseInv PROVE TodoFacts /\ DataFacts
  OBVIOUS
<1>1. Left(<<>>) = {}
  BY StepsOfPrograms
<1>2. NoText.text = 0
  BY DEF NoText
<1> QED BY <1>1, <1>2, TodoSteps, TextsAre DEF TodoFacts, DataFacts, BaseInv, TypeOK

\* A step that waits is the head of its program.
LEMMA PutHeads == BaseInv /\ todo # <<>> => \A b \in Awaits : (<<b>> \o Tail(todo))[1] = b
  BY PutIs DEF BaseInv, ProgramFits, Shape, Steps

\* The edit goes on with its text on the page, or ends and its text need not be kept.
Undisturbed ==
    /\ UNCHANGED <<editing, current, content>> \/ (editing' = FALSE /\ current' = NoNote /\ content' = NoText)
    /\ owed' = owed \/ (editing /\ owed' = [owed EXCEPT ![current] = 0])
    /\ editing /\ ~editing' => owed'[current] = 0
    /\ editing' /\ owed'[current] # 0 => page'[current] = page[current]

\* A failure and a response leave the edit undisturbed.
LEMMA InterruptsDoNotDisturb ==
    ASSUME BaseInv
    PROVE  /\ CheckFails \/ CommandFails \/ BackgroundFails => Undisturbed
           /\ \A v \in views : ApplyView(v) => Undisturbed
<1>1. DataFacts
  BY FactsHold
<1>2. Disconnect /\ page' = page => Undisturbed
  BY <1>1 DEF Disconnect, ClearEditing, Undisturbed, DataFacts
<1>3. CheckFails => Undisturbed
  BY <1>2 DEF CheckFails
<1>4. BackgroundFails => Undisturbed
  BY <1>2 DEF BackgroundFails
<1>5. CommandFails => Undisturbed
  <2>1. UNCHANGED <<editing, current, content, owed, page>> => Undisturbed
    BY <1>1 DEF Undisturbed
  <2> QED BY <1>2, <2>1 DEF CommandFails
<1>6. ASSUME NEW v \in views, ApplyView(v)
      PROVE  Undisturbed
  <2>1. UNCHANGED <<editing, current, content>> \/ (editing' = FALSE /\ current' = NoNote /\ content' = NoText)
    BY <1>6 DEF ApplyView, ClearEditing
  <2>2. CASE editing /\ (~editing' \/ page'[current] # page[current])
    <3>1. owed' = [owed EXCEPT ![current] = 0]
      BY <1>6, <2>2 DEF ApplyView
    <3> QED BY <1>1, <2>1, <2>2, <3>1 DEF Undisturbed, DataFacts
  <2>3. CASE ~(editing /\ (~editing' \/ page'[current] # page[current]))
    <3>1. owed' = owed
      BY <1>6, <2>3 DEF ApplyView
    <3> QED BY <1>1, <2>1, <2>3, <3>1 DEF Undisturbed, DataFacts
  <2> QED BY <2>2, <2>3
<1> QED BY <1>3, <1>4, <1>5, <1>6

-----------------------------------------------------------------------------
(*****************************************************************************)
(* Every step keeps the texts where they belong.                             *)
(*****************************************************************************)
\* Every step keeps WaitFits.
LEMMA WaitKept ==
    ASSUME BaseInv, KeepInv, Next, Answered
    PROVE  WaitFits'
<1> USE DEF Throw, Continue, Await, Now, gateVars, otherVars, historyVars, viewVars, serverVars, domVars,
            loopVars, modeVars, commandVars
<1>1. /\ \A x : At(x) => running /\ todo # <<>> /\ todo[1] = x
      /\ todo # <<>> /\ Tail(todo) # <<>>
           => (Tail(todo)[1] # "waiting" /\ (Tail(todo)[1] = "refreshNow" => todo[1] = "leave"))
      /\ todo # <<>> => \A b \in {"saving", "autosaving", "splitting", "calling", "viewing", "waiting"} :
           (<<b>> \o Tail(todo))[1] = b
      /\ ~running => todo = <<>>
      /\ Now({"refreshNow", "waiting"}) => ~editing
      /\ waiting["command"] \in {"no", NoNote}
      /\ waiting["command"] # "no" => Now({"waiting"})
      /\ waiting \in [{"command", "links"} -> {"no"} \cup Notes \cup {NoNote}]
  BY FactsHold, PutHeads
       DEF BaseInv, KeepInv, TodoFacts, DataFacts, TailFits, ProgramFits, First, Adopts, Ends, Sends, Awaits,
           SentFits, WaitFits
<1> USE DEF WaitFits, EditedNote
<1>2. CASE Begins
  BY <1>1, <1>2 DEF Begins, Sound
<1>3. CASE Dismisses
  BY <1>1, <1>3 DEF Dismisses
<1>4. CASE Save
  BY <1>1, <1>4 DEF Save, Reconcile, CannotSave, NothingToSave
<1>5. CASE IdleSave
  BY <1>1, <1>5 DEF IdleSave, Reconcile
<1>6. CASE SaveAnswered
  BY <1>1, <1>6 DEF SaveAnswered
<1>7. CASE Split
  BY <1>1, <1>7 DEF Split
<1>8. CASE SplitAnswered
  BY <1>1, <1>8 DEF SplitAnswered
<1>9. CASE Saved
  BY <1>1, <1>9 DEF Saved
<1>10. CASE MaybeCall
  BY <1>1, <1>10 DEF MaybeCall
<1>11. CASE CallAnswered
  BY <1>1, <1>11 DEF CallAnswered
<1>12. CASE Refused
  BY <1>1, <1>12 DEF Refused
<1>13. CASE NoteCreated
  BY <1>1, <1>13 DEF NoteCreated
<1>14. CASE NoteDeleted
  BY <1>1, <1>14 DEF NoteDeleted
<1>15. CASE HistoryAnswered
  BY <1>1, <1>15 DEF HistoryAnswered, ClearEditing
<1>16. CASE OpenDialog
  BY <1>1, <1>16 DEF OpenDialog
<1>17. CASE Forget
  BY <1>1, <1>17 DEF Forget
<1>18. CASE Drop
  BY <1>1, <1>18 DEF Drop, ClearEditing
<1>19. CASE Leave
  BY <1>1, <1>19 DEF Leave, ClearEditing
<1>20. CASE Discard
  BY <1>1, <1>20 DEF Discard
<1>21. CASE Exit
  BY <1>1, <1>21 DEF Exit, ClearEditing
<1>22. CASE Enter
  BY <1>1, <1>22 DEF Enter
<1>23. CASE Swap
  BY <1>1, <1>23 DEF Swap
<1>24. CASE AdoptContent
  BY <1>1, <1>24 DEF AdoptContent, Adopt
<1>25. CASE Refresh
  <2>1. todo # <<>> /\ todo[1] \in {"refresh", "refreshNow"} /\ editing' = editing
    BY <1>1, <1>25 DEF Refresh
  <2>2. \/ todo' = Tail(todo) /\ waiting' = waiting
        \/ todo' = <<"viewing">> \o Tail(todo) /\ waiting' = waiting
        \/ todo' = <<"waiting">> \o Tail(todo) /\ todo[1] = "refreshNow"
             /\ waiting' = [waiting EXCEPT !["command"] = EditedNote]
    BY <1>1, <1>25 DEF Refresh
  <2>3. EditedNote = IF editing THEN current ELSE NoNote
    BY DEF EditedNote
  <2> QED BY <2>1, <2>2, <2>3, <1>1
<1>26. CASE Finish
  BY <1>1, <1>26 DEF Finish
<1>27. CASE ScrollPoll
  BY <1>1, <1>27 DEF ScrollPoll, Sent, EditedNote
<1>28. CASE StartCheck
  BY <1>1, <1>28 DEF StartCheck
<1>29. CASE CheckAnswered
  BY <1>1, <1>29 DEF CheckAnswered
<1>30. CASE TitleTimer
  BY <1>1, <1>30 DEF TitleTimer, Sent, EditedNote
<1>31. CASE Type
  BY <1>1, <1>31 DEF Type
<1>32. CASE CheckFails
  BY <1>1, <1>32 DEF CheckFails, Disconnect, ClearEditing, Counted
<1>33. CASE CommandFails
  BY <1>1, <1>33 DEF CommandFails, Disconnect, ClearEditing, Counted
<1>34. CASE BackgroundFails
  BY <1>1, <1>34 DEF BackgroundFails, Disconnect, ClearEditing, Counted
<1>35. ASSUME NEW v \in views, CommandViewed(v)
      PROVE  WaitFits'
  BY <1>1, <1>35 DEF CommandViewed, ApplyView, ClearEditing
<1>36. ASSUME NEW v \in views, BackgroundViewed(v)
      PROVE  WaitFits'
  BY <1>1, <1>36 DEF BackgroundViewed, ApplyView, ClearEditing
<1>37. ASSUME NEW v \in views, BuildView(v)
      PROVE  WaitFits'
  BY <1>1, <1>37 DEF BuildView
<1>38. ASSUME NEW w \in {"command", "links"}, ViewIdle(w)
      PROVE  WaitFits'
  BY <1>1, <1>38 DEF ViewIdle, Sent
<1> QED BY CommandsBegin, <1>2, <1>3, <1>4, <1>5, <1>6, <1>7, <1>8, <1>9, <1>10, <1>11, <1>12, <1>13, <1>14,
           <1>15, <1>16, <1>17, <1>18, <1>19, <1>20, <1>21, <1>22, <1>23, <1>24, <1>25, <1>26, <1>27, <1>28,
           <1>29, <1>30, <1>31, <1>32, <1>33, <1>34, <1>35, <1>36, <1>37, <1>38
       DEF Next, Command, Loops, Waiters, Serve, User, Failures

\* Every step keeps PageFits: a response brings the page to the warm view.
LEMMA PageKept ==
    ASSUME BaseInv, KeepInv, Next, Answered
    PROVE  PageFits'
<1> USE DEF Throw, Continue, Await, Now, gateVars, otherVars, historyVars, viewVars, serverVars, domVars,
            loopVars, modeVars, commandVars, PageFits, PageOwed
<1>1. /\ PageFits
      /\ OneRequest
      /\ (editing <=> current # NoNote) /\ current \in Notes \cup {NoNote} /\ Answered
      /\ page \in [Notes -> Texts \cup {NoText}] /\ owed \in [Notes -> 0..MaxTexts]
      /\ warm \in [Notes -> Shown \cup {NotShown}]
      /\ views \subseteq Requests /\ ViewFits
  BY FactsHold
       DEF BaseInv, KeepInv, TodoFacts, DataFacts, TailFits, ProgramFits, First, Adopts, Ends, Sends, Awaits,
           OneRequest
<1> USE DEF OneRequest, Answered
<1>2. CASE Begins
  BY <1>1, <1>2 DEF Begins, Sound
<1>3. CASE Dismisses
  BY <1>1, <1>3 DEF Dismisses
<1>4. CASE Save
  BY <1>1, <1>4 DEF Save, Reconcile, CannotSave, NothingToSave
<1>5. CASE IdleSave
  BY <1>1, <1>5 DEF IdleSave, Reconcile
<1>6. CASE SaveAnswered
  BY <1>1, <1>6 DEF SaveAnswered
<1>7. CASE Split
  BY <1>1, <1>7 DEF Split
<1>8. CASE SplitAnswered
  BY <1>1, <1>8 DEF SplitAnswered
<1>9. CASE Saved
  BY <1>1, <1>9 DEF Saved
<1>10. CASE MaybeCall
  BY <1>1, <1>10 DEF MaybeCall
<1>11. CASE CallAnswered
  BY <1>1, <1>11 DEF CallAnswered
<1>12. CASE Refused
  BY <1>1, <1>12 DEF Refused
<1>13. CASE NoteCreated
  BY <1>1, <1>13 DEF NoteCreated
<1>14. CASE NoteDeleted
  BY <1>1, <1>14 DEF NoteDeleted
<1>15. CASE HistoryAnswered
  BY <1>1, <1>15 DEF HistoryAnswered, ClearEditing
<1>16. CASE OpenDialog
  BY <1>1, <1>16 DEF OpenDialog
<1>17. CASE Forget
  BY <1>1, <1>17 DEF Forget
<1>18. CASE Drop
  BY <1>1, <1>18 DEF Drop, ClearEditing
<1>19. CASE Leave
  BY <1>1, <1>19 DEF Leave, ClearEditing
<1>20. CASE Discard
  BY <1>1, <1>20 DEF Discard
<1>21. CASE Exit
  BY <1>1, <1>21 DEF Exit, ClearEditing
<1>22. CASE Enter
  BY <1>1, <1>22 DEF Enter
<1>23. CASE Swap
  BY <1>1, <1>23 DEF Swap
<1>24. CASE AdoptContent
  BY <1>1, <1>24 DEF AdoptContent, Adopt
<1>25. CASE Refresh
  BY <1>1, <1>25 DEF Refresh, Sent, EditedNote
<1>26. CASE Finish
  BY <1>1, <1>26 DEF Finish
<1>27. CASE ScrollPoll
  BY <1>1, <1>27 DEF ScrollPoll, Sent, EditedNote
<1>28. CASE StartCheck
  BY <1>1, <1>28 DEF StartCheck
<1>29. CASE CheckAnswered
  BY <1>1, <1>29 DEF CheckAnswered
<1>30. CASE TitleTimer
  BY <1>1, <1>30 DEF TitleTimer, Sent, EditedNote
<1>31. CASE Type
  <2>1. current \in Notes /\ UNCHANGED <<warm, views>> /\ page' = [page EXCEPT ![current] = Stored(texts + 1)]
        /\ owed' = [owed EXCEPT ![current] = texts + 1]
    BY <1>1, <1>31 DEF Type
  <2>2. Stored(texts + 1).text = texts + 1
    BY DEF Stored
  <2> QED BY <2>1, <2>2, <1>1
<1>32. CASE CheckFails
  BY <1>1, <1>32 DEF CheckFails, Disconnect, ClearEditing, Counted
<1>33. CASE CommandFails
  BY <1>1, <1>33 DEF CommandFails, Disconnect, ClearEditing, Counted
<1>34. CASE BackgroundFails
  BY <1>1, <1>34 DEF BackgroundFails, Disconnect, ClearEditing, Counted
<1>35. ASSUME NEW v \in views, CommandViewed(v)
      PROVE  PageFits'
  <2>1. ApplyView(v) /\ warm' = warm
    BY <1>35 DEF CommandViewed
  <2>2. /\ v.built /\ page' = ShownAfter(v) /\ v.view = warm /\ (\A u \in views : u = v)
        /\ \A n \in Notes : owed'[n] = owed[n] \/ owed'[n] = 0
    <3>1. Undisturbed
      BY <2>1, InterruptsDoNotDisturb
    <3>2. v.built /\ page' = ShownAfter(v)
      BY <2>1 DEF ApplyView
    <3> QED BY <1>1, <3>1, <3>2 DEF Undisturbed, ViewFits
  <2>3. ASSUME NEW n \in Notes, warm[n] # NotShown
        PROVE  page'[n].text = warm[n].text.text \/ (page'[n] = page[n] /\ n \notin v.payload)
    <3>1. warm[n].text \in Texts
      BY <1>1, <2>3 DEF Shown
    <3> QED BY <2>2, <2>3, <3>1, TextsAre DEF ShownAfter
  <2>4. ASSUME NEW n \in Notes, warm[n] # NotShown
        PROVE  page'[n].text = warm[n].text.text \/ owed'[n] = 0 \/ page'[n].text = owed'[n]
    BY <1>1, <2>2, <2>3, <2>4
  <2> QED BY <2>1, <2>4
<1>36. ASSUME NEW v \in views, BackgroundViewed(v)
      PROVE  PageFits'
  <2>1. ApplyView(v) /\ warm' = warm
    BY <1>36 DEF BackgroundViewed
  <2>2. /\ v.built /\ page' = ShownAfter(v) /\ v.view = warm /\ (\A u \in views : u = v)
        /\ \A n \in Notes : owed'[n] = owed[n] \/ owed'[n] = 0
    <3>1. Undisturbed
      BY <2>1, InterruptsDoNotDisturb
    <3>2. v.built /\ page' = ShownAfter(v)
      BY <2>1 DEF ApplyView
    <3> QED BY <1>1, <3>1, <3>2 DEF Undisturbed, ViewFits
  <2>3. ASSUME NEW n \in Notes, warm[n] # NotShown
        PROVE  page'[n].text = warm[n].text.text \/ (page'[n] = page[n] /\ n \notin v.payload)
    <3>1. warm[n].text \in Texts
      BY <1>1, <2>3 DEF Shown
    <3> QED BY <2>2, <2>3, <3>1, TextsAre DEF ShownAfter
  <2>4. ASSUME NEW n \in Notes, warm[n] # NotShown
        PROVE  page'[n].text = warm[n].text.text \/ owed'[n] = 0 \/ page'[n].text = owed'[n]
    BY <1>1, <2>2, <2>3, <2>4
  <2> QED BY <2>1, <2>4
<1>37. ASSUME NEW v \in views, BuildView(v)
      PROVE  PageFits'
  <2>1. ~v.built /\ UNCHANGED <<page, owed>> /\ (\A u \in views : u = v) /\ v \in Requests
    <3>1. ~v.built /\ UNCHANGED <<page, owed>>
      BY <1>37 DEF BuildView
    <3>2. (\A u \in views : u = v) /\ v \in Requests
      BY <1>1
    <3> QED BY <3>1, <3>2
  <2>2. PICK p \in SUBSET Notes :
          /\ views' = (views \ {v}) \cup {[v EXCEPT !.built = TRUE, !.view = warm', !.payload = p]}
          /\ p = {n \in Notes : warm'[n] # NotShown /\ warm'[n] # warm[n]}
    BY <1>37 DEF BuildView
  <2>3. PICK u \in views' : u.built /\ u.payload = p
    <3>1. [v EXCEPT !.built = TRUE, !.view = warm', !.payload = p].built
      BY <2>1 DEF Requests
    <3>2. [v EXCEPT !.built = TRUE, !.view = warm', !.payload = p].payload = p
      BY <2>1 DEF Requests
    <3> QED BY <2>2, <3>1, <3>2
  <2>4. ASSUME NEW n \in Notes, warm'[n] # NotShown, n \notin p
        PROVE  page[n].text = warm'[n].text.text \/ owed[n] = 0 \/ page[n].text = owed[n]
    <3>1. warm'[n] = warm[n]
      BY <2>2, <2>4
    <3> QED BY <1>1, <2>1, <2>4, <3>1
  <2>5. ASSUME NEW n \in Notes
        PROVE  \/ warm'[n] = NotShown \/ page[n].text = warm'[n].text.text
               \/ owed[n] = 0 \/ page[n].text = owed[n]
               \/ \E w \in views' : w.built /\ n \in w.payload
    BY <2>3, <2>4
  <2> QED BY <2>1, <2>5
<1>38. ASSUME NEW w \in {"command", "links"}, ViewIdle(w)
      PROVE  PageFits'
  BY <1>1, <1>38 DEF ViewIdle, Sent
<1> QED BY CommandsBegin, <1>2, <1>3, <1>4, <1>5, <1>6, <1>7, <1>8, <1>9, <1>10, <1>11, <1>12, <1>13, <1>14,
           <1>15, <1>16, <1>17, <1>18, <1>19, <1>20, <1>21, <1>22, <1>23, <1>24, <1>25, <1>26, <1>27, <1>28,
           <1>29, <1>30, <1>31, <1>32, <1>33, <1>34, <1>35, <1>36, <1>37, <1>38
       DEF Next, Command, Loops, Waiters, Serve, User, Failures

\* Every step keeps ViewFits: while a command waits for its view, the store does not change.
LEMMA ViewKept ==
    ASSUME BaseInv, KeepInv, Next, Answered
    PROVE  ViewFits'
<1> USE DEF Throw, Continue, Await, Now, gateVars, otherVars, historyVars, viewVars, serverVars, domVars,
            loopVars, modeVars, commandVars, ViewFits, EditedNote, OneRequest, Answered
<1>1. /\ \A x : At(x) => running /\ todo # <<>> /\ todo[1] = x
      /\ ~running => todo = <<>>
      /\ todo # <<>> => \A b \in {"saving", "autosaving", "splitting", "calling", "viewing", "waiting"} :
           (<<b>> \o Tail(todo))[1] = b
      /\ ViewFits
      /\ OneRequest
      /\ Answered
      /\ WaitFits
      /\ waiting["command"] # "no" => Now({"waiting"})
      /\ views \subseteq Requests
  BY FactsHold, PutHeads
       DEF BaseInv, KeepInv, TodoFacts, DataFacts, TailFits, ProgramFits, First, Adopts, Ends, Sends, Awaits,
           OneRequest, SentFits
<1> USE DEF WaitFits
<1>2. CASE Begins
  <2>1. ~Now({"viewing"}) /\ UNCHANGED <<views, warm>>
    BY <1>1, <1>2 DEF Begins
  <2> QED BY <2>1, <1>1
<1>3. CASE Dismisses
  BY <1>1, <1>3 DEF Dismisses
<1>4. CASE Save
  <2>1. ~Now({"viewing"}) /\ UNCHANGED <<views, warm>>
    BY <1>1, <1>4 DEF Save, Reconcile, CannotSave, NothingToSave
  <2> QED BY <2>1, <1>1
<1>5. CASE IdleSave
  <2>1. ~Now({"viewing"}) /\ UNCHANGED <<views, warm>>
    BY <1>1, <1>5 DEF IdleSave, Reconcile
  <2> QED BY <2>1, <1>1
<1>6. CASE SaveAnswered
  <2>1. ~Now({"viewing"}) /\ UNCHANGED <<views, warm>>
    BY <1>1, <1>6 DEF SaveAnswered
  <2> QED BY <2>1, <1>1
<1>7. CASE Split
  <2>1. ~Now({"viewing"}) /\ UNCHANGED <<views, warm>>
    BY <1>1, <1>7 DEF Split
  <2> QED BY <2>1, <1>1
<1>8. CASE SplitAnswered
  <2>1. ~Now({"viewing"}) /\ UNCHANGED <<views, warm>>
    BY <1>1, <1>8 DEF SplitAnswered
  <2> QED BY <2>1, <1>1
<1>9. CASE Saved
  <2>1. ~Now({"viewing"}) /\ UNCHANGED <<views, warm>>
    BY <1>1, <1>9 DEF Saved
  <2> QED BY <2>1, <1>1
<1>10. CASE MaybeCall
  <2>1. ~Now({"viewing"}) /\ UNCHANGED <<views, warm>>
    BY <1>1, <1>10 DEF MaybeCall
  <2> QED BY <2>1, <1>1
<1>11. CASE CallAnswered
  <2>1. ~Now({"viewing"}) /\ UNCHANGED <<views, warm>>
    BY <1>1, <1>11 DEF CallAnswered
  <2> QED BY <2>1, <1>1
<1>12. CASE Refused
  <2>1. ~Now({"viewing"}) /\ UNCHANGED <<views, warm>>
    BY <1>1, <1>12 DEF Refused
  <2> QED BY <2>1, <1>1
<1>13. CASE NoteCreated
  <2>1. ~Now({"viewing"}) /\ UNCHANGED <<views, warm>>
    BY <1>1, <1>13 DEF NoteCreated
  <2> QED BY <2>1, <1>1
<1>14. CASE NoteDeleted
  <2>1. ~Now({"viewing"}) /\ UNCHANGED <<views, warm>>
    BY <1>1, <1>14 DEF NoteDeleted
  <2> QED BY <2>1, <1>1
<1>15. CASE HistoryAnswered
  <2>1. ~Now({"viewing"}) /\ UNCHANGED <<views, warm>>
    BY <1>1, <1>15 DEF HistoryAnswered, ClearEditing
  <2> QED BY <2>1, <1>1
<1>16. CASE OpenDialog
  <2>1. ~Now({"viewing"}) /\ UNCHANGED <<views, warm>>
    BY <1>1, <1>16 DEF OpenDialog
  <2> QED BY <2>1, <1>1
<1>17. CASE Forget
  <2>1. ~Now({"viewing"}) /\ UNCHANGED <<views, warm>>
    BY <1>1, <1>17 DEF Forget
  <2> QED BY <2>1, <1>1
<1>18. CASE Drop
  <2>1. ~Now({"viewing"}) /\ UNCHANGED <<views, warm>>
    BY <1>1, <1>18 DEF Drop, ClearEditing
  <2> QED BY <2>1, <1>1
<1>19. CASE Leave
  <2>1. ~Now({"viewing"}) /\ UNCHANGED <<views, warm>>
    BY <1>1, <1>19 DEF Leave, ClearEditing
  <2> QED BY <2>1, <1>1
<1>20. CASE Discard
  <2>1. ~Now({"viewing"}) /\ UNCHANGED <<views, warm>>
    BY <1>1, <1>20 DEF Discard
  <2> QED BY <2>1, <1>1
<1>21. CASE Exit
  <2>1. ~Now({"viewing"}) /\ UNCHANGED <<views, warm>>
    BY <1>1, <1>21 DEF Exit, ClearEditing
  <2> QED BY <2>1, <1>1
<1>22. CASE Enter
  <2>1. ~Now({"viewing"}) /\ UNCHANGED <<views, warm>>
    BY <1>1, <1>22 DEF Enter
  <2> QED BY <2>1, <1>1
<1>23. CASE Swap
  <2>1. ~Now({"viewing"}) /\ UNCHANGED <<views, warm>>
    BY <1>1, <1>23 DEF Swap
  <2> QED BY <2>1, <1>1
<1>24. CASE AdoptContent
  <2>1. ~Now({"viewing"}) /\ UNCHANGED <<views, warm>>
    BY <1>1, <1>24 DEF AdoptContent, Adopt
  <2> QED BY <2>1, <1>1
<1>25. CASE Refresh
  <2>1. ~Now({"viewing"}) /\ UNCHANGED <<warm, editing, current>>
    BY <1>1, <1>25 DEF Refresh
  <2>2. CASE views' = views
    BY <1>1, <2>1, <2>2
  <2>3. CASE views' # views
    <3>1. views' = {Sent("command", EditedNote)} /\ todo' = <<"viewing">> \o Tail(todo) /\ todo # <<>>
      BY <1>1, <1>25, <2>3 DEF Refresh
    <3>2. todo' # <<>> /\ todo'[1] = "viewing"
      BY <1>1, <3>1
    <3>3. \A u \in views' : ~u.built /\ u.by = "command" /\ u.note = EditedNote
      BY <3>1 DEF Sent
    <3> QED BY <2>1, <3>2, <3>3
  <2> QED BY <2>2, <2>3
<1>26. CASE Finish
  <2>1. ~Now({"viewing"}) /\ UNCHANGED <<views, warm>>
    BY <1>1, <1>26 DEF Finish
  <2> QED BY <2>1, <1>1
<1>27. CASE ScrollPoll
  BY <1>1, <1>27 DEF ScrollPoll, Sent, EditedNote
<1>28. CASE StartCheck
  BY <1>1, <1>28 DEF StartCheck
<1>29. CASE CheckAnswered
  BY <1>1, <1>29 DEF CheckAnswered
<1>30. CASE TitleTimer
  BY <1>1, <1>30 DEF TitleTimer, Sent, EditedNote
<1>31. CASE Type
  BY <1>1, <1>31 DEF Type
<1>32. CASE CheckFails
  <2>1. views = {} /\ views' \subseteq views
    BY <1>1, <1>32 DEF CheckFails, CommandFails, BackgroundFails, Counted
  <2> QED BY <2>1
<1>33. CASE CommandFails
  <2>1. views = {} /\ views' \subseteq views
    BY <1>1, <1>33 DEF CheckFails, CommandFails, BackgroundFails, Counted
  <2> QED BY <2>1
<1>34. CASE BackgroundFails
  <2>1. views = {} /\ views' \subseteq views
    BY <1>1, <1>34 DEF CheckFails, CommandFails, BackgroundFails, Counted
  <2> QED BY <2>1
<1>35. ASSUME NEW v \in views, CommandViewed(v)
      PROVE  ViewFits'
  <2>1. views' = {}
    <3>1. views' = views \ {v}
      BY <1>35 DEF CommandViewed, BackgroundViewed, ApplyView
    <3> QED BY <1>1, <3>1
  <2> QED BY <2>1
<1>36. ASSUME NEW v \in views, BackgroundViewed(v)
      PROVE  ViewFits'
  <2>1. views' = {}
    <3>1. views' = views \ {v}
      BY <1>36 DEF CommandViewed, BackgroundViewed, ApplyView
    <3> QED BY <1>1, <3>1
  <2> QED BY <2>1
<1>37. ASSUME NEW v \in views, BuildView(v)
      PROVE  ViewFits'
  <2>1. v \in Requests /\ (\A u \in views : u = v) /\ UNCHANGED <<todo, editing, current, server>>
    <3>1. UNCHANGED <<todo, editing, current, server>>
      BY <1>37 DEF BuildView
    <3> QED BY <1>1, <3>1
  <2>2. PICK p \in SUBSET Notes :
          views' = (views \ {v}) \cup {[v EXCEPT !.built = TRUE, !.view = warm', !.payload = p]}
    BY <1>37 DEF BuildView
  <2>3. \A u \in views' : u.view = warm' /\ u.by = v.by /\ u.note = v.note
    <3>1. [v EXCEPT !.built = TRUE, !.view = warm', !.payload = p].view = warm'
      BY <2>1 DEF Requests
    <3>2. [v EXCEPT !.built = TRUE, !.view = warm', !.payload = p].by = v.by
      BY <2>1 DEF Requests
    <3>3. [v EXCEPT !.built = TRUE, !.view = warm', !.payload = p].note = v.note
      BY <2>1 DEF Requests
    <3> QED BY <2>1, <2>2, <3>1, <3>2, <3>3
  <2>4. \A n \in Notes : warm'[n] # NotShown => warm'[n].text = server[n]
    BY <1>37 DEF BuildView
  <2>5. v.by = "command" => Now({"viewing"}) /\ v.note = EditedNote
    BY <1>1
  <2> QED BY <2>1, <2>3, <2>4, <2>5
<1>38. ASSUME NEW w \in {"command", "links"}, ViewIdle(w)
      PROVE  ViewFits'
  <2>1. UNCHANGED <<warm, editing, current>> /\ views' = {Sent(w, waiting[w])}
    BY <1>38 DEF ViewIdle
  <2>2. \A u \in views' : ~u.built /\ u.by = w /\ u.note = waiting[w]
    BY <2>1 DEF Sent
  <2>3. CASE w = "command"
    <3>1. Now({"waiting"}) /\ ~editing /\ waiting[w] = NoNote
      BY <1>1, <1>38, <2>3 DEF ViewIdle
    <3>2. todo' # <<>> /\ todo'[1] = "viewing"
      BY <1>1, <1>38, <2>3, <3>1 DEF ViewIdle
    <3> QED BY <2>1, <2>2, <3>1, <3>2
  <2>4. CASE w = "links"
    BY <2>2, <2>4
  <2> QED BY <2>3, <2>4
<1> QED BY CommandsBegin, <1>2, <1>3, <1>4, <1>5, <1>6, <1>7, <1>8, <1>9, <1>10, <1>11, <1>12, <1>13, <1>14,
           <1>15, <1>16, <1>17, <1>18, <1>19, <1>20, <1>21, <1>22, <1>23, <1>24, <1>25, <1>26, <1>27, <1>28,
           <1>29, <1>30, <1>31, <1>32, <1>33, <1>34, <1>35, <1>36, <1>37, <1>38
       DEF Next, Command, Loops, Waiters, Serve, User, Failures

\* Every step keeps EditorFits: a refresh returns the typed text, stored or still on the page.
LEMMA EditorKept ==
    ASSUME BaseInv, KeepInv, Next, Answered
    PROVE  EditorFits'
<1> USE DEF Throw, Continue, Await, Now, gateVars, otherVars, historyVars, viewVars, serverVars, domVars,
            loopVars, modeVars, commandVars, EditorFits, PageOwed, Adopts
<1>1. /\ \A x : At(x) => running /\ todo # <<>> /\ todo[1] = x
      /\ ~running => todo = <<>>
      /\ todo # <<>> /\ Tail(todo) # <<>> => (Tail(todo)[1] \in Adopts => todo[1] \in {"refresh", "viewing"})
      /\ todo # <<>> => \A b \in {"saving", "autosaving", "splitting", "calling", "viewing", "waiting"} :
           (<<b>> \o Tail(todo))[1] = b
      /\ EditorFits /\ PageFits /\ ViewFits /\ OneRequest /\ (\A n \in Notes : Kept(n))
      /\ editing => ~Now({"enter"})
      /\ Yielded => todo = <<>> \/ todo[1] \in Awaits
      /\ (editing <=> current # NoNote) /\ current \in Notes \cup {NoNote} /\ NoText.text = 0
      /\ Now({"idleSave"}) => editing
      /\ page \in [Notes -> Texts \cup {NoText}] /\ owed \in [Notes -> 0..MaxTexts]
      /\ server \in [Notes -> Texts \cup {NoText}] /\ warm \in [Notes -> Shown \cup {NotShown}]
  BY FactsHold, PutHeads
       DEF BaseInv, KeepInv, TodoFacts, DataFacts, TailFits, ProgramFits, First, Adopts, Ends, Sends, Awaits,
           OneRequest, EndFits, ModeFits
<1> USE DEF OneRequest, Undisturbed
<1>2. CASE Begins
  BY <1>1, <1>2 DEF Begins, Sound
<1>3. CASE Dismisses
  BY <1>1, <1>3 DEF Dismisses
<1>4. CASE Save
  <2>1. todo # <<>> /\ todo[1] = "save" /\ (todo' = <<>> \/ todo' = Tail(todo) \/ todo' = <<"saving">> \o Tail(todo))
    BY <1>1, <1>4 DEF Save
  <2>2. UNCHANGED <<editing, current, owed, page, got>>
    BY <1>4 DEF Save
  <2>3. content' = content \/ (content # NoText /\ editing)
    BY <1>1, <1>4 DEF Save, Reconcile, CannotSave, NothingToSave
  <2>4. ~Now(Adopts)'
    BY <1>1, <2>1
  <2> QED BY <2>1, <2>2, <2>3, <2>4, <1>1
<1>5. CASE IdleSave
  BY <1>1, <1>5 DEF IdleSave, Reconcile
<1>6. CASE SaveAnswered
  BY <1>1, <1>6 DEF SaveAnswered
<1>7. CASE Split
  BY <1>1, <1>7 DEF Split
<1>8. CASE SplitAnswered
  BY <1>1, <1>8 DEF SplitAnswered
<1>9. CASE Saved
  BY <1>1, <1>9 DEF Saved
<1>10. CASE MaybeCall
  <2>1. todo # <<>> /\ todo[1] = "maybeCall" /\ (todo' = Tail(todo) \/ todo' = <<"calling">> \o Tail(todo))
    BY <1>1, <1>10 DEF MaybeCall
  <2>2. UNCHANGED <<editing, current, content, owed, page, got>>
    BY <1>10 DEF MaybeCall
  <2>3. ~Now(Adopts)'
    BY <1>1, <2>1
  <2> QED BY <2>1, <2>2, <2>3, <1>1
<1>11. CASE CallAnswered
  BY <1>1, <1>11 DEF CallAnswered
<1>12. CASE Refused
  BY <1>1, <1>12 DEF Refused
<1>13. CASE NoteCreated
  BY <1>1, <1>13 DEF NoteCreated
<1>14. CASE NoteDeleted
  BY <1>1, <1>14 DEF NoteDeleted
<1>15. CASE HistoryAnswered
  <2>1. todo # <<>> /\ todo[1] = "undoing" /\ (todo' = <<>> \/ todo' = Tail(todo)) /\ page' = page
    BY <1>1, <1>15 DEF HistoryAnswered
  <2>2. ~Now(Adopts)'
    BY <1>1, <2>1
  <2>3. \/ UNCHANGED <<editing, current, content, owed>>
        \/ UNCHANGED <<editing, current, content>> /\ \E n \in Notes : owed' = [owed EXCEPT ![n] = 0]
        \/ editing' = FALSE /\ content' = NoText
    BY <1>15 DEF HistoryAnswered, ClearEditing
  <2> QED BY <2>1, <2>2, <2>3, <1>1
<1>16. CASE OpenDialog
  BY <1>1, <1>16 DEF OpenDialog
<1>17. CASE Forget
  BY <1>1, <1>17 DEF Forget
<1>18. CASE Drop
  BY <1>1, <1>18 DEF Drop, ClearEditing
<1>19. CASE Leave
  BY <1>1, <1>19 DEF Leave, ClearEditing
<1>20. CASE Discard
  BY <1>1, <1>20 DEF Discard
<1>21. CASE Exit
  BY <1>1, <1>21 DEF Exit, ClearEditing
<1>22. CASE Enter
  <2>1. content' = NoText /\ editing' = TRUE
    BY <1>1, <1>22 DEF Enter
  <2>2. ~Now(Adopts)'
    BY <1>1, <1>22 DEF Enter
  <2> QED BY <2>1, <2>2
<1>23. CASE Swap
  BY <1>1, <1>23 DEF Swap
<1>24. CASE AdoptContent
  BY <1>1, <1>24 DEF AdoptContent, Adopt
<1>25. CASE Refresh
  BY <1>1, <1>25 DEF Refresh, Sent, EditedNote
<1>26. CASE Finish
  BY <1>1, <1>26 DEF Finish
<1>27. CASE ScrollPoll
  BY <1>1, <1>27 DEF ScrollPoll, Sent, EditedNote
<1>28. CASE StartCheck
  BY <1>1, <1>28 DEF StartCheck
<1>29. CASE CheckAnswered
  BY <1>1, <1>29 DEF CheckAnswered
<1>30. CASE TitleTimer
  BY <1>1, <1>30 DEF TitleTimer, Sent, EditedNote
<1>31. CASE Type
  <2>1. current \in Notes /\ UNCHANGED <<editing, current, todo>>
          /\ page' = [page EXCEPT ![current] = Stored(texts + 1)]
        /\ owed' = [owed EXCEPT ![current] = texts + 1] /\ todo = <<>> /\ editing
    BY <1>1, <1>31 DEF Type
  <2>2. Stored(texts + 1).text = texts + 1
    BY DEF Stored
  <2> QED BY <2>1, <2>2, <1>1
<1>32. CASE CheckFails
  <2>1. Undisturbed /\ UNCHANGED <<todo, got, page>>
    BY InterruptsDoNotDisturb, <1>32 DEF CheckFails
  <2>2. ~Now(Adopts)
    BY <1>1, <1>32 DEF CheckFails, Awaits
  <2> QED BY <2>1, <2>2, <1>1
<1>33. CASE CommandFails
  <2>1. Undisturbed /\ page' = page /\ todo' = <<>>
    BY InterruptsDoNotDisturb, <1>33 DEF CommandFails
  <2> QED BY <2>1, <1>1
<1>34. CASE BackgroundFails
  <2>1. Undisturbed /\ UNCHANGED <<todo, got, page>>
    BY InterruptsDoNotDisturb, <1>34 DEF BackgroundFails
  <2>2. ~Now(Adopts)
    BY <1>1, <1>34 DEF BackgroundFails, Awaits
  <2> QED BY <2>1, <2>2, <1>1
<1>35. ASSUME NEW v \in views, CommandViewed(v)
      PROVE  EditorFits'
  <2>1. Undisturbed /\ Now({"viewing"}) /\ todo' = Tail(todo)
    BY <1>1, InterruptsDoNotDisturb, <1>35 DEF CommandViewed
  <2>2. ASSUME InView(v)
        PROVE  editing' /\ current' = current /\ (owed'[current] = 0 \/ page'[current].text = owed'[current])
    <3>1. /\ v.built /\ v.view = warm /\ v.note = EditedNote /\ v.note # NoNote /\ warm[v.note] # NotShown
          /\ \A n \in Notes : warm[n] # NotShown => warm[n].text = server[n]
          /\ (\A u \in views : u = v) /\ page' = ShownAfter(v) /\ UNCHANGED <<editing, current>>
      <4>1. v.built /\ page' = ShownAfter(v) /\ v.by = "command" /\ UNCHANGED <<editing, current>>
        BY <2>2, <1>35 DEF CommandViewed, ApplyView
      <4>2. \A u \in views : u = v
        BY <1>1
      <4> QED BY <1>1, <2>2, <4>1, <4>2 DEF InView, ViewFits
    <3>2. editing /\ current \in Notes /\ v.note = current
      BY <1>1, <3>1 DEF EditedNote
    <3>3. warm[current].text \in Texts /\ warm[current].text = server[current] /\ server[current] # NoText
      BY <1>1, <3>1, <3>2, TextsAre DEF Shown
    <3>4. CASE owed'[current] # 0
      <4>1. page'[current] = page[current] /\ owed' = owed
        BY <1>1, <2>1, <3>1, <3>2, <3>4 DEF Undisturbed
      <4>2. server[current].text = owed[current] \/ page[current].text = owed[current]
        BY <1>1, <3>2, <3>3, <3>4, <4>1 DEF Kept, Safe
      <4>3. CASE current \in v.payload
        <5>1. page'[current].text = server[current].text
          BY <3>1, <3>2, <3>3, <4>3, TextsAre DEF ShownAfter
        <5> QED BY <3>1, <3>2, <4>1, <4>2, <5>1
      <4>4. CASE current \notin v.payload
        <5>1. page[current].text = warm[current].text.text \/ page[current].text = owed[current]
          BY <1>1, <3>1, <3>2, <3>4, <4>1, <4>4 DEF PageFits
        <5> QED BY <3>1, <3>2, <3>3, <4>1, <4>2, <5>1
      <4> QED BY <4>3, <4>4
    <3> QED BY <3>1, <3>2, <3>4
  <2>3. ~InView(v) => got' = NoText
    BY <1>35 DEF CommandViewed
  <2> QED BY <1>1, <2>1, <2>2, <2>3 DEF Undisturbed
<1>36. ASSUME NEW v \in views, BackgroundViewed(v)
      PROVE  EditorFits'
  <2>1. Undisturbed /\ UNCHANGED <<todo, got>>
    BY InterruptsDoNotDisturb, <1>36 DEF BackgroundViewed
  <2>2. ~Now(Adopts)
    BY <1>1, <1>36 DEF BackgroundViewed, Awaits
  <2> QED BY <2>1, <2>2, <1>1
<1>37. ASSUME NEW v \in views, BuildView(v)
      PROVE  EditorFits'
  BY <1>1, <1>37 DEF BuildView
<1>38. ASSUME NEW w \in {"command", "links"}, ViewIdle(w)
      PROVE  EditorFits'
  BY <1>1, <1>38 DEF ViewIdle, Sent
<1> QED BY CommandsBegin, <1>2, <1>3, <1>4, <1>5, <1>6, <1>7, <1>8, <1>9, <1>10, <1>11, <1>12, <1>13, <1>14,
           <1>15, <1>16, <1>17, <1>18, <1>19, <1>20, <1>21, <1>22, <1>23, <1>24, <1>25, <1>26, <1>27, <1>28,
           <1>29, <1>30, <1>31, <1>32, <1>33, <1>34, <1>35, <1>36, <1>37, <1>38
       DEF Next, Command, Loops, Waiters, Serve, User, Failures

\* Every step keeps SendingFits.
LEMMA SendingKept ==
    ASSUME BaseInv, KeepInv, Next, Answered
    PROVE  SendingFits'
<1> USE DEF Throw, Continue, Await, Now, gateVars, otherVars, historyVars, viewVars, serverVars, domVars,
            loopVars, modeVars, commandVars, SendingFits, PageOwed, Sends
<1>1. /\ \A x : At(x) => running /\ todo # <<>> /\ todo[1] = x
      /\ ~running => todo = <<>>
      /\ todo # <<>> /\ Tail(todo) # <<>> => (Tail(todo)[1] \notin Sends)
      /\ todo # <<>> => \A b \in {"saving", "autosaving", "splitting", "calling", "viewing", "waiting"} :
           (<<b>> \o Tail(todo))[1] = b
      /\ SendingFits
      /\ editing /\ content # NoText => PageOwed(current)
      /\ Now(Sends) => sending.note \in Notes /\ (editing => current = sending.note)
      /\ (editing <=> current # NoNote) /\ current \in Notes \cup {NoNote}
      /\ Now({"idleSave", "split"}) => editing
      /\ page \in [Notes -> Texts \cup {NoText}] /\ owed \in [Notes -> 0..MaxTexts]
  BY FactsHold, PutHeads
       DEF BaseInv, KeepInv, TodoFacts, DataFacts, TailFits, ProgramFits, First, Adopts, Ends, Sends, Awaits,
           EditorFits, ModeFits, SentFits
<1>2. CASE Begins
  BY <1>1, <1>2 DEF Begins, Sound
<1>3. CASE Dismisses
  BY <1>1, <1>3 DEF Dismisses
<1>4. CASE Save
  <2>1. todo # <<>> /\ UNCHANGED <<editing, current, owed, page>>
    BY <1>1, <1>4 DEF Save, Reconcile, CannotSave, NothingToSave
  <2>2. \/ todo' = <<>> \/ todo' = Tail(todo)
        \/ /\ todo' = <<"saving">> \o Tail(todo) /\ editing /\ (content # NoText \/ "saving" = "splitting")
           /\ sending' = [note |-> current, text |-> page[current]]
    BY <1>1, <1>4 DEF Save, Reconcile, CannotSave, NothingToSave
  <2>3. CASE todo' = <<>> \/ todo' = Tail(todo)
    BY <1>1, <2>1, <2>3
  <2>4. CASE /\ todo' = <<"saving">> \o Tail(todo) /\ editing /\ (content # NoText \/ "saving" = "splitting")
             /\ sending' = [note |-> current, text |-> page[current]]
    <3>1. sending'.note = current /\ sending'.text = page[current] /\ todo'[1] = "saving"
      BY <1>1, <2>1, <2>4
    <3> QED BY <1>1, <2>1, <2>4, <3>1
  <2> QED BY <2>2, <2>3, <2>4
<1>5. CASE IdleSave
  <2>1. todo # <<>> /\ UNCHANGED <<editing, current, owed, page>>
    BY <1>1, <1>5 DEF IdleSave, Reconcile
  <2>2. \/ todo' = <<>> \/ todo' = Tail(todo)
        \/ /\ todo' = <<"autosaving">> \o Tail(todo) /\ editing /\ (content # NoText \/ "autosaving" = "splitting")
           /\ sending' = [note |-> current, text |-> page[current]]
    BY <1>1, <1>5 DEF IdleSave, Reconcile
  <2>3. CASE todo' = <<>> \/ todo' = Tail(todo)
    BY <1>1, <2>1, <2>3
  <2>4. CASE /\ todo' = <<"autosaving">> \o Tail(todo) /\ editing /\ (content # NoText \/ "autosaving" = "splitting")
             /\ sending' = [note |-> current, text |-> page[current]]
    <3>1. sending'.note = current /\ sending'.text = page[current] /\ todo'[1] = "autosaving"
      BY <1>1, <2>1, <2>4
    <3> QED BY <1>1, <2>1, <2>4, <3>1
  <2> QED BY <2>2, <2>3, <2>4
<1>6. CASE SaveAnswered
  BY <1>1, <1>6 DEF SaveAnswered
<1>7. CASE Split
  <2>1. todo # <<>> /\ UNCHANGED <<editing, current, owed, page>>
    BY <1>1, <1>7 DEF Split
  <2>2. \/ todo' = <<>> \/ todo' = Tail(todo)
        \/ /\ todo' = <<"splitting">> \o Tail(todo) /\ editing /\ (content # NoText \/ "splitting" = "splitting")
           /\ sending' = [note |-> current, text |-> page[current]]
    BY <1>1, <1>7 DEF Split
  <2>3. CASE todo' = <<>> \/ todo' = Tail(todo)
    BY <1>1, <2>1, <2>3
  <2>4. CASE /\ todo' = <<"splitting">> \o Tail(todo) /\ editing /\ (content # NoText \/ "splitting" = "splitting")
             /\ sending' = [note |-> current, text |-> page[current]]
    <3>1. sending'.note = current /\ sending'.text = page[current] /\ todo'[1] = "splitting"
      BY <1>1, <2>1, <2>4
    <3> QED BY <1>1, <2>1, <2>4, <3>1
  <2> QED BY <2>2, <2>3, <2>4
<1>8. CASE SplitAnswered
  BY <1>1, <1>8 DEF SplitAnswered
<1>9. CASE Saved
  BY <1>1, <1>9 DEF Saved
<1>10. CASE MaybeCall
  BY <1>1, <1>10 DEF MaybeCall
<1>11. CASE CallAnswered
  BY <1>1, <1>11 DEF CallAnswered
<1>12. CASE Refused
  BY <1>1, <1>12 DEF Refused
<1>13. CASE NoteCreated
  BY <1>1, <1>13 DEF NoteCreated
<1>14. CASE NoteDeleted
  BY <1>1, <1>14 DEF NoteDeleted
<1>15. CASE HistoryAnswered
  BY <1>1, <1>15 DEF HistoryAnswered, ClearEditing
<1>16. CASE OpenDialog
  BY <1>1, <1>16 DEF OpenDialog
<1>17. CASE Forget
  BY <1>1, <1>17 DEF Forget
<1>18. CASE Drop
  BY <1>1, <1>18 DEF Drop, ClearEditing
<1>19. CASE Leave
  BY <1>1, <1>19 DEF Leave, ClearEditing
<1>20. CASE Discard
  BY <1>1, <1>20 DEF Discard
<1>21. CASE Exit
  BY <1>1, <1>21 DEF Exit, ClearEditing
<1>22. CASE Enter
  BY <1>1, <1>22 DEF Enter
<1>23. CASE Swap
  BY <1>1, <1>23 DEF Swap
<1>24. CASE AdoptContent
  BY <1>1, <1>24 DEF AdoptContent, Adopt
<1>25. CASE Refresh
  BY <1>1, <1>25 DEF Refresh, Sent, EditedNote
<1>26. CASE Finish
  BY <1>1, <1>26 DEF Finish
<1>27. CASE ScrollPoll
  BY <1>1, <1>27 DEF ScrollPoll, Sent, EditedNote
<1>28. CASE StartCheck
  BY <1>1, <1>28 DEF StartCheck
<1>29. CASE CheckAnswered
  BY <1>1, <1>29 DEF CheckAnswered
<1>30. CASE TitleTimer
  BY <1>1, <1>30 DEF TitleTimer, Sent, EditedNote
<1>31. CASE Type
  <2>1. todo' = <<>>
    BY <1>1, <1>31 DEF Type
  <2> QED BY <2>1
<1>32. CASE CheckFails
  <2>1. Undisturbed /\ UNCHANGED <<todo, sending>>
    BY InterruptsDoNotDisturb, <1>32 DEF CheckFails
  <2> QED BY <2>1, <1>1 DEF Undisturbed
<1>33. CASE CommandFails
  BY <1>1, <1>33 DEF CommandFails, Disconnect, ClearEditing, Counted
<1>34. CASE BackgroundFails
  <2>1. Undisturbed /\ UNCHANGED <<todo, sending>>
    BY InterruptsDoNotDisturb, <1>34 DEF BackgroundFails
  <2> QED BY <2>1, <1>1 DEF Undisturbed
<1>35. ASSUME NEW v \in views, CommandViewed(v)
      PROVE  SendingFits'
  BY <1>1, <1>35 DEF CommandViewed, ApplyView, ClearEditing
<1>36. ASSUME NEW v \in views, BackgroundViewed(v)
      PROVE  SendingFits'
  <2>1. Undisturbed /\ UNCHANGED <<todo, sending>>
    BY InterruptsDoNotDisturb, <1>36 DEF BackgroundViewed
  <2> QED BY <2>1, <1>1 DEF Undisturbed
<1>37. ASSUME NEW v \in views, BuildView(v)
      PROVE  SendingFits'
  BY <1>1, <1>37 DEF BuildView
<1>38. ASSUME NEW w \in {"command", "links"}, ViewIdle(w)
      PROVE  SendingFits'
  BY <1>1, <1>38 DEF ViewIdle, Sent
<1> QED BY CommandsBegin, <1>2, <1>3, <1>4, <1>5, <1>6, <1>7, <1>8, <1>9, <1>10, <1>11, <1>12, <1>13, <1>14,
           <1>15, <1>16, <1>17, <1>18, <1>19, <1>20, <1>21, <1>22, <1>23, <1>24, <1>25, <1>26, <1>27, <1>28,
           <1>29, <1>30, <1>31, <1>32, <1>33, <1>34, <1>35, <1>36, <1>37, <1>38
       DEF Next, Command, Loops, Waiters, Serve, User, Failures

\* Every step keeps the typed text of every note.
LEMMA TextKept ==
    ASSUME BaseInv, KeepInv, Next, Answered
    PROVE  (\A n \in Notes : Kept(n))'
<1> USE DEF Throw, Continue, Await, Now, gateVars, otherVars, historyVars, viewVars, serverVars, domVars,
            loopVars, modeVars, commandVars, Kept, Safe
<1>1. /\ \A x : At(x) => running /\ todo # <<>> /\ todo[1] = x
      /\ ~running => todo = <<>>
      /\ \A n \in Notes : Kept(n)
      /\ (editing <=> current # NoNote) /\ current \in Notes \cup {NoNote} /\ NoNote \notin Notes /\ NoText.text = 0
      /\ editing /\ Now(Ends) => Safe(current)
      /\ editing => ~Now({"enter"})
      /\ editing /\ Now({"discard"}) => page[current] = NoText
      /\ editing /\ Now({"undoing"}) => ~dirty
      /\ editing /\ Now({"saved"}) => owed[current] = 0
      /\ \A n \in Notes : n \notin made => owed[n] = 0
      /\ Now(Sends) /\ ~editing => owed[sending.note] = 0
      /\ Now({"saving", "autosaving"}) /\ owed[sending.note] # 0 => sending.text.text = owed[sending.note]
      /\ Now({"splitting"}) /\ editing => connected
      /\ running /\ Yielded /\ sending # NothingSent => Now(Sends)
      /\ "swap" \in Left(todo) => editing \/ content = NoText
      /\ "forget" \in Left(todo) => ~editing
      /\ todo # <<>> => todo[1] \in Left(todo)
      /\ Now(Sends) => sending.note \in Notes /\ (editing => current = sending.note)
      /\ server \in [Notes -> Texts \cup {NoText}]
      /\ page \in [Notes -> Texts \cup {NoText}] /\ owed \in [Notes -> 0..MaxTexts]
  BY FactsHold, PutHeads
       DEF BaseInv, KeepInv, TodoFacts, DataFacts, TailFits, ProgramFits, First, Adopts, Ends, Sends, Awaits,
           EditorFits, ModeFits, SentFits, EndFits, SendingFits, MadeFits, Yielded
<1>2. CASE Begins
  BY <1>1, <1>2 DEF Begins, Sound
<1>3. CASE Dismisses
  BY <1>1, <1>3 DEF Dismisses
<1>4. CASE Save
  BY <1>1, <1>4 DEF Save, Reconcile, CannotSave, NothingToSave
<1>5. CASE IdleSave
  BY <1>1, <1>5 DEF IdleSave, Reconcile
<1>6. CASE SaveAnswered
  <2>1. /\ Now({"saving", "autosaving"}) /\ server' = [server EXCEPT ![sending.note] = sending.text]
        /\ UNCHANGED <<editing, current, owed, page>>
    BY <1>1, <1>6 DEF SaveAnswered
  <2>2. sending.note \in Notes /\ (editing => current = sending.note)
    BY <1>1, <2>1 DEF Sends
  <2>3. owed[sending.note] = 0 \/ sending.text.text = owed[sending.note]
    BY <1>1, <2>1
  <2>4. \A n \in Notes : n # sending.note => server'[n] = server[n]
    BY <1>1, <2>1
  <2>5. server'[sending.note] = sending.text
    BY <1>1, <2>1, <2>2
  <2>6. ASSUME NEW n \in Notes
        PROVE  owed'[n] = 0 \/ server'[n] = NoText \/ server'[n].text = owed'[n]
    <3>1. CASE n = sending.note
      BY <2>1, <2>3, <2>5, <3>1
    <3>2. CASE n # sending.note
      BY <1>1, <2>1, <2>2, <2>4, <3>2
    <3> QED BY <3>1, <3>2
  <2> QED BY <2>6
<1>7. CASE Split
  BY <1>1, <1>7 DEF Split
<1>8. CASE SplitAnswered
  BY <1>1, <1>8 DEF SplitAnswered
<1>9. CASE Saved
  <2>1. Now({"saved"}) /\ UNCHANGED <<editing, current, owed, page, server>>
    BY <1>1, <1>9 DEF Saved
  <2>2. editing => owed[current] = 0
    BY <1>1, <2>1
  <2> QED BY <2>1, <2>2, <1>1
<1>10. CASE MaybeCall
  BY <1>1, <1>10 DEF MaybeCall
<1>11. CASE CallAnswered
  BY <1>1, <1>11 DEF CallAnswered
<1>12. CASE Refused
  BY <1>1, <1>12 DEF Refused
<1>13. CASE NoteCreated
  <2>1. UNCHANGED <<editing, current, dirty, owed, page>>
    BY <1>13 DEF NoteCreated
  <2>2. PICK m \in Notes : m \notin made /\ server' = [server EXCEPT ![m] = Stored(0)]
    BY <1>13 DEF NoteCreated
  <2>3. owed[m] = 0
    BY <1>1, <2>2
  <2> QED BY <1>1, <2>1, <2>2, <2>3
<1>14. CASE NoteDeleted
  BY <1>1, <1>14 DEF NoteDeleted
<1>15. CASE HistoryAnswered
  <2>1. Now({"undoing"}) /\ page' = page
    BY <1>1, <1>15 DEF HistoryAnswered
  <2>2. \A n \in Notes : owed[n] = 0 \/ server[n] = NoText \/ server[n].text = owed[n]
    BY <1>1, <2>1
  <2>3. \/ UNCHANGED <<server, owed>>
        \/ \E m \in Notes : /\ server' = [server EXCEPT ![m] = Stored(0)] \/ server' = [server EXCEPT ![m] = NoText]
                            /\ owed' = [owed EXCEPT ![m] = 0]
    BY <1>15 DEF HistoryAnswered
  <2>4. \A n \in Notes : owed'[n] = 0 \/ server'[n] = NoText \/ server'[n].text = owed'[n]
    BY <1>1, <2>2, <2>3
  <2> QED BY <2>4
<1>16. CASE OpenDialog
  BY <1>1, <1>16 DEF OpenDialog
<1>17. CASE Forget
  BY <1>1, <1>17 DEF Forget
<1>18. CASE Drop
  BY <1>1, <1>18 DEF Drop, ClearEditing
<1>19. CASE Leave
  <2>1. Now({"leave"}) /\ UNCHANGED <<dirty, owed, page, server>>
    BY <1>1, <1>19 DEF Leave
  <2>2. editing' = FALSE \/ UNCHANGED <<editing, current>>
    BY <1>19 DEF Leave, ClearEditing
  <2>3. \A n \in Notes : Safe(n)
    BY <1>1, <2>1 DEF Ends
  <2> QED BY <2>1, <2>2, <2>3
<1>20. CASE Discard
  <2>1. Now({"discard"}) /\ UNCHANGED <<owed, page, server>>
    BY <1>1, <1>20 DEF Discard
  <2>2. \A n \in Notes : Safe(n)
    BY <1>1, <2>1
  <2> QED BY <2>1, <2>2
<1>21. CASE Exit
  BY <1>1, <1>21 DEF Exit, ClearEditing
<1>22. CASE Enter
  <2>1. Now({"enter"}) /\ UNCHANGED <<dirty, owed, page, server>>
    BY <1>1, <1>22 DEF Enter
  <2>2. \A n \in Notes : Safe(n)
    BY <1>1, <2>1
  <2> QED BY <2>1, <2>2
<1>23. CASE Swap
  <2>1. Now({"swap"}) /\ UNCHANGED <<dirty, owed, page, server>>
    BY <1>1, <1>23 DEF Swap
  <2>2. \A n \in Notes : Safe(n)
    BY <1>1, <2>1 DEF Ends
  <2> QED BY <2>1, <2>2
<1>24. CASE AdoptContent
  BY <1>1, <1>24 DEF AdoptContent, Adopt
<1>25. CASE Refresh
  BY <1>1, <1>25 DEF Refresh, Sent, EditedNote
<1>26. CASE Finish
  BY <1>1, <1>26 DEF Finish
<1>27. CASE ScrollPoll
  BY <1>1, <1>27 DEF ScrollPoll, Sent, EditedNote
<1>28. CASE StartCheck
  BY <1>1, <1>28 DEF StartCheck
<1>29. CASE CheckAnswered
  BY <1>1, <1>29 DEF CheckAnswered
<1>30. CASE TitleTimer
  BY <1>1, <1>30 DEF TitleTimer, Sent, EditedNote
<1>31. CASE Type
  <2>1. current \in Notes /\ UNCHANGED <<editing, current, server>> /\ editing /\ dirty' = TRUE
        /\ page' = [page EXCEPT ![current] = Stored(texts + 1)] /\ owed' = [owed EXCEPT ![current] = texts + 1]
    BY <1>1, <1>31 DEF Type
  <2>2. Stored(texts + 1).text = texts + 1
    BY DEF Stored
  <2> QED BY <2>1, <2>2, <1>1
<1>32. CASE CheckFails
  BY <1>1, <1>32 DEF CheckFails, Disconnect, ClearEditing, Counted
<1>33. CASE CommandFails
  <2>1. Undisturbed /\ UNCHANGED <<dirty, page>>
    BY InterruptsDoNotDisturb, <1>33 DEF CommandFails
  <2>2. \/ server' = server
        \/ /\ server' = [server EXCEPT ![sending.note] = sending.text]
           /\ Now(Sends) /\ ~connected'
    BY <1>1, <1>33 DEF CommandFails
  <2>3. ASSUME Now(Sends), ~connected'
        PROVE  /\ sending.note \in Notes
               /\ owed'[sending.note] = 0 \/ sending.text.text = owed'[sending.note]
    <3>1. sending.note \in Notes /\ (editing => current = sending.note) /\ (~editing => owed[sending.note] = 0)
      BY <1>1, <2>3
    <3>2. CASE todo[1] = "splitting" /\ editing
      <4>1. connected /\ connected' # connected
        BY <1>1, <2>3, <3>2
      <4>2. Disconnect
        BY <4>1, <1>33 DEF CommandFails
      <4>3. owed' = [owed EXCEPT ![current] = 0]
        BY <3>2, <4>2 DEF Disconnect
      <4> QED BY <1>1, <3>1, <3>2, <4>3
    <3>3. CASE ~(todo[1] = "splitting" /\ editing)
      <4>1. owed[sending.note] = 0 \/ sending.text.text = owed[sending.note]
        BY <1>1, <2>3, <3>1, <3>3 DEF Sends
      <4> QED BY <1>1, <2>1, <3>1, <4>1 DEF Undisturbed
    <3> QED BY <3>1, <3>2, <3>3
  <2>4. ASSUME NEW n \in Notes
        PROVE  Kept(n)'
    <3>1. owed'[n] = 0 \/ (owed'[n] = owed[n] /\ (editing /\ n = current => editing' /\ current' = current))
      BY <1>1, <2>1 DEF Undisturbed
    <3>2. server'[n] = server[n] \/ owed'[n] = 0 \/ server'[n].text = owed'[n]
      BY <1>1, <2>2, <2>3
    <3> QED BY <1>1, <2>1, <3>1, <3>2
  <2> QED BY <2>4
<1>34. CASE BackgroundFails
  BY <1>1, <1>34 DEF BackgroundFails, Disconnect, ClearEditing, Counted
<1>35. ASSUME NEW v \in views, CommandViewed(v)
      PROVE  (\A n \in Notes : Kept(n))'
  BY <1>1, <1>35 DEF CommandViewed, ApplyView, ClearEditing
<1>36. ASSUME NEW v \in views, BackgroundViewed(v)
      PROVE  (\A n \in Notes : Kept(n))'
  BY <1>1, <1>36 DEF BackgroundViewed, ApplyView, ClearEditing
<1>37. ASSUME NEW v \in views, BuildView(v)
      PROVE  (\A n \in Notes : Kept(n))'
  BY <1>1, <1>37 DEF BuildView
<1>38. ASSUME NEW w \in {"command", "links"}, ViewIdle(w)
      PROVE  (\A n \in Notes : Kept(n))'
  BY <1>1, <1>38 DEF ViewIdle, Sent
<1> QED BY CommandsBegin, <1>2, <1>3, <1>4, <1>5, <1>6, <1>7, <1>8, <1>9, <1>10, <1>11, <1>12, <1>13, <1>14,
           <1>15, <1>16, <1>17, <1>18, <1>19, <1>20, <1>21, <1>22, <1>23, <1>24, <1>25, <1>26, <1>27, <1>28,
           <1>29, <1>30, <1>31, <1>32, <1>33, <1>34, <1>35, <1>36, <1>37, <1>38
       DEF Next, Command, Loops, Waiters, Serve, User, Failures

\* The next step but the call about it ends the edit.
Ahead(s) ==
    /\ s # <<>>
    /\ \/ s[1] \in Ends
       \/ s[1] \in {"maybeCall", "calling"} /\ Len(s) >= 2 /\ s[2] \in Ends

\* An end comes up only after the save of the note, or after it is gone from the page.
LEMMA AheadSteps ==
    ASSUME BaseInv, KeepInv
    PROVE  /\ editing /\ Ahead(todo) => Safe(current)
           /\ ~Ahead(<<>>) /\ \A p, n : Sound(p, n) => ~Ahead(p)
           /\ todo # <<>> /\ Ahead(Tail(todo)) => todo[1] \in {"maybeCall", "calling", "discard", "save", "saving"}
           /\ todo # <<>> /\ Ahead(Tail(todo)) /\ todo[1] \notin {"save", "saving"} /\ editing => Safe(current)
           /\ At("maybeCall") /\ editing /\ Ahead(<<"calling">> \o Tail(todo)) => Safe(current)
           /\ todo # <<>> => \A b \in Awaits \ {"calling"} : ~Ahead(<<b>> \o Tail(todo))
           /\ Ahead(todo) /\ Yielded => todo[1] = "calling"
<1>1. TodoFacts /\ DataFacts /\ EndFits /\ \A n \in Notes : Kept(n)
  BY FactsHold DEF KeepInv
<1>2. editing /\ Ahead(todo) => Safe(current)
  BY <1>1 DEF Ahead, EndFits, Now
<1>3. ~Ahead(<<>>) /\ \A p, n : Sound(p, n) => ~Ahead(p)
  BY DEF Ahead, Sound
<1>4. ASSUME todo # <<>>, Ahead(Tail(todo))
      PROVE  /\ todo[1] \in {"maybeCall", "calling", "discard", "save", "saving"}
             /\ todo[1] \notin {"save", "saving"} /\ editing => Safe(current)
  <2>1. TailFits(todo, Tail(todo)) /\ Tail(todo) # <<>>
    BY <1>1, <1>4 DEF TodoFacts, Ahead
  <2>2. CASE Tail(todo)[1] \in Ends
    <3>1. todo[1] \in {"maybeCall", "calling", "discard"} /\ Len(todo) >= 2 /\ todo[2] \in Ends
      BY <2>1, <2>2 DEF TailFits
    <3>2. todo[1] = "discard" /\ editing => Safe(current)
      BY <1>1, <1>4 DEF EndFits, Now, Kept, Safe, DataFacts
    <3> QED BY <1>1, <1>4, <3>1, <3>2 DEF EndFits, Now
  <2>3. CASE Tail(todo)[1] \notin Ends
    BY <1>4, <2>1, <2>3 DEF TailFits, Ahead
  <2> QED BY <2>2, <2>3
<1>5. At("maybeCall") /\ editing /\ Ahead(<<"calling">> \o Tail(todo)) => Safe(current)
  <2> SUFFICES ASSUME At("maybeCall"), editing, Ahead(<<"calling">> \o Tail(todo))
               PROVE  Safe(current)
    OBVIOUS
  <2>1. todo # <<>> /\ todo[1] = "maybeCall" /\ PutFits(todo, "calling", <<"calling">> \o Tail(todo))
    BY <1>1 DEF TodoFacts
  <2>2. Len(todo) >= 2 /\ todo[2] \in Ends
    BY <1>1, <2>1 DEF PutFits, Ahead, Ends
  <2> QED BY <1>1, <2>1, <2>2 DEF EndFits, Now
<1>6. todo # <<>> => \A b \in Awaits \ {"calling"} : ~Ahead(<<b>> \o Tail(todo))
  BY PutHeads DEF Ahead, Ends, Awaits
<1>7. Ahead(todo) /\ Yielded => todo[1] = "calling"
  BY <1>1 DEF TodoFacts, Ahead, Awaits, Ends
<1> QED BY <1>2, <1>3, <1>4, <1>5, <1>6, <1>7

\* Every step keeps that a note whose edit is about to end is stored.
LEMMA EndsAreSafe ==
    ASSUME BaseInv, KeepInv, Next, Answered
    PROVE  (editing /\ Ahead(todo) => Safe(current))'
<1> USE DEF Throw, Continue, Await, Now, gateVars, otherVars, historyVars, viewVars, serverVars, domVars,
            loopVars, modeVars, commandVars, Safe
<1>1. /\ \A x : At(x) => running /\ todo # <<>> /\ todo[1] = x
      /\ ~running => todo = <<>>
      /\ editing /\ Ahead(todo) => Safe(current)
      /\ ~Ahead(<<>>) /\ \A p, n : Sound(p, n) => ~Ahead(p)
      /\ todo # <<>> /\ Ahead(Tail(todo)) => todo[1] \in {"maybeCall", "calling", "discard", "save", "saving"}
      /\ todo # <<>> /\ Ahead(Tail(todo)) /\ todo[1] \notin {"save", "saving"} /\ editing => Safe(current)
      /\ At("maybeCall") /\ editing /\ Ahead(<<"calling">> \o Tail(todo)) => Safe(current)
      /\ todo # <<>> => \A b \in Awaits \ {"calling"} : ~Ahead(<<b>> \o Tail(todo))
      /\ Ahead(todo) /\ Yielded => todo[1] = "calling"
      /\ \A n \in Notes : Kept(n)
      /\ Now(Sends) /\ ~editing => owed[sending.note] = 0
      /\ Now({"saving", "autosaving"}) /\ owed[sending.note] # 0 => sending.text.text = owed[sending.note]
      /\ Now(Sends) => sending.note \in Notes /\ (editing => current = sending.note)
      /\ waiting["command"] # "no" => Now({"waiting"})
      /\ (editing <=> current # NoNote) /\ current \in Notes \cup {NoNote} /\ NoNote \notin Notes /\ NoText.text = 0
      /\ server \in [Notes -> Texts \cup {NoText}]
      /\ page \in [Notes -> Texts \cup {NoText}] /\ owed \in [Notes -> 0..MaxTexts]
  BY FactsHold, PutHeads, AheadSteps
       DEF BaseInv, KeepInv, TodoFacts, DataFacts, TailFits, ProgramFits, SentFits, SendingFits, Sends
<1> USE DEF Awaits
<1>2. CASE Begins
  <2>1. Sound(todo', target')
    BY <1>2 DEF Begins
  <2> QED BY <2>1, <1>1
<1>3. CASE Dismisses
  BY <1>1, <1>3 DEF Dismisses
<1>4. CASE Save
  <2>1. Now({"save"}) /\ UNCHANGED <<editing, current, owed, page, server>>
    BY <1>1, <1>4 DEF Save
  <2>2. \/ todo' = <<>> \/ todo' = <<"saving">> \o Tail(todo)
        \/ todo' = Tail(todo) /\ (page[current] = NoText \/ ~dirty)
    BY <1>4 DEF Save, Reconcile, CannotSave, NothingToSave
  <2>3. CASE todo' = <<>> \/ todo' = <<"saving">> \o Tail(todo)
    <3>1. ~Ahead(todo')
      BY <1>1, <2>1, <2>3
    <3> QED BY <3>1
  <2>4. CASE todo' = Tail(todo) /\ (page[current] = NoText \/ ~dirty)
    <3>1. editing => Safe(current)
      BY <1>1, <2>4 DEF Kept
    <3> QED BY <2>1, <3>1
  <2> QED BY <2>2, <2>3, <2>4
<1>5. CASE IdleSave
  BY <1>1, <1>5 DEF IdleSave, Reconcile
<1>6. CASE SaveAnswered
  <2>1. /\ Now({"saving", "autosaving"}) /\ server' = [server EXCEPT ![sending.note] = sending.text]
        /\ UNCHANGED <<editing, current, owed, page>>
    BY <1>1, <1>6 DEF SaveAnswered
  <2>2. sending.note \in Notes /\ (editing => current = sending.note)
    BY <1>1, <2>1 DEF Sends
  <2>3. owed[sending.note] = 0 \/ sending.text.text = owed[sending.note]
    BY <1>1, <2>1, <2>2
  <2> QED BY <1>1, <2>1, <2>2, <2>3
<1>7. CASE Split
  BY <1>1, <1>7 DEF Split
<1>8. CASE SplitAnswered
  BY <1>1, <1>8 DEF SplitAnswered
<1>9. CASE Saved
  BY <1>1, <1>9 DEF Saved
<1>10. CASE MaybeCall
  <2>1. Now({"maybeCall"}) /\ At("maybeCall") /\ UNCHANGED <<editing, current, owed, server>>
    BY <1>1, <1>10 DEF MaybeCall
  <2>2. todo' = Tail(todo) \/ todo' = <<"calling">> \o Tail(todo)
    BY <1>10 DEF MaybeCall
  <2> QED BY <2>1, <2>2, <1>1
<1>11. CASE CallAnswered
  BY <1>1, <1>11 DEF CallAnswered
<1>12. CASE Refused
  BY <1>1, <1>12 DEF Refused
<1>13. CASE NoteCreated
  BY <1>1, <1>13 DEF NoteCreated
<1>14. CASE NoteDeleted
  BY <1>1, <1>14 DEF NoteDeleted
<1>15. CASE HistoryAnswered
  <2>1. Now({"undoing"}) /\ (todo' = <<>> \/ todo' = Tail(todo))
    BY <1>1, <1>15 DEF HistoryAnswered
  <2>2. ~Ahead(todo')
    BY <1>1, <2>1
  <2> QED BY <2>1, <2>2
<1>16. CASE OpenDialog
  BY <1>1, <1>16 DEF OpenDialog
<1>17. CASE Forget
  BY <1>1, <1>17 DEF Forget
<1>18. CASE Drop
  BY <1>1, <1>18 DEF Drop, ClearEditing
<1>19. CASE Leave
  BY <1>1, <1>19 DEF Leave, ClearEditing
<1>20. CASE Discard
  BY <1>1, <1>20 DEF Discard
<1>21. CASE Exit
  BY <1>1, <1>21 DEF Exit, ClearEditing
<1>22. CASE Enter
  BY <1>1, <1>22 DEF Enter
<1>23. CASE Swap
  <2>1. Now({"swap"}) /\ (todo' = <<>> \/ todo' = Tail(todo))
    BY <1>1, <1>23 DEF Swap
  <2>2. ~Ahead(todo')
    BY <1>1, <2>1
  <2> QED BY <2>1, <2>2
<1>24. CASE AdoptContent
  <2>1. todo # <<>> /\ todo[1] \in {"adopt", "adoptAny", "adoptSome"} /\ (todo' = <<>> \/ todo' = Tail(todo))
    BY <1>1, <1>24 DEF AdoptContent, Adopt
  <2>2. ~Ahead(todo')
    BY <1>1, <2>1
  <2> QED BY <2>1, <2>2
<1>25. CASE Refresh
  <2>1. todo # <<>> /\ todo[1] \in {"refresh", "refreshNow"}
    BY <1>1, <1>25 DEF Refresh
  <2>2. todo' = Tail(todo) \/ todo' = <<"viewing">> \o Tail(todo) \/ todo' = <<"waiting">> \o Tail(todo)
    BY <1>25 DEF Refresh
  <2> QED BY <2>1, <2>2, <1>1
<1>26. CASE Finish
  BY <1>1, <1>26 DEF Finish
<1>27. CASE ScrollPoll
  BY <1>1, <1>27 DEF ScrollPoll, Sent, EditedNote
<1>28. CASE StartCheck
  BY <1>1, <1>28 DEF StartCheck
<1>29. CASE CheckAnswered
  BY <1>1, <1>29 DEF CheckAnswered
<1>30. CASE TitleTimer
  BY <1>1, <1>30 DEF TitleTimer, Sent, EditedNote
<1>31. CASE Type
  <2>1. todo' = <<>>
    BY <1>1, <1>31 DEF Type
  <2> QED BY <2>1, <1>1
<1>32. CASE CheckFails
  <2>1. Ahead(todo) => todo[1] = "calling"
    BY <1>1, <1>32 DEF CheckFails
  <2>2. Undisturbed /\ UNCHANGED <<todo, server>>
    BY InterruptsDoNotDisturb, <1>32 DEF CheckFails
  <2> QED BY <2>1, <2>2, <1>1 DEF Undisturbed
<1>33. CASE CommandFails
  <2>1. todo' = <<>>
    BY <1>33 DEF CommandFails
  <2> QED BY <2>1, <1>1
<1>34. CASE BackgroundFails
  <2>1. Ahead(todo) => todo[1] = "calling"
    BY <1>1, <1>34 DEF BackgroundFails
  <2>2. Undisturbed /\ UNCHANGED <<todo, server>>
    BY InterruptsDoNotDisturb, <1>34 DEF BackgroundFails
  <2> QED BY <2>1, <2>2, <1>1 DEF Undisturbed
<1>35. ASSUME NEW v \in views, CommandViewed(v)
      PROVE  (editing /\ Ahead(todo) => Safe(current))'
  BY <1>1, <1>35 DEF CommandViewed, ApplyView, ClearEditing
<1>36. ASSUME NEW v \in views, BackgroundViewed(v)
      PROVE  (editing /\ Ahead(todo) => Safe(current))'
  <2>1. Ahead(todo) => todo[1] = "calling"
    BY <1>1, <1>36 DEF BackgroundViewed
  <2>2. Undisturbed /\ UNCHANGED <<todo, server>>
    BY InterruptsDoNotDisturb, <1>36 DEF BackgroundViewed
  <2> QED BY <2>1, <2>2, <1>1 DEF Undisturbed
<1>37. ASSUME NEW v \in views, BuildView(v)
      PROVE  (editing /\ Ahead(todo) => Safe(current))'
  BY <1>1, <1>37 DEF BuildView
<1>38. ASSUME NEW w \in {"command", "links"}, ViewIdle(w)
      PROVE  (editing /\ Ahead(todo) => Safe(current))'
  <2>1. UNCHANGED <<editing, current, owed, server>>
    BY <1>38 DEF ViewIdle
  <2>2. todo' = todo \/ (todo # <<>> /\ todo' = <<"viewing">> \o Tail(todo))
    BY <1>1, <1>38 DEF ViewIdle
  <2> QED BY <2>1, <2>2, <1>1
<1> QED BY CommandsBegin, <1>2, <1>3, <1>4, <1>5, <1>6, <1>7, <1>8, <1>9, <1>10, <1>11, <1>12, <1>13, <1>14,
           <1>15, <1>16, <1>17, <1>18, <1>19, <1>20, <1>21, <1>22, <1>23, <1>24, <1>25, <1>26, <1>27, <1>28,
           <1>29, <1>30, <1>31, <1>32, <1>33, <1>34, <1>35, <1>36, <1>37, <1>38
       DEF Next, Command, Loops, Waiters, Serve, User, Failures

\* What the first steps of programs say of the edited note.
HeadsAre ==
    editing => /\ ~Now({"enter"})
               /\ Now({"discard"}) => page[current] = NoText
               /\ Now({"undoing"}) => ~dirty

\* A program is at one of these first steps.
Fresh(s) == s # <<>> /\ s[1] \in {"enter", "discard", "undoing"}

\* Every step keeps what they say.
LEMMA HeadsFit ==
    ASSUME BaseInv, KeepInv, Next, Answered
    PROVE  HeadsAre'
<1> USE DEF Throw, Continue, Await, Now, gateVars, otherVars, historyVars, viewVars, serverVars, domVars,
            loopVars, modeVars, commandVars, HeadsAre
<1>1. /\ \A x : At(x) => running /\ todo # <<>> /\ todo[1] = x
      /\ ~running => todo = <<>>
      /\ editing /\ Now({"enter"}) => FALSE
      /\ editing /\ Now({"discard"}) => page[current] = NoText
      /\ editing /\ Now({"undoing"}) => ~dirty
      /\ ~Fresh(<<>>)
      /\ todo # <<>> => ~Fresh(Tail(todo))
      /\ todo # <<>> => \A b \in {"saving", "autosaving", "splitting", "calling", "viewing", "waiting"} :
           ~Fresh(<<b>> \o Tail(todo))
      /\ Yielded => ~Now({"enter", "discard"})
      /\ waiting["command"] # "no" => Now({"waiting"})
  BY FactsHold, PutHeads
       DEF BaseInv, KeepInv, TodoFacts, EndFits, TailFits, ProgramFits, SentFits, First, Awaits, Fresh
<1>2. CASE Begins
  <2>1. Sound(todo', target') /\ UNCHANGED <<editing, current, dirty, page>>
    BY <1>2 DEF Begins
  <2> QED BY <2>1 DEF Sound, Fresh
<1>3. CASE Dismisses
  BY <1>1, <1>3 DEF Dismisses
<1>4. CASE Save
  <2>1. todo # <<>> /\ (todo' = <<>> \/ todo' = Tail(todo) \/ todo' = <<"saving">> \o Tail(todo))
    BY <1>1, <1>4 DEF Save
  <2>2. ~Fresh(todo')
    BY <1>1, <2>1
  <2> QED BY <2>1, <2>2 DEF Fresh
<1>5. CASE IdleSave
  <2>1. todo # <<>> /\ (todo' = <<>> \/ todo' = Tail(todo) \/ todo' = <<"autosaving">> \o Tail(todo))
    BY <1>1, <1>5 DEF IdleSave
  <2>2. ~Fresh(todo')
    BY <1>1, <2>1
  <2> QED BY <2>1, <2>2 DEF Fresh
<1>6. CASE SaveAnswered
  <2>1. todo # <<>> /\ (todo' = <<>> \/ todo' = Tail(todo))
    BY <1>1, <1>6 DEF SaveAnswered
  <2>2. ~Fresh(todo')
    BY <1>1, <2>1
  <2> QED BY <2>1, <2>2 DEF Fresh
<1>7. CASE Split
  <2>1. todo # <<>> /\ (todo' = <<>> \/ todo' = Tail(todo) \/ todo' = <<"splitting">> \o Tail(todo))
    BY <1>1, <1>7 DEF Split
  <2>2. ~Fresh(todo')
    BY <1>1, <2>1
  <2> QED BY <2>1, <2>2 DEF Fresh
<1>8. CASE SplitAnswered
  <2>1. todo # <<>> /\ (todo' = <<>> \/ todo' = Tail(todo))
    BY <1>1, <1>8 DEF SplitAnswered
  <2>2. ~Fresh(todo')
    BY <1>1, <2>1
  <2> QED BY <2>1, <2>2 DEF Fresh
<1>9. CASE Saved
  <2>1. todo # <<>> /\ (todo' = <<>> \/ todo' = Tail(todo))
    BY <1>1, <1>9 DEF Saved
  <2>2. ~Fresh(todo')
    BY <1>1, <2>1
  <2> QED BY <2>1, <2>2 DEF Fresh
<1>10. CASE MaybeCall
  <2>1. todo # <<>> /\ (todo' = <<>> \/ todo' = Tail(todo) \/ todo' = <<"calling">> \o Tail(todo))
    BY <1>1, <1>10 DEF MaybeCall
  <2>2. ~Fresh(todo')
    BY <1>1, <2>1
  <2> QED BY <2>1, <2>2 DEF Fresh
<1>11. CASE CallAnswered
  <2>1. todo # <<>> /\ (todo' = <<>> \/ todo' = Tail(todo))
    BY <1>1, <1>11 DEF CallAnswered
  <2>2. ~Fresh(todo')
    BY <1>1, <2>1
  <2> QED BY <2>1, <2>2 DEF Fresh
<1>12. CASE Refused
  <2>1. todo # <<>> /\ (todo' = <<>> \/ todo' = Tail(todo))
    BY <1>1, <1>12 DEF Refused
  <2>2. ~Fresh(todo')
    BY <1>1, <2>1
  <2> QED BY <2>1, <2>2 DEF Fresh
<1>13. CASE NoteCreated
  <2>1. todo # <<>> /\ (todo' = <<>> \/ todo' = Tail(todo))
    BY <1>1, <1>13 DEF NoteCreated
  <2>2. ~Fresh(todo')
    BY <1>1, <2>1
  <2> QED BY <2>1, <2>2 DEF Fresh
<1>14. CASE NoteDeleted
  <2>1. todo # <<>> /\ (todo' = <<>> \/ todo' = Tail(todo))
    BY <1>1, <1>14 DEF NoteDeleted
  <2>2. ~Fresh(todo')
    BY <1>1, <2>1
  <2> QED BY <2>1, <2>2 DEF Fresh
<1>15. CASE HistoryAnswered
  <2>1. todo # <<>> /\ (todo' = <<>> \/ todo' = Tail(todo))
    BY <1>1, <1>15 DEF HistoryAnswered
  <2>2. ~Fresh(todo')
    BY <1>1, <2>1
  <2> QED BY <2>1, <2>2 DEF Fresh
<1>16. CASE OpenDialog
  <2>1. todo # <<>> /\ (todo' = <<>> \/ todo' = Tail(todo))
    BY <1>1, <1>16 DEF OpenDialog
  <2>2. ~Fresh(todo')
    BY <1>1, <2>1
  <2> QED BY <2>1, <2>2 DEF Fresh
<1>17. CASE Forget
  <2>1. todo # <<>> /\ (todo' = <<>> \/ todo' = Tail(todo))
    BY <1>1, <1>17 DEF Forget
  <2>2. ~Fresh(todo')
    BY <1>1, <2>1
  <2> QED BY <2>1, <2>2 DEF Fresh
<1>18. CASE Drop
  <2>1. todo # <<>> /\ (todo' = <<>> \/ todo' = Tail(todo))
    BY <1>1, <1>18 DEF Drop
  <2>2. ~Fresh(todo')
    BY <1>1, <2>1
  <2> QED BY <2>1, <2>2 DEF Fresh
<1>19. CASE Leave
  <2>1. todo # <<>> /\ (todo' = <<>> \/ todo' = Tail(todo))
    BY <1>1, <1>19 DEF Leave
  <2>2. ~Fresh(todo')
    BY <1>1, <2>1
  <2> QED BY <2>1, <2>2 DEF Fresh
<1>20. CASE Discard
  <2>1. todo # <<>> /\ (todo' = <<>> \/ todo' = Tail(todo))
    BY <1>1, <1>20 DEF Discard
  <2>2. ~Fresh(todo')
    BY <1>1, <2>1
  <2> QED BY <2>1, <2>2 DEF Fresh
<1>21. CASE Exit
  <2>1. todo # <<>> /\ (todo' = <<>> \/ todo' = Tail(todo))
    BY <1>1, <1>21 DEF Exit
  <2>2. ~Fresh(todo')
    BY <1>1, <2>1
  <2> QED BY <2>1, <2>2 DEF Fresh
<1>22. CASE Enter
  <2>1. todo # <<>> /\ (todo' = <<>> \/ todo' = Tail(todo))
    BY <1>1, <1>22 DEF Enter
  <2>2. ~Fresh(todo')
    BY <1>1, <2>1
  <2> QED BY <2>1, <2>2 DEF Fresh
<1>23. CASE Swap
  <2>1. todo # <<>> /\ (todo' = <<>> \/ todo' = Tail(todo))
    BY <1>1, <1>23 DEF Swap
  <2>2. ~Fresh(todo')
    BY <1>1, <2>1
  <2> QED BY <2>1, <2>2 DEF Fresh
<1>24. CASE AdoptContent
  <2>1. todo # <<>> /\ (todo' = <<>> \/ todo' = Tail(todo))
    BY <1>1, <1>24 DEF AdoptContent, Adopt
  <2>2. ~Fresh(todo')
    BY <1>1, <2>1
  <2> QED BY <2>1, <2>2 DEF Fresh
<1>25. CASE Refresh
  <2>1. todo # <<>>
          /\ (todo' = <<>> \/ todo' = Tail(todo) \/ todo' = <<"viewing">> \o Tail(todo)
          \/ todo' = <<"waiting">> \o Tail(todo))
    BY <1>1, <1>25 DEF Refresh
  <2>2. ~Fresh(todo')
    BY <1>1, <2>1
  <2> QED BY <2>1, <2>2 DEF Fresh
<1>26. CASE Finish
  BY <1>1, <1>26 DEF Finish
<1>27. CASE ScrollPoll
  BY <1>1, <1>27 DEF ScrollPoll, Sent, EditedNote
<1>28. CASE StartCheck
  BY <1>1, <1>28 DEF StartCheck
<1>29. CASE CheckAnswered
  BY <1>1, <1>29 DEF CheckAnswered
<1>30. CASE TitleTimer
  BY <1>1, <1>30 DEF TitleTimer, Sent, EditedNote
<1>31. CASE Type
  <2>1. todo' = <<>>
    BY <1>1, <1>31 DEF Type
  <2>2. ~Fresh(todo')
    BY <1>1, <2>1
  <2> QED BY <2>1, <2>2 DEF Fresh
<1>32. CASE CheckFails
  <2>1. Now({"enter", "discard"}) => FALSE
    BY <1>1, <1>32 DEF CheckFails, Fresh
  <2>2. Undisturbed /\ UNCHANGED <<todo, dirty>>
    BY InterruptsDoNotDisturb, <1>32 DEF CheckFails
  <2> QED BY <2>1, <2>2, <1>1 DEF Undisturbed
<1>33. CASE CommandFails
  <2>1. todo' = <<>>
    BY <1>33 DEF CommandFails
  <2>2. ~Fresh(todo')
    BY <1>1, <2>1
  <2> QED BY <2>1, <2>2 DEF Fresh
<1>34. CASE BackgroundFails
  <2>1. Now({"enter", "discard"}) => FALSE
    BY <1>1, <1>34 DEF BackgroundFails, Fresh
  <2>2. Undisturbed /\ UNCHANGED <<todo, dirty>>
    BY InterruptsDoNotDisturb, <1>34 DEF BackgroundFails
  <2> QED BY <2>1, <2>2, <1>1 DEF Undisturbed
<1>35. ASSUME NEW v \in views, CommandViewed(v)
      PROVE  HeadsAre'
  <2>1. todo # <<>> /\ todo' = Tail(todo)
    BY <1>1, <1>35 DEF CommandViewed
  <2>2. ~Fresh(todo')
    BY <1>1, <2>1
  <2> QED BY <2>1, <2>2 DEF Fresh
<1>36. ASSUME NEW v \in views, BackgroundViewed(v)
      PROVE  HeadsAre'
  <2>1. Now({"enter", "discard"}) => FALSE
    BY <1>1, <1>36 DEF BackgroundViewed, Fresh
  <2>2. Undisturbed /\ UNCHANGED <<todo, dirty>>
    BY InterruptsDoNotDisturb, <1>36 DEF BackgroundViewed
  <2> QED BY <2>1, <2>2, <1>1 DEF Undisturbed
<1>37. ASSUME NEW v \in views, BuildView(v)
      PROVE  HeadsAre'
  BY <1>1, <1>37 DEF BuildView
<1>38. ASSUME NEW w \in {"command", "links"}, ViewIdle(w)
      PROVE  HeadsAre'
  <2>1. UNCHANGED <<editing, current, dirty, page>>
    BY <1>38 DEF ViewIdle
  <2>2. todo' = todo \/ (todo # <<>> /\ todo' = <<"viewing">> \o Tail(todo))
    BY <1>1, <1>38 DEF ViewIdle
  <2> QED BY <2>1, <2>2, <1>1 DEF Fresh
<1> QED BY CommandsBegin, <1>2, <1>3, <1>4, <1>5, <1>6, <1>7, <1>8, <1>9, <1>10, <1>11, <1>12, <1>13, <1>14,
           <1>15, <1>16, <1>17, <1>18, <1>19, <1>20, <1>21, <1>22, <1>23, <1>24, <1>25, <1>26, <1>27, <1>28,
           <1>29, <1>30, <1>31, <1>32, <1>33, <1>34, <1>35, <1>36, <1>37, <1>38
       DEF Next, Command, Loops, Waiters, Serve, User, Failures

\* A split was answered, and the note is still to be marked as saved.
SplitDone(s) == "saved" \in Left(s) /\ ~(s # <<>> /\ s[1] \in {"split", "splitting"})

\* Where a split that was answered comes from.
LEMMA SplitDoneSteps ==
    ASSUME BaseInv, KeepInv
    PROVE  /\ editing /\ SplitDone(todo) => owed[current] = 0
           /\ ~SplitDone(<<>>) /\ \A p, n : Sound(p, n) => ~SplitDone(p)
           /\ todo # <<>> /\ SplitDone(Tail(todo))
                => todo[1] \in {"adoptSome", "refresh", "viewing", "split", "splitting"}
           /\ todo # <<>> /\ SplitDone(Tail(todo)) => SplitDone(todo) \/ Now({"split", "splitting"})
           /\ todo # <<>> => ~SplitDone(<<"splitting">> \o Tail(todo))
           /\ At("save") /\ SplitDone(<<"saving">> \o Tail(todo)) => SplitDone(todo)
           /\ At("idleSave") /\ SplitDone(<<"autosaving">> \o Tail(todo)) => SplitDone(todo)
           /\ At("maybeCall") /\ SplitDone(<<"calling">> \o Tail(todo)) => SplitDone(todo)
           /\ At("refresh") \/ At("refreshNow") \/ Now({"waiting"})
                => (SplitDone(<<"viewing">> \o Tail(todo)) => SplitDone(todo))
           /\ At("refreshNow") /\ SplitDone(<<"waiting">> \o Tail(todo)) => SplitDone(todo)
<1>1. TodoFacts /\ EndFits
  BY FactsHold DEF KeepInv
<1>2. editing /\ SplitDone(todo) => owed[current] = 0
  BY <1>1 DEF SplitDone, EndFits, Now
<1>3. ~SplitDone(<<>>) /\ \A p, n : Sound(p, n) => ~SplitDone(p)
  <2>1. ~SplitDone(<<>>)
    BY <1>1 DEF SplitDone, TodoFacts
  <2>2. ASSUME NEW p, NEW n, Sound(p, n)
        PROVE  ~SplitDone(p)
    BY <2>1, <2>2 DEF Sound, SplitDone
  <2> QED BY <2>1, <2>2
<1>4. todo # <<>> /\ SplitDone(Tail(todo))
        => /\ todo[1] \in {"adoptSome", "refresh", "viewing", "split", "splitting"}
           /\ SplitDone(todo) \/ Now({"split", "splitting"})
  BY <1>1 DEF TodoFacts, TailFits, SplitDone, Now
<1>5. todo # <<>> => ~SplitDone(<<"splitting">> \o Tail(todo))
  BY PutHeads DEF SplitDone, Awaits
<1>6. At("save") /\ SplitDone(<<"saving">> \o Tail(todo)) => SplitDone(todo)
  BY <1>1 DEF SplitDone, TodoFacts, PutFits
<1>7. At("idleSave") /\ SplitDone(<<"autosaving">> \o Tail(todo)) => SplitDone(todo)
  BY <1>1 DEF SplitDone, TodoFacts, PutFits
<1>8. At("maybeCall") /\ SplitDone(<<"calling">> \o Tail(todo)) => SplitDone(todo)
  BY <1>1 DEF SplitDone, TodoFacts, PutFits
<1>9. At("refresh") \/ At("refreshNow") \/ Now({"waiting"})
        => (SplitDone(<<"viewing">> \o Tail(todo)) => SplitDone(todo))
  BY <1>1 DEF SplitDone, TodoFacts, PutFits, Now
<1>10. At("refreshNow") /\ SplitDone(<<"waiting">> \o Tail(todo)) => SplitDone(todo)
  BY <1>1 DEF SplitDone, TodoFacts, PutFits
<1> QED BY <1>2, <1>3, <1>4, <1>5, <1>6, <1>7, <1>8, <1>9, <1>10

\* Every step keeps that a split note owes nothing until it is marked as saved.
LEMMA SplitsAreDone ==
    ASSUME BaseInv, KeepInv, Next, Answered
    PROVE  (editing /\ SplitDone(todo) => owed[current] = 0)'
<1> USE DEF Throw, Continue, Await, Now, gateVars, otherVars, historyVars, viewVars, serverVars, domVars,
            loopVars, modeVars, commandVars
<1>1. /\ \A x : At(x) => running /\ todo # <<>> /\ todo[1] = x
      /\ ~running => todo = <<>>
      /\ editing /\ SplitDone(todo) => owed[current] = 0
      /\ ~SplitDone(<<>>) /\ \A p, n : Sound(p, n) => ~SplitDone(p)
      /\ todo # <<>> /\ SplitDone(Tail(todo)) => todo[1] \in {"adoptSome", "refresh", "viewing", "split", "splitting"}
      /\ todo # <<>> /\ SplitDone(Tail(todo)) => SplitDone(todo) \/ Now({"split", "splitting"})
      /\ todo # <<>> => ~SplitDone(<<"splitting">> \o Tail(todo))
      /\ At("save") /\ SplitDone(<<"saving">> \o Tail(todo)) => SplitDone(todo)
      /\ At("idleSave") /\ SplitDone(<<"autosaving">> \o Tail(todo)) => SplitDone(todo)
      /\ At("maybeCall") /\ SplitDone(<<"calling">> \o Tail(todo)) => SplitDone(todo)
      /\ At("refresh") \/ At("refreshNow") \/ Now({"waiting"})
           => (SplitDone(<<"viewing">> \o Tail(todo)) => SplitDone(todo))
      /\ At("refreshNow") /\ SplitDone(<<"waiting">> \o Tail(todo)) => SplitDone(todo)
      /\ waiting["command"] # "no" => Now({"waiting"})
      /\ Now(Sends) => sending.note \in Notes /\ (editing => current = sending.note)
      /\ (editing <=> current # NoNote) /\ current \in Notes \cup {NoNote} /\ NoNote \notin Notes
      /\ owed \in [Notes -> 0..MaxTexts]
  BY FactsHold, PutHeads, SplitDoneSteps DEF BaseInv, KeepInv, TodoFacts, DataFacts, SentFits, ProgramFits
<1>2. CASE Begins
  <2>1. Sound(todo', target')
    BY <1>2 DEF Begins
  <2> QED BY <2>1, <1>1
<1>3. CASE Dismisses
  BY <1>1, <1>3 DEF Dismisses
<1>4. CASE Save
  <2>1. At("save") /\ Now({"save"}) /\ UNCHANGED <<editing, current, owed>>
    BY <1>1, <1>4 DEF Save
  <2>2. todo' = <<>> \/ todo' = Tail(todo) \/ todo' = <<"saving">> \o Tail(todo)
    BY <1>4 DEF Save
  <2>3. SplitDone(todo') => SplitDone(todo)
    BY <1>1, <2>1, <2>2
  <2> QED BY <2>1, <2>2, <2>3, <1>1
<1>5. CASE IdleSave
  <2>1. At("idleSave") /\ Now({"idleSave"}) /\ UNCHANGED <<editing, current, owed>>
    BY <1>1, <1>5 DEF IdleSave
  <2>2. todo' = <<>> \/ todo' = Tail(todo) \/ todo' = <<"autosaving">> \o Tail(todo)
    BY <1>5 DEF IdleSave
  <2>3. SplitDone(todo') => SplitDone(todo)
    BY <1>1, <2>1, <2>2
  <2> QED BY <2>1, <2>2, <2>3, <1>1
<1>6. CASE SaveAnswered
  <2>1. todo # <<>> /\ (todo' = <<>> \/ todo' = Tail(todo))
    BY <1>1, <1>6 DEF SaveAnswered
  <2>2. ~SplitDone(todo')
    BY <1>1, <2>1, <1>6 DEF SaveAnswered
  <2> QED BY <2>1, <2>2
<1>7. CASE Split
  <2>1. todo # <<>> /\ (todo' = <<>> \/ todo' = Tail(todo) \/ todo' = <<"splitting">> \o Tail(todo))
    BY <1>1, <1>7 DEF Split
  <2>2. ~SplitDone(todo')
    BY <1>1, <2>1, <1>7 DEF Split
  <2> QED BY <2>1, <2>2
<1>8. CASE SplitAnswered
  <2>1. todo # <<>> /\ todo' = Tail(todo) /\ todo[1] = "splitting" /\ UNCHANGED <<editing, current>>
    BY <1>1, <1>8 DEF SplitAnswered
  <2>2. sending.note \in Notes /\ (editing => current = sending.note) /\ owed' = [owed EXCEPT ![sending.note] = 0]
    BY <1>1, <2>1, <1>8 DEF SplitAnswered, Sends
  <2> QED BY <2>1, <2>2, <1>1
<1>9. CASE Saved
  <2>1. todo # <<>> /\ (todo' = <<>> \/ todo' = Tail(todo))
    BY <1>1, <1>9 DEF Saved
  <2>2. ~SplitDone(todo')
    BY <1>1, <2>1, <1>9 DEF Saved
  <2> QED BY <2>1, <2>2
<1>10. CASE MaybeCall
  <2>1. At("maybeCall") /\ Now({"maybeCall"}) /\ UNCHANGED <<editing, current, owed>>
    BY <1>1, <1>10 DEF MaybeCall
  <2>2. todo' = <<>> \/ todo' = Tail(todo) \/ todo' = <<"calling">> \o Tail(todo)
    BY <1>10 DEF MaybeCall
  <2>3. SplitDone(todo') => SplitDone(todo)
    BY <1>1, <2>1, <2>2
  <2> QED BY <2>1, <2>2, <2>3, <1>1
<1>11. CASE CallAnswered
  <2>1. todo # <<>> /\ (todo' = <<>> \/ todo' = Tail(todo))
    BY <1>1, <1>11 DEF CallAnswered
  <2>2. ~SplitDone(todo')
    BY <1>1, <2>1, <1>11 DEF CallAnswered
  <2> QED BY <2>1, <2>2
<1>12. CASE Refused
  <2>1. todo # <<>> /\ (todo' = <<>> \/ todo' = Tail(todo))
    BY <1>1, <1>12 DEF Refused
  <2>2. ~SplitDone(todo')
    BY <1>1, <2>1, <1>12 DEF Refused
  <2> QED BY <2>1, <2>2
<1>13. CASE NoteCreated
  <2>1. todo # <<>> /\ (todo' = <<>> \/ todo' = Tail(todo))
    BY <1>1, <1>13 DEF NoteCreated
  <2>2. ~SplitDone(todo')
    BY <1>1, <2>1, <1>13 DEF NoteCreated
  <2> QED BY <2>1, <2>2
<1>14. CASE NoteDeleted
  <2>1. todo # <<>> /\ (todo' = <<>> \/ todo' = Tail(todo))
    BY <1>1, <1>14 DEF NoteDeleted
  <2>2. ~SplitDone(todo')
    BY <1>1, <2>1, <1>14 DEF NoteDeleted
  <2> QED BY <2>1, <2>2
<1>15. CASE HistoryAnswered
  <2>1. todo # <<>> /\ (todo' = <<>> \/ todo' = Tail(todo))
    BY <1>1, <1>15 DEF HistoryAnswered
  <2>2. ~SplitDone(todo')
    BY <1>1, <2>1, <1>15 DEF HistoryAnswered
  <2> QED BY <2>1, <2>2
<1>16. CASE OpenDialog
  <2>1. todo # <<>> /\ (todo' = <<>> \/ todo' = Tail(todo))
    BY <1>1, <1>16 DEF OpenDialog
  <2>2. ~SplitDone(todo')
    BY <1>1, <2>1, <1>16 DEF OpenDialog
  <2> QED BY <2>1, <2>2
<1>17. CASE Forget
  <2>1. todo # <<>> /\ (todo' = <<>> \/ todo' = Tail(todo))
    BY <1>1, <1>17 DEF Forget
  <2>2. ~SplitDone(todo')
    BY <1>1, <2>1, <1>17 DEF Forget
  <2> QED BY <2>1, <2>2
<1>18. CASE Drop
  <2>1. Now({"drop"}) /\ (todo' = <<>> \/ todo' = Tail(todo))
    BY <1>1, <1>18 DEF Drop
  <2>2. ~SplitDone(todo')
    BY <1>1, <2>1
  <2> QED BY <2>1, <2>2
<1>19. CASE Leave
  <2>1. Now({"leave"}) /\ (todo' = <<>> \/ todo' = Tail(todo))
    BY <1>1, <1>19 DEF Leave
  <2>2. ~SplitDone(todo')
    BY <1>1, <2>1
  <2> QED BY <2>1, <2>2
<1>20. CASE Discard
  <2>1. todo # <<>> /\ (todo' = <<>> \/ todo' = Tail(todo))
    BY <1>1, <1>20 DEF Discard
  <2>2. ~SplitDone(todo')
    BY <1>1, <2>1, <1>20 DEF Discard
  <2> QED BY <2>1, <2>2
<1>21. CASE Exit
  <2>1. Now({"exit"}) /\ (todo' = <<>> \/ todo' = Tail(todo))
    BY <1>1, <1>21 DEF Exit
  <2>2. ~SplitDone(todo')
    BY <1>1, <2>1
  <2> QED BY <2>1, <2>2
<1>22. CASE Enter
  <2>1. todo # <<>> /\ (todo' = <<>> \/ todo' = Tail(todo))
    BY <1>1, <1>22 DEF Enter
  <2>2. ~SplitDone(todo')
    BY <1>1, <2>1, <1>22 DEF Enter
  <2> QED BY <2>1, <2>2
<1>23. CASE Swap
  <2>1. Now({"swap"}) /\ (todo' = <<>> \/ todo' = Tail(todo))
    BY <1>1, <1>23 DEF Swap
  <2>2. ~SplitDone(todo')
    BY <1>1, <2>1
  <2> QED BY <2>1, <2>2
<1>24. CASE AdoptContent
  <2>1. Now(Adopts) /\ (todo' = <<>> \/ todo' = Tail(todo)) /\ UNCHANGED <<editing, current, owed>>
    BY <1>1, <1>24 DEF AdoptContent, Adopt, Adopts
  <2>2. SplitDone(todo') => SplitDone(todo)
    BY <1>1, <2>1 DEF Adopts
  <2> QED BY <2>1, <2>2, <1>1
<1>25. CASE Refresh
  <2>1. (At("refresh") \/ At("refreshNow")) /\ Now({"refresh", "refreshNow"}) /\ UNCHANGED <<editing, current, owed>>
    BY <1>1, <1>25 DEF Refresh
  <2>2. todo' = Tail(todo) \/ todo' = <<"viewing">> \o Tail(todo)
          \/ (At("refreshNow") /\ todo' = <<"waiting">> \o Tail(todo))
    BY <1>25 DEF Refresh
  <2>3. SplitDone(todo') => SplitDone(todo)
    BY <1>1, <2>1, <2>2
  <2> QED BY <2>1, <2>2, <2>3, <1>1
<1>26. CASE Finish
  BY <1>1, <1>26 DEF Finish
<1>27. CASE ScrollPoll
  BY <1>1, <1>27 DEF ScrollPoll, Sent, EditedNote
<1>28. CASE StartCheck
  BY <1>1, <1>28 DEF StartCheck
<1>29. CASE CheckAnswered
  BY <1>1, <1>29 DEF CheckAnswered
<1>30. CASE TitleTimer
  BY <1>1, <1>30 DEF TitleTimer, Sent, EditedNote
<1>31. CASE Type
  <2>1. todo' = <<>>
    BY <1>1, <1>31 DEF Type
  <2> QED BY <2>1, <1>1
<1>32. CASE CheckFails
  <2>1. Undisturbed /\ todo' = todo
    BY InterruptsDoNotDisturb, <1>32 DEF CheckFails
  <2> QED BY <2>1, <1>1 DEF Undisturbed
<1>33. CASE CommandFails
  <2>1. todo' = <<>>
    BY <1>33 DEF CommandFails
  <2> QED BY <2>1, <1>1
<1>34. CASE BackgroundFails
  <2>1. Undisturbed /\ todo' = todo
    BY InterruptsDoNotDisturb, <1>34 DEF BackgroundFails
  <2> QED BY <2>1, <1>1 DEF Undisturbed
<1>35. ASSUME NEW v \in views, CommandViewed(v)
      PROVE  (editing /\ SplitDone(todo) => owed[current] = 0)'
  <2>1. todo # <<>> /\ todo' = Tail(todo) /\ todo[1] = "viewing" /\ Undisturbed
    BY <1>1, InterruptsDoNotDisturb, <1>35 DEF CommandViewed
  <2>2. SplitDone(todo') => SplitDone(todo)
    BY <1>1, <2>1
  <2> QED BY <2>1, <2>2, <1>1 DEF Undisturbed
<1>36. ASSUME NEW v \in views, BackgroundViewed(v)
      PROVE  (editing /\ SplitDone(todo) => owed[current] = 0)'
  <2>1. Undisturbed /\ todo' = todo
    BY InterruptsDoNotDisturb, <1>36 DEF BackgroundViewed
  <2> QED BY <2>1, <1>1 DEF Undisturbed
<1>37. ASSUME NEW v \in views, BuildView(v)
      PROVE  (editing /\ SplitDone(todo) => owed[current] = 0)'
  BY <1>1, <1>37 DEF BuildView
<1>38. ASSUME NEW w \in {"command", "links"}, ViewIdle(w)
      PROVE  (editing /\ SplitDone(todo) => owed[current] = 0)'
  <2>1. UNCHANGED <<editing, current, owed>>
    BY <1>38 DEF ViewIdle
  <2>2. todo' = todo \/ (Now({"waiting"}) /\ todo' = <<"viewing">> \o Tail(todo))
    BY <1>1, <1>38 DEF ViewIdle
  <2> QED BY <2>1, <2>2, <1>1
<1> QED BY CommandsBegin, <1>2, <1>3, <1>4, <1>5, <1>6, <1>7, <1>8, <1>9, <1>10, <1>11, <1>12, <1>13, <1>14,
           <1>15, <1>16, <1>17, <1>18, <1>19, <1>20, <1>21, <1>22, <1>23, <1>24, <1>25, <1>26, <1>27, <1>28,
           <1>29, <1>30, <1>31, <1>32, <1>33, <1>34, <1>35, <1>36, <1>37, <1>38
       DEF Next, Command, Loops, Waiters, Serve, User, Failures

-----------------------------------------------------------------------------
(*****************************************************************************)
(* The theorem about typed text.                                             *)
(*****************************************************************************)
\* Every step keeps EndFits.
LEMMA EndKept ==
    ASSUME BaseInv, KeepInv, Next, Answered
    PROVE  EndFits'
<1>1. (editing /\ Ahead(todo) => Safe(current))'
  BY EndsAreSafe
<1>2. (editing /\ SplitDone(todo) => owed[current] = 0)'
  BY SplitsAreDone
<1>3. HeadsAre'
  BY HeadsFit
<1> QED BY <1>1, <1>2, <1>3 DEF EndFits, Ahead, SplitDone, HeadsAre, Now

\* The texts are where they belong at first.
LEMMA KeepHoldsAtFirst == Init => KeepInv
<1> SUFFICES ASSUME Init PROVE KeepInv
  OBVIOUS
<1>1. Left(<<>>) = {} /\ NoText.text = 0
  BY StepsOfPrograms DEF NoText
<1> QED BY <1>1
       DEF Init, KeepInv, WaitFits, PageFits, ViewFits, EditorFits, SendingFits, EndFits, Kept, Safe, PageOwed, Now

\* Every step in which no view request fails keeps them there.
LEMMA KeepIsKept == BaseInv /\ KeepInv /\ [Next]_vars /\ [Answered]_vars => KeepInv'
<1> SUFFICES ASSUME BaseInv, KeepInv, [Next]_vars, [Answered]_vars PROVE KeepInv'
  OBVIOUS
<1>1. CASE UNCHANGED vars
  <2> USE DEF vars, modeVars, domVars, gateVars, commandVars, viewVars, loopVars, serverVars, historyVars,
              otherVars
  <2>1. WaitFits' /\ SendingFits' /\ EndFits' /\ EditorFits'
    BY <1>1 DEF KeepInv, WaitFits, SendingFits, EndFits, EditorFits, Safe, PageOwed, Now
  <2>2. PageFits' /\ ViewFits' /\ (\A n \in Notes : Kept(n))'
    BY <1>1 DEF KeepInv, PageFits, ViewFits, Kept, Safe, PageOwed, Now, EditedNote
  <2> QED BY <2>1, <2>2 DEF KeepInv
<1>2. CASE Next /\ Answered
  BY <1>2, WaitKept, PageKept, ViewKept, EditorKept, SendingKept, EndKept, TextKept DEF KeepInv
<1> QED BY <1>1, <1>2

\* Saves, calls and checks may fail and be lost at any time, also the ones of a view request that
\* is not sent yet; a view request in flight is answered.
ViewsAreAnswered == [][Answered]_vars

\* Typed text is kept, for any number of failures, as long as view requests are answered.  Without
\* that it is not: a view that is lost leaves an old text on the page, which a later save may store.
THEOREM TypedTextIsSafe == Spec /\ ViewsAreAnswered => []TypedTextIsKept
<1>1. KeepInv => TypedTextIsKept
  BY DEF KeepInv, Kept, Safe, TypedTextIsKept
<1>2. Init /\ [][Next]_vars /\ [][Answered]_vars /\ []BaseInv => []KeepInv
  BY KeepHoldsAtFirst, KeepIsKept, PTL
<1> QED BY <1>1, <1>2, BaseHolds, PTL DEF Spec, ViewsAreAnswered

=============================================================================
