----------------------- MODULE DiagramEditor_proofs -----------------------
(***************************************************************************)
(* The proofs about DiagramEditor: its types, its safety properties and its  *)
(* two action properties, for any finite set of windows, any number of       *)
(* strokes, failures and revisions, and any number of sessions kept open.    *)
(*                                                                           *)
(* The invariant says of each window what its phase, editor, controller and  *)
(* request have to do with the file and with the open sessions (Fits).  A    *)
(* window's own steps and the answers it gets keep its Fits (the lemmas on    *)
(* values); a step of another window leaves its values alone and moves the    *)
(* file to a later revision, of which the window claims nothing.             *)
(***************************************************************************)
EXTENDS DiagramEditor, FiniteSetTheorems, TLAPS

-----------------------------------------------------------------------------
(***************************************************************************)
(* Records, ids and the settling of a save.                                  *)
(***************************************************************************)
Sends(m) == m.kind \in Requests
Replies(m) == m.kind = "reply"
Waits(m) == m.kind # "none"

\* A message has its fields; one that is no request and no reply is no message.
LEMMA MessageFields ==
  ASSUME NEW m \in Messages
  PROVE  /\ m.kind \in Requests \cup {"reply", "none"}
         /\ Waits(m) => m.scene \in Scenes /\ m.revision \in Nat /\ m.session \in Nat
         /\ Replies(m) => m.answer \in {"ok", "conflict", "gone", "lost"}
         /\ Waits(m) <=> Sends(m) \/ Replies(m)
         /\ ~(Sends(m) /\ Replies(m))
<1>1. CASE m = Quiet
  BY <1>1 DEF Quiet, Waits, Sends, Replies, Requests
<1>2. CASE m \in [kind: Requests, scene: Scenes, revision: Nat, session: Nat]
  BY <1>2 DEF Waits, Sends, Replies, Requests
<1>3. CASE m \in [kind: {"reply"}, answer: {"ok", "conflict", "gone", "lost"}, scene: Scenes,
                  revision: Nat, session: Nat]
  BY <1>3 DEF Waits, Sends, Replies, Requests
<1>4. QED
  BY <1>1, <1>2, <1>3 DEF Messages

\* The empty drawing is a scene.
LEMMA ScenesHaveEmpty == {} \in Scenes
BY DEF Scenes

\* What a reply carries.
LEMMA ReplyFields ==
  ASSUME NEW answer \in {"ok", "conflict", "gone", "lost"}, NEW r \in Nat
  PROVE  /\ Reply(answer, r) \in Messages
         /\ Reply(answer, r).kind = "reply" /\ Reply(answer, r).answer = answer
         /\ Reply(answer, r).revision = r /\ Reply(answer, r).session = 0
         /\ Reply(answer, r).scene = {}
BY ScenesHaveEmpty DEF Reply, Messages

\* The controller after a save's result, case by case.
LEMMA SaveSettlesFields ==
  ASSUME NEW a \in Controllers, NEW answer \in {"ok", "conflict", "gone", "lost"},
         NEW b, b = SaveSettles(a, answer)
  PROVE  /\ b \in Controllers
         /\ answer = "ok" /\ a.dirty =>
               b.status = "unsaved" /\ b.timer = ~a.stopped /\ b.dirty /\ b.stopped = a.stopped
         /\ answer = "ok" /\ ~a.dirty =>
               b.status = "saved" /\ b.timer = a.timer /\ ~b.dirty /\ b.stopped = a.stopped
         /\ answer = "conflict" => b.status = "conflict" /\ ~b.timer /\ b.dirty /\ b.stopped
         /\ answer \notin {"ok", "conflict"} =>
               b.status = "error" /\ b.timer = ~a.stopped /\ b.dirty /\ b.stopped = a.stopped
<1> DEFINE d == a.dirty
           p == a.stopped
           t == a.timer
<1>0. /\ d \in BOOLEAN /\ p \in BOOLEAN /\ t \in BOOLEAN /\ a.status \in Statuses
      /\ a = [dirty |-> d, stopped |-> p, timer |-> t, status |-> a.status]
  BY DEF Controllers
<1>1. CASE answer = "ok" /\ a.dirty
  <2>1. b = [a EXCEPT !.status = "unsaved", !.timer = ~a.stopped]
    BY <1>1 DEF SaveSettles
  <2>2. b = [dirty |-> a.dirty, stopped |-> a.stopped, timer |-> ~a.stopped, status |-> "unsaved"]
    BY <2>1 DEF Controllers
  <2>3. b \in Controllers
    BY <1>0, <2>2 DEF Controllers, Statuses
  <2>4. QED
    BY <1>0, <1>1, <2>2, <2>3
<1>2. CASE answer = "ok" /\ ~a.dirty
  <2>1. b = [a EXCEPT !.status = "saved"]
    BY <1>2 DEF SaveSettles
  <2>2. QED
    BY <1>2, <2>1 DEF Controllers, Statuses
<1>3. CASE answer = "conflict"
  <2>1. b = [StopSaving(a) EXCEPT !.dirty = TRUE, !.status = "conflict"]
    BY <1>3 DEF SaveSettles
  <2>2. b = [dirty |-> TRUE, stopped |-> TRUE, timer |-> FALSE, status |-> "conflict"]
    <3> DEFINE c == StopSaving(a)
    <3>1. c = [a EXCEPT !.stopped = TRUE, !.timer = FALSE]
      BY DEF StopSaving
    <3>2. c = [dirty |-> d, stopped |-> TRUE, timer |-> FALSE, status |-> a.status]
      BY <1>0, <3>1
    <3> HIDE DEF c
    <3>3. b = [c EXCEPT !.dirty = TRUE, !.status = "conflict"]
      BY <2>1 DEF c
    <3>4. QED
      BY <3>2, <3>3
  <2>3. b \in Controllers
    BY <2>2 DEF Controllers, Statuses
  <2>4. QED
    BY <1>3, <2>2, <2>3
<1>4. CASE answer \notin {"ok", "conflict"}
  <2>1. b = [a EXCEPT !.dirty = TRUE, !.status = "error", !.timer = ~a.stopped]
    BY <1>4 DEF SaveSettles
  <2>2. b = [dirty |-> TRUE, stopped |-> a.stopped, timer |-> ~a.stopped, status |-> "error"]
    BY <2>1 DEF Controllers
  <2>3. QED
    BY <1>4, <2>2 DEF Controllers, Statuses
<1>5. QED
  BY <1>1, <1>2, <1>3, <1>4

\* A finite set leaves out a number that is not zero, and FreshId is one.
LEMMA LeastUnused ==
  ASSUME NEW U, IsFiniteSet(U)
  PROVE  Min((1..(Cardinality(U) + 1)) \ U) \in (Nat \ {0}) \ U
<1> DEFINE n == Cardinality(U) + 1
           T == (1..n) \ U
<1>1. Cardinality(U) \in Nat
  BY FS_CardinalityType
<1>2. T # {}
  <2> SUFFICES ASSUME 1..n \subseteq U
               PROVE  FALSE
    OBVIOUS
  <2>1. IsFiniteSet(1..n) /\ Cardinality(1..n) = n
    BY <1>1, FS_Interval
  <2>2. Cardinality(1..n) <= Cardinality(U)
    BY FS_Subset
  <2>3. QED
    BY <1>1, <2>1, <2>2
<1>3. T \in SUBSET Nat
  BY <1>1
<1> HIDE DEF T
<1>4. PICK i \in T : \A j \in T : <<j, i>> \notin OpToRel(<, Nat)
  BY <1>2, <1>3, NatLessThanWellFounded, WFMin
<1>5. \A j \in T : ~(j < i)
  BY <1>3, <1>4, Zenon DEF OpToRel
<1>6. \A j \in T : i <= j
  BY <1>3, <1>5
<1>7. Min(T) \in T
  BY <1>6 DEF Min
<1>8. QED
  BY <1>1, <1>7 DEF T

\* The values a function has on a finite set are finitely many.
LEMMA ImageIsFinite ==
  ASSUME NEW S, IsFiniteSet(S), NEW g, DOMAIN g = S
  PROVE  IsFiniteSet({g[x] : x \in S})
<1> DEFINE T == {g[x] : x \in S}
           h == [x \in S |-> g[x]]
<1>1. h \in Surjection(S, T)
  BY DEF Surjection
<1>2. QED
  BY <1>1, FS_Surjection

\* A new session has an id that no session, editor or message names.
LEMMA FreshIdIsUnused ==
  ASSUME sessions \in Seq(Sessions)
  PROVE  /\ FreshId \in Nat \ {0}
         /\ \A i \in DOMAIN sessions : sessions[i].id # FreshId
         /\ \A v \in Windows : /\ edit[v].session # FreshId
                               /\ InFlight(v) => wire[v].session # FreshId
<1> DEFINE W == {u \in Windows : InFlight(u)}
           A == {sessions[i].id : i \in DOMAIN sessions}
           B == {edit[v].session : v \in Windows}
           C == {wire[v].session : v \in W}
           a == [i \in DOMAIN sessions |-> sessions[i].id]
           b == [v \in Windows |-> edit[v].session]
           c == [v \in W |-> wire[v].session]
<1>1. IsFiniteSet(Windows) /\ IsFiniteSet(W)
  BY DiagramEditorAssumption, FS_Subset
<1>2. IsFiniteSet(DOMAIN sessions)
  <2>1. Len(sessions) \in Nat /\ DOMAIN sessions = 1..Len(sessions)
    OBVIOUS
  <2>2. QED
    BY <2>1, FS_Interval
<1>3. A = {a[i] : i \in DOMAIN sessions} /\ B = {b[v] : v \in Windows} /\ C = {c[v] : v \in W}
  OBVIOUS
<1>4. DOMAIN a = DOMAIN sessions /\ DOMAIN b = Windows /\ DOMAIN c = W
  OBVIOUS
<1> HIDE DEF a, b, c
<1>5. IsFiniteSet(A) /\ IsFiniteSet(B) /\ IsFiniteSet(C)
  <2> HIDE DEF A, B, C, W
  <2>1. QED
    BY <1>1, <1>2, <1>3, <1>4, ImageIsFinite
<1>6. UsedIds = (A \cup B) \cup C
  BY DEF UsedIds
<1>7. IsFiniteSet(UsedIds)
  <2> HIDE DEF A, B, C
  <2>1. QED
    BY <1>5, <1>6, FS_Union
<1>8. FreshId \in (Nat \ {0}) \ UsedIds
  BY <1>7, LeastUnused DEF FreshId
<1> HIDE DEF W
<1>9. FreshId \notin A /\ FreshId \notin B /\ FreshId \notin C
  <2> HIDE DEF A, B, C
  <2>1. QED
    BY <1>6, <1>8
<1>10. QED
  BY <1>8, <1>9 DEF W

(***************************************************************************)
(* The invariant, for one window: phase ph, editor e, controller a and       *)
(* message m of window w, beside the file f and the sessions ss.             *)
(***************************************************************************)
Editing(ph) == ph \in {"drawing"} \cup Finishing
Saving(ph) == ph \in {"drawing", "flushing", "lastSave", "idling"}

\* A is B and strokes of w; what lies between A and B are strokes of w.
Ahead(w, A, B) == B \subseteq A /\ \A s \in A : s \notin B => s.by = w
Own(w, A, B) == \A s \in Strokes : (s \in A) # (s \in B) => s.by = w

\* Each phase waits for one kind of request.
KindFits(ph, m) ==
    /\ ph = "closed" => m.kind = "none"
    /\ ph = "downloading" => m.kind \in {"download", "reply"}
    /\ ph \in {"firstPreviews", "previewing"} => m.kind \in {"previews", "reply"}
    /\ ph = "starting" => m.kind \in {"start", "reply"}
    /\ ph = "drawing" => m.kind \in {"none", "save", "reply"}
    /\ ph \in {"flushing", "lastSave", "idling"} => m.kind \in {"save", "reply"}
    /\ ph = "ending" => m.kind \in {"finish", "reply"}
    /\ ph = "discarding" => m.kind \in {"discard", "reply"}

\* The editor does not change its revision or session while its request is under way, and
\* nobody knows a revision the file has not reached.
RevisionFits(ph, e, m, f) ==
    /\ Sends(m) => m.revision = e.revision /\ m.session = e.session
    /\ Replies(m) => m.revision \in 1..f.revision
    /\ e.revision <= f.revision
    /\ ph \notin {"closed", "downloading"} => e.revision >= 1

\* What the controller's status says of its timer, its request and its being stopped.
StatusFits(ph, a, m) ==
    /\ a.timer => ph = "drawing" /\ ~a.stopped
    /\ ph = "drawing" /\ a.stopped => a.status = "conflict"
    /\ ph = "drawing" /\ Waits(m) => a.status = "saving" /\ ~a.stopped
    /\ ph = "drawing" /\ ~Waits(m) /\ ~a.dirty /\ ~a.stopped => a.status = "saved"
    /\ ph = "drawing" /\ ~a.stopped /\ a.status # "saved" => a.timer \/ Waits(m)
    /\ ph = "previewing" => a.status = "saved"
    /\ ph \in {"flushing", "lastSave", "previewing"} => ~a.stopped
    /\ ph \in {"idling", "discarding"} => a.stopped

\* While the file has the editor's revision, the editor has all the file has, and more only of
\* its own; what was sent to be saved or rendered is what the editor had.
SceneFits(w, ph, e, a, m, f) ==
    /\ e.seen \subseteq e.scene
    /\ e.revision = f.revision => Ahead(w, e.scene, f.content)
    /\ Editing(ph) /\ a.status = "saved" /\ e.revision = f.revision => e.seen \subseteq f.content
    /\ m.kind \in {"save", "previews"} => Ahead(w, e.scene, m.scene)
    /\ m.kind = "save" /\ ~a.dirty => e.seen \subseteq m.scene
    /\ m.kind = "previews" /\ m.revision = f.revision => f.content \subseteq m.scene

\* The window's strokes alone lie between the snapshot its session began with and the file.
Began(w, id, f, ss) ==
    \A i \in DOMAIN ss : ss[i].id = id => Own(w, ss[i].before.content, f.content)
SessionFits(w, e, f, ss) == e.revision = f.revision => Began(w, e.session, f, ss)

\* The answer to a save names a revision at which the same will hold.
Current(m, f) == Replies(m) /\ m.answer = "ok" /\ m.revision = f.revision
ReplyFits(w, ph, e, a, m, f, ss) ==
    Saving(ph) /\ Current(m, f) =>
        /\ Ahead(w, e.scene, f.content)
        /\ ~a.dirty => e.seen \subseteq f.content
        /\ Began(w, e.session, f, ss)

\* An editor opens with the content of the revision it downloaded.
OpeningFits(ph, e, m, f, ss) ==
    /\ ph \in {"closed", "downloading"} => e = NoEdit
    /\ ph \in {"firstPreviews", "starting"} =>
          /\ e.session = 0 /\ e.seen = e.scene
          /\ e.revision = f.revision => e.scene = f.content
    /\ ph = "downloading" /\ Current(m, f) => m.scene = f.content
    /\ ph = "starting" /\ Current(m, f) =>
          \A i \in DOMAIN ss : ss[i].id = m.session => ss[i].before.content = f.content

Fits(w, ph, e, a, m, f, ss) ==
    /\ ph \in Phases /\ e \in Edits /\ a \in Controllers /\ m \in Messages
    /\ KindFits(ph, m)
    /\ RevisionFits(ph, e, m, f)
    /\ StatusFits(ph, a, m)
    /\ SceneFits(w, ph, e, a, m, f)
    /\ SessionFits(w, e, f, ss)
    /\ ReplyFits(w, ph, e, a, m, f, ss)
    /\ OpeningFits(ph, e, m, f, ss)

-----------------------------------------------------------------------------
(***************************************************************************)
(* Openings and closings.                                                    *)
(***************************************************************************)
Asking(kind, scene, e) ==
    [kind |-> kind, scene |-> scene, revision |-> e.revision, session |-> e.session]

\* What a request carries.
LEMMA AskingFields ==
  ASSUME NEW kind \in Requests, NEW scene \in Scenes, NEW e \in Edits,
         NEW m, m = Asking(kind, scene, e)
  PROVE  /\ m \in Messages /\ Sends(m) /\ ~Replies(m) /\ Waits(m)
         /\ m.kind = kind /\ m.scene = scene
         /\ m.revision = e.revision /\ m.session = e.session
<1>1. m = [kind |-> kind, scene |-> scene, revision |-> e.revision, session |-> e.session]
  BY DEF Asking
<1>2. m \in [kind: Requests, scene: Scenes, revision: Nat, session: Nat]
  BY <1>1 DEF Edits
<1>3. m \in Messages
  BY <1>2 DEF Messages
<1>4. QED
  BY <1>1, <1>3 DEF Sends, Replies, Waits, Requests

\* No editor fits every file.
LEMMA ClosedFits ==
  ASSUME NEW w, NEW f \in Files, NEW ss \in Seq(Sessions)
  PROVE  Fits(w, "closed", NoEdit, Idle, Quiet, f, ss)
<1>1. NoEdit \in Edits /\ NoEdit.revision = 0 /\ NoEdit.seen = {} /\ NoEdit.scene = {}
  BY ScenesHaveEmpty DEF NoEdit, Edits
<1>2. Idle \in Controllers /\ ~Idle.timer /\ ~Idle.stopped /\ Idle.status = "saved"
  BY DEF Idle, Controllers, Statuses
<1>3. Quiet \in Messages /\ Quiet.kind = "none" /\ ~Waits(Quiet) /\ ~Sends(Quiet) /\ ~Replies(Quiet)
  BY DEF Quiet, Messages, Waits, Sends, Replies, Requests
<1>4. f.revision \in Nat /\ f.revision # 0
  BY DEF Files
<1>5. "closed" \in Phases /\ ~Editing("closed") /\ ~Saving("closed")
  BY DEF Phases, Editing, Finishing, Saving
<1>6. KindFits("closed", Quiet) /\ RevisionFits("closed", NoEdit, Quiet, f)
  BY <1>1, <1>3, <1>4 DEF KindFits, RevisionFits
<1>7. StatusFits("closed", Idle, Quiet)
  BY <1>2 DEF StatusFits
<1>8. SceneFits(w, "closed", NoEdit, Idle, Quiet, f) /\ SessionFits(w, NoEdit, f, ss)
  BY <1>1, <1>3, <1>4, <1>5 DEF SceneFits, SessionFits
<1>9. OpeningFits("closed", NoEdit, Quiet, f, ss) /\ ReplyFits(w, "closed", NoEdit, Idle, Quiet, f, ss)
  BY <1>5 DEF OpeningFits, ReplyFits
<1>10. QED
  BY <1>1, <1>2, <1>3, <1>5, <1>6, <1>7, <1>8, <1>9 DEF Fits

\* A download is asked for.
LEMMA AskedToOpenFits ==
  ASSUME NEW w, NEW f \in Files, NEW ss \in Seq(Sessions), NEW e, NEW a, NEW m,
         Fits(w, "closed", e, a, m, f, ss)
  PROVE  Fits(w, "downloading", e, a, Asking("download", {}, e), f, ss)
<1> DEFINE n == Asking("download", {}, e)
<1>1. e = NoEdit /\ e \in Edits /\ a \in Controllers
  BY DEF Fits, OpeningFits
<1>2. n \in Messages /\ n.kind = "download" /\ Sends(n) /\ ~Replies(n)
      /\ n.revision = e.revision /\ n.session = e.session
  BY <1>1, AskingFields, ScenesHaveEmpty DEF Requests
<1> HIDE DEF n
<1>3. e.revision = 0 /\ f.revision \in Nat /\ f.revision # 0 /\ e.seen = {} /\ e.scene = {}
  BY <1>1 DEF NoEdit, Files
<1>4. "downloading" \in Phases /\ ~Editing("downloading") /\ ~Saving("downloading")
  BY DEF Phases, Opening, Editing, Finishing, Saving
<1>5. KindFits("downloading", n) /\ RevisionFits("downloading", e, n, f)
  BY <1>2, <1>3 DEF KindFits, RevisionFits
<1>6. StatusFits("downloading", a, n)
  BY DEF StatusFits, Fits
<1>7. SceneFits(w, "downloading", e, a, n, f) /\ SessionFits(w, e, f, ss)
  BY <1>2, <1>3, <1>4 DEF SceneFits, SessionFits
<1>8. OpeningFits("downloading", e, n, f, ss) /\ ReplyFits(w, "downloading", e, a, n, f, ss)
  BY <1>1, <1>2, <1>4 DEF OpeningFits, ReplyFits, Current
<1>9. QED
  BY <1>1, <1>2, <1>4, <1>5, <1>6, <1>7, <1>8, <1>3 DEF Fits, n

\* The opening goes on to its previews or to its session.
LEMMA OpeningGoesOn ==
  ASSUME NEW w, NEW f \in Files, NEW ss \in Seq(Sessions), NEW ph \in {"firstPreviews", "starting"},
         NEW e \in Edits, NEW a \in Controllers, ~a.timer,
         e.session = 0, e.seen = e.scene, e.revision \in 1..f.revision,
         e.revision = f.revision => e.scene = f.content,
         NEW m, m = IF ph = "starting" THEN Asking("start", {}, e)
                                       ELSE Asking("previews", e.scene, e)
  PROVE  Fits(w, ph, e, a, m, f, ss)
<1>1. e.scene \in Scenes /\ e.revision \in Nat
  BY DEF Edits
<1>2. /\ m \in Messages /\ Sends(m) /\ ~Replies(m)
      /\ m.revision = e.revision /\ m.session = e.session
      /\ m.kind = IF ph = "starting" THEN "start" ELSE "previews"
      /\ ph = "firstPreviews" => m.scene = e.scene
  BY <1>1, AskingFields, ScenesHaveEmpty DEF Requests
<1>3. f.revision \in Nat /\ f.revision # 0
  BY DEF Files
<1>4. ph \in Phases /\ ~Editing(ph) /\ ~Saving(ph)
  BY DEF Phases, Opening, Editing, Finishing, Saving
<1>5. KindFits(ph, m) /\ RevisionFits(ph, e, m, f)
  BY <1>1, <1>2, <1>3 DEF KindFits, RevisionFits
<1>6. StatusFits(ph, a, m)
  BY DEF StatusFits
<1>7. SceneFits(w, ph, e, a, m, f)
  BY <1>2, <1>4 DEF SceneFits, Ahead
<1>8. SessionFits(w, e, f, ss)
  <2>1. \A i \in DOMAIN ss : ss[i] \in Sessions
    OBVIOUS
  <2>2. \A i \in DOMAIN ss : ss[i].id # e.session
    BY <2>1 DEF Sessions
  <2>3. QED
    BY <2>2 DEF SessionFits, Began
<1>9. OpeningFits(ph, e, m, f, ss) /\ ReplyFits(w, ph, e, a, m, f, ss)
  BY <1>2, <1>4 DEF OpeningFits, ReplyFits, Current
<1>10. QED
  BY <1>2, <1>4, <1>5, <1>6, <1>7, <1>8, <1>9 DEF Fits

\* The session is there, of the revision that was downloaded: the editor opens.
LEMMA OpenedFits ==
  ASSUME NEW w, NEW f \in Files, NEW ss \in Seq(Sessions), NEW e, NEW a, NEW m,
         Fits(w, "starting", e, a, m, f, ss), Replies(m), m.answer = "ok",
         m.revision = e.revision, NEW d, d = [e EXCEPT !.session = m.session]
  PROVE  Fits(w, "drawing", d, Idle, Quiet, f, ss)
<1>1. e \in Edits /\ m \in Messages
  BY DEF Fits
<1>2. m.session \in Nat
  BY <1>1, MessageFields DEF Waits, Replies
<1>3. /\ d \in Edits /\ d.session = m.session /\ d.revision = e.revision
      /\ d.scene = e.scene /\ d.seen = e.seen /\ d.revision \in Nat
  BY <1>1, <1>2 DEF Edits
<1>4. Idle \in Controllers /\ ~Idle.timer /\ ~Idle.stopped /\ Idle.status = "saved"
  BY DEF Idle, Controllers, Statuses
<1>5. Quiet \in Messages /\ Quiet.kind = "none" /\ ~Waits(Quiet) /\ ~Sends(Quiet) /\ ~Replies(Quiet)
  BY DEF Quiet, Messages, Waits, Sends, Replies, Requests
<1>6. /\ e.seen = e.scene /\ (e.revision = f.revision => e.scene = f.content)
      /\ e.revision = f.revision =>
            \A i \in DOMAIN ss : ss[i].id = m.session => ss[i].before.content = f.content
  BY DEF Fits, OpeningFits, Current
<1>7. KindFits("drawing", Quiet) /\ RevisionFits("drawing", d, Quiet, f)
  BY <1>3, <1>5 DEF Fits, KindFits, RevisionFits
<1>8. StatusFits("drawing", Idle, Quiet)
  BY <1>4, <1>5 DEF StatusFits
<1>9. SceneFits(w, "drawing", d, Idle, Quiet, f)
  BY <1>3, <1>5, <1>6 DEF SceneFits, Ahead
<1>10. SessionFits(w, d, f, ss)
  BY <1>3, <1>6 DEF SessionFits, Began, Own
<1>11. OpeningFits("drawing", d, Quiet, f, ss) /\ ReplyFits(w, "drawing", d, Idle, Quiet, f, ss)
  BY <1>5 DEF OpeningFits, ReplyFits, Current
<1>12. QED
  BY <1>3, <1>4, <1>5, <1>7, <1>8, <1>9, <1>10, <1>11 DEF Fits, Phases

-----------------------------------------------------------------------------
(***************************************************************************)
(* What other windows and the server do to a window's invariant.             *)
(***************************************************************************)

\* A window that knows only earlier revisions claims nothing of a later file.
LEMMA LaterFileFits ==
  ASSUME NEW w, NEW f \in Files, NEW g \in Files, NEW ss, NEW ph, NEW e, NEW a, NEW m,
         Fits(w, ph, e, a, m, f, ss), g.revision = f.revision + 1
  PROVE  Fits(w, ph, e, a, m, g, ss)
<1>1. /\ e \in Edits /\ a \in Controllers /\ m \in Messages /\ ph \in Phases
      /\ f.revision \in Nat /\ e.revision \in Nat
      /\ RevisionFits(ph, e, m, f) /\ SceneFits(w, ph, e, a, m, f) /\ OpeningFits(ph, e, m, f, ss)
  BY DEF Fits, Edits, Files
<1>2. Waits(m) => m.revision \in Nat
  BY <1>1, MessageFields
<1>3. m.kind \in {"save", "previews"} => Sends(m)
  BY DEF Sends, Requests
<1>4. e.revision # g.revision /\ e.revision <= g.revision
  BY <1>1 DEF RevisionFits
<1>5. Sends(m) => m.revision # g.revision
  BY <1>1, <1>4 DEF RevisionFits
<1>6. Replies(m) => m.revision # g.revision /\ m.revision \in 1..g.revision
  BY <1>1 DEF RevisionFits
<1>7. RevisionFits(ph, e, m, g)
  BY <1>1, <1>4, <1>6 DEF RevisionFits
<1>8. SceneFits(w, ph, e, a, m, g)
  BY <1>1, <1>3, <1>4, <1>5 DEF SceneFits
<1>9. ~Current(m, g)
  BY <1>6 DEF Current
<1>10. SessionFits(w, e, g, ss) /\ ReplyFits(w, ph, e, a, m, g, ss)
  BY <1>4, <1>9 DEF SessionFits, ReplyFits
<1>11. OpeningFits(ph, e, m, g, ss)
  BY <1>1, <1>4, <1>9 DEF OpeningFits
<1>12. QED
  BY <1>7, <1>8, <1>10, <1>11 DEF Fits

\* Previews are no content.
LEMMA SameContentFits ==
  ASSUME NEW w, NEW f \in Files, NEW g \in Files, NEW ss, NEW ph, NEW e, NEW a, NEW m,
         Fits(w, ph, e, a, m, f, ss), g.revision = f.revision, g.content = f.content
  PROVE  Fits(w, ph, e, a, m, g, ss)
<1>1. RevisionFits(ph, e, m, g) /\ SceneFits(w, ph, e, a, m, g)
  BY DEF Fits, RevisionFits, SceneFits
<1>2. \A id : Began(w, id, f, ss) <=> Began(w, id, g, ss)
  BY DEF Began
<1>3. Current(m, f) <=> Current(m, g)
  BY DEF Current
<1>4. SessionFits(w, e, g, ss) /\ ReplyFits(w, ph, e, a, m, g, ss) /\ OpeningFits(ph, e, m, g, ss)
  BY <1>2, <1>3 DEF Fits, SessionFits, ReplyFits, OpeningFits
<1>5. QED
  BY <1>1, <1>4 DEF Fits

\* Sessions that end, and one of another's that starts, take nothing from a window's own.
LEMMA OtherSessionsFit ==
  ASSUME NEW w, NEW f, NEW ss, NEW tt, NEW ph, NEW e, NEW a, NEW m,
         Fits(w, ph, e, a, m, f, ss),
         \A i \in DOMAIN tt :
             \/ \E j \in DOMAIN ss : ss[j] = tt[i]
             \/ tt[i].id # e.session /\ (Waits(m) => tt[i].id # m.session)
  PROVE  Fits(w, ph, e, a, m, f, tt)
<1>1. Began(w, e.session, f, ss) => Began(w, e.session, f, tt)
  BY DEF Began
<1>2. SessionFits(w, e, f, tt) /\ ReplyFits(w, ph, e, a, m, f, tt)
  BY <1>1 DEF Fits, SessionFits, ReplyFits
<1>3. Current(m, f) => Waits(m)
  BY DEF Current, Waits, Replies
<1>4. OpeningFits(ph, e, m, f, tt)
  BY <1>3 DEF Fits, OpeningFits
<1>5. QED
  BY <1>2, <1>4 DEF Fits

\* A refusal, or an answer that is lost, says nothing of the file.
LEMMA RefusalFits ==
  ASSUME NEW w, NEW f \in Files, NEW ss, NEW ph, NEW e, NEW a, NEW m,
         Fits(w, ph, e, a, m, f, ss), Waits(m),
         NEW n \in Messages, Replies(n), n.answer # "ok", n.revision \in 1..f.revision
  PROVE  Fits(w, ph, e, a, n, f, ss)
<1>1. Waits(n) /\ ~Sends(n) /\ ~Current(n, f) /\ n.kind = "reply"
  BY MessageFields DEF Current, Replies
<1>2. KindFits(ph, n)
  BY <1>1 DEF Fits, KindFits, Waits
<1>3. RevisionFits(ph, e, n, f) /\ StatusFits(ph, a, n)
  BY <1>1 DEF Fits, RevisionFits, StatusFits
<1>4. SceneFits(w, ph, e, a, n, f) /\ ReplyFits(w, ph, e, a, n, f, ss)
  BY <1>1 DEF Fits, SceneFits, ReplyFits
<1>5. OpeningFits(ph, e, n, f, ss)
  BY <1>1 DEF Fits, OpeningFits
<1>6. QED
  BY <1>2, <1>3, <1>4, <1>5 DEF Fits

\* So does an answer of success, but for what the three phases that read it need to know.
LEMMA AcceptanceFits ==
  ASSUME NEW w, NEW f \in Files, NEW ss, NEW ph, NEW e, NEW a, NEW m,
         Fits(w, ph, e, a, m, f, ss), Waits(m),
         NEW n \in Messages, Replies(n), n.answer = "ok", n.revision = f.revision,
         Saving(ph) => /\ Ahead(w, e.scene, f.content)
                       /\ ~a.dirty => e.seen \subseteq f.content
                       /\ Began(w, e.session, f, ss),
         ph = "downloading" => n.scene = f.content,
         ph = "starting" =>
             \A i \in DOMAIN ss : ss[i].id = n.session => ss[i].before.content = f.content
  PROVE  Fits(w, ph, e, a, n, f, ss)
<1>1. Waits(n) /\ ~Sends(n) /\ n.kind = "reply"
  BY MessageFields DEF Replies
<1>2. f.revision \in Nat /\ f.revision # 0
  BY DEF Files
<1>3. KindFits(ph, n)
  BY <1>1 DEF Fits, KindFits, Waits
<1>4. RevisionFits(ph, e, n, f) /\ StatusFits(ph, a, n)
  BY <1>1, <1>2 DEF Fits, RevisionFits, StatusFits
<1>5. SceneFits(w, ph, e, a, n, f) /\ ReplyFits(w, ph, e, a, n, f, ss)
  BY <1>1 DEF Fits, SceneFits, ReplyFits
<1>6. OpeningFits(ph, e, n, f, ss)
  BY <1>1 DEF Fits, OpeningFits
<1>7. QED
  BY <1>3, <1>4, <1>5, <1>6 DEF Fits

\* The phase a request belongs to.
LEMMA PhaseOfRequest ==
  ASSUME NEW w, NEW f, NEW ss, NEW ph, NEW e, NEW a, NEW m, Fits(w, ph, e, a, m, f, ss)
  PROVE  /\ m.kind = "save" => Saving(ph)
         /\ m.kind = "previews" => ph \in {"firstPreviews", "previewing"}
         /\ m.kind = "download" => ph = "downloading"
         /\ m.kind = "start" => ph = "starting"
         /\ m.kind = "finish" => ph = "ending"
         /\ m.kind = "discard" => ph = "discarding"
BY DEF Fits, KindFits, Phases, Opening, Finishing, Saving

\* The scene a window may save over the file's: what the save takes away or adds is its own.
LEMMA SavedSceneIsOwn ==
  ASSUME NEW w, NEW A, NEW B, NEW C, Ahead(w, A, B), Ahead(w, A, C)
  PROVE  Own(w, B, C)
BY DEF Ahead, Own

\* One's own changes, one after the other, are one's own.
LEMMA OwnIsTransitive ==
  ASSUME NEW w, NEW A, NEW B, NEW C, Own(w, A, B), Own(w, B, C)
  PROVE  Own(w, A, C)
BY DEF Own

\* A save the server accepts: the answer is of the revision it made.
LEMMA AcceptedSaveFits ==
  ASSUME NEW w, NEW f \in Files, NEW g \in Files, NEW ss, NEW ph, NEW e, NEW a, NEW m,
         Fits(w, ph, e, a, m, f, ss), m.kind = "save", m.revision = f.revision,
         g.revision = f.revision + 1, g.content = m.scene,
         NEW n \in Messages, Replies(n), n.answer = "ok", n.revision = g.revision
  PROVE  Fits(w, ph, e, a, n, g, ss)
<1>1. Sends(m) /\ Waits(m) /\ Saving(ph)
  BY PhaseOfRequest DEF Sends, Waits, Requests
<1>2. e.revision = f.revision
  BY <1>1 DEF Fits, RevisionFits
<1>3. Ahead(w, e.scene, f.content) /\ Ahead(w, e.scene, m.scene) /\ Began(w, e.session, f, ss)
  BY <1>2 DEF Fits, SceneFits, SessionFits
<1>4. ~a.dirty => e.seen \subseteq g.content
  BY DEF Fits, SceneFits
<1>5. Own(w, f.content, g.content)
  BY <1>3, SavedSceneIsOwn
<1>6. Began(w, e.session, g, ss)
  BY <1>3, <1>5, OwnIsTransitive DEF Began
<1>7. Fits(w, ph, e, a, m, g, ss)
  BY LaterFileFits
<1>8. ph # "downloading" /\ ph # "starting"
  BY <1>1 DEF Saving
<1>9. QED
  BY <1>1, <1>3, <1>4, <1>6, <1>7, <1>8, AcceptanceFits

-----------------------------------------------------------------------------
(***************************************************************************)
(* What the window's own steps do.  Core is what an open editor knows         *)
(* whatever its phase.                                                       *)
(***************************************************************************)
Core(w, e, a, f, ss) ==
    /\ e \in Edits /\ a \in Controllers
    /\ e.seen \subseteq e.scene /\ e.revision \in 1..f.revision
    /\ e.revision = f.revision => Ahead(w, e.scene, f.content) /\ Began(w, e.session, f, ss)
    /\ a.status = "saved" /\ e.revision = f.revision => e.seen \subseteq f.content

\* An open editor that fits has the core.
LEMMA OpenHasCore ==
  ASSUME NEW w, NEW f \in Files, NEW ss, NEW ph, NEW e, NEW a, NEW m,
         Fits(w, ph, e, a, m, f, ss), Editing(ph)
  PROVE  Core(w, e, a, f, ss)
<1>1. ph \notin {"closed", "downloading"}
  BY DEF Editing, Finishing
<1>2. e.revision \in Nat /\ f.revision \in Nat
  BY DEF Fits, Edits, Files
<1>3. e.revision \in 1..f.revision
  BY <1>1, <1>2 DEF Fits, RevisionFits
<1>4. QED
  BY <1>3 DEF Fits, SceneFits, SessionFits, Core

\* The answer to a save leaves the editor as it claims.
LEMMA SettledHasCore ==
  ASSUME NEW w, NEW f \in Files, NEW ss, NEW ph, NEW e, NEW a, NEW m,
         Fits(w, ph, e, a, m, f, ss), Saving(ph), Replies(m),
         NEW d, d = [e EXCEPT !.revision = IF m.answer = "ok" THEN m.revision ELSE e.revision]
  PROVE  Core(w, d, SaveSettles(a, m.answer), f, ss)
<1> DEFINE b == SaveSettles(a, m.answer)
<1>1. /\ e \in Edits /\ a \in Controllers /\ m \in Messages
      /\ RevisionFits(ph, e, m, f) /\ ReplyFits(w, ph, e, a, m, f, ss)
  BY DEF Fits
<1>2. Editing(ph)
  BY DEF Editing, Saving, Finishing
<1>3. Core(w, e, a, f, ss)
  BY <1>2, OpenHasCore
<1>4. m.answer \in {"ok", "conflict", "gone", "lost"} /\ m.revision \in Nat
  BY <1>1, MessageFields DEF Replies, Waits
<1>5. /\ d \in Edits /\ d.session = e.session /\ d.scene = e.scene /\ d.seen = e.seen
      /\ d.revision = IF m.answer = "ok" THEN m.revision ELSE e.revision
  BY <1>1, <1>4 DEF Edits
<1>6. b \in Controllers /\ (b.status = "saved" => m.answer = "ok" /\ ~a.dirty)
  BY <1>1, <1>4, SaveSettlesFields
<1> HIDE DEF b
<1>7. d.revision \in 1..f.revision
  BY <1>1, <1>3, <1>5 DEF RevisionFits, Core
<1>8. CASE m.answer = "ok"
  <2>1. d.revision = f.revision => Current(m, f)
    BY <1>5, <1>8 DEF Current
  <2>2. QED
    BY <1>1, <1>3, <1>5, <1>6, <1>7, <2>1 DEF Core, ReplyFits, b
<1>9. CASE m.answer # "ok"
  BY <1>3, <1>5, <1>6, <1>7, <1>9 DEF Core, b
<1>10. QED
  BY <1>8, <1>9

\* An editor without a request.
LEMMA RestsFits ==
  ASSUME NEW w, NEW f \in Files, NEW ss, NEW e, NEW a, Core(w, e, a, f, ss),
         a.timer => ~a.stopped, a.stopped => a.status = "conflict",
         ~a.dirty /\ ~a.stopped => a.status = "saved",
         ~a.stopped /\ a.status # "saved" => a.timer
  PROVE  Fits(w, "drawing", e, a, Quiet, f, ss)
<1>1. /\ Quiet \in Messages /\ Quiet.kind = "none"
      /\ ~Waits(Quiet) /\ ~Sends(Quiet) /\ ~Replies(Quiet)
  BY DEF Quiet, Messages, Waits, Sends, Replies, Requests
<1>2. "drawing" \in Phases /\ e \in Edits /\ a \in Controllers /\ e.revision \in 1..f.revision
  BY DEF Phases, Core
<1>3. f.revision \in Nat
  BY DEF Files
<1>4. KindFits("drawing", Quiet) /\ RevisionFits("drawing", e, Quiet, f)
  BY <1>1, <1>2, <1>3 DEF KindFits, RevisionFits
<1>5. StatusFits("drawing", a, Quiet)
  BY <1>1 DEF StatusFits
<1>6. SceneFits(w, "drawing", e, a, Quiet, f) /\ SessionFits(w, e, f, ss)
  BY <1>1 DEF SceneFits, SessionFits, Core
<1>7. OpeningFits("drawing", e, Quiet, f, ss) /\ ReplyFits(w, "drawing", e, a, Quiet, f, ss)
  BY <1>1 DEF OpeningFits, ReplyFits, Current
<1>8. QED
  BY <1>1, <1>2, <1>4, <1>5, <1>6, <1>7 DEF Fits

\* An editor that sends a request.
LEMMA AsksFits ==
  ASSUME NEW w, NEW f \in Files, NEW ss, NEW e, NEW a, Core(w, e, a, f, ss), ~a.timer,
         NEW ph \in {"drawing", "lastSave", "previewing", "ending", "discarding"},
         NEW kind \in Requests, NEW scene \in Scenes,
         ph \in {"drawing", "lastSave"} =>
             kind = "save" /\ scene = e.scene /\ a.status = "saving" /\ ~a.stopped,
         ph = "previewing" =>
             kind = "previews" /\ scene = e.scene /\ a.status = "saved" /\ ~a.stopped,
         ph = "ending" => kind = "finish",
         ph = "discarding" => kind = "discard" /\ a.stopped
  PROVE  Fits(w, ph, e, a, Asking(kind, scene, e), f, ss)
<1> DEFINE n == Asking(kind, scene, e)
<1>1. /\ e \in Edits /\ a \in Controllers /\ e.revision \in 1..f.revision
      /\ e.revision \in Nat /\ f.revision \in Nat
  BY DEF Core, Files, Edits
<1>2. /\ n \in Messages /\ Sends(n) /\ ~Replies(n) /\ Waits(n) /\ n.kind = kind
      /\ n.scene = scene /\ n.revision = e.revision /\ n.session = e.session
  BY <1>1, AskingFields
<1> HIDE DEF n
<1>3. ph \in Phases
  BY DEF Phases, Finishing
<1>4. KindFits(ph, n) /\ RevisionFits(ph, e, n, f)
  BY <1>1, <1>2 DEF KindFits, RevisionFits
<1>5. StatusFits(ph, a, n)
  BY <1>2 DEF StatusFits
<1>6. SceneFits(w, ph, e, a, n, f)
  BY <1>2 DEF SceneFits, Core, Ahead
<1>7. SessionFits(w, e, f, ss)
  BY DEF SessionFits, Core
<1>8. OpeningFits(ph, e, n, f, ss) /\ ReplyFits(w, ph, e, a, n, f, ss)
  BY <1>2 DEF OpeningFits, ReplyFits, Current
<1>9. QED
  BY <1>1, <1>2, <1>3, <1>4, <1>5, <1>6, <1>7, <1>8 DEF Fits, n

\* Another state of the controller under the same core.
LEMMA CoreOfController ==
  ASSUME NEW w, NEW f, NEW ss, NEW e, NEW a, Core(w, e, a, f, ss),
         NEW b \in Controllers, b.status = "saved" => a.status = "saved"
  PROVE  Core(w, e, b, f, ss)
BY DEF Core

\* The controller with its timer off, stopped, and with a save that starts.
LEMMA ControllerFields ==
  ASSUME NEW a \in Controllers
  PROVE  /\ a.dirty \in BOOLEAN /\ a.stopped \in BOOLEAN /\ a.timer \in BOOLEAN
         /\ a.status \in Statuses
         /\ [a EXCEPT !.timer = FALSE] \in Controllers
         /\ [a EXCEPT !.timer = FALSE].timer = FALSE
         /\ [a EXCEPT !.timer = FALSE].dirty = a.dirty
         /\ [a EXCEPT !.timer = FALSE].stopped = a.stopped
         /\ [a EXCEPT !.timer = FALSE].status = a.status
         /\ StopSaving(a) \in Controllers
         /\ StopSaving(a).timer = FALSE /\ StopSaving(a).stopped = TRUE
         /\ StopSaving(a).dirty = a.dirty /\ StopSaving(a).status = a.status
         /\ SaveStarts(a) \in Controllers
         /\ SaveStarts(a).timer = FALSE /\ SaveStarts(a).dirty = FALSE
         /\ SaveStarts(a).stopped = a.stopped /\ SaveStarts(a).status = "saving"
BY DEF Controllers, StopSaving, SaveStarts, Statuses

\* Done and Discard wait for a save that is under way.
LEMMA WaitingFits ==
  ASSUME NEW w, NEW f, NEW ss, NEW e, NEW a, NEW m,
         Fits(w, "drawing", e, a, m, f, ss), Waits(m),
         NEW ph \in {"flushing", "idling"},
         NEW b, b = IF ph = "flushing" THEN [a EXCEPT !.timer = FALSE] ELSE StopSaving(a)
  PROVE  Fits(w, ph, e, b, m, f, ss)
<1>1. a \in Controllers /\ a.status = "saving" /\ ~a.stopped
  BY DEF Fits, StatusFits
<1>2. /\ b \in Controllers /\ b.timer = FALSE /\ b.dirty = a.dirty /\ b.status = "saving"
      /\ b.stopped = (ph = "idling")
  BY <1>1, ControllerFields
<1>3. ph \in Phases /\ Saving(ph) /\ Saving("drawing")
  BY DEF Phases, Finishing, Saving
<1>4. KindFits(ph, m)
  BY DEF Fits, KindFits, Waits
<1>5. RevisionFits(ph, e, m, f) /\ StatusFits(ph, b, m)
  BY <1>1, <1>2 DEF Fits, RevisionFits, StatusFits
<1>6. SceneFits(w, ph, e, b, m, f)
  BY <1>1, <1>2 DEF Fits, SceneFits
<1>7. ReplyFits(w, ph, e, b, m, f, ss) /\ OpeningFits(ph, e, m, f, ss)
  BY <1>2, <1>3 DEF Fits, ReplyFits, OpeningFits
<1>8. QED
  BY <1>2, <1>3, <1>4, <1>5, <1>6, <1>7 DEF Fits

\* The timer fires while a save is under way, or with nothing to save.
LEMMA TimerOffFits ==
  ASSUME NEW w, NEW f, NEW ss, NEW e, NEW a, NEW m,
         Fits(w, "drawing", e, a, m, f, ss), Waits(m) \/ ~a.dirty,
         NEW b, b = [a EXCEPT !.timer = FALSE]
  PROVE  Fits(w, "drawing", e, b, m, f, ss)
<1>1. a \in Controllers
  BY DEF Fits
<1>2. /\ b \in Controllers /\ b.timer = FALSE /\ b.dirty = a.dirty /\ b.status = a.status
      /\ b.stopped = a.stopped
  BY <1>1, ControllerFields
<1>3. StatusFits("drawing", b, m)
  BY <1>2 DEF Fits, StatusFits
<1>4. SceneFits(w, "drawing", e, b, m, f) /\ ReplyFits(w, "drawing", e, b, m, f, ss)
  BY <1>2 DEF Fits, SceneFits, ReplyFits
<1>5. QED
  BY <1>2, <1>3, <1>4 DEF Fits

\* What the user draws, reported as a change.
LEMMA ChangedFits ==
  ASSUME NEW w, NEW f, NEW ss, NEW e, NEW a, NEW m,
         Fits(w, "drawing", e, a, m, f, ss),
         NEW scene \in Scenes, Ahead(w, scene, e.scene),
         NEW d, d = [e EXCEPT !.scene = scene, !.seen = scene],
         NEW b, b = IF a.stopped THEN a
                    ELSE [a EXCEPT !.dirty = TRUE, !.timer = TRUE,
                                   !.status = IF Waits(m) THEN a.status ELSE "unsaved"]
  PROVE  Fits(w, "drawing", d, b, m, f, ss)
<1>1. a \in Controllers /\ e \in Edits /\ m \in Messages
  BY DEF Fits
<1>2. /\ d \in Edits /\ d.session = e.session /\ d.revision = e.revision
      /\ d.scene = scene /\ d.seen = scene
  BY <1>1 DEF Edits
<1>3. /\ b \in Controllers /\ b.stopped = a.stopped
      /\ ~a.stopped => b.timer = TRUE /\ b.dirty = TRUE
                       /\ b.status = IF Waits(m) THEN a.status ELSE "unsaved"
      /\ a.stopped => b = a
  BY <1>1 DEF Controllers, Statuses
<1>4. Waits(m) => ~a.stopped /\ a.status = "saving"
  BY DEF Fits, StatusFits
<1>5. m.kind = "save" => Waits(m)
  BY DEF Waits
<1>6. a.stopped => a.status = "conflict"
  BY DEF Fits, StatusFits
<1>7. b.status # "saved"
  BY <1>3, <1>4, <1>6
<1>8. RevisionFits("drawing", d, m, f) /\ StatusFits("drawing", b, m)
  BY <1>2, <1>3, <1>4 DEF Fits, RevisionFits, StatusFits
<1>9. SceneFits(w, "drawing", d, b, m, f)
  BY <1>2, <1>3, <1>4, <1>5, <1>7 DEF Fits, SceneFits, Ahead
<1>10. SessionFits(w, d, f, ss)
  BY <1>2 DEF Fits, SessionFits
<1>11. ReplyFits(w, "drawing", d, b, m, f, ss)
  <2>1. Current(m, f) => Waits(m)
    BY DEF Current, Replies, Waits
  <2>2. QED
    BY <1>2, <1>3, <1>4, <2>1 DEF Fits, ReplyFits, Ahead
<1>12. OpeningFits("drawing", d, m, f, ss)
  BY DEF OpeningFits
<1>13. QED
  BY <1>1, <1>2, <1>3, <1>8, <1>9, <1>10, <1>11, <1>12 DEF Fits

\* What the user draws while Done or Discard runs.
LEMMA DrawnFits ==
  ASSUME NEW w, NEW f, NEW ss, NEW ph \in Finishing, NEW e, NEW a, NEW m,
         Fits(w, ph, e, a, m, f, ss),
         NEW scene \in Scenes, Ahead(w, scene, e.scene),
         NEW d, d = [e EXCEPT !.scene = scene]
  PROVE  Fits(w, ph, d, a, m, f, ss)
<1>1. e \in Edits
  BY DEF Fits
<1>2. /\ d \in Edits /\ d.session = e.session /\ d.revision = e.revision
      /\ d.scene = scene /\ d.seen = e.seen
  BY <1>1 DEF Edits
<1>3. RevisionFits(ph, d, m, f)
  BY <1>2 DEF Fits, RevisionFits
<1>4. SceneFits(w, ph, d, a, m, f)
  BY <1>2 DEF Fits, SceneFits, Ahead
<1>5. SessionFits(w, d, f, ss)
  BY <1>2 DEF Fits, SessionFits
<1>6. ReplyFits(w, ph, d, a, m, f, ss)
  BY <1>2 DEF Fits, ReplyFits, Ahead
<1>7. OpeningFits(ph, d, m, f, ss)
  BY DEF OpeningFits, Finishing
<1>8. QED
  BY <1>2, <1>3, <1>4, <1>5, <1>6, <1>7 DEF Fits

-----------------------------------------------------------------------------
(***************************************************************************)
(* The editors' part of the invariant, and the windows' own steps.           *)
(***************************************************************************)
EditorInv ==
    /\ phase \in [Windows -> Phases] /\ edit \in [Windows -> Edits]
    /\ autosave \in [Windows -> Controllers] /\ wire \in [Windows -> Messages]
    /\ \A w \in Windows : Fits(w, phase[w], edit[w], autosave[w], wire[w], file, sessions)
ServerInv ==
    file \in Files /\ sessions \in Seq(Sessions) /\ Len(sessions) <= MaxOpenSessions

\* A step of one window alone.
LEMMA OwnStep ==
  ASSUME EditorInv, NEW w \in Windows, NEW ph, NEW e, NEW a, NEW m,
         Fits(w, ph, e, a, m, file, sessions), UNCHANGED <<file, sessions>>,
         phase' = [phase EXCEPT ![w] = ph], edit' = [edit EXCEPT ![w] = e],
         autosave' = [autosave EXCEPT ![w] = a], wire' = [wire EXCEPT ![w] = m]
  PROVE  EditorInv'
<1>1. ph \in Phases /\ e \in Edits /\ a \in Controllers /\ m \in Messages
  BY DEF Fits
<1>2. /\ phase' \in [Windows -> Phases] /\ edit' \in [Windows -> Edits]
      /\ autosave' \in [Windows -> Controllers] /\ wire' \in [Windows -> Messages]
  BY <1>1 DEF EditorInv
<1>3. ASSUME NEW v \in Windows
      PROVE  Fits(v, phase'[v], edit'[v], autosave'[v], wire'[v], file', sessions')
  <2>1. CASE v = w
    BY <2>1 DEF EditorInv
  <2>2. CASE v # w
    <3>1. /\ phase'[v] = phase[v] /\ edit'[v] = edit[v] /\ autosave'[v] = autosave[v]
          /\ wire'[v] = wire[v]
      BY <2>2 DEF EditorInv
    <3>2. QED
      BY <3>1 DEF EditorInv
  <2>3. QED
    BY <2>1, <2>2
<1>4. QED
  BY <1>2, <1>3 DEF EditorInv

\* What a window's values are, and that leaving one alone is writing it again.
LEMMA WindowValues ==
  ASSUME EditorInv, NEW w \in Windows
  PROVE  /\ phase[w] \in Phases /\ edit[w] \in Edits /\ autosave[w] \in Controllers
         /\ wire[w] \in Messages
         /\ Fits(w, phase[w], edit[w], autosave[w], wire[w], file, sessions)
         /\ phase = [phase EXCEPT ![w] = phase[w]] /\ edit = [edit EXCEPT ![w] = edit[w]]
         /\ autosave = [autosave EXCEPT ![w] = autosave[w]]
         /\ wire = [wire EXCEPT ![w] = wire[w]]
BY DEF EditorInv

\* The model's words for a window's request, as said of the message itself.
LEMMA WireWords ==
  ASSUME NEW w
  PROVE  /\ InFlight(w) <=> Waits(wire[w])
         /\ Answered(w) <=> Replies(wire[w])
         /\ Sent(w) <=> Sends(wire[w])
         /\ Answer(w) = wire[w].answer
BY DEF InFlight, Answered, Sent, Answer, Waits, Replies, Sends

\* Opening: the download is asked for.
LEMMA OpenEditorKeeps ==
  ASSUME EditorInv, ServerInv, NEW w \in Windows, OpenEditor(w)
  PROVE  EditorInv'
<1>1. Fits(w, "closed", edit[w], autosave[w], wire[w], file, sessions)
  BY WindowValues DEF OpenEditor
<1>2. Fits(w, "downloading", edit[w], autosave[w], Asking("download", {}, edit[w]), file, sessions)
  BY <1>1, AskedToOpenFits DEF ServerInv
<1>3. /\ phase' = [phase EXCEPT ![w] = "downloading"] /\ UNCHANGED <<edit, autosave, file, sessions>>
      /\ wire' = [wire EXCEPT ![w] = Asking("download", {}, edit[w])]
  BY DEF OpenEditor, Send, Asking, serverVars
<1>4. QED
  BY <1>2, <1>3, OwnStep, WindowValues

\* An opening that failed, a window that closed: nothing is left of the editor.
LEMMA NoEditorKeeps ==
  ASSUME EditorInv, ServerInv, NEW w \in Windows, UNCHANGED <<file, sessions>>,
         phase' = [phase EXCEPT ![w] = "closed"], edit' = [edit EXCEPT ![w] = NoEdit],
         autosave' = [autosave EXCEPT ![w] = Idle], wire' = [wire EXCEPT ![w] = Quiet]
  PROVE  EditorInv'
<1>1. Fits(w, "closed", NoEdit, Idle, Quiet, file, sessions)
  BY ClosedFits DEF ServerInv
<1>2. QED
  BY <1>1, OwnStep

\* Opening: the previews of a new diagram, or the session, are asked for.
LEMMA DownloadedKeeps ==
  ASSUME EditorInv, ServerInv, NEW w \in Windows, Downloaded(w)
  PROVE  EditorInv'
<1>1. /\ Fits(w, "downloading", edit[w], autosave[w], wire[w], file, sessions)
      /\ Replies(wire[w]) /\ UNCHANGED <<file, sessions>>
  BY WindowValues, WireWords DEF Downloaded, serverVars
<1>2. CASE NoEditor(w)
  BY <1>1, <1>2, NoEditorKeeps DEF NoEditor
<1>3. CASE Answer(w) = "ok" /\ ~NoEditor(w)
  <2> DEFINE e == [NoEdit EXCEPT !.revision = wire[w].revision, !.scene = wire[w].scene,
                                 !.seen = wire[w].scene]
             ph == IF isNew[w] THEN "firstPreviews" ELSE "starting"
             m == IF ph = "starting" THEN Asking("start", {}, e)
                                     ELSE Asking("previews", e.scene, e)
  <2>1. wire[w].scene \in Scenes /\ wire[w].revision \in Nat
    BY <1>1, WindowValues, MessageFields DEF Waits, Replies
  <2>2. /\ e \in Edits /\ e.session = 0 /\ e.revision = wire[w].revision
        /\ e.scene = wire[w].scene /\ e.seen = wire[w].scene
    BY <2>1 DEF NoEdit, Edits
  <2>3. /\ edit' = [edit EXCEPT ![w] = e] /\ UNCHANGED autosave
        /\ phase' = [phase EXCEPT ![w] = ph] /\ wire' = [wire EXCEPT ![w] = m]
    BY <1>3 DEF Downloaded, Send, Asking
  <2>4. ph \in {"firstPreviews", "starting"}
    OBVIOUS
  <2> HIDE DEF e, ph
  <2>5. e.revision \in 1..file.revision
    BY <1>1, <2>2 DEF Fits, RevisionFits
  <2>6. e.revision = file.revision => e.scene = file.content
    BY <1>1, <1>3, <2>2, WireWords DEF Fits, OpeningFits, Current
  <2>7. ~autosave[w].timer /\ autosave[w] \in Controllers
    BY <1>1 DEF Fits, StatusFits
  <2>8. Fits(w, ph, e, autosave[w], m, file, sessions)
    BY <2>2, <2>4, <2>5, <2>6, <2>7, OpeningGoesOn DEF ServerInv
  <2> HIDE DEF m
  <2>9. QED
    BY <1>1, <2>3, <2>8, OwnStep, WindowValues
<1>4. QED
  BY <1>2, <1>3 DEF Downloaded

\* Opening: the session is asked for.
LEMMA FirstPreviewsStoredKeeps ==
  ASSUME EditorInv, ServerInv, NEW w \in Windows, FirstPreviewsStored(w)
  PROVE  EditorInv'
<1>1. /\ Fits(w, "firstPreviews", edit[w], autosave[w], wire[w], file, sessions)
      /\ UNCHANGED <<file, sessions>>
  BY WindowValues DEF FirstPreviewsStored, serverVars
<1>2. CASE NoEditor(w)
  BY <1>1, <1>2, NoEditorKeeps DEF NoEditor
<1>3. CASE Answer(w) = "ok" /\ ~NoEditor(w)
  <2> DEFINE e == edit[w]
             m == Asking("start", {}, e)
  <2>1. /\ phase' = [phase EXCEPT ![w] = "starting"] /\ wire' = [wire EXCEPT ![w] = m]
        /\ UNCHANGED <<edit, autosave>>
    BY <1>3 DEF FirstPreviewsStored, Send, Asking
  <2>2. /\ e \in Edits /\ e.session = 0 /\ e.seen = e.scene
        /\ e.revision = file.revision => e.scene = file.content
    BY <1>1 DEF Fits, OpeningFits
  <2>3. e.revision \in 1..file.revision
    BY <1>1, <2>2 DEF Fits, RevisionFits, Edits, ServerInv, Files
  <2>4. ~autosave[w].timer /\ autosave[w] \in Controllers
    BY <1>1 DEF Fits, StatusFits
  <2> HIDE DEF e
  <2>5. Fits(w, "starting", e, autosave[w], m, file, sessions)
    BY <2>2, <2>3, <2>4, OpeningGoesOn DEF ServerInv
  <2> HIDE DEF m
  <2>6. QED
    BY <1>1, <2>1, <2>5, OwnStep, WindowValues DEF e
<1>4. QED
  BY <1>2, <1>3 DEF FirstPreviewsStored

\* Opening: the editor opens on the revision it downloaded.
LEMMA SessionStartedKeeps ==
  ASSUME EditorInv, ServerInv, NEW w \in Windows, SessionStarted(w)
  PROVE  EditorInv'
<1>1. /\ Fits(w, "starting", edit[w], autosave[w], wire[w], file, sessions)
      /\ Replies(wire[w]) /\ UNCHANGED <<file, sessions>>
  BY WindowValues, WireWords DEF SessionStarted, serverVars
<1>2. CASE NoEditor(w)
  BY <1>1, <1>2, NoEditorKeeps DEF NoEditor
<1>3. CASE ~NoEditor(w)
  <2> DEFINE e == [edit[w] EXCEPT !.session = wire[w].session]
  <2>1. /\ wire[w].answer = "ok" /\ wire[w].revision = edit[w].revision
        /\ phase' = [phase EXCEPT ![w] = "drawing"] /\ edit' = [edit EXCEPT ![w] = e]
        /\ autosave' = [autosave EXCEPT ![w] = Idle] /\ wire' = [wire EXCEPT ![w] = Quiet]
    BY <1>3, WireWords, WindowValues DEF SessionStarted
  <2>2. Fits(w, "drawing", e, Idle, Quiet, file, sessions)
    BY <1>1, <2>1, OpenedFits DEF ServerInv
  <2> HIDE DEF e
  <2>3. QED
    BY <1>1, <2>1, <2>2, OwnStep
<1>4. QED
  BY <1>2, <1>3

\* --- Drawing and autosave

\* Drawing adds a stroke of the window's own.
LEMMA SceneReportedKeeps ==
  ASSUME EditorInv, ServerInv, NEW w \in Windows, NEW scene \in Scenes,
         Ahead(w, scene, edit[w].scene), Open(w), SceneReported(w, scene),
         UNCHANGED <<phase, wire, file, sessions>>
  PROVE  EditorInv'
<1>1. CASE phase[w] = "drawing"
  <2> DEFINE d == [edit[w] EXCEPT !.scene = scene, !.seen = scene]
             a == autosave[w]
             b == IF a.stopped THEN a
                  ELSE [a EXCEPT !.dirty = TRUE, !.timer = TRUE,
                                 !.status = IF Waits(wire[w]) THEN a.status ELSE "unsaved"]
  <2>1. edit' = [edit EXCEPT ![w] = d] /\ autosave' = [autosave EXCEPT ![w] = b]
    BY <1>1, WireWords, WindowValues DEF SceneReported, NoteChange
  <2>2. Fits(w, "drawing", edit[w], autosave[w], wire[w], file, sessions)
    BY <1>1, WindowValues
  <2>3. Fits(w, "drawing", d, b, wire[w], file, sessions)
    BY <2>2, ChangedFits
  <2> HIDE DEF b, d
  <2>4. /\ UNCHANGED <<file, sessions>> /\ phase' = [phase EXCEPT ![w] = "drawing"]
        /\ wire' = [wire EXCEPT ![w] = wire[w]]
    BY <1>1, WindowValues
  <2>5. QED
    BY <2>1, <2>3, <2>4, OwnStep
<1>2. CASE phase[w] # "drawing"
  <2> DEFINE d == [edit[w] EXCEPT !.scene = scene]
  <2>1. edit' = [edit EXCEPT ![w] = d] /\ UNCHANGED autosave
    BY <1>2, WindowValues DEF SceneReported
  <2>2. phase[w] \in Finishing
    BY <1>2 DEF Open
  <2>3. Fits(w, phase[w], d, autosave[w], wire[w], file, sessions)
    BY <2>2, WindowValues, DrawnFits
  <2> DEFINE p == phase[w]
             a == autosave[w]
             m == wire[w]
  <2>4. /\ UNCHANGED <<file, sessions>> /\ phase' = [phase EXCEPT ![w] = p]
        /\ wire' = [wire EXCEPT ![w] = m] /\ autosave' = [autosave EXCEPT ![w] = a]
        /\ edit' = [edit EXCEPT ![w] = d] /\ Fits(w, p, d, a, m, file, sessions)
    BY <2>1, <2>3, WindowValues
  <2> HIDE DEF d, p, a, m
  <2>5. QED
    BY <2>4, OwnStep
<1>3. QED
  BY <1>1, <1>2

\* The user draws a stroke.
LEMMA DrawsKeeps ==
  ASSUME EditorInv, ServerInv, NEW w \in Windows, unused \subseteq Strokes, Draws(w)
  PROVE  EditorInv'
<1>1. PICK s \in unused : s.by = w /\ SceneReported(w, edit[w].scene \cup {s})
  BY DEF Draws
<1>2. edit[w].scene \in Scenes
  BY WindowValues DEF Edits
<1>3. edit[w].scene \cup {s} \in Scenes
  BY <1>2 DEF Scenes
<1>4. Ahead(w, edit[w].scene \cup {s}, edit[w].scene)
  BY <1>1 DEF Ahead
<1>5. Open(w) /\ UNCHANGED <<phase, wire, file, sessions>>
  BY DEF Draws, serverVars
<1>6. QED
  BY <1>1, <1>3, <1>4, <1>5, SceneReportedKeeps

\* Excalidraw reports what was drawn while Done ran.
LEMMA MovesPointerKeeps ==
  ASSUME EditorInv, ServerInv, NEW w \in Windows, MovesPointer(w)
  PROVE  EditorInv'
<1>1. edit[w].scene \in Scenes
  BY WindowValues DEF Edits
<1>2. Ahead(w, edit[w].scene, edit[w].scene)
  BY DEF Ahead
<1>3. Open(w) /\ SceneReported(w, edit[w].scene) /\ UNCHANGED <<phase, wire, file, sessions>>
  BY DEF MovesPointer, serverVars, Open
<1>4. QED
  BY <1>1, <1>2, <1>3, SceneReportedKeeps

\* The timer's save starts at once, or the timer goes off.
LEMMA TimerFiresKeeps ==
  ASSUME EditorInv, ServerInv, NEW w \in Windows, TimerFires(w)
  PROVE  EditorInv'
<1> DEFINE a == [autosave[w] EXCEPT !.timer = FALSE]
           e == edit[w]
<1>1. /\ Fits(w, "drawing", e, autosave[w], wire[w], file, sessions)
      /\ UNCHANGED <<phase, edit, file, sessions>> /\ phase[w] = "drawing" /\ autosave[w].timer
  BY WindowValues DEF TimerFires, serverVars
<1>2. /\ a \in Controllers /\ a.timer = FALSE /\ a.dirty = autosave[w].dirty
      /\ a.stopped = autosave[w].stopped /\ a.status = autosave[w].status
  BY WindowValues, ControllerFields
<1>3. CASE ~InFlight(w) /\ a.dirty
  <2> DEFINE b == SaveStarts(a)
             m == Asking("save", e.scene, e)
  <2>1. autosave' = [autosave EXCEPT ![w] = b] /\ wire' = [wire EXCEPT ![w] = m]
    BY <1>3 DEF TimerFires, Save, Send, Asking
  <2>2. ~a.stopped
    BY <1>1, <1>2 DEF Fits, StatusFits
  <2>3. /\ b \in Controllers /\ b.timer = FALSE /\ b.status = "saving" /\ ~b.stopped
    BY <1>2, <2>2, ControllerFields
  <2>4. Core(w, e, b, file, sessions)
    BY <1>1, <2>3, OpenHasCore, CoreOfController DEF Editing, ServerInv
  <2>5. e.scene \in Scenes
    BY WindowValues DEF Edits
  <2> HIDE DEF b, e
  <2>6. Fits(w, "drawing", e, b, m, file, sessions)
    BY <2>3, <2>4, <2>5, AsksFits DEF ServerInv, Requests
  <2>7. phase' = [phase EXCEPT ![w] = "drawing"] /\ edit' = [edit EXCEPT ![w] = e]
    BY <1>1, WindowValues DEF e
  <2> HIDE DEF m
  <2>8. QED
    BY <1>1, <2>1, <2>6, <2>7, OwnStep
<1>4. CASE ~(~InFlight(w) /\ a.dirty)
  <2> DEFINE m == wire[w]
  <2>1. autosave' = [autosave EXCEPT ![w] = a] /\ UNCHANGED wire
    BY <1>4 DEF TimerFires
  <2>2. Waits(m) \/ ~autosave[w].dirty
    BY <1>2, <1>4, WireWords
  <2>3. Fits(w, "drawing", e, a, m, file, sessions)
    BY <1>1, <2>2, TimerOffFits
  <2>4. /\ phase' = [phase EXCEPT ![w] = "drawing"] /\ edit' = [edit EXCEPT ![w] = e]
        /\ wire' = [wire EXCEPT ![w] = m] /\ UNCHANGED <<file, sessions>>
    BY <1>1, <2>1, WindowValues
  <2> HIDE DEF a, e, m
  <2>5. QED
    BY <2>1, <2>3, <2>4, OwnStep
<1>5. QED
  BY <1>3, <1>4

\* What the answer to a save leaves, in each of the phases that wait for one.
LEMMA Settles ==
  ASSUME EditorInv, ServerInv, NEW w \in Windows, Saving(phase[w]), Answered(w),
         NEW e, e = [edit[w] EXCEPT !.revision = RevisionAfterSave(w)],
         NEW b, b = SaveSettles(autosave[w], Answer(w))
  PROVE  /\ Core(w, e, b, file, sessions) /\ e \in Edits /\ b \in Controllers
         /\ b.timer => ~b.stopped
         /\ phase[w] = "idling" => b.stopped
         /\ phase[w] # "idling" /\ b.stopped => b.status = "conflict"
         /\ phase[w] # "idling" /\ ~b.stopped /\ ~b.dirty => b.status = "saved"
         /\ phase[w] # "idling" /\ b.status = "saved" => ~b.stopped
         /\ ~b.stopped /\ b.status # "saved" => b.timer
         /\ phase[w] # "drawing" /\ b.status \in {"saved", "conflict"} => ~b.timer
<1> DEFINE a == autosave[w]
           m == wire[w]
           ph == phase[w]
<1>1. Fits(w, ph, edit[w], a, m, file, sessions) /\ Replies(m) /\ a \in Controllers
      /\ m \in Messages
  BY WindowValues, WireWords
<1>2. b = SaveSettles(a, m.answer)
      /\ e = [edit[w] EXCEPT !.revision = IF m.answer = "ok" THEN m.revision ELSE edit[w].revision]
  BY WireWords DEF RevisionAfterSave
<1>3. m.answer \in {"ok", "conflict", "gone", "lost"}
  BY <1>1, MessageFields
<1> HIDE DEF ph, a, m
<1>4. Core(w, e, b, file, sessions)
  BY <1>1, <1>2, SettledHasCore DEF ServerInv, ph
<1>5. /\ a.timer => ph = "drawing" /\ ~a.stopped
      /\ ph = "drawing" => ~a.stopped
      /\ ph \in {"flushing", "lastSave"} => ~a.stopped
      /\ ph = "idling" => a.stopped
  BY <1>1 DEF Fits, StatusFits, Replies, Waits
<1>6. ph \in {"drawing", "flushing", "lastSave", "idling"}
  BY DEF Saving, ph
<1>7. /\ b \in Controllers
      /\ m.answer = "ok" /\ a.dirty =>
            b.status = "unsaved" /\ b.timer = ~a.stopped /\ b.dirty /\ b.stopped = a.stopped
      /\ m.answer = "ok" /\ ~a.dirty =>
            b.status = "saved" /\ b.timer = a.timer /\ ~b.dirty /\ b.stopped = a.stopped
      /\ m.answer = "conflict" => b.status = "conflict" /\ ~b.timer /\ b.dirty /\ b.stopped
      /\ m.answer \notin {"ok", "conflict"} =>
            b.status = "error" /\ b.timer = ~a.stopped /\ b.dirty /\ b.stopped = a.stopped
  BY <1>1, <1>2, <1>3, SaveSettlesFields
<1>8. a.dirty \in BOOLEAN /\ a.stopped \in BOOLEAN /\ a.timer \in BOOLEAN
  BY <1>1, ControllerFields
<1>9. CASE m.answer = "ok" /\ a.dirty
  BY <1>4, <1>5, <1>6, <1>7, <1>8, <1>9 DEF Core, ph
<1>10. CASE m.answer = "ok" /\ ~a.dirty
  BY <1>4, <1>5, <1>6, <1>7, <1>8, <1>10 DEF Core, ph
<1>11. CASE m.answer = "conflict"
  BY <1>4, <1>5, <1>6, <1>7, <1>8, <1>11 DEF Core, ph
<1>12. CASE m.answer \notin {"ok", "conflict"}
  BY <1>4, <1>5, <1>6, <1>7, <1>8, <1>12 DEF Core, ph
<1>13. QED
  BY <1>9, <1>10, <1>11, <1>12

\* The answer to a save, while the user goes on drawing.
LEMMA SaveAnsweredKeeps ==
  ASSUME EditorInv, ServerInv, NEW w \in Windows, SaveAnswered(w)
  PROVE  EditorInv'
<1> DEFINE e == [edit[w] EXCEPT !.revision = RevisionAfterSave(w)]
           b == SaveSettles(autosave[w], Answer(w))
<1>1. /\ Answered(w) /\ phase[w] = "drawing" /\ UNCHANGED <<phase, file, sessions>>
      /\ edit' = [edit EXCEPT ![w] = e] /\ autosave' = [autosave EXCEPT ![w] = b]
      /\ wire' = [wire EXCEPT ![w] = Quiet]
  BY WindowValues DEF SaveAnswered, serverVars
<1>2. /\ Core(w, e, b, file, sessions) /\ b \in Controllers /\ (b.timer => ~b.stopped)
      /\ (b.stopped => b.status = "conflict") /\ (~b.stopped /\ ~b.dirty => b.status = "saved")
      /\ (~b.stopped /\ b.status # "saved" => b.timer)
  BY <1>1, Settles DEF Saving
<1> HIDE DEF e, b
<1>3. Fits(w, "drawing", e, b, Quiet, file, sessions)
  BY <1>2, RestsFits DEF ServerInv
<1>4. phase' = [phase EXCEPT ![w] = "drawing"]
  BY <1>1, WindowValues
<1>5. QED
  BY <1>1, <1>3, <1>4, OwnStep

\* --- Done

\* Done goes on to the previews, to the end of the session, or back to the drawing.
LEMMA FlushedKeeps ==
  ASSUME EditorInv, ServerInv, NEW w \in Windows, NEW a, NEW e, Flushed(w, a, e),
         UNCHANGED <<file, sessions>>, Core(w, e, a, file, sessions),
         a.timer => ~a.stopped, a.stopped => a.status = "conflict",
         ~a.dirty /\ ~a.stopped => a.status = "saved",
         ~a.stopped /\ a.status \notin {"saved", "conflict"} => a.timer,
         a.status \in {"saved", "conflict"} => ~a.timer
  PROVE  EditorInv'
<1>1. edit' = [edit EXCEPT ![w] = e] /\ autosave' = [autosave EXCEPT ![w] = a]
  BY DEF Flushed
<1>2. a \in Controllers /\ e \in Edits /\ e.scene \in Scenes
  BY DEF Core, Edits
<1>3. CASE a.status = "saved"
  <2> DEFINE m == Asking("previews", e.scene, e)
  <2>1. phase' = [phase EXCEPT ![w] = "previewing"] /\ wire' = [wire EXCEPT ![w] = m]
    BY <1>3 DEF Flushed, Send, Asking
  <2>2. Fits(w, "previewing", e, a, m, file, sessions)
    BY <1>2, <1>3, AsksFits DEF ServerInv, Requests
  <2> HIDE DEF m
  <2>3. QED
    BY <1>1, <2>1, <2>2, OwnStep
<1>4. CASE a.status = "conflict"
  <2> DEFINE m == Asking("finish", {}, e)
  <2>1. phase' = [phase EXCEPT ![w] = "ending"] /\ wire' = [wire EXCEPT ![w] = m]
    BY <1>4 DEF Flushed, Send, Asking
  <2>2. Fits(w, "ending", e, a, m, file, sessions)
    BY <1>2, <1>4, AsksFits, ScenesHaveEmpty DEF ServerInv, Requests
  <2> HIDE DEF m
  <2>3. QED
    BY <1>1, <2>1, <2>2, OwnStep
<1>5. CASE a.status \notin {"saved", "conflict"}
  <2>1. phase' = [phase EXCEPT ![w] = "drawing"] /\ wire' = [wire EXCEPT ![w] = Quiet]
    BY <1>5 DEF Flushed
  <2>2. Fits(w, "drawing", e, a, Quiet, file, sessions)
    BY <1>2, <1>5, RestsFits DEF ServerInv
  <2>3. QED
    BY <1>1, <2>1, <2>2, OwnStep
<1>6. QED
  BY <1>3, <1>4, <1>5

\* Done saves what is not saved yet.
LEMMA FlushDirtyKeeps ==
  ASSUME EditorInv, ServerInv, NEW w \in Windows, NEW a, NEW e, FlushDirty(w, a, e),
         UNCHANGED <<file, sessions>>, Core(w, e, a, file, sessions), ~a.stopped
  PROVE  EditorInv'
<1> DEFINE b == SaveStarts(a)
           m == Asking("save", e.scene, e)
<1>1. /\ edit' = [edit EXCEPT ![w] = e] /\ autosave' = [autosave EXCEPT ![w] = b]
      /\ phase' = [phase EXCEPT ![w] = "lastSave"] /\ wire' = [wire EXCEPT ![w] = m]
  BY DEF FlushDirty, Send, Asking
<1>2. a \in Controllers /\ e.scene \in Scenes
  BY DEF Core, Edits
<1>3. b \in Controllers /\ b.timer = FALSE /\ b.status = "saving" /\ ~b.stopped
  BY <1>2, ControllerFields
<1> HIDE DEF b
<1>4. Core(w, e, b, file, sessions)
  BY <1>3, CoreOfController
<1>5. Fits(w, "lastSave", e, b, m, file, sessions)
  BY <1>2, <1>3, <1>4, AsksFits DEF ServerInv, Requests
<1> HIDE DEF m
<1>6. QED
  BY <1>1, <1>5, OwnStep

\* Done is pressed.
LEMMA DoneKeeps ==
  ASSUME EditorInv, ServerInv, NEW w \in Windows, Done(w)
  PROVE  EditorInv'
<1> DEFINE a == [autosave[w] EXCEPT !.timer = FALSE]
           e == edit[w]
           m == wire[w]
<1>1. /\ Fits(w, "drawing", e, autosave[w], m, file, sessions)
      /\ UNCHANGED <<file, sessions>> /\ phase[w] = "drawing"
  BY WindowValues DEF Done, serverVars
<1>2. /\ a \in Controllers /\ a.timer = FALSE /\ a.dirty = autosave[w].dirty
      /\ a.stopped = autosave[w].stopped /\ a.status = autosave[w].status
  BY WindowValues, ControllerFields
<1>3. CASE InFlight(w)
  <2>1. /\ phase' = [phase EXCEPT ![w] = "flushing"] /\ autosave' = [autosave EXCEPT ![w] = a]
        /\ edit' = [edit EXCEPT ![w] = e] /\ wire' = [wire EXCEPT ![w] = m]
    BY <1>3, WindowValues DEF Done
  <2>2. Waits(m)
    BY <1>3, WireWords
  <2>3. Fits(w, "flushing", e, a, m, file, sessions)
    BY <1>1, <2>2, WaitingFits
  <2> HIDE DEF a, e, m
  <2>4. QED
    BY <1>1, <2>1, <2>3, OwnStep
<1>4. CASE ~InFlight(w)
  <2>1. ~Waits(m)
    BY <1>4, WireWords
  <2>2. /\ a.stopped => a.status = "conflict"
        /\ ~a.dirty /\ ~a.stopped => a.status = "saved"
    BY <1>1, <1>2, <2>1 DEF Fits, StatusFits
  <2>3. Core(w, e, a, file, sessions)
    BY <1>1, <1>2, OpenHasCore, CoreOfController DEF Editing, ServerInv
  <2>4. CASE a.dirty /\ ~a.stopped
    <3>1. FlushDirty(w, a, e)
      BY <1>4, <2>4 DEF Done
    <3> HIDE DEF a, e
    <3>2. QED
      BY <1>1, <2>3, <2>4, <3>1, FlushDirtyKeeps
  <2>5. CASE ~(a.dirty /\ ~a.stopped)
    <3>1. Flushed(w, a, e)
      BY <1>4, <2>5 DEF Done
    <3> HIDE DEF a, e
    <3>2. QED
      BY <1>1, <1>2, <2>2, <2>3, <2>5, <3>1, FlushedKeeps
  <2>6. QED
    BY <2>4, <2>5
<1>5. QED
  BY <1>3, <1>4

\* The answer to the save Done waited for.
LEMMA FlushSettlesKeeps ==
  ASSUME EditorInv, ServerInv, NEW w \in Windows, FlushSettles(w)
  PROVE  EditorInv'
<1> DEFINE a == SaveSettles(autosave[w], Answer(w))
           e == [edit[w] EXCEPT !.revision = RevisionAfterSave(w)]
<1>1. /\ phase[w] \in {"flushing", "lastSave"} /\ Answered(w) /\ UNCHANGED <<file, sessions>>
      /\ IF phase[w] = "flushing" /\ a.dirty /\ ~a.stopped
         THEN FlushDirty(w, a, e) ELSE Flushed(w, a, e)
  BY DEF FlushSettles, serverVars
<1>2. /\ Core(w, e, a, file, sessions) /\ a \in Controllers /\ (a.timer => ~a.stopped)
      /\ (a.stopped => a.status = "conflict") /\ (~a.stopped /\ ~a.dirty => a.status = "saved")
      /\ (~a.stopped /\ a.status # "saved" => a.timer)
      /\ (a.status \in {"saved", "conflict"} => ~a.timer)
  BY <1>1, Settles DEF Saving
<1> HIDE DEF a, e
<1>3. CASE phase[w] = "flushing" /\ a.dirty /\ ~a.stopped
  BY <1>1, <1>2, <1>3, FlushDirtyKeeps
<1>4. CASE ~(phase[w] = "flushing" /\ a.dirty /\ ~a.stopped)
  BY <1>1, <1>2, <1>4, FlushedKeeps
<1>5. QED
  BY <1>3, <1>4

\* The answer to the previews Done sent.
LEMMA PreviewsStoredKeeps ==
  ASSUME EditorInv, ServerInv, NEW w \in Windows, PreviewsStored(w)
  PROVE  EditorInv'
<1> DEFINE a == autosave[w]
           e == edit[w]
<1>1. /\ Fits(w, "previewing", e, a, wire[w], file, sessions)
      /\ UNCHANGED <<edit, autosave, file, sessions>>
  BY WindowValues DEF PreviewsStored, serverVars
<1>2. Core(w, e, a, file, sessions)
  BY <1>1, OpenHasCore DEF Editing, Finishing, ServerInv
<1>3. ~a.timer /\ ~a.stopped /\ a.status = "saved"
  BY <1>1 DEF Fits, StatusFits
<1>4. edit' = [edit EXCEPT ![w] = e] /\ autosave' = [autosave EXCEPT ![w] = a]
  BY <1>1, WindowValues
<1>5. CASE Answer(w) \in {"ok", "conflict"}
  <2> DEFINE m == Asking("finish", {}, e)
  <2>1. phase' = [phase EXCEPT ![w] = "ending"] /\ wire' = [wire EXCEPT ![w] = m]
    BY <1>5 DEF PreviewsStored, Send, Asking
  <2> HIDE DEF a, e
  <2>2. Fits(w, "ending", e, a, m, file, sessions)
    BY <1>2, <1>3, AsksFits, ScenesHaveEmpty DEF ServerInv, Requests
  <2> HIDE DEF m
  <2>3. QED
    BY <1>1, <1>4, <2>1, <2>2, OwnStep
<1>6. CASE Answer(w) \notin {"ok", "conflict"}
  <2>1. phase' = [phase EXCEPT ![w] = "drawing"] /\ wire' = [wire EXCEPT ![w] = Quiet]
    BY <1>6 DEF PreviewsStored
  <2> HIDE DEF a, e
  <2>2. Fits(w, "drawing", e, a, Quiet, file, sessions)
    BY <1>2, <1>3, RestsFits DEF ServerInv
  <2>3. QED
    BY <1>1, <1>4, <2>1, <2>2, OwnStep
<1>7. QED
  BY <1>5, <1>6

\* The editor closes, whether by Done, by Discard or by a reload.
LEMMA ClosingKeeps ==
  ASSUME EditorInv, ServerInv, NEW w \in Windows,
         SessionEnded(w) \/ Discarded(w) \/ Reload(w)
  PROVE  EditorInv'
<1>1. /\ UNCHANGED <<file, sessions>>
      /\ phase' = [phase EXCEPT ![w] = "closed"] /\ edit' = [edit EXCEPT ![w] = NoEdit]
      /\ autosave' = [autosave EXCEPT ![w] = Idle] /\ wire' = [wire EXCEPT ![w] = Quiet]
  BY DEF SessionEnded, Discarded, Reload, Close, NoEditor, serverVars
<1>2. QED
  BY <1>1, NoEditorKeeps

\* --- Discard

\* Discard is pressed.
LEMMA DiscardKeeps ==
  ASSUME EditorInv, ServerInv, NEW w \in Windows, Discard(w)
  PROVE  EditorInv'
<1> DEFINE a == StopSaving(autosave[w])
           e == edit[w]
           m == wire[w]
<1>1. /\ Fits(w, "drawing", e, autosave[w], m, file, sessions)
      /\ UNCHANGED <<file, sessions>> /\ edit' = [edit EXCEPT ![w] = e]
      /\ autosave' = [autosave EXCEPT ![w] = a]
  BY WindowValues DEF Discard, serverVars
<1>2. a \in Controllers /\ a.timer = FALSE /\ a.stopped = TRUE /\ a.status = autosave[w].status
  BY WindowValues, ControllerFields
<1>3. CASE InFlight(w)
  <2>1. phase' = [phase EXCEPT ![w] = "idling"] /\ wire' = [wire EXCEPT ![w] = m]
    BY <1>3, WindowValues DEF Discard
  <2>2. Waits(m)
    BY <1>3, WireWords
  <2>3. Fits(w, "idling", e, a, m, file, sessions)
    BY <1>1, <2>2, WaitingFits
  <2> HIDE DEF a, e, m
  <2>4. QED
    BY <1>1, <2>1, <2>3, OwnStep
<1>4. CASE ~InFlight(w)
  <2> DEFINE n == Asking("discard", {}, e)
  <2>1. phase' = [phase EXCEPT ![w] = "discarding"] /\ wire' = [wire EXCEPT ![w] = n]
    BY <1>4 DEF Discard, Send, Asking
  <2>2. Core(w, e, a, file, sessions)
    BY <1>1, <1>2, OpenHasCore, CoreOfController DEF Editing, ServerInv
  <2> HIDE DEF a, e, m
  <2>3. Fits(w, "discarding", e, a, n, file, sessions)
    BY <1>2, <2>2, AsksFits, ScenesHaveEmpty DEF ServerInv, Requests
  <2> HIDE DEF n
  <2>4. QED
    BY <1>1, <2>1, <2>3, OwnStep
<1>5. QED
  BY <1>3, <1>4

\* The answer to the save Discard waited for.
LEMMA IdleReachedKeeps ==
  ASSUME EditorInv, ServerInv, NEW w \in Windows, IdleReached(w)
  PROVE  EditorInv'
<1> DEFINE a == SaveSettles(autosave[w], Answer(w))
           e == [edit[w] EXCEPT !.revision = RevisionAfterSave(w)]
           n == Asking("discard", {}, e)
<1>1. /\ phase[w] = "idling" /\ Answered(w) /\ UNCHANGED <<file, sessions>>
      /\ edit' = [edit EXCEPT ![w] = e] /\ autosave' = [autosave EXCEPT ![w] = a]
      /\ phase' = [phase EXCEPT ![w] = "discarding"] /\ wire' = [wire EXCEPT ![w] = n]
  BY WindowValues DEF IdleReached, serverVars, Send, Asking
<1>2. Core(w, e, a, file, sessions) /\ a \in Controllers /\ a.stopped /\ ~a.timer
  BY <1>1, Settles DEF Saving
<1> HIDE DEF a, e
<1>3. Fits(w, "discarding", e, a, n, file, sessions)
  BY <1>2, AsksFits, ScenesHaveEmpty DEF ServerInv, Requests
<1> HIDE DEF n
<1>4. QED
  BY <1>1, <1>3, OwnStep

-----------------------------------------------------------------------------
(***************************************************************************)
(* The server's steps: its own types, and the editors' part.                 *)
(***************************************************************************)
\* The snapshot of a file has its content.
LEMMA SnapshotOfFile ==
  ASSUME NEW f \in Files
  PROVE  Snapshot(f) \in Snapshots /\ Snapshot(f).content = f.content
BY DEF Snapshot, Snapshots, Files

\* A snapshot written back is the next revision.
LEMMA RestoredFields ==
  ASSUME file \in Files, NEW s \in Snapshots, NEW g, g = Restored(s)
  PROVE  g \in Files /\ g.revision = file.revision + 1 /\ g.content = s.content
BY DEF Restored, Snapshots, Files

\* A session that is found gives the snapshot it began with.
LEMMA FoundSession ==
  ASSUME sessions \in Seq(Sessions), NEW id, Find(id) # {}
  PROVE  \E i \in DOMAIN sessions :
             /\ sessions[i].id = id /\ Before(id) = sessions[i].before
             /\ Before(id) \in Snapshots
<1> DEFINE i == CHOOSE k \in Find(id) : TRUE
<1>1. i \in Find(id)
  OBVIOUS
<1>2. i \in DOMAIN sessions /\ sessions[i].id = id
  BY <1>1 DEF Find
<1>3. Before(id) = sessions[i].before
  BY DEF Before
<1>4. sessions[i] \in Sessions
  BY <1>2
<1>5. sessions[i].before \in Snapshots
  BY <1>4 DEF Sessions
<1> HIDE DEF i
<1>6. QED
  BY <1>2, <1>3, <1>5

\* Taking a session out leaves sessions that were there.
LEMMA WithoutFields ==
  ASSUME ServerInv, NEW id, Find(id) # {}
  PROVE  /\ Without(id) \in Seq(Sessions) /\ Len(Without(id)) <= MaxOpenSessions
         /\ \A i \in DOMAIN Without(id) : \E j \in DOMAIN sessions : sessions[j] = Without(id)[i]
<1> DEFINE k == CHOOSE i \in Find(id) : TRUE
           n == Len(sessions)
           A == SubSeq(sessions, 1, k - 1)
           B == SubSeq(sessions, k + 1, n)
<1>1. k \in Find(id)
  OBVIOUS
<1>2. k \in 1..n /\ n \in Nat /\ n <= MaxOpenSessions /\ MaxOpenSessions \in Nat
      /\ sessions \in Seq(Sessions)
  BY <1>1, DiagramEditorAssumption DEF Find, ServerInv
<1>3. Without(id) = A \o B
  BY DEF Without
<1> HIDE DEF k
<1>4. A \in Seq(Sessions) /\ Len(A) = k - 1 /\ \A i \in 1..(k - 1) : A[i] = sessions[i]
  BY <1>2
<1>5. B \in Seq(Sessions) /\ Len(B) = n - k /\ \A i \in 1..(n - k) : B[i] = sessions[k + i]
  BY <1>2
<1> DEFINE C == A \o B
<1> HIDE DEF A, B
<1>6. C \in Seq(Sessions) /\ Len(C) = n - 1
  <2>1. C \in Seq(Sessions) /\ Len(C) = Len(A) + Len(B)
    BY <1>4, <1>5
  <2> HIDE DEF C
  <2>2. (k - 1) + (n - k) = n - 1
    BY <1>2
  <2>3. QED
    BY <1>4, <1>5, <2>1, <2>2
<1>7. /\ \A i \in 1..(k - 1) : C[i] = A[i]
      /\ \A i \in k..(n - 1) : C[i] = B[i - (k - 1)]
  BY <1>2, <1>4, <1>5
<1> HIDE DEF C
<1>8. ASSUME NEW i \in 1..(n - 1)
      PROVE  \E j \in 1..n : sessions[j] = C[i]
  <2>1. CASE i <= k - 1
    <3>1. C[i] = sessions[i] /\ i \in 1..n
      BY <1>2, <1>4, <1>7, <2>1
    <3>2. QED
      BY <3>1
  <2>2. CASE i > k - 1
    <3>1. C[i] = B[i - (k - 1)]
      BY <1>2, <1>7, <2>2
    <3>2. i - (k - 1) \in 1..(n - k) /\ k + (i - (k - 1)) \in 1..n
      BY <1>2, <2>2
    <3>3. QED
      BY <1>5, <3>1, <3>2
  <2>3. i <= k - 1 \/ i > k - 1
    BY <1>2
  <2>4. QED
    BY <2>1, <2>2, <2>3
<1>9. DOMAIN C = 1..(n - 1) /\ DOMAIN sessions = 1..n
  <2>1. DOMAIN C = 1..Len(C)
    BY <1>6
  <2>2. QED
    BY <1>6, <2>1
<1>10. C \in Seq(Sessions) /\ Len(C) <= MaxOpenSessions
  BY <1>2, <1>6
<1>11. \A i \in DOMAIN C : \E j \in DOMAIN sessions : sessions[j] = C[i]
  BY <1>8, <1>9
<1>12. QED
  BY <1>3, <1>10, <1>11 DEF C

\* Without its oldest session.
LEMMA TailFields ==
  ASSUME NEW s \in Seq(Sessions), s # <<>>
  PROVE  /\ Tail(s) \in Seq(Sessions) /\ Len(Tail(s)) = Len(s) - 1
         /\ \A i \in DOMAIN Tail(s) : \E j \in DOMAIN s : s[j] = Tail(s)[i]
<1>1. Tail(s) \in Seq(Sessions) /\ Len(Tail(s)) = Len(s) - 1 /\ Len(s) \in Nat
  OBVIOUS
<1>2. ASSUME NEW i \in 1..(Len(s) - 1)
      PROVE  \E j \in 1..Len(s) : s[j] = Tail(s)[i]
  <2>1. Tail(s)[i] = s[i + 1] /\ i + 1 \in 1..Len(s)
    BY <1>1
  <2>2. QED
    BY <2>1
<1>3. QED
  BY <1>1, <1>2

\* StartSession's sessions: the oldest makes room.
MakingRoom(o) == IF Len(o) > MaxOpenSessions THEN Tail(o) ELSE o

\* The sessions with a new one: the others are as they were, or the oldest is gone.
LEMMA OpenedSessions ==
  ASSUME ServerInv, NEW s \in Sessions, NEW t, t = MakingRoom(Append(sessions, s))
  PROVE  /\ t \in Seq(Sessions) /\ Len(t) <= MaxOpenSessions
         /\ \A i \in DOMAIN t : t[i] = s \/ \E j \in DOMAIN sessions : sessions[j] = t[i]
<1> DEFINE o == Append(sessions, s)
<1>1. sessions \in Seq(Sessions) /\ Len(sessions) \in Nat /\ Len(sessions) <= MaxOpenSessions
      /\ MaxOpenSessions \in Nat
  BY DiagramEditorAssumption DEF ServerInv
<1>2. o \in Seq(Sessions) /\ Len(o) = Len(sessions) + 1 /\ o # <<>>
  BY <1>1
<1>3. \A i \in DOMAIN o : o[i] = s \/ \E j \in DOMAIN sessions : sessions[j] = o[i]
  <2>1. ASSUME NEW i \in 1..(Len(sessions) + 1)
        PROVE  o[i] = s \/ \E j \in 1..Len(sessions) : sessions[j] = o[i]
    <3>1. CASE i = Len(sessions) + 1
      BY <1>1, <3>1
    <3>2. CASE i # Len(sessions) + 1
      <4>1. i \in 1..Len(sessions) /\ o[i] = sessions[i]
        BY <1>1, <3>2
      <4>2. QED
        BY <4>1
    <3>3. QED
      BY <3>1, <3>2
  <2>2. QED
    BY <1>1, <1>2, <2>1
<1> HIDE DEF o
<1>4. CASE Len(o) > MaxOpenSessions
  <2>1. t = Tail(o)
    BY <1>4 DEF o, MakingRoom
  <2>2. QED
    BY <1>1, <1>2, <1>3, <2>1, TailFields
<1>5. CASE ~(Len(o) > MaxOpenSessions)
  <2>1. t = o
    BY <1>5 DEF o, MakingRoom
  <2>2. QED
    BY <1>1, <1>2, <1>3, <1>5, <2>1
<1>6. QED
  BY <1>4, <1>5

\* A step of the server: the file moves on by one revision or keeps its content, sessions end,
\* and every editor still fits, as long as the one that is answered fits its answer.
LEMMA AllStillFit ==
  ASSUME EditorInv, ServerInv, file' \in Files,
         \/ file'.revision = file.revision + 1
         \/ file'.revision = file.revision /\ file'.content = file.content,
         \A i \in DOMAIN sessions' : \E j \in DOMAIN sessions : sessions[j] = sessions'[i],
         NEW v \in Windows
  PROVE  Fits(v, phase[v], edit[v], autosave[v], wire[v], file', sessions')
<1> DEFINE ph == phase[v]
           e == edit[v]
           a == autosave[v]
           m == wire[v]
           g == file'
           tt == sessions'
<1>1. Fits(v, ph, e, a, m, file, sessions) /\ file \in Files
  BY WindowValues DEF ServerInv
<1>2. Fits(v, ph, e, a, m, g, sessions)
  <2> HIDE DEF ph, e, a, m, g
  <2>1. CASE g.revision = file.revision + 1
    BY <1>1, <2>1, LaterFileFits DEF g
  <2>2. CASE g.revision = file.revision /\ g.content = file.content
    BY <1>1, <2>2, SameContentFits DEF g
  <2>3. QED
    BY <2>1, <2>2 DEF g
<1>3. \A i \in DOMAIN tt : \E j \in DOMAIN sessions : sessions[j] = tt[i]
  OBVIOUS
<1> HIDE DEF ph, e, a, m, g, tt
<1>4. Fits(v, ph, e, a, m, g, tt)
  BY <1>2, <1>3, OtherSessionsFit
<1>5. QED
  BY <1>4 DEF ph, e, a, m, g, tt

\* The server answers one window; the others keep their values.
LEMMA AnswerStep ==
  ASSUME EditorInv, NEW w \in Windows, UNCHANGED editorVars,
         NEW n, wire' = [wire EXCEPT ![w] = n],
         Fits(w, phase[w], edit[w], autosave[w], n, file', sessions'),
         \A v \in Windows :
             v # w => Fits(v, phase[v], edit[v], autosave[v], wire[v], file', sessions')
  PROVE  EditorInv'
<1>1. n \in Messages
  BY DEF Fits
<1>2. /\ phase' \in [Windows -> Phases] /\ edit' \in [Windows -> Edits]
      /\ autosave' \in [Windows -> Controllers] /\ wire' \in [Windows -> Messages]
  BY <1>1 DEF EditorInv, editorVars
<1>3. ASSUME NEW v \in Windows
      PROVE  Fits(v, phase'[v], edit'[v], autosave'[v], wire'[v], file', sessions')
  <2>1. wire'[v] = IF v = w THEN n ELSE wire[v]
    BY DEF EditorInv
  <2>2. phase' = phase /\ edit' = edit /\ autosave' = autosave
    BY DEF editorVars
  <2>3. CASE v = w
    BY <2>1, <2>2, <2>3
  <2>4. CASE v # w
    BY <2>1, <2>2, <2>4
  <2>5. QED
    BY <2>3, <2>4
<1>4. QED
  BY <1>2, <1>3 DEF EditorInv

\* What a request of w is, and a refusal of it.
LEMMA RequestValues ==
  ASSUME EditorInv, ServerInv, NEW w \in Windows, Sent(w)
  PROVE  /\ Fits(w, phase[w], edit[w], autosave[w], wire[w], file, sessions)
         /\ wire[w] \in Messages /\ Sends(wire[w]) /\ Waits(wire[w])
         /\ wire[w].scene \in Scenes /\ wire[w].revision \in Nat
         /\ wire[w].revision = edit[w].revision /\ wire[w].session = edit[w].session
         /\ file \in Files /\ file.revision \in Nat \ {0} /\ sessions \in Seq(Sessions)
<1>1. Sends(wire[w])
  BY WireWords
<1>2. QED
  BY <1>1, WindowValues, MessageFields DEF Fits, RevisionFits, ServerInv, Files

\* The server refuses a request, or the request or its answer is lost.
LEMMA RefusalKeeps ==
  ASSUME EditorInv, ServerInv, NEW w \in Windows, Waits(wire[w]), UNCHANGED editorVars,
         NEW answer \in {"conflict", "gone", "lost"}, NEW r \in 1..file'.revision,
         wire' = [wire EXCEPT ![w] = Reply(answer, r)],
         file' \in Files,
         \/ file'.revision = file.revision + 1
         \/ file'.revision = file.revision /\ file'.content = file.content,
         \A i \in DOMAIN sessions' : \E j \in DOMAIN sessions : sessions[j] = sessions'[i]
  PROVE  EditorInv'
<1> DEFINE n == Reply(answer, r)
           ph == phase[w]
           e == edit[w]
           a == autosave[w]
           m == wire[w]
           g == file'
           tt == sessions'
<1>1. \A v \in Windows : Fits(v, phase[v], edit[v], autosave[v], wire[v], file', sessions')
  BY AllStillFit
<1>2. r \in Nat
  BY DEF Files
<1>3. n \in Messages /\ Replies(n) /\ n.answer # "ok" /\ n.revision \in 1..g.revision
  BY <1>2, ReplyFields DEF Replies
<1>4. Fits(w, ph, e, a, m, g, tt) /\ Waits(m) /\ g \in Files
  BY <1>1
<1> HIDE DEF n, ph, e, a, m, g, tt
<1>5. Fits(w, ph, e, a, n, g, tt)
  BY <1>3, <1>4, RefusalFits
<1>6. Fits(w, phase[w], edit[w], autosave[w], n, file', sessions') /\ wire' = [wire EXCEPT ![w] = n]
  BY <1>5 DEF n, ph, e, a, g, tt
<1>7. QED
  BY <1>1, <1>6, AnswerStep

\* The same with an acceptance, in the phases that need to know nothing more of it.
LEMMA AcceptanceKeeps ==
  ASSUME EditorInv, ServerInv, NEW w \in Windows, Waits(wire[w]), UNCHANGED editorVars,
         phase[w] \in {"firstPreviews", "previewing", "ending", "discarding"},
         wire' = [wire EXCEPT ![w] = Reply("ok", file'.revision)],
         file' \in Files,
         \/ file'.revision = file.revision + 1
         \/ file'.revision = file.revision /\ file'.content = file.content,
         \A i \in DOMAIN sessions' : \E j \in DOMAIN sessions : sessions[j] = sessions'[i]
  PROVE  EditorInv'
<1> DEFINE n == Reply("ok", file'.revision)
           ph == phase[w]
           e == edit[w]
           a == autosave[w]
           m == wire[w]
           g == file'
           tt == sessions'
<1>1. \A v \in Windows : Fits(v, phase[v], edit[v], autosave[v], wire[v], file', sessions')
  BY AllStillFit
<1>2. file'.revision \in Nat
  BY DEF Files
<1>3. n \in Messages /\ Replies(n) /\ n.answer = "ok" /\ n.revision = g.revision
  BY <1>2, ReplyFields DEF Replies
<1>4. Fits(w, ph, e, a, m, g, tt) /\ Waits(m) /\ g \in Files
  BY <1>1
<1>5. ~Saving(ph) /\ ph # "downloading" /\ ph # "starting"
  BY DEF Saving
<1> HIDE DEF n, ph, e, a, m, g, tt
<1>6. Fits(w, ph, e, a, n, g, tt)
  BY <1>3, <1>4, <1>5, AcceptanceFits
<1>7. Fits(w, phase[w], edit[w], autosave[w], n, file', sessions') /\ wire' = [wire EXCEPT ![w] = n]
  BY <1>6 DEF n, ph, e, a, g, tt
<1>8. QED
  BY <1>1, <1>7, AnswerStep

\* Sessions left alone are sessions that were there.
LEMMA SameSessions ==
  ASSUME UNCHANGED sessions
  PROVE  \A i \in DOMAIN sessions' : \E j \in DOMAIN sessions : sessions[j] = sessions'[i]
OBVIOUS

\* A save, accepted or refused.
LEMMA ReplaceContentKeeps ==
  ASSUME EditorInv, ServerInv, NEW w \in Windows, Sent(w), UNCHANGED editorVars,
         ReplaceContent(w)
  PROVE  EditorInv' /\ ServerInv'
<1>1. UNCHANGED sessions
  BY DEF ReplaceContent
<1>2. CASE wire[w].revision = file.revision
  <2> DEFINE n == Reply("ok", file.revision + 1)
             ph == phase[w]
             e == edit[w]
             a == autosave[w]
             m == wire[w]
             g == file'
  <2>1. g = [file EXCEPT !.content = m.scene, !.revision = @ + 1] /\ wire' = [wire EXCEPT ![w] = n]
    BY <1>2 DEF ReplaceContent, Answers
  <2>2. /\ Fits(w, ph, e, a, m, file, sessions) /\ m.scene \in Scenes
        /\ file \in Files /\ file.revision \in Nat
    BY RequestValues
  <2>3. g \in Files /\ g.content = m.scene /\ g.revision = file.revision + 1
    <3> DEFINE c == m.scene
               r == file.revision + 1
    <3>1. g = [file EXCEPT !.content = c, !.revision = r] /\ c \in Scenes /\ r \in Nat \ {0}
      BY <2>1, <2>2
    <3> HIDE DEF g, c, r
    <3>2. g \in Files /\ g.content = c /\ g.revision = r
      BY <2>2, <3>1 DEF Files
    <3>3. QED
      BY <3>2 DEF c, r
  <2>4. n \in Messages /\ Replies(n) /\ n.answer = "ok" /\ n.revision = g.revision
    BY <2>2, <2>3, ReplyFields DEF Replies
  <2>5. m.kind = "save" /\ m.revision = file.revision
    BY <1>2 DEF ReplaceContent
  <2>6. \A v \in Windows : Fits(v, phase[v], edit[v], autosave[v], wire[v], file', sessions')
    BY <1>1, <2>3, SameSessions, AllStillFit
  <2> HIDE DEF n, ph, e, a, m, g
  <2>7. Fits(w, ph, e, a, n, g, sessions)
    BY <2>2, <2>3, <2>4, <2>5, AcceptedSaveFits
  <2>8. Fits(w, phase[w], edit[w], autosave[w], n, file', sessions')
    BY <1>1, <2>7 DEF ph, e, a, g
  <2>9. EditorInv'
    BY <2>1, <2>6, <2>8, AnswerStep
  <2>10. QED
    BY <1>1, <2>3, <2>9 DEF ServerInv, g
<1>3. CASE wire[w].revision # file.revision
  <2>1. UNCHANGED file /\ wire' = [wire EXCEPT ![w] = Reply("conflict", file.revision)]
    BY <1>3 DEF ReplaceContent, Answers
  <2>2. file.revision \in 1..file'.revision /\ file' \in Files /\ Waits(wire[w])
    BY <2>1, RequestValues
  <2>3. EditorInv'
    BY <1>1, <2>1, <2>2, SameSessions, RefusalKeeps
  <2>4. QED
    BY <1>1, <2>1, <2>3 DEF ServerInv
<1>4. QED
  BY <1>2, <1>3

\* Previews, stored or refused.
LEMMA StorePreviewsKeeps ==
  ASSUME EditorInv, ServerInv, NEW w \in Windows, Sent(w), UNCHANGED editorVars,
         StorePreviews(w)
  PROVE  EditorInv' /\ ServerInv'
<1>1. UNCHANGED sessions
  BY DEF StorePreviews
<1>2. CASE wire[w].revision = file.revision
  <2>1. /\ file' = [file EXCEPT !.preview = wire[w].scene, !.tag = file.revision]
        /\ wire' = [wire EXCEPT ![w] = Reply("ok", file.revision)]
    BY <1>2 DEF StorePreviews, Answers
  <2>2. wire[w].scene \in Scenes /\ file \in Files /\ file.revision \in Nat /\ Waits(wire[w])
    BY RequestValues
  <2>3. file' \in Files /\ file'.content = file.content /\ file'.revision = file.revision
    BY <2>1, <2>2 DEF Files
  <2>4. phase[w] \in {"firstPreviews", "previewing"}
    BY RequestValues, PhaseOfRequest DEF StorePreviews
  <2>5. EditorInv'
    BY <1>1, <2>1, <2>2, <2>3, <2>4, SameSessions, AcceptanceKeeps
  <2>6. QED
    BY <1>1, <2>3, <2>5 DEF ServerInv
<1>3. CASE wire[w].revision # file.revision
  <2>1. UNCHANGED file /\ wire' = [wire EXCEPT ![w] = Reply("conflict", file.revision)]
    BY <1>3 DEF StorePreviews, Answers
  <2>2. file.revision \in 1..file'.revision /\ file' \in Files /\ Waits(wire[w])
    BY <2>1, RequestValues
  <2>3. EditorInv'
    BY <1>1, <2>1, <2>2, SameSessions, RefusalKeeps
  <2>4. QED
    BY <1>1, <2>1, <2>3 DEF ServerInv
<1>4. QED
  BY <1>2, <1>3

\* A download.
LEMMA DownloadFileKeeps ==
  ASSUME EditorInv, ServerInv, NEW w \in Windows, Sent(w), UNCHANGED editorVars,
         DownloadFile(w)
  PROVE  EditorInv' /\ ServerInv'
<1> DEFINE n == [Reply("ok", file.revision) EXCEPT !.scene = file.content]
           ph == phase[w]
           e == edit[w]
           a == autosave[w]
           m == wire[w]
<1>1. UNCHANGED <<file, sessions>> /\ wire' = [wire EXCEPT ![w] = n]
  BY DEF DownloadFile, Answers, serverVars
<1>2. /\ Fits(w, ph, e, a, m, file, sessions) /\ Waits(m) /\ file \in Files
      /\ file.revision \in Nat /\ file.content \in Scenes
  BY RequestValues DEF Files
<1>3. /\ n \in Messages /\ Replies(n) /\ n.answer = "ok" /\ n.revision = file.revision
      /\ n.scene = file.content
  BY <1>2, ScenesHaveEmpty DEF Replies, Reply, Messages
<1>4. ph = "downloading"
  BY <1>2, PhaseOfRequest DEF DownloadFile
<1>5. ~Saving(ph) /\ ph # "starting"
  BY <1>4 DEF Saving
<1> HIDE DEF n, ph, e, a, m
<1>6. Fits(w, ph, e, a, n, file, sessions)
  BY <1>2, <1>3, <1>5, AcceptanceFits
<1>7. Fits(w, phase[w], edit[w], autosave[w], n, file', sessions')
  BY <1>1, <1>6 DEF ph, e, a
<1>8. \A v \in Windows : Fits(v, phase[v], edit[v], autosave[v], wire[v], file', sessions')
  BY <1>1, <1>2, SameSessions, AllStillFit
<1>9. EditorInv'
  BY <1>1, <1>7, <1>8, AnswerStep
<1>10. QED
  BY <1>1, <1>9 DEF ServerInv

\* A session begins with the file as it is; the oldest may have to go.
LEMMA StartSessionKeeps ==
  ASSUME EditorInv, ServerInv, NEW w \in Windows, Sent(w), UNCHANGED editorVars,
         StartSession(w)
  PROVE  EditorInv' /\ ServerInv'
<1> DEFINE s == [id |-> FreshId, before |-> Snapshot(file)]
           n == [Reply("ok", file.revision) EXCEPT !.session = FreshId]
           t == MakingRoom(Append(sessions, s))
           ph == phase[w]
           e == edit[w]
           a == autosave[w]
<1>1. UNCHANGED file /\ wire' = [wire EXCEPT ![w] = n] /\ sessions' = t
  BY DEF StartSession, Answers, MakingRoom
<1>2. /\ Fits(w, ph, e, a, wire[w], file, sessions) /\ Waits(wire[w]) /\ file \in Files
      /\ file.revision \in Nat /\ sessions \in Seq(Sessions)
  BY RequestValues
<1>3. /\ FreshId \in Nat \ {0}
      /\ \A i \in DOMAIN sessions : sessions[i].id # FreshId
      /\ \A v \in Windows : /\ edit[v].session # FreshId
                            /\ Waits(wire[v]) => wire[v].session # FreshId
  BY <1>2, FreshIdIsUnused, WireWords
<1>4. s \in Sessions /\ s.id = FreshId /\ s.before.content = file.content
  BY <1>2, <1>3, SnapshotOfFile DEF Sessions
<1>5. t = MakingRoom(Append(sessions, s))
  OBVIOUS
<1> HIDE DEF s, t
<1>6. /\ t \in Seq(Sessions) /\ Len(t) <= MaxOpenSessions
      /\ \A i \in DOMAIN t : t[i] = s \/ \E j \in DOMAIN sessions : sessions[j] = t[i]
  BY <1>4, <1>5, OpenedSessions
<1>7. ASSUME NEW v \in Windows
      PROVE  Fits(v, phase[v], edit[v], autosave[v], wire[v], file, t)
  <2> DEFINE ph2 == phase[v]
             e2 == edit[v]
             a2 == autosave[v]
             m2 == wire[v]
  <2>1. Fits(v, ph2, e2, a2, m2, file, sessions)
    BY WindowValues
  <2>2. \A i \in DOMAIN t :
            \/ \E j \in DOMAIN sessions : sessions[j] = t[i]
            \/ t[i].id # e2.session /\ (Waits(m2) => t[i].id # m2.session)
    BY <1>3, <1>4, <1>6
  <2> HIDE DEF ph2, e2, a2, m2
  <2>3. Fits(v, ph2, e2, a2, m2, file, t)
    BY <2>1, <2>2, OtherSessionsFit
  <2>4. QED
    BY <2>3 DEF ph2, e2, a2, m2
<1>8. /\ n \in Messages /\ Replies(n) /\ n.answer = "ok" /\ n.revision = file.revision
      /\ n.session = FreshId
  BY <1>2, <1>3, ScenesHaveEmpty DEF Replies, Reply, Messages
<1>9. ph = "starting"
  BY <1>2, PhaseOfRequest DEF StartSession
<1>10. ~Saving(ph) /\ ph # "downloading"
  BY <1>9 DEF Saving
<1>11. \A i \in DOMAIN t : t[i].id = n.session => t[i].before.content = file.content
  BY <1>3, <1>4, <1>6, <1>8
<1> DEFINE m == wire[w]
<1>12. Fits(w, ph, e, a, m, file, t) /\ Waits(m)
  BY <1>2, <1>7
<1> HIDE DEF n, ph, e, a, m
<1>13. Fits(w, ph, e, a, n, file, t)
  BY <1>2, <1>8, <1>10, <1>11, <1>12, AcceptanceFits
<1>14. Fits(w, phase[w], edit[w], autosave[w], n, file', sessions')
  BY <1>1, <1>13 DEF ph, e, a
<1>15. EditorInv'
  BY <1>1, <1>7, <1>14, AnswerStep
<1>16. QED
  BY <1>1, <1>6, <1>15 DEF ServerInv

-----------------------------------------------------------------------------
(***************************************************************************)
(* The undo steps: what lies between their snapshots is the window's own.    *)
(***************************************************************************)
OwnSteps(w) ==
    {s \in Steps : /\ s.before.content # s.after.content
                   /\ Own(w, s.before.content, s.after.content)}
HistoryInv ==
    /\ history \in [Windows -> Seq(Steps)] /\ redo \in [Windows -> Seq(Steps)]
    /\ \A w \in Windows : history[w] \in Seq(OwnSteps(w)) /\ redo[w] \in Seq(OwnSteps(w))

\* A sequence of own steps is one of steps.
LEMMA OwnStepsAreSteps ==
  ASSUME NEW w, NEW h \in Seq(OwnSteps(w))
  PROVE  h \in Seq(Steps)
<1>1. \A i \in 1..Len(h) : h[i] \in Steps
  BY DEF OwnSteps
<1>2. QED
  BY <1>1

\* One window's undo and redo steps change.
LEMMA OwnHistoryStep ==
  ASSUME HistoryInv, NEW w \in Windows, NEW h \in Seq(OwnSteps(w)), NEW r \in Seq(OwnSteps(w)),
         history' = [history EXCEPT ![w] = h], redo' = [redo EXCEPT ![w] = r]
  PROVE  HistoryInv'
<1>1. h \in Seq(Steps) /\ r \in Seq(Steps)
  BY OwnStepsAreSteps
<1>2. history' \in [Windows -> Seq(Steps)] /\ redo' \in [Windows -> Seq(Steps)]
  BY <1>1 DEF HistoryInv
<1>3. ASSUME NEW v \in Windows
      PROVE  history'[v] \in Seq(OwnSteps(v)) /\ redo'[v] \in Seq(OwnSteps(v))
  <2>1. CASE v = w
    <3>1. history'[v] = h /\ redo'[v] = r
      BY <2>1 DEF HistoryInv
    <3>2. QED
      BY <2>1, <3>1
  <2>2. CASE v # w
    <3>1. history'[v] = history[v] /\ redo'[v] = redo[v]
      BY <2>2 DEF HistoryInv
    <3>2. QED
      BY <3>1 DEF HistoryInv
  <2>3. QED
    BY <2>1, <2>2
<1>4. QED
  BY <1>2, <1>3 DEF HistoryInv

\* The last of a window's steps, and the rest.
LEMMA LastStep ==
  ASSUME NEW w, NEW h \in Seq(OwnSteps(w)), h # <<>>
  PROVE  /\ h[Len(h)] \in OwnSteps(w)
         /\ h[Len(h)].before \in Snapshots /\ h[Len(h)].after \in Snapshots
         /\ SubSeq(h, 1, Len(h) - 1) \in Seq(OwnSteps(w))
<1>1. Len(h) \in Nat /\ Len(h) # 0
  OBVIOUS
<1>2. h[Len(h)] \in OwnSteps(w)
  BY <1>1
<1>3. SubSeq(h, 1, Len(h) - 1) \in Seq(OwnSteps(w))
  BY <1>1
<1>4. h[Len(h)] \in Steps
  BY <1>2 DEF OwnSteps
<1>5. QED
  BY <1>2, <1>3, <1>4 DEF Steps

\* A session ends: the undo step it leaves is the work of its window.
LEMMA FinishSessionKeeps ==
  ASSUME EditorInv, ServerInv, HistoryInv, isNew \in [Windows -> BOOLEAN],
         NEW w \in Windows, Sent(w), UNCHANGED editorVars, FinishSession(w)
  PROVE  EditorInv' /\ ServerInv' /\ HistoryInv'
<1> DEFINE id == wire[w].session
           before == Before(id)
<1>1. /\ Fits(w, phase[w], edit[w], autosave[w], wire[w], file, sessions) /\ Waits(wire[w])
      /\ file \in Files /\ file.revision \in Nat \ {0} /\ sessions \in Seq(Sessions)
      /\ wire[w].revision = edit[w].revision /\ id = edit[w].session /\ UNCHANGED file
  BY RequestValues DEF FinishSession
<1>2. CASE Find(id) = {}
  <2>1. UNCHANGED <<sessions, history, redo>> /\ wire' = [wire EXCEPT ![w] = Reply("gone", file.revision)]
    BY <1>2 DEF FinishSession, Answers
  <2>2. file.revision \in 1..file'.revision /\ file' \in Files
    BY <1>1, <2>1
  <2>3. EditorInv'
    BY <1>1, <2>1, <2>2, SameSessions, RefusalKeeps
  <2>4. QED
    BY <1>1, <2>1, <2>3 DEF ServerInv, HistoryInv
<1>3. CASE Find(id) # {}
  <2>1. /\ wire' = [wire EXCEPT ![w] = Reply("ok", file.revision)] /\ sessions' = Without(id)
        /\ \/ UNCHANGED <<history, redo>>
           \/ /\ file.revision = wire[w].revision /\ file.content # before.content
              /\ history' = [history EXCEPT ![w] =
                                Append(@, [before |-> before, after |-> Snapshot(file)])]
              /\ redo' = [redo EXCEPT ![w] = <<>>]
    BY <1>3 DEF FinishSession, Answers
  <2>2. /\ Without(id) \in Seq(Sessions) /\ Len(Without(id)) <= MaxOpenSessions
        /\ \A i \in DOMAIN Without(id) :
               \E j \in DOMAIN sessions : sessions[j] = Without(id)[i]
    BY <1>1, <1>3, WithoutFields
  <2>3. phase[w] = "ending"
    BY <1>1, PhaseOfRequest DEF FinishSession
  <2>4. EditorInv'
    BY <1>1, <2>1, <2>2, <2>3, AcceptanceKeeps
  <2>5. ServerInv'
    BY <1>1, <2>1, <2>2 DEF ServerInv
  <2>6. HistoryInv'
    <3>1. CASE UNCHANGED <<history, redo>>
      BY <3>1 DEF HistoryInv
    <3>2. CASE ~UNCHANGED <<history, redo>>
      <4> DEFINE s == [before |-> before, after |-> Snapshot(file)]
      <4>1. PICK i \in DOMAIN sessions :
                sessions[i].id = id /\ before = sessions[i].before /\ before \in Snapshots
        BY <1>1, <1>3, FoundSession
      <4>2. Began(w, edit[w].session, file, sessions)
        BY <1>1, <2>1, <3>2 DEF Fits, SessionFits
      <4>3. Own(w, before.content, file.content)
        BY <1>1, <4>1, <4>2 DEF Began
      <4> HIDE DEF before
      <4>4. s \in OwnSteps(w)
        BY <1>1, <2>1, <3>2, <4>1, <4>3, SnapshotOfFile DEF OwnSteps, Steps
      <4> HIDE DEF s
      <4>5. Append(history[w], s) \in Seq(OwnSteps(w)) /\ <<>> \in Seq(OwnSteps(w))
        BY <4>4 DEF HistoryInv
      <4>6. /\ history' = [history EXCEPT ![w] = Append(history[w], s)]
            /\ redo' = [redo EXCEPT ![w] = <<>>]
        BY <2>1, <3>2 DEF s
      <4>7. QED
        BY <4>5, <4>6, OwnHistoryStep
    <3>3. QED
      BY <3>1, <3>2
  <2>7. QED
    BY <2>4, <2>5, <2>6
<1>4. QED
  BY <1>2, <1>3

\* A session is discarded, and the snapshot it began with may be written back.
LEMMA DiscardSessionKeeps ==
  ASSUME EditorInv, ServerInv, HistoryInv, NEW w \in Windows, Sent(w), UNCHANGED editorVars,
         DiscardSession(w)
  PROVE  EditorInv' /\ ServerInv' /\ HistoryInv'
<1> DEFINE id == wire[w].session
           before == Before(id)
<1>1. /\ Fits(w, phase[w], edit[w], autosave[w], wire[w], file, sessions) /\ Waits(wire[w])
      /\ file \in Files /\ file.revision \in Nat \ {0} /\ sessions \in Seq(Sessions)
      /\ UNCHANGED <<history, redo>>
  BY RequestValues DEF DiscardSession
<1>2. HistoryInv'
  BY <1>1 DEF HistoryInv
<1>3. CASE Find(id) = {}
  <2>1. UNCHANGED <<file, sessions>> /\ wire' = [wire EXCEPT ![w] = Reply("gone", file.revision)]
    BY <1>3 DEF DiscardSession, Answers
  <2>2. file.revision \in 1..file'.revision /\ file' \in Files
    BY <1>1, <2>1
  <2>3. EditorInv'
    BY <1>1, <2>1, <2>2, SameSessions, RefusalKeeps
  <2>4. QED
    BY <1>1, <1>2, <2>1, <2>3 DEF ServerInv
<1>4. CASE Find(id) # {}
  <2>1. sessions' = Without(id)
    BY <1>4 DEF DiscardSession
  <2>2. /\ Without(id) \in Seq(Sessions) /\ Len(Without(id)) <= MaxOpenSessions
        /\ \A i \in DOMAIN Without(id) :
               \E j \in DOMAIN sessions : sessions[j] = Without(id)[i]
    BY <1>1, <1>4, WithoutFields
  <2>3. phase[w] = "discarding"
    BY <1>1, PhaseOfRequest DEF DiscardSession
  <2>4. CASE wire[w].revision # file.revision
    <3>1. UNCHANGED file /\ wire' = [wire EXCEPT ![w] = Reply("conflict", file.revision)]
      BY <1>4, <2>4 DEF DiscardSession, Answers
    <3>2. file.revision \in 1..file'.revision /\ file' \in Files
      BY <1>1, <3>1
    <3>3. EditorInv'
      BY <1>1, <2>1, <2>2, <3>1, <3>2, RefusalKeeps
    <3>4. ServerInv'
      BY <2>1, <2>2, <3>2 DEF ServerInv
    <3>5. QED
      BY <1>2, <3>3, <3>4
  <2>5. CASE wire[w].revision = file.revision
    <3>1. /\ file' = IF file.revision # before.revision THEN Restored(before) ELSE file
          /\ wire' = [wire EXCEPT ![w] = Reply("ok", file'.revision)]
      BY <1>4, <2>5 DEF DiscardSession, Answers
    <3>2. before \in Snapshots
      BY <1>1, <1>4, FoundSession
    <3>3. /\ file' \in Files
          /\ \/ file'.revision = file.revision + 1
             \/ file'.revision = file.revision /\ file'.content = file.content
      BY <1>1, <3>1, <3>2, RestoredFields
    <3>4. EditorInv'
      BY <1>1, <2>1, <2>2, <2>3, <3>1, <3>3, AcceptanceKeeps
    <3>5. ServerInv'
      BY <2>1, <2>2, <3>3 DEF ServerInv
    <3>6. QED
      BY <1>2, <3>4, <3>5
  <2>6. QED
    BY <2>4, <2>5
<1>5. QED
  BY <1>3, <1>4

\* The server handles a request of w.
LEMMA ServesKeeps ==
  ASSUME EditorInv, ServerInv, HistoryInv, isNew \in [Windows -> BOOLEAN],
         NEW w \in Windows, Serves(w)
  PROVE  EditorInv' /\ ServerInv' /\ HistoryInv'
<1>1. Sent(w) /\ UNCHANGED editorVars
  BY DEF Serves
<1>2. CASE ReplaceContent(w)
  BY <1>1, <1>2, ReplaceContentKeeps DEF ReplaceContent, HistoryInv
<1>3. CASE StorePreviews(w)
  BY <1>1, <1>3, StorePreviewsKeeps DEF StorePreviews, HistoryInv
<1>4. CASE DownloadFile(w)
  BY <1>1, <1>4, DownloadFileKeeps DEF DownloadFile, serverVars, HistoryInv
<1>5. CASE StartSession(w)
  BY <1>1, <1>5, StartSessionKeeps DEF StartSession, HistoryInv
<1>6. CASE FinishSession(w)
  BY <1>1, <1>6, FinishSessionKeeps
<1>7. CASE DiscardSession(w)
  BY <1>1, <1>7, DiscardSessionKeeps
<1>8. QED
  BY <1>2, <1>3, <1>4, <1>5, <1>6, <1>7 DEF Serves

\* What changes nothing of the windows' editors and only moves the file or ends sessions.
LEMMA ServerOnlyKeeps ==
  ASSUME EditorInv, ServerInv, UNCHANGED <<editorVars, wire>>, file' \in Files,
         \/ file'.revision = file.revision + 1
         \/ file'.revision = file.revision /\ file'.content = file.content,
         \A i \in DOMAIN sessions' : \E j \in DOMAIN sessions : sessions[j] = sessions'[i]
  PROVE  EditorInv'
<1>1. \A v \in Windows : Fits(v, phase[v], edit[v], autosave[v], wire[v], file', sessions')
  BY AllStillFit
<1>2. QED
  BY <1>1 DEF EditorInv, editorVars

\* Undo and redo write a snapshot back as the next revision.
LEMMA UndoesKeeps ==
  ASSUME EditorInv, ServerInv, HistoryInv, NEW w \in Windows, Undoes(w) \/ Redoes(w)
  PROVE  EditorInv' /\ ServerInv' /\ HistoryInv'
<1>1. UNCHANGED <<editorVars, wire>> /\ UNCHANGED sessions /\ file \in Files
  BY DEF Undoes, Redoes, ServerInv
<1>2. history[w] \in Seq(OwnSteps(w)) /\ redo[w] \in Seq(OwnSteps(w))
  BY DEF HistoryInv
<1>3. CASE Undoes(w)
  <2> DEFINE h == history[w]
             s == h[Len(h)]
  <2>1. /\ h # <<>> /\ file' = Restored(s.before)
        /\ history' = [history EXCEPT ![w] = SubSeq(h, 1, Len(h) - 1)]
        /\ redo' = [redo EXCEPT ![w] = Append(redo[w], s)]
    BY <1>3 DEF Undoes
  <2>2. /\ s \in OwnSteps(w) /\ s.before \in Snapshots
        /\ SubSeq(h, 1, Len(h) - 1) \in Seq(OwnSteps(w))
    BY <1>2, <2>1, LastStep
  <2>3. file' \in Files /\ file'.revision = file.revision + 1
    BY <1>1, <2>1, <2>2, RestoredFields
  <2>4. EditorInv'
    BY <1>1, <2>3, SameSessions, ServerOnlyKeeps
  <2> HIDE DEF s
  <2>5. Append(redo[w], s) \in Seq(OwnSteps(w))
    BY <1>2, <2>2
  <2> HIDE DEF h
  <2>6. HistoryInv'
    BY <2>1, <2>2, <2>5, OwnHistoryStep
  <2>7. QED
    BY <1>1, <2>3, <2>4, <2>6 DEF ServerInv
<1>4. CASE Redoes(w)
  <2> DEFINE r == redo[w]
             s == r[Len(r)]
  <2>1. /\ r # <<>> /\ file' = Restored(s.after)
        /\ redo' = [redo EXCEPT ![w] = SubSeq(r, 1, Len(r) - 1)]
        /\ history' = [history EXCEPT ![w] = Append(history[w], s)]
    BY <1>4 DEF Redoes
  <2>2. /\ s \in OwnSteps(w) /\ s.after \in Snapshots
        /\ SubSeq(r, 1, Len(r) - 1) \in Seq(OwnSteps(w))
    BY <1>2, <2>1, LastStep
  <2>3. file' \in Files /\ file'.revision = file.revision + 1
    BY <1>1, <2>1, <2>2, RestoredFields
  <2>4. EditorInv'
    BY <1>1, <2>3, SameSessions, ServerOnlyKeeps
  <2> HIDE DEF s
  <2>5. Append(history[w], s) \in Seq(OwnSteps(w))
    BY <1>2, <2>2
  <2> HIDE DEF r
  <2>6. HistoryInv'
    BY <2>1, <2>2, <2>5, OwnHistoryStep
  <2>7. QED
    BY <1>1, <2>3, <2>4, <2>6 DEF ServerInv
<1>5. QED
  BY <1>3, <1>4

\* The oldest session expires.
LEMMA ExpiresKeeps ==
  ASSUME EditorInv, ServerInv, HistoryInv, Expires
  PROVE  EditorInv' /\ ServerInv' /\ HistoryInv'
<1>1. /\ sessions # <<>> /\ sessions' = Tail(sessions)
      /\ UNCHANGED <<file, history, redo>> /\ UNCHANGED <<editorVars, wire>>
  BY DEF Expires
<1>2. sessions \in Seq(Sessions) /\ Len(sessions) \in Nat /\ file' \in Files
      /\ Len(sessions) <= MaxOpenSessions /\ MaxOpenSessions \in Nat
  BY <1>1, DiagramEditorAssumption DEF ServerInv
<1>3. /\ Tail(sessions) \in Seq(Sessions) /\ Len(Tail(sessions)) = Len(sessions) - 1
      /\ \A i \in DOMAIN Tail(sessions) :
             \E j \in DOMAIN sessions : sessions[j] = Tail(sessions)[i]
  BY <1>1, <1>2, TailFields
<1>4. EditorInv'
  BY <1>1, <1>2, <1>3, ServerOnlyKeeps
<1>5. QED
  BY <1>1, <1>2, <1>3, <1>4 DEF ServerInv, HistoryInv

\* A bulk operation forgets sessions and steps.
LEMMA ForgetsHistoryKeeps ==
  ASSUME EditorInv, ServerInv, HistoryInv, ForgetsHistory
  PROVE  EditorInv' /\ ServerInv' /\ HistoryInv'
<1>1. /\ sessions' = <<>> /\ UNCHANGED file /\ UNCHANGED <<editorVars, wire>>
      /\ history' = [w \in Windows |-> <<>>] /\ redo' = [w \in Windows |-> <<>>]
  BY DEF ForgetsHistory
<1>2. \A i \in DOMAIN sessions' : \E j \in DOMAIN sessions : sessions[j] = sessions'[i]
  BY <1>1
<1>3. EditorInv'
  BY <1>1, <1>2, ServerOnlyKeeps DEF ServerInv
<1>4. QED
  BY <1>1, <1>3, DiagramEditorAssumption DEF ServerInv, HistoryInv

\* A request or its answer is lost.
LEMMA LosesKeeps ==
  ASSUME EditorInv, ServerInv, NEW w \in Windows, Loses(w)
  PROVE  EditorInv'
<1>1. /\ Waits(wire[w]) /\ UNCHANGED editorVars /\ UNCHANGED file /\ UNCHANGED sessions
      /\ wire' = [wire EXCEPT ![w] = Reply("lost", 1)]
  BY WireWords DEF Loses, Answers, serverVars
<1>2. file' \in Files /\ 1 \in 1..file'.revision
  BY <1>1 DEF ServerInv, Files
<1>3. QED
  BY <1>1, <1>2, SameSessions, RefusalKeeps

-----------------------------------------------------------------------------
(***************************************************************************)
(* The pages: an embed's preview is the one its cache has for its revision,  *)
(* and what a page still waits for is marked so.                             *)
(***************************************************************************)
Previews == Scenes \cup {NoPreview, Pending}
Shows(p, c, F) ==
    /\ \A r \in F : r \in DOMAIN c => c[r] = Pending
    /\ p.revision = 0 => p.state = "absent"
    /\ p.state = "loaded" => /\ p.revision \in DOMAIN c
                             /\ c[p.revision] = p.scene /\ p.scene # Pending
PageInv ==
    /\ page \in [Windows -> Embeds] /\ fetching \in [Windows -> SUBSET Nat]
    /\ cache = [w \in Windows |-> cache[w]]
    /\ \A w \in Windows : /\ cache[w] \in [DOMAIN cache[w] -> Previews]
                          /\ Shows(page[w], cache[w], fetching[w])

\* One window's page, cache and requests for previews change.
LEMMA PageStep ==
  ASSUME PageInv, NEW w \in Windows, NEW p \in Embeds, NEW c, c \in [DOMAIN c -> Previews],
         NEW F \in SUBSET Nat, Shows(p, c, F),
         page' = [page EXCEPT ![w] = p], cache' = [cache EXCEPT ![w] = c],
         fetching' = [fetching EXCEPT ![w] = F]
  PROVE  PageInv'
<1>1. /\ page' \in [Windows -> Embeds] /\ fetching' \in [Windows -> SUBSET Nat]
      /\ cache' = [v \in Windows |-> cache'[v]]
  BY DEF PageInv
<1>2. ASSUME NEW v \in Windows
      PROVE  /\ cache'[v] \in [DOMAIN cache'[v] -> Previews]
             /\ Shows(page'[v], cache'[v], fetching'[v])
  <2>1. CASE v = w
    <3>1. page'[v] = p /\ cache'[v] = c /\ fetching'[v] = F
      BY <2>1 DEF PageInv
    <3>2. QED
      BY <3>1
  <2>2. CASE v # w
    <3>1. page'[v] = page[v] /\ cache'[v] = cache[v] /\ fetching'[v] = fetching[v]
      BY <2>2 DEF PageInv
    <3>2. QED
      BY <3>1 DEF PageInv
  <2>3. QED
    BY <2>1, <2>2
<1>3. QED
  BY <1>1, <1>2 DEF PageInv

\* What a page's values are, and that leaving them alone is writing them again.
LEMMA PageValues ==
  ASSUME PageInv, NEW w \in Windows
  PROVE  /\ page[w] \in Embeds /\ cache[w] \in [DOMAIN cache[w] -> Previews]
         /\ fetching[w] \in SUBSET Nat /\ Shows(page[w], cache[w], fetching[w])
         /\ page = [page EXCEPT ![w] = page[w]] /\ fetching = [fetching EXCEPT ![w] = fetching[w]]
         /\ cache = [cache EXCEPT ![w] = cache[w]]
BY DEF PageInv

\* An embed of another revision shows what its cache has, or asks for it.
LEMMA HydrateKeeps ==
  ASSUME PageInv, NEW w \in Windows, NEW c, c \in [DOMAIN c -> Previews],
         \A k \in fetching[w] : k \in DOMAIN c => c[k] = Pending,
         NEW r \in Nat \ {0}, Hydrate(w, c, r)
  PROVE  PageInv'
<1> DEFINE known == r \in DOMAIN c
           ready == known /\ c[r] # Pending
           d == [k \in DOMAIN c \cup {r} |-> IF k \in DOMAIN c THEN c[k] ELSE Pending]
           G == IF known THEN fetching[w] ELSE fetching[w] \cup {r}
           p == [revision |-> r, state |-> IF ready THEN "loaded" ELSE "loading",
                 scene |-> IF ready THEN c[r] ELSE NoPreview]
<1>1. /\ page' = [page EXCEPT ![w] = p] /\ cache' = [cache EXCEPT ![w] = d]
      /\ fetching' = [fetching EXCEPT ![w] = G]
  BY PageValues DEF Hydrate
<1>2. p \in Embeds /\ p.revision = r /\ p.revision # 0
      /\ (p.state = "loaded" => ready /\ p.scene = c[r])
  BY DEF Embeds, Previews
<1>3. /\ DOMAIN d = DOMAIN c \cup {r} /\ d \in [DOMAIN d -> Previews]
      /\ \A k \in DOMAIN c : d[k] = c[k]
      /\ ~known => d[r] = Pending
  BY DEF Previews
<1>4. G \in SUBSET Nat /\ \A k \in G : k \in fetching[w] \/ (k = r /\ ~known)
  BY PageValues
<1> HIDE DEF d, G, p
<1>5. Shows(p, d, G)
  <2>1. ASSUME NEW k \in G, k \in DOMAIN d
        PROVE  d[k] = Pending
    <3>1. CASE k \in DOMAIN c
      BY <1>3, <1>4, <3>1
    <3>2. CASE k \notin DOMAIN c
      BY <1>3, <2>1, <3>2
    <3>3. QED
      BY <3>1, <3>2
  <2>2. p.state = "loaded" => /\ p.revision \in DOMAIN d
                              /\ d[p.revision] = p.scene /\ p.scene # Pending
    BY <1>2, <1>3
  <2>3. QED
    BY <1>2, <2>1, <2>2 DEF Shows
<1>6. QED
  BY <1>1, <1>2, <1>3, <1>4, <1>5, PageStep

\* A closing editor drops the previews of other revisions.
LEMMA RefreshEmbedsKeeps ==
  ASSUME PageInv, NEW w \in Windows, NEW r \in Nat \ {0}, RefreshEmbeds(w, r)
  PROVE  PageInv'
<1> DEFINE c == cache[w]
           kept == [k \in DOMAIN c \cap {r} |-> c[k]]
<1>1. c \in [DOMAIN c -> Previews] /\ Shows(page[w], c, fetching[w])
  BY PageValues
<1>2. /\ DOMAIN kept = DOMAIN c \cap {r} /\ kept \in [DOMAIN kept -> Previews]
      /\ \A k \in DOMAIN kept : k \in DOMAIN c /\ kept[k] = c[k]
  BY <1>1
<1>3. \A k \in fetching[w] : k \in DOMAIN kept => kept[k] = Pending
  BY <1>1, <1>2 DEF Shows
<1>4. CASE page[w].revision = 0
  <2>1. cache' = [cache EXCEPT ![w] = kept] /\ UNCHANGED <<page, fetching>>
    BY <1>4 DEF RefreshEmbeds
  <2>2. Shows(page[w], kept, fetching[w])
    BY <1>1, <1>3, <1>4 DEF Shows
  <2> DEFINE p == page[w]
             G == fetching[w]
  <2>3. /\ p \in Embeds /\ G \in SUBSET Nat /\ page' = [page EXCEPT ![w] = p]
        /\ fetching' = [fetching EXCEPT ![w] = G] /\ Shows(p, kept, G)
    BY <2>1, <2>2, PageValues
  <2> HIDE DEF kept, p, G
  <2>4. QED
    BY <1>2, <2>1, <2>3, PageStep
<1>5. CASE page[w].revision # 0
  <2>1. Hydrate(w, kept, r)
    BY <1>5 DEF RefreshEmbeds
  <2> HIDE DEF kept
  <2>2. QED
    BY <1>2, <1>3, <2>1, HydrateKeeps
<1>6. QED
  BY <1>4, <1>5

\* A page renders the note again.
LEMMA RendersNoteKeeps ==
  ASSUME PageInv, ServerInv, NEW w \in Windows, RendersNote(w)
  PROVE  PageInv'
<1> DEFINE c == cache[w]
           r == file.revision
<1>1. c \in [DOMAIN c -> Previews] /\ \A k \in fetching[w] : k \in DOMAIN c => c[k] = Pending
  BY PageValues DEF Shows
<1>2. Hydrate(w, c, r) /\ r \in Nat \ {0}
  BY DEF RendersNote, ServerInv, Files
<1> HIDE DEF c, r
<1>3. QED
  BY <1>1, <1>2, HydrateKeeps

\* An answer: what a page shows already is not what it waits for.
LEMMA PreviewArrivesKeeps ==
  ASSUME PageInv, ServerInv, NEW w \in Windows, NEW r \in fetching[w], PreviewArrives(w, r)
  PROVE  PageInv'
<1> DEFINE c == cache[w]
           G == fetching[w] \ {r}
           x == file.preview
<1>1. /\ c \in [DOMAIN c -> Previews] /\ Shows(page[w], c, fetching[w]) /\ page[w] \in Embeds
      /\ fetching[w] \in SUBSET Nat
  BY PageValues
<1>2. G \in SUBSET Nat /\ fetching' = [fetching EXCEPT ![w] = G]
  BY <1>1 DEF PreviewArrives
<1>3. x \in Scenes \cup {NoPreview} /\ x # Pending
  BY PreviewAssumption DEF ServerInv, Files
<1>4. CASE r \notin DOMAIN c
  <2> DEFINE p == page[w]
  <2>1. UNCHANGED <<cache, page>>
    BY <1>4 DEF PreviewArrives
  <2>2. page' = [page EXCEPT ![w] = p] /\ cache' = [cache EXCEPT ![w] = c]
    BY <2>1, PageValues
  <2>3. Shows(p, c, G) /\ p \in Embeds
    BY <1>1 DEF Shows
  <2> HIDE DEF p, c, G
  <2>4. QED
    BY <1>1, <1>2, <2>2, <2>3, PageStep DEF c
<1>5. CASE r \in DOMAIN c
  <2> DEFINE d == [c EXCEPT ![r] = x]
             p == IF page[w].revision = r /\ page[w].state = "loading"
                  THEN [page[w] EXCEPT !.state = "loaded", !.scene = x] ELSE page[w]
  <2>1. /\ cache' = [cache EXCEPT ![w] = d]
        /\ page' = [page EXCEPT ![w] = p]
    BY <1>5, PageValues DEF PreviewArrives
  <2>2. /\ DOMAIN d = DOMAIN c /\ d \in [DOMAIN d -> Previews] /\ d[r] = x
        /\ \A k \in DOMAIN c : k # r => d[k] = c[k]
    BY <1>1, <1>3, <1>5 DEF Previews
  <2>3. c[r] = Pending
    BY <1>1, <1>5 DEF Shows
  <2>4. p \in Embeds
    BY <1>1, <1>3 DEF Embeds
  <2>5. Shows(p, d, G)
    <3>1. \A k \in G : k \in DOMAIN d => d[k] = Pending
      BY <1>1, <2>2 DEF Shows
    <3>2. CASE page[w].revision = r /\ page[w].state = "loading"
      <4>1. p = [page[w] EXCEPT !.state = "loaded", !.scene = x]
        BY <3>2
      <4>2. p.revision = r /\ p.scene = x
        BY <1>1, <3>2, <4>1 DEF Embeds
      <4>3. r # 0
        BY <1>1, <3>2 DEF Shows
      <4>4. QED
        BY <1>3, <1>5, <2>2, <3>1, <4>2, <4>3 DEF Shows
    <3>3. CASE ~(page[w].revision = r /\ page[w].state = "loading")
      <4>1. p = page[w]
        BY <3>3
      <4>2. page[w].state = "loaded" => page[w].revision # r
        BY <1>1, <2>3 DEF Shows
      <4>3. QED
        BY <1>1, <2>2, <3>1, <4>1, <4>2 DEF Shows
    <3>4. QED
      BY <3>2, <3>3
  <2> HIDE DEF d, p, G
  <2>6. QED
    BY <1>2, <2>1, <2>2, <2>4, <2>5, PageStep
<1>6. QED
  BY <1>4, <1>5

\* A preview that does not come.
LEMMA PreviewFailsKeeps ==
  ASSUME PageInv, NEW w \in Windows, NEW r \in fetching[w], PreviewFails(w, r)
  PROVE  PageInv'
<1> DEFINE c == cache[w]
           d == [k \in DOMAIN c \ {r} |-> c[k]]
           G == fetching[w] \ {r}
           p == IF page[w].revision = r /\ page[w].state = "loading"
                THEN [page[w] EXCEPT !.state = "failed"] ELSE page[w]
<1>1. /\ c \in [DOMAIN c -> Previews] /\ Shows(page[w], c, fetching[w]) /\ page[w] \in Embeds
      /\ fetching[w] \in SUBSET Nat
  BY PageValues
<1>2. /\ fetching' = [fetching EXCEPT ![w] = G] /\ cache' = [cache EXCEPT ![w] = d]
      /\ page' = [page EXCEPT ![w] = p] /\ G \in SUBSET Nat
  BY <1>1, PageValues DEF PreviewFails, PageInv
<1>3. /\ DOMAIN d = DOMAIN c \ {r} /\ d \in [DOMAIN d -> Previews]
      /\ \A k \in DOMAIN d : k \in DOMAIN c /\ d[k] = c[k]
  BY <1>1
<1>4. /\ p \in Embeds /\ p.revision = page[w].revision
      /\ p.state = "loaded" => p = page[w]
      /\ p.revision = 0 => p = page[w]
  BY <1>1 DEF Embeds, Shows
<1>5. page[w].state = "loaded" => page[w].revision # r
  BY <1>1 DEF Shows
<1> HIDE DEF d, p
<1>6. Shows(p, d, G)
  BY <1>1, <1>3, <1>4, <1>5 DEF Shows
<1> HIDE DEF G
<1>7. QED
  BY <1>2, <1>3, <1>4, <1>6, PageStep

\* A reloaded page knows nothing.
LEMMA ReloadKeepsPages ==
  ASSUME PageInv, NEW w \in Windows, Reload(w)
  PROVE  PageInv'
<1> DEFINE c == <<>>
           G == {}
<1>1. /\ page' = [page EXCEPT ![w] = NoPage] /\ cache' = [cache EXCEPT ![w] = c]
      /\ fetching' = [fetching EXCEPT ![w] = G]
  BY DEF Reload
<1>2. NoPage \in Embeds /\ NoPage.state = "absent"
  BY DEF NoPage, Embeds
<1>3. c \in [DOMAIN c -> Previews] /\ G \in SUBSET Nat
  OBVIOUS
<1> HIDE DEF c
<1>4. Shows(NoPage, c, G)
  BY <1>2 DEF Shows
<1> HIDE DEF G
<1>5. QED
  BY <1>1, <1>2, <1>3, <1>4, PageStep

\* The editor's revision, or the one the server answered, is one the file has had.
LEMMA ClosingKeepsPages ==
  ASSUME PageInv, EditorInv, ServerInv, NEW w \in Windows, SessionEnded(w) \/ Discarded(w)
  PROVE  PageInv'
<1>1. /\ Fits(w, phase[w], edit[w], autosave[w], wire[w], file, sessions)
      /\ phase[w] \in {"ending", "discarding"} /\ Replies(wire[w]) /\ edit[w] \in Edits
  BY WindowValues, WireWords DEF SessionEnded, Discarded
<1>2. file.revision \in Nat /\ edit[w].revision \in Nat
  BY <1>1 DEF ServerInv, Files, Edits
<1>3. edit[w].revision \in Nat \ {0} /\ wire[w].revision \in Nat \ {0}
  BY <1>1, <1>2 DEF Fits, RevisionFits
<1>4. PICK r \in Nat \ {0} : RefreshEmbeds(w, r)
  BY <1>3 DEF SessionEnded, Discarded, Close
<1>5. QED
  BY <1>4, RefreshEmbedsKeeps

-----------------------------------------------------------------------------
(***************************************************************************)
(* The invariant as a whole.                                                 *)
(***************************************************************************)
BoundInv ==
    /\ isNew \in [Windows -> BOOLEAN] /\ cast \in Casts
    /\ unused \subseteq Strokes /\ failures \in 0..MaxFailures
DiagramInv == EditorInv /\ ServerInv /\ HistoryInv /\ PageInv /\ BoundInv

\* At the beginning no editor is open, or the one of a new diagram is about to be.
LEMMA InitFits ==
  ASSUME Init
  PROVE  EditorInv /\ ServerInv
<1>1. file \in Files /\ sessions = <<>>
  <2>1. \/ file = [content |-> {}, revision |-> 1, preview |-> {}, tag |-> 1]
        \/ file = [content |-> {}, revision |-> 1, preview |-> NoPreview, tag |-> 0]
    BY DEF Init
  <2>2. file \in Files
    BY <2>1, ScenesHaveEmpty DEF Files
  <2>3. QED
    BY <2>2 DEF Init
<1>2. ServerInv
  BY <1>1, DiagramEditorAssumption DEF ServerInv
<1>3. isNew \in [Windows -> BOOLEAN]
  BY DEF Init
<1>4. /\ edit = [w \in Windows |-> NoEdit] /\ autosave = [w \in Windows |-> Idle]
      /\ phase = [w \in Windows |-> IF isNew[w] THEN "downloading" ELSE "closed"]
      /\ wire = [w \in Windows |-> IF isNew[w] THEN Asking("download", {}, NoEdit) ELSE Quiet]
  BY DEF Init, Asking, NoEdit
<1>5. ASSUME NEW w \in Windows
      PROVE  Fits(w, phase[w], edit[w], autosave[w], wire[w], file, sessions)
  <2>1. Fits(w, "closed", NoEdit, Idle, Quiet, file, sessions)
    BY <1>2, ClosedFits DEF ServerInv
  <2>2. Fits(w, "downloading", NoEdit, Idle, Asking("download", {}, NoEdit), file, sessions)
    BY <1>2, <2>1, AskedToOpenFits DEF ServerInv
  <2>3. QED
    BY <1>4, <2>1, <2>2
<1>6. /\ NoEdit \in Edits /\ Idle \in Controllers /\ Quiet \in Messages
      /\ "closed" \in Phases /\ "downloading" \in Phases
  BY ScenesHaveEmpty DEF NoEdit, Edits, Idle, Controllers, Statuses, Messages, Phases, Opening
<1>7. Asking("download", {}, NoEdit) \in Messages
  BY <1>6, AskingFields, ScenesHaveEmpty DEF Requests
<1>8. QED
  BY <1>2, <1>4, <1>5, <1>6, <1>7 DEF EditorInv

\* The invariant holds at the beginning.
LEMMA InitIsDiagramInv == Init => DiagramInv
<1> SUFFICES ASSUME Init
             PROVE  DiagramInv
  OBVIOUS
<1>1. EditorInv /\ ServerInv
  BY InitFits
<1>2. HistoryInv
  <2>1. history = [w \in Windows |-> <<>>] /\ redo = [w \in Windows |-> <<>>]
    BY DEF Init
  <2>2. QED
    BY <2>1 DEF HistoryInv
<1>3. PageInv
  <2> DEFINE c == <<>>
  <2>1. /\ page = [w \in Windows |-> NoPage] /\ cache = [w \in Windows |-> c]
        /\ fetching = [w \in Windows |-> {}]
    BY DEF Init
  <2>2. NoPage \in Embeds /\ NoPage.state = "absent" /\ c \in [DOMAIN c -> Previews]
    BY DEF NoPage, Embeds
  <2> HIDE DEF c
  <2>3. QED
    BY <2>1, <2>2 DEF PageInv, Shows
<1>4. BoundInv
  <2>1. isNew \in [Windows -> BOOLEAN]
    BY DEF Init
  <2>2. failures = 0 /\ MaxFailures \in Nat /\ cast \in Casts /\ unused \subseteq Strokes
    BY DiagramEditorAssumption DEF Init
  <2>3. QED
    BY <2>1, <2>2 DEF BoundInv
<1>5. QED
  BY <1>1, <1>2, <1>3, <1>4 DEF DiagramInv

\* The editors, the server and the undo steps.
LEMMA EditorStep ==
  ASSUME DiagramInv, [Next]_vars
  PROVE  EditorInv' /\ ServerInv' /\ HistoryInv'
<1>1. /\ EditorInv /\ ServerInv /\ HistoryInv /\ unused \subseteq Strokes
      /\ isNew \in [Windows -> BOOLEAN]
  BY DEF DiagramInv, BoundInv
<1>2. UNCHANGED serverVars => ServerInv' /\ HistoryInv'
  BY <1>1 DEF ServerInv, HistoryInv, serverVars
<1>3. CASE UNCHANGED vars
  BY <1>1, <1>2, <1>3 DEF vars, editorVars, EditorInv, serverVars
<1>4. ASSUME NEW w \in Windows, Continues(w)
      PROVE  EditorInv' /\ UNCHANGED serverVars
  <2>1. CASE TimerFires(w)
    BY <1>1, <2>1, TimerFiresKeeps DEF TimerFires
  <2>2. CASE SaveAnswered(w)
    BY <1>1, <2>2, SaveAnsweredKeeps DEF SaveAnswered
  <2>3. CASE FlushSettles(w)
    BY <1>1, <2>3, FlushSettlesKeeps DEF FlushSettles
  <2>4. CASE PreviewsStored(w)
    BY <1>1, <2>4, PreviewsStoredKeeps DEF PreviewsStored
  <2>5. CASE SessionEnded(w)
    BY <1>1, <2>5, ClosingKeeps DEF SessionEnded
  <2>6. CASE IdleReached(w)
    BY <1>1, <2>6, IdleReachedKeeps DEF IdleReached
  <2>7. CASE Discarded(w)
    BY <1>1, <2>7, ClosingKeeps DEF Discarded
  <2>8. CASE Downloaded(w)
    BY <1>1, <2>8, DownloadedKeeps DEF Downloaded
  <2>9. CASE FirstPreviewsStored(w)
    BY <1>1, <2>9, FirstPreviewsStoredKeeps DEF FirstPreviewsStored
  <2>10. CASE SessionStarted(w)
    BY <1>1, <2>10, SessionStartedKeeps DEF SessionStarted
  <2>11. QED
    BY <1>4, <2>1, <2>2, <2>3, <2>4, <2>5, <2>6, <2>7, <2>8, <2>9, <2>10 DEF Continues
<1>5. ASSUME NEW w \in Windows, UserActs(w)
      PROVE  \/ EditorInv' /\ UNCHANGED serverVars
             \/ EditorInv' /\ ServerInv' /\ HistoryInv'
  <2>1. CASE OpenEditor(w)
    BY <1>1, <2>1, OpenEditorKeeps DEF OpenEditor
  <2>2. CASE Draws(w)
    BY <1>1, <2>2, DrawsKeeps DEF Draws
  <2>3. CASE MovesPointer(w)
    BY <1>1, <2>3, MovesPointerKeeps DEF MovesPointer
  <2>4. CASE Done(w)
    BY <1>1, <2>4, DoneKeeps DEF Done
  <2>5. CASE Discard(w)
    BY <1>1, <2>5, DiscardKeeps DEF Discard
  <2>6. CASE Undoes(w) \/ Redoes(w)
    BY <1>1, <2>6, UndoesKeeps
  <2>7. QED
    BY <1>5, <2>1, <2>2, <2>3, <2>4, <2>5, <2>6 DEF UserActs
<1>6. ASSUME NEW w \in Windows, Fails(w)
      PROVE  EditorInv' /\ UNCHANGED serverVars
  <2>1. CASE Loses(w)
    BY <1>1, <2>1, LosesKeeps DEF Loses
  <2>2. CASE Reload(w)
    BY <1>1, <2>2, ClosingKeeps DEF Reload
  <2>3. ASSUME NEW r \in fetching[w], PreviewFails(w, r)
        PROVE  EditorInv' /\ UNCHANGED serverVars
    BY <1>1, <2>3 DEF PreviewFails, editorVars, EditorInv, serverVars
  <2>4. QED
    BY <1>6, <2>1, <2>2, <2>3 DEF Fails
<1>7. ASSUME NEW w \in Windows, Arrives(w) \/ RendersNote(w)
      PROVE  EditorInv' /\ UNCHANGED serverVars
  <2>1. UNCHANGED <<editorVars, serverVars, wire>>
    BY <1>7 DEF Arrives, PreviewArrives, RendersNote
  <2>2. QED
    BY <1>1, <2>1 DEF editorVars, EditorInv, serverVars
<1>8. ASSUME NEW w \in Windows, Serves(w)
      PROVE  EditorInv' /\ ServerInv' /\ HistoryInv'
  BY <1>1, <1>8, ServesKeeps
<1>9. CASE Expires
  BY <1>1, <1>9, ExpiresKeeps
<1>10. CASE ForgetsHistory
  BY <1>1, <1>10, ForgetsHistoryKeeps
<1>11. QED
  BY <1>2, <1>3, <1>4, <1>5, <1>6, <1>7, <1>8, <1>9, <1>10 DEF Next

\* The pages.
LEMMA PagesStep ==
  ASSUME DiagramInv, [Next]_vars
  PROVE  PageInv'
<1>1. PageInv /\ EditorInv /\ ServerInv
  BY DEF DiagramInv
<1>2. UNCHANGED pageVars => PageInv'
  BY <1>1 DEF PageInv, pageVars
<1>3. CASE UNCHANGED vars
  BY <1>2, <1>3 DEF vars
<1>4. ASSUME NEW w \in Windows, Continues(w)
      PROVE  PageInv'
  <2>1. CASE SessionEnded(w) \/ Discarded(w)
    BY <1>1, <2>1, ClosingKeepsPages
  <2>2. CASE ~(SessionEnded(w) \/ Discarded(w))
    BY <1>2, <1>4, <2>2
       DEF Continues, TimerFires, SaveAnswered, FlushSettles, PreviewsStored, IdleReached,
           Downloaded, FirstPreviewsStored, SessionStarted
  <2>3. QED
    BY <2>1, <2>2
<1>5. ASSUME NEW w \in Windows, UserActs(w)
      PROVE  PageInv'
  BY <1>2, <1>5
     DEF UserActs, OpenEditor, Draws, MovesPointer, Done, Discard, Undoes, Redoes
<1>6. ASSUME NEW w \in Windows, Fails(w)
      PROVE  PageInv'
  <2>1. CASE Loses(w)
    BY <1>2, <2>1 DEF Loses
  <2>2. CASE Reload(w)
    BY <1>1, <2>2, ReloadKeepsPages
  <2>3. ASSUME NEW r \in fetching[w], PreviewFails(w, r)
        PROVE  PageInv'
    BY <1>1, <2>3, PreviewFailsKeeps
  <2>4. QED
    BY <1>6, <2>1, <2>2, <2>3 DEF Fails
<1>7. ASSUME NEW w \in Windows, Arrives(w) \/ RendersNote(w) \/ Serves(w)
      PROVE  PageInv'
  <2>1. ASSUME NEW r \in fetching[w], PreviewArrives(w, r)
        PROVE  PageInv'
    BY <1>1, <2>1, PreviewArrivesKeeps
  <2>2. CASE RendersNote(w)
    BY <1>1, <2>2, RendersNoteKeeps
  <2>3. CASE Serves(w)
    BY <1>2, <2>3 DEF Serves
  <2>4. QED
    BY <1>7, <2>1, <2>2, <2>3 DEF Arrives
<1>8. CASE Expires \/ ForgetsHistory
  BY <1>2, <1>8 DEF Expires, ForgetsHistory
<1>9. QED
  BY <1>3, <1>4, <1>5, <1>6, <1>7, <1>8 DEF Next

\* What bounds the instance.
LEMMA BoundsStep ==
  ASSUME DiagramInv, [Next]_vars
  PROVE  BoundInv'
<1>1. BoundInv /\ MaxFailures \in Nat
  BY DiagramEditorAssumption DEF DiagramInv
<1>2. UNCHANGED <<isNew, boundVars>> => BoundInv'
  BY <1>1 DEF BoundInv, boundVars
<1>3. CASE UNCHANGED vars
  BY <1>2, <1>3 DEF vars, editorVars
<1>4. ASSUME NEW w \in Windows, UNCHANGED boundVars, isNew' = [isNew EXCEPT ![w] = FALSE]
      PROVE  BoundInv'
  BY <1>1, <1>4 DEF BoundInv, boundVars
<1>5. ASSUME NEW w \in Windows, Continues(w)
      PROVE  BoundInv'
  <2>1. UNCHANGED boundVars /\ (UNCHANGED isNew \/ isNew' = [isNew EXCEPT ![w] = FALSE])
    BY <1>5
       DEF Continues, TimerFires, SaveAnswered, FlushSettles, PreviewsStored, SessionEnded,
           IdleReached, Discarded, Close, Downloaded, FirstPreviewsStored, SessionStarted, NoEditor
  <2>2. QED
    BY <1>2, <1>4, <2>1
<1>6. ASSUME NEW w \in Windows, UserActs(w)
      PROVE  BoundInv'
  <2>1. CASE Draws(w)
    BY <1>1, <2>1 DEF Draws, BoundInv
  <2>2. CASE ~Draws(w)
    BY <1>2, <1>6, <2>2
       DEF UserActs, OpenEditor, MovesPointer, Done, Discard, Undoes, Redoes, editorVars
  <2>3. QED
    BY <2>1, <2>2
<1>7. ASSUME NEW w \in Windows, Fails(w)
      PROVE  BoundInv'
  <2>1. /\ failures < MaxFailures /\ failures' = failures + 1 /\ UNCHANGED <<cast, unused>>
        /\ UNCHANGED isNew \/ isNew' = [isNew EXCEPT ![w] = FALSE]
    BY <1>7 DEF Fails, Loses, Reload, NoEditor, PreviewFails, editorVars
  <2>2. failures' \in 0..MaxFailures
    BY <1>1, <2>1 DEF BoundInv
  <2>3. isNew' \in [Windows -> BOOLEAN]
    BY <1>1, <2>1 DEF BoundInv
  <2>4. QED
    BY <1>1, <2>1, <2>2, <2>3 DEF BoundInv
<1>8. ASSUME NEW w \in Windows, Arrives(w) \/ RendersNote(w) \/ Serves(w)
      PROVE  BoundInv'
  BY <1>2, <1>8 DEF Arrives, PreviewArrives, RendersNote, Serves, editorVars
<1>9. CASE Expires \/ ForgetsHistory
  BY <1>2, <1>9 DEF Expires, ForgetsHistory, editorVars
<1>10. QED
  BY <1>3, <1>5, <1>6, <1>7, <1>8, <1>9 DEF Next

\* Every step keeps the invariant.
LEMMA DiagramInvStep == DiagramInv /\ [Next]_vars => DiagramInv'
BY EditorStep, PagesStep, BoundsStep DEF DiagramInv
-----------------------------------------------------------------------------
(***************************************************************************)
(* The theorems.                                                             *)
(***************************************************************************)

\* The invariant, for any finite set of windows and any values of the bounds.
THEOREM DiagramInvariant == Spec => []DiagramInv
<1>1. Init => DiagramInv
  BY InitIsDiagramInv
<1>2. DiagramInv /\ [Next]_vars => DiagramInv'
  BY DiagramInvStep
<1>3. QED
  BY <1>1, <1>2, PTL DEF Spec

\* The variables have their types, and a controller that stopped has no timer.
THEOREM DiagramTypes == Spec => []TypeOK
<1>1. DiagramInv => TypeOK
  <2> SUFFICES ASSUME DiagramInv
               PROVE  TypeOK
    OBVIOUS
  <2>1. \A w \in Windows : autosave[w].timer => phase[w] = "drawing" /\ ~autosave[w].stopped
    BY DEF DiagramInv, EditorInv, Fits, StatusFits
  <2>2. /\ page \in [Windows -> Embeds] /\ fetching \in [Windows -> SUBSET Nat]
        /\ cache = [w \in Windows |-> cache[w]]
        /\ \A w \in Windows : cache[w] \in [DOMAIN cache[w] -> Previews]
    BY DEF DiagramInv, PageInv
  <2>3. DOMAIN cache = Windows
    BY <2>2
  <2>4. QED
    BY <2>1, <2>2, <2>3
       DEF DiagramInv, EditorInv, ServerInv, HistoryInv, BoundInv, TypeOK, Previews
<1>2. QED
  BY <1>1, DiagramInvariant, PTL

\* "All changes saved" is true of the revision the server has.
THEOREM SavedIsStored == Spec => []SavedMeansStored
<1>1. DiagramInv => SavedMeansStored
  BY DEF DiagramInv, EditorInv, Fits, SceneFits, Editing, Open, SavedMeansStored
<1>2. QED
  BY <1>1, DiagramInvariant, PTL

\* An editor that still saves has a timer or a save under way for what is not saved.
THEOREM ChangesAreRemembered == Spec => []NoChangeIsForgotten
<1>1. DiagramInv => NoChangeIsForgotten
  BY DEF DiagramInv, EditorInv, Fits, StatusFits, Waits, InFlight, NoChangeIsForgotten
<1>2. QED
  BY <1>1, DiagramInvariant, PTL

\* What lies between the snapshots of a window's undo step is the work of that window.
THEOREM StepsAreOnesOwn == Spec => []UndoStepsAreOnesOwn
<1>1. DiagramInv => UndoStepsAreOnesOwn
  <2> SUFFICES ASSUME DiagramInv, NEW w \in Windows,
                      NEW step \in {history[w][i] : i \in DOMAIN history[w]}
                                    \cup {redo[w][i] : i \in DOMAIN redo[w]}
               PROVE  step \in OwnSteps(w)
    BY DEF UndoStepsAreOnesOwn, OwnSteps, Own
  <2>1. history[w] \in Seq(OwnSteps(w)) /\ redo[w] \in Seq(OwnSteps(w))
    BY DEF DiagramInv, HistoryInv
  <2>2. QED
    BY <2>1
<1>2. QED
  BY <1>1, DiagramInvariant, PTL

\* A page shows the preview it asked for under its embed's revision.
THEOREM PagesShowWhatTheyAskedFor == Spec => []PageShowsWhatItAskedFor
<1>1. DiagramInv => PageShowsWhatItAskedFor
  BY DEF DiagramInv, PageInv, Shows, PageShowsWhatItAskedFor
<1>2. QED
  BY <1>1, DiagramInvariant, PTL

\* Saving and discarding take only strokes of one's own out of the file.
LEMMA SavingTakesOnesOwn ==
  ASSUME DiagramInv, NEW w \in Windows, ReplaceContent(w) \/ DiscardSession(w),
         NEW s \in file.content \ file'.content
  PROVE  s.by = w
<1>1. Sent(w) /\ EditorInv /\ ServerInv
  BY DEF ReplaceContent, DiscardSession, Sent, Requests, DiagramInv
<1>2. /\ Fits(w, phase[w], edit[w], autosave[w], wire[w], file, sessions)
      /\ wire[w].revision = edit[w].revision /\ wire[w].session = edit[w].session
      /\ file \in Files /\ sessions \in Seq(Sessions) /\ file.content \in Scenes
      /\ wire[w].scene \in Scenes
  BY <1>1, RequestValues DEF Files
<1>3. CASE ReplaceContent(w)
  <2>1. wire[w].kind = "save" /\ wire[w].revision = file.revision
    BY <1>3 DEF ReplaceContent
  <2>2. file'.content = wire[w].scene
    BY <1>2, <1>3, <2>1 DEF ReplaceContent, Files
  <2>3. Ahead(w, edit[w].scene, file.content) /\ Ahead(w, edit[w].scene, wire[w].scene)
    BY <1>2, <2>1 DEF Fits, SceneFits
  <2>4. QED
    BY <2>2, <2>3 DEF Ahead
<1>4. CASE DiscardSession(w)
  <2> DEFINE before == Before(wire[w].session)
  <2>1. /\ Find(wire[w].session) # {} /\ wire[w].revision = file.revision
        /\ file' = Restored(before)
    BY <1>4 DEF DiscardSession
  <2>2. PICK i \in DOMAIN sessions :
            sessions[i].id = wire[w].session /\ before = sessions[i].before
            /\ before \in Snapshots
    BY <1>2, <2>1, FoundSession
  <2>3. Own(w, before.content, file.content)
    BY <1>2, <2>1, <2>2 DEF Fits, SessionFits, Began
  <2>4. file'.content = before.content
    BY <1>2, <2>1, <2>2, RestoredFields
  <2>5. s \in Strokes
    BY <1>2 DEF Scenes
  <2>6. QED
    BY <2>3, <2>4, <2>5 DEF Own
<1>5. QED
  BY <1>3, <1>4

\* No save and no discard removes a stroke another window stored.
THEOREM OthersWorkSurvives == Spec => OthersStrokesSurvive
<1> DEFINE A == \A w \in Windows :
                    (ReplaceContent(w) \/ DiscardSession(w))
                        => \A s \in file.content \ file'.content : s.by = w
<1>1. DiagramInv /\ [Next]_vars => [A]_vars
  BY SavingTakesOnesOwn
<1>2. Spec => [][A]_vars
  BY <1>1, DiagramInvariant, PTL DEF Spec
<1>3. QED
  BY <1>2 DEF OthersStrokesSurvive

\* The previews Done stores leave out nothing of the revision they are stored for.
THEOREM PreviewsAreComplete == Spec => StoredPreviewsAreComplete
<1> DEFINE A == \A w \in Windows :
                    (StorePreviews(w) /\ file'.tag = file.revision /\ Answer(w)' = "ok")
                        => file.content \subseteq file'.preview
<1>1. ASSUME DiagramInv, NEW w \in Windows, StorePreviews(w), Answer(w)' = "ok"
      PROVE  file.content \subseteq file'.preview
  <2>1. Sent(w) /\ EditorInv /\ ServerInv
    BY <1>1 DEF StorePreviews, Sent, Requests, DiagramInv
  <2>2. Fits(w, phase[w], edit[w], autosave[w], wire[w], file, sessions) /\ file \in Files
    BY <2>1, RequestValues
  <2>3. wire[w].revision = file.revision
    <3> SUFFICES ASSUME wire[w].revision # file.revision
                 PROVE  FALSE
      OBVIOUS
    <3>1. wire' = [wire EXCEPT ![w] = Reply("conflict", file.revision)]
      BY <1>1 DEF StorePreviews, Answers
    <3>2. wire'[w] = Reply("conflict", file.revision)
      BY <2>1, <3>1 DEF EditorInv
    <3>3. QED
      BY <1>1, <3>2 DEF Answer, Reply
  <2>4. file' = [file EXCEPT !.preview = wire[w].scene, !.tag = file.revision]
    BY <1>1, <2>3 DEF StorePreviews
  <2>5. file'.preview = wire[w].scene
    BY <2>2, <2>4 DEF Files
  <2>6. file.content \subseteq wire[w].scene
    BY <1>1, <2>2, <2>3 DEF StorePreviews, Fits, SceneFits
  <2>7. QED
    BY <2>5, <2>6
<1>2. DiagramInv /\ [Next]_vars => [A]_vars
  BY <1>1
<1>3. Spec => [][A]_vars
  BY <1>2, DiagramInvariant, PTL DEF Spec
<1>4. QED
  BY <1>3 DEF StoredPreviewsAreComplete
=============================================================================
