--------------------------- MODULE DiagramEditor ---------------------------
(***************************************************************************)
(* One Excalidraw diagram, edited in several browser windows: the autosave   *)
(* controller, the editor's closing paths, the server's file, previews and   *)
(* editing sessions, the undo steps they leave, and the previews each        *)
(* window's page shows.                                                      *)
(*                                                                           *)
(* A scene is the set of its strokes.  The light and dark previews travel    *)
(* together and are one scene, what was rendered.  A window has at most one  *)
(* request of its editor under way; the server handles a request in one      *)
(* transaction.  Discarding stands for the second, confirming, click.        *)
(***************************************************************************)
EXTENDS Naturals, Sequences, FiniteSets, FiniteSetsExt

CONSTANTS
    Windows,            \* browser windows, each with its own undo history
    Casts,              \* bound: which windows edit, which pages show the note, and how many
                        \* strokes a window draws
    StrokesEach,        \* bound: strokes the user of one window draws at most
    NoPreview,          \* the diagram was never rendered
    Pending,            \* a preview that was asked for
    MaxOpenSessions,    \* MAX_OPEN_FILE_EDIT_SESSIONS (8)
    MaxFailures,        \* bound: lost requests and replies, reloads, failed previews
    MaxRevision         \* bound: opening stops at this revision, undo one and redo two after it

ASSUME DiagramEditorAssumption ==
    /\ Casts \subseteq [editors: SUBSET Windows, pages: SUBSET Windows, strokes: 0..StrokesEach]
    /\ StrokesEach \in Nat /\ MaxFailures \in Nat
    /\ MaxOpenSessions \in Nat \ {0} /\ MaxRevision \in Nat \ {0}
    /\ IsFiniteSet(Windows)

VARIABLES
    file,       \* the server's row: content, revision, preview and the preview's tag
    sessions,   \* open editing sessions, oldest first
    history, redo,      \* each client's undo steps for this diagram, newest last
    phase,      \* where each window's editor is
    isNew,      \* whether the window edits a diagram it just inserted
    edit,       \* the editor: session id, revision, scene, last fingerprint
    autosave,   \* the autosave controller: dirty, stopped, timer, status
    wire,       \* each window's request or its answer
    page,       \* the diagram's embed on each page
    cache,      \* previews by revision, per page
    fetching,   \* revisions whose preview a page has asked for
    cast, unused, failures      \* bounds

editorVars == <<phase, isNew, edit, autosave>>
serverVars == <<file, sessions, history, redo>>
pageVars == <<page, cache, fetching>>
boundVars == <<cast, unused, failures>>
vars == <<editorVars, serverVars, pageVars, wire, boundVars>>

Strokes == [by: Windows, n: 1..StrokesEach]
Scenes == SUBSET Strokes

ASSUME PreviewAssumption ==
    NoPreview # Pending /\ \A scene \in Scenes : scene # NoPreview /\ scene # Pending

Statuses == {"saved", "unsaved", "saving", "error", "conflict"}
\* "drawing" is the open editor; the phases after it are the steps of Done and of Discard.
Finishing == {"flushing", "lastSave", "previewing", "ending", "idling", "discarding"}
Opening == {"downloading", "firstPreviews", "starting"}
Phases == {"closed", "drawing"} \cup Opening \cup Finishing
Snapshot(f) == [content |-> f.content, revision |-> f.revision, preview |-> f.preview]
Snapshots == [content: Scenes, revision: Nat, preview: Scenes \cup {NoPreview}]

\* --- Requests ----------------------------------------------------------------

Quiet == [kind |-> "none"]
Reply(answer, revision) ==
    [kind |-> "reply", answer |-> answer, revision |-> revision, scene |-> {}, session |-> 0]
Requests == {"download", "save", "previews", "start", "finish", "discard"}
InFlight(w) == wire[w].kind # "none"
Sent(w) == wire[w].kind \in Requests
Answered(w) == wire[w].kind = "reply"
Answer(w) == wire[w].answer

\* FilesAPI: what a request carries is fixed when it is sent.
Send(w, kind, scene, e) ==
    wire' = [wire EXCEPT ![w] = [kind |-> kind, scene |-> scene,
                                 revision |-> e.revision, session |-> e.session]]

NoEdit == [session |-> 0, revision |-> 0, scene |-> {}, seen |-> {}]
NoPage == [revision |-> 0, state |-> "absent", scene |-> NoPreview]
Idle == [dirty |-> FALSE, stopped |-> FALSE, timer |-> FALSE, status |-> "saved"]

\* --- The autosave controller ---------------------------------------------------

\* noteChange: a stopped controller ignores it; a save under way keeps the status.
NoteChange(a, w) ==
    IF a.stopped THEN a
    ELSE [a EXCEPT !.dirty = TRUE, !.timer = TRUE,
                   !.status = IF InFlight(w) THEN a.status ELSE "unsaved"]

\* Mutated StopSaving: the timer goes on.
MutStopSaving(a) == [a EXCEPT !.stopped = TRUE]

StopSaving(a) == [a EXCEPT !.stopped = TRUE, !.timer = FALSE]

\* runSave's beginning: clean before the scene is read, so a later change dirties it again.
SaveStarts(a) == [a EXCEPT !.dirty = FALSE, !.timer = FALSE, !.status = "saving"]

\* Mutated SaveSettles: what was drawn during the save is overlooked.
MutOverlookDirty(a, answer) ==
    CASE answer = "ok" -> [a EXCEPT !.status = "saved"]
      [] answer = "conflict" -> [StopSaving(a) EXCEPT !.dirty = TRUE, !.status = "conflict"]
      [] OTHER -> [a EXCEPT !.dirty = TRUE, !.status = "error", !.timer = ~a.stopped]

\* Mutated SaveSettles: a failed save is not tried again.
MutNoRetry(a, answer) ==
    CASE answer = "ok" /\ a.dirty -> [a EXCEPT !.status = "unsaved", !.timer = ~a.stopped]
      [] answer = "ok" /\ ~a.dirty -> [a EXCEPT !.status = "saved"]
      [] answer = "conflict" -> [StopSaving(a) EXCEPT !.dirty = TRUE, !.status = "conflict"]
      [] OTHER -> [a EXCEPT !.dirty = TRUE, !.status = "error"]

\* The controller once the save's result is known.
SaveSettles(a, answer) ==
    CASE answer = "ok" /\ a.dirty -> [a EXCEPT !.status = "unsaved", !.timer = ~a.stopped]
      [] answer = "ok" /\ ~a.dirty -> [a EXCEPT !.status = "saved"]
      [] answer = "conflict" -> [StopSaving(a) EXCEPT !.dirty = TRUE, !.status = "conflict"]
      [] OTHER -> [a EXCEPT !.dirty = TRUE, !.status = "error", !.timer = ~a.stopped]

\* writeSceneText: the editor's revision follows its own accepted saves.
RevisionAfterSave(w) == IF Answer(w) = "ok" THEN wire[w].revision ELSE edit[w].revision

\* --- The page's previews --------------------------------------------------------

\* hydrateExcalidrawPreviews and fetchPreview for an embed now at revision r, with cache c.
Hydrate(w, c, r) ==
    LET known == r \in DOMAIN c
        ready == known /\ c[r] # Pending
    IN  /\ cache' = [cache EXCEPT ![w] = [k \in DOMAIN c \cup {r} |->
                                             IF k \in DOMAIN c THEN c[k] ELSE Pending]]
        /\ fetching' = [fetching EXCEPT ![w] = IF known THEN @ ELSE @ \cup {r}]
        /\ page' = [page EXCEPT ![w] = [revision |-> r,
                                        state |-> IF ready THEN "loaded" ELSE "loading",
                                        scene |-> IF ready THEN c[r] ELSE NoPreview]]

\* refreshExcalidrawEmbeds: previews of other revisions go; embeds on the page are reloaded.
RefreshEmbeds(w, r) ==
    LET kept == [k \in DOMAIN cache[w] \cap {r} |-> cache[w][k]]
    IN  IF page[w].revision = 0
        THEN cache' = [cache EXCEPT ![w] = kept] /\ UNCHANGED <<page, fetching>>
        ELSE Hydrate(w, kept, r)

\* A view response renders the note again when its hash, and so the revision, changed; a
\* failed embed tries again.
RendersNote(w) ==
    /\ w \in cast.pages
    /\ page[w].revision # file.revision \/ page[w].state = "failed"
    /\ Hydrate(w, cache[w], file.revision)
    /\ UNCHANGED <<editorVars, serverVars, wire, boundVars>>

\* Mutated PreviewArrives: the embed takes whatever answer comes.
MutPreviewArrives(w, r) ==
    /\ r \in fetching[w]
    /\ fetching' = [fetching EXCEPT ![w] = @ \ {r}]
    /\ IF r \in DOMAIN cache[w]
       THEN /\ cache' = [cache EXCEPT ![w][r] = file.preview]
            /\ page' = IF page[w].state = "loading"
                       THEN [page EXCEPT ![w].state = "loaded", ![w].scene = file.preview]
                       ELSE page
       ELSE UNCHANGED <<cache, page>>
    /\ UNCHANGED <<editorVars, serverVars, wire, boundVars>>

\* The answer counts only while its promise is still the cached one and the embed waits for it.
PreviewArrives(w, r) ==
    /\ r \in fetching[w]
    /\ fetching' = [fetching EXCEPT ![w] = @ \ {r}]
    /\ IF r \in DOMAIN cache[w]
       THEN /\ cache' = [cache EXCEPT ![w][r] = file.preview]
            /\ page' = IF page[w].revision = r /\ page[w].state = "loading"
                       THEN [page EXCEPT ![w].state = "loaded", ![w].scene = file.preview]
                       ELSE page
       ELSE UNCHANGED <<cache, page>>
    /\ UNCHANGED <<editorVars, serverVars, wire, boundVars>>

PreviewFails(w, r) ==
    /\ failures < MaxFailures
    /\ failures' = failures + 1
    /\ r \in fetching[w]
    /\ fetching' = [fetching EXCEPT ![w] = @ \ {r}]
    /\ cache' = [cache EXCEPT ![w] = [k \in DOMAIN @ \ {r} |-> @[k]]]
    /\ page' = IF page[w].revision = r /\ page[w].state = "loading"
               THEN [page EXCEPT ![w].state = "failed"]
               ELSE page
    /\ UNCHANGED <<editorVars, serverVars, wire, cast, unused>>

\* --- Opening ------------------------------------------------------------------------

OpenEditor(w) ==
    /\ w \in cast.editors /\ phase[w] = "closed" /\ ~InFlight(w)
    /\ file.revision < MaxRevision
    /\ phase' = [phase EXCEPT ![w] = "downloading"]
    /\ Send(w, "download", {}, edit[w])
    /\ UNCHANGED <<isNew, edit, autosave, serverVars, pageVars, boundVars>>

\* An opening that fails leaves no editor; a session the server started stays there.
NoEditor(w) ==
    /\ phase' = [phase EXCEPT ![w] = "closed"]
    /\ isNew' = [isNew EXCEPT ![w] = FALSE]
    /\ edit' = [edit EXCEPT ![w] = NoEdit]
    /\ autosave' = [autosave EXCEPT ![w] = Idle]
    /\ wire' = [wire EXCEPT ![w] = Quiet]

\* A new diagram gets previews of its empty drawing before its session starts.
Downloaded(w) ==
    /\ phase[w] = "downloading" /\ Answered(w)
    /\ \/ /\ Answer(w) = "ok"
          /\ LET e == [NoEdit EXCEPT !.revision = wire[w].revision, !.scene = wire[w].scene,
                                     !.seen = wire[w].scene]
             IN  /\ edit' = [edit EXCEPT ![w] = e]
                 /\ IF isNew[w]
                    THEN /\ phase' = [phase EXCEPT ![w] = "firstPreviews"]
                         /\ Send(w, "previews", e.scene, e)
                    ELSE /\ phase' = [phase EXCEPT ![w] = "starting"]
                         /\ Send(w, "start", {}, e)
          /\ UNCHANGED <<isNew, autosave>>
       \/ Answer(w) # "ok" /\ NoEditor(w)
    /\ UNCHANGED <<serverVars, pageVars, boundVars>>

FirstPreviewsStored(w) ==
    /\ phase[w] = "firstPreviews" /\ Answered(w)
    /\ \/ /\ Answer(w) = "ok"
          /\ phase' = [phase EXCEPT ![w] = "starting"]
          /\ Send(w, "start", {}, edit[w])
          /\ UNCHANGED <<isNew, edit, autosave>>
       \/ Answer(w) # "ok" /\ NoEditor(w)
    /\ UNCHANGED <<serverVars, pageVars, boundVars>>

\* The editor opens only on the revision it downloaded.
SessionStarted(w) ==
    /\ phase[w] = "starting" /\ Answered(w)
    /\ \/ /\ Answer(w) = "ok" /\ wire[w].revision = edit[w].revision
          /\ phase' = [phase EXCEPT ![w] = "drawing"]
          /\ edit' = [edit EXCEPT ![w].session = wire[w].session]
          /\ autosave' = [autosave EXCEPT ![w] = Idle]
          /\ wire' = [wire EXCEPT ![w] = Quiet]
          /\ UNCHANGED isNew
       \/ /\ Answer(w) # "ok" \/ wire[w].revision # edit[w].revision
          /\ NoEditor(w)
    /\ UNCHANGED <<serverVars, pageVars, boundVars>>

\* --- Drawing and autosave -------------------------------------------------------

Open(w) == phase[w] \in {"drawing"} \cup Finishing

\* handleSceneChange: what is drawn while Done or Discard runs is not an edit yet.
SceneReported(w, scene) ==
    IF phase[w] = "drawing"
    THEN /\ edit' = [edit EXCEPT ![w].scene = scene, ![w].seen = scene]
         /\ autosave' = [autosave EXCEPT ![w] = NoteChange(@, w)]
    ELSE /\ edit' = [edit EXCEPT ![w].scene = scene]
         /\ UNCHANGED autosave

Draws(w) ==
    /\ Open(w)
    /\ \E s \in unused :
          /\ s.by = w
          /\ unused' = unused \ {s}
          /\ SceneReported(w, edit[w].scene \cup {s})
    /\ UNCHANGED <<phase, isNew, serverVars, pageVars, wire, cast, failures>>

\* Excalidraw reports on every pointer move; only another fingerprint is a change.
MovesPointer(w) ==
    /\ phase[w] = "drawing" /\ edit[w].scene # edit[w].seen
    /\ SceneReported(w, edit[w].scene)
    /\ UNCHANGED <<phase, isNew, serverVars, pageVars, wire, boundVars>>

Save(w, a) ==
    /\ autosave' = [autosave EXCEPT ![w] = SaveStarts(a)]
    /\ Send(w, "save", edit[w].scene, edit[w])

\* The timer's runSave waits for a save under way, which reschedules it when needed.
TimerFires(w) ==
    /\ phase[w] = "drawing" /\ autosave[w].timer
    /\ LET a == [autosave[w] EXCEPT !.timer = FALSE]
       IN  IF ~InFlight(w) /\ a.dirty
           THEN Save(w, a)
           ELSE autosave' = [autosave EXCEPT ![w] = a] /\ UNCHANGED wire
    /\ UNCHANGED <<phase, isNew, edit, serverVars, pageVars, boundVars>>

SaveAnswered(w) ==
    /\ phase[w] = "drawing" /\ Answered(w)
    /\ autosave' = [autosave EXCEPT ![w] = SaveSettles(@, Answer(w))]
    /\ edit' = [edit EXCEPT ![w].revision = RevisionAfterSave(w)]
    /\ wire' = [wire EXCEPT ![w] = Quiet]
    /\ UNCHANGED <<phase, isNew, serverVars, pageVars, boundVars>>

\* --- Done -------------------------------------------------------------------------

\* finish() once flush() resolved with status a.status: previews, the session's end, or back.
Flushed(w, a, e) ==
    /\ edit' = [edit EXCEPT ![w] = e]
    /\ autosave' = [autosave EXCEPT ![w] = a]
    /\ \/ /\ a.status = "saved"
          /\ phase' = [phase EXCEPT ![w] = "previewing"]
          /\ Send(w, "previews", e.scene, e)
       \/ /\ a.status = "conflict"
          /\ phase' = [phase EXCEPT ![w] = "ending"]
          /\ Send(w, "finish", {}, e)
       \/ /\ a.status \notin {"saved", "conflict"}
          /\ phase' = [phase EXCEPT ![w] = "drawing"]
          /\ wire' = [wire EXCEPT ![w] = Quiet]

\* flush(): a dirty scene is saved at once, unless saving stopped.
FlushDirty(w, a, e) ==
    /\ phase' = [phase EXCEPT ![w] = "lastSave"]
    /\ autosave' = [autosave EXCEPT ![w] = SaveStarts(a)]
    /\ edit' = [edit EXCEPT ![w] = e]
    /\ Send(w, "save", e.scene, e)

Done(w) ==
    /\ phase[w] = "drawing"
    /\ LET a == [autosave[w] EXCEPT !.timer = FALSE]
       IN  IF InFlight(w)
           THEN /\ phase' = [phase EXCEPT ![w] = "flushing"]
                /\ autosave' = [autosave EXCEPT ![w] = a]
                /\ UNCHANGED <<edit, wire>>
           ELSE IF a.dirty /\ ~a.stopped
                THEN FlushDirty(w, a, edit[w])
                ELSE Flushed(w, a, edit[w])
    /\ UNCHANGED <<isNew, serverVars, pageVars, boundVars>>

\* A save that was under way when Done was pressed is followed by one of what was drawn during
\* it or could not be saved; the save flush() itself sent is the last.
FlushSettles(w) ==
    /\ phase[w] \in {"flushing", "lastSave"} /\ Answered(w)
    /\ LET a == SaveSettles(autosave[w], Answer(w))
           e == [edit[w] EXCEPT !.revision = RevisionAfterSave(w)]
       IN  IF phase[w] = "flushing" /\ a.dirty /\ ~a.stopped
           THEN FlushDirty(w, a, e)
           ELSE Flushed(w, a, e)
    /\ UNCHANGED <<isNew, serverVars, pageVars, boundVars>>

\* Without its previews the editor stays open, unless another window saved in the meantime.
PreviewsStored(w) ==
    /\ phase[w] = "previewing" /\ Answered(w)
    /\ \/ /\ Answer(w) \in {"ok", "conflict"}
          /\ phase' = [phase EXCEPT ![w] = "ending"]
          /\ Send(w, "finish", {}, edit[w])
       \/ /\ Answer(w) \notin {"ok", "conflict"}
          /\ phase' = [phase EXCEPT ![w] = "drawing"]
          /\ wire' = [wire EXCEPT ![w] = Quiet]
    /\ UNCHANGED <<isNew, edit, autosave, serverVars, pageVars, boundVars>>

\* close() with the revision adopted last.
Close(w, revision) ==
    /\ phase' = [phase EXCEPT ![w] = "closed"]
    /\ isNew' = [isNew EXCEPT ![w] = FALSE]
    /\ edit' = [edit EXCEPT ![w] = NoEdit]
    /\ autosave' = [autosave EXCEPT ![w] = Idle]
    /\ wire' = [wire EXCEPT ![w] = Quiet]
    /\ RefreshEmbeds(w, revision)

\* endSession's failure only costs the undo step.
SessionEnded(w) ==
    /\ phase[w] = "ending" /\ Answered(w)
    /\ Close(w, IF Answer(w) = "ok" THEN wire[w].revision ELSE edit[w].revision)
    /\ UNCHANGED <<serverVars, boundVars>>

\* --- Discard ------------------------------------------------------------------------

Discard(w) ==
    /\ phase[w] = "drawing"
    /\ autosave' = [autosave EXCEPT ![w] = StopSaving(@)]
    /\ \/ /\ InFlight(w)
          /\ phase' = [phase EXCEPT ![w] = "idling"]
          /\ UNCHANGED wire
       \/ /\ ~InFlight(w)
          /\ phase' = [phase EXCEPT ![w] = "discarding"]
          /\ Send(w, "discard", {}, edit[w])
    /\ UNCHANGED <<isNew, edit, serverVars, pageVars, boundVars>>

\* Mutated IdleReached: Discard goes on only after a save that succeeded.
MutIdleReached(w) ==
    /\ phase[w] = "idling" /\ Answered(w) /\ Answer(w) = "ok"
    /\ LET e == [edit[w] EXCEPT !.revision = RevisionAfterSave(w)]
       IN  edit' = [edit EXCEPT ![w] = e] /\ Send(w, "discard", {}, e)
    /\ autosave' = [autosave EXCEPT ![w] = SaveSettles(@, Answer(w))]
    /\ phase' = [phase EXCEPT ![w] = "discarding"]
    /\ UNCHANGED <<isNew, serverVars, pageVars, boundVars>>

IdleReached(w) ==
    /\ phase[w] = "idling" /\ Answered(w)
    /\ LET e == [edit[w] EXCEPT !.revision = RevisionAfterSave(w)]
       IN  edit' = [edit EXCEPT ![w] = e] /\ Send(w, "discard", {}, e)
    /\ autosave' = [autosave EXCEPT ![w] = SaveSettles(@, Answer(w))]
    /\ phase' = [phase EXCEPT ![w] = "discarding"]
    /\ UNCHANGED <<isNew, serverVars, pageVars, boundVars>>

Discarded(w) ==
    /\ phase[w] = "discarding" /\ Answered(w)
    /\ Close(w, IF Answer(w) \in {"ok", "conflict"} THEN wire[w].revision ELSE edit[w].revision)
    /\ UNCHANGED <<serverVars, boundVars>>

\* The window is reloaded or closed: the editor goes, with whatever its request would answer.
Reload(w) ==
    /\ failures < MaxFailures
    /\ failures' = failures + 1
    /\ phase[w] # "closed"
    /\ NoEditor(w)
    /\ page' = [page EXCEPT ![w] = NoPage]
    /\ cache' = [cache EXCEPT ![w] = <<>>]
    /\ fetching' = [fetching EXCEPT ![w] = {}]
    /\ UNCHANGED <<serverVars, cast, unused>>

\* --- The server ---------------------------------------------------------------------

Find(id) == {i \in DOMAIN sessions : sessions[i].id = id}
Before(id) == sessions[CHOOSE i \in Find(id) : TRUE].before
Without(id) ==
    LET i == CHOOSE i \in Find(id) : TRUE
    IN  SubSeq(sessions, 1, i - 1) \o SubSeq(sessions, i + 1, Len(sessions))

\* uuid4: the least number no session, editor or message has.
UsedIds ==
    {sessions[i].id : i \in DOMAIN sessions} \cup {edit[v].session : v \in Windows}
        \cup {wire[v].session : v \in {u \in Windows : InFlight(u)}}
FreshId == Min((1..(Cardinality(UsedIds) + 1)) \ UsedIds)

Answers(w, reply) == wire' = [wire EXCEPT ![w] = reply]

\* Mutated ReplaceContent: the expected revision is not compared.
MutReplaceContent(w) ==
    /\ wire[w].kind = "save"
    /\ file' = [file EXCEPT !.content = wire[w].scene, !.revision = @ + 1]
    /\ Answers(w, Reply("ok", file.revision + 1))
    /\ UNCHANGED <<sessions, history, redo>>

\* replace_file_content: refused unless it names the current revision.
ReplaceContent(w) ==
    /\ wire[w].kind = "save"
    /\ IF wire[w].revision = file.revision
       THEN /\ file' = [file EXCEPT !.content = wire[w].scene, !.revision = @ + 1]
            /\ Answers(w, Reply("ok", file.revision + 1))
       ELSE Answers(w, Reply("conflict", file.revision)) /\ UNCHANGED file
    /\ UNCHANGED <<sessions, history, redo>>

\* Mutated StorePreviews: the rendered revision is not compared.
MutStorePreviews(w) ==
    /\ wire[w].kind = "previews"
    /\ file' = [file EXCEPT !.preview = wire[w].scene, !.tag = file.revision]
    /\ Answers(w, Reply("ok", file.revision))
    /\ UNCHANGED <<sessions, history, redo>>

StorePreviews(w) ==
    /\ wire[w].kind = "previews"
    /\ IF wire[w].revision = file.revision
       THEN /\ file' = [file EXCEPT !.preview = wire[w].scene, !.tag = file.revision]
            /\ Answers(w, Reply("ok", file.revision))
       ELSE Answers(w, Reply("conflict", file.revision)) /\ UNCHANGED file
    /\ UNCHANGED <<sessions, history, redo>>

DownloadFile(w) ==
    /\ wire[w].kind = "download"
    /\ Answers(w, [Reply("ok", file.revision) EXCEPT !.scene = file.content])
    /\ UNCHANGED serverVars

\* start_file_edit_session: the oldest sessions make room.
StartSession(w) ==
    /\ wire[w].kind = "start"
    /\ LET opened == Append(sessions, [id |-> FreshId, before |-> Snapshot(file)])
       IN  sessions' = IF Len(opened) > MaxOpenSessions THEN Tail(opened) ELSE opened
    /\ Answers(w, [Reply("ok", file.revision) EXCEPT !.session = FreshId])
    /\ UNCHANGED <<file, history, redo>>

\* Mutated FinishSession: the step is recorded also when another window saved last.
MutFinishSession(w) ==
    /\ wire[w].kind = "finish"
    /\ IF Find(wire[w].session) = {}
       THEN Answers(w, Reply("gone", file.revision)) /\ UNCHANGED <<sessions, history, redo>>
       ELSE LET before == Before(wire[w].session)
            IN  /\ Answers(w, Reply("ok", file.revision))
                /\ sessions' = Without(wire[w].session)
                /\ IF file.content # before.content /\ ~isNew[w]
                   THEN /\ history' = [history EXCEPT ![w] =
                                Append(@, [before |-> before, after |-> Snapshot(file)])]
                        /\ redo' = [redo EXCEPT ![w] = <<>>]
                   ELSE UNCHANGED <<history, redo>>
    /\ UNCHANGED file

\* CmdFinishFileEditSession: one undo step, when this editor saved last and changed something.
FinishSession(w) ==
    /\ wire[w].kind = "finish"
    /\ IF Find(wire[w].session) = {}
       THEN Answers(w, Reply("gone", file.revision)) /\ UNCHANGED <<sessions, history, redo>>
       ELSE LET before == Before(wire[w].session)
                recorded == /\ file.revision = wire[w].revision
                            /\ file.content # before.content
                            /\ ~isNew[w]
            IN  /\ Answers(w, Reply("ok", file.revision))
                /\ sessions' = Without(wire[w].session)
                /\ IF recorded
                   THEN /\ history' = [history EXCEPT ![w] =
                                Append(@, [before |-> before, after |-> Snapshot(file)])]
                        /\ redo' = [redo EXCEPT ![w] = <<>>]
                   ELSE UNCHANGED <<history, redo>>
    /\ UNCHANGED file

\* restore_file_snapshot: the snapshot becomes the next revision, its previews with it.
Restored(s) ==
    [content |-> s.content, revision |-> file.revision + 1, preview |-> s.preview,
     tag |-> IF s.preview = NoPreview THEN 0 ELSE file.revision + 1]

\* CmdDiscardFileEditSession
DiscardSession(w) ==
    /\ wire[w].kind = "discard"
    /\ IF Find(wire[w].session) = {}
       THEN Answers(w, Reply("gone", file.revision)) /\ UNCHANGED <<file, sessions>>
       ELSE /\ sessions' = Without(wire[w].session)
            /\ IF wire[w].revision # file.revision
               THEN Answers(w, Reply("conflict", file.revision)) /\ UNCHANGED file
               ELSE LET before == Before(wire[w].session)
                        f == IF file.revision # before.revision THEN Restored(before) ELSE file
                    IN  file' = f /\ Answers(w, Reply("ok", f.revision))
    /\ UNCHANGED <<history, redo>>

Serves(w) ==
    /\ Sent(w)
    /\ \/ ReplaceContent(w) \/ StorePreviews(w) \/ DownloadFile(w)
       \/ StartSession(w) \/ FinishSession(w) \/ DiscardSession(w)
    /\ UNCHANGED <<editorVars, pageVars, boundVars>>

\* A request that never arrives, or an answer that never comes back.
Loses(w) ==
    /\ failures < MaxFailures
    /\ failures' = failures + 1
    /\ InFlight(w)
    /\ Answered(w) => Answer(w) # "lost"
    /\ Answers(w, Reply("lost", 1))
    /\ UNCHANGED <<editorVars, serverVars, pageVars, cast, unused>>

\* Undo and redo of a diagram step, in the main view: the snapshot is written back whatever
\* happened to the file since.
Undoes(w) ==
    /\ phase[w] = "closed" /\ history[w] # <<>> /\ file.revision <= MaxRevision
    /\ LET step == history[w][Len(history[w])]
       IN  /\ file' = Restored(step.before)
           /\ redo' = [redo EXCEPT ![w] = Append(@, step)]
    /\ history' = [history EXCEPT ![w] = SubSeq(@, 1, Len(@) - 1)]
    /\ UNCHANGED <<editorVars, sessions, pageVars, wire, boundVars>>

Redoes(w) ==
    /\ phase[w] = "closed" /\ redo[w] # <<>> /\ file.revision <= MaxRevision + 1
    /\ LET step == redo[w][Len(redo[w])]
       IN  /\ file' = Restored(step.after)
           /\ history' = [history EXCEPT ![w] = Append(@, step)]
    /\ redo' = [redo EXCEPT ![w] = SubSeq(@, 1, Len(@) - 1)]
    /\ UNCHANGED <<editorVars, sessions, pageVars, wire, boundVars>>

\* _prune_expired_sessions: a session left open for hours goes.
Expires ==
    /\ sessions # <<>>
    /\ sessions' = Tail(sessions)
    /\ UNCHANGED <<file, history, redo, editorVars, pageVars, wire, boundVars>>

\* reset_all_undo_state, which a bulk operation does while editors are open.
ForgetsHistory ==
    /\ sessions # <<>> \/ \E w \in Windows : history[w] # <<>> \/ redo[w] # <<>>
    /\ sessions' = <<>>
    /\ history' = [w \in Windows |-> <<>>]
    /\ redo' = [w \in Windows |-> <<>>]
    /\ UNCHANGED <<file, editorVars, pageVars, wire, boundVars>>

\* --- The specification ----------------------------------------------------------------

\* An existing diagram that was rendered, or one a window has just attached to a note.
Init ==
    /\ cast \in Casts
    /\ \/ /\ file = [content |-> {}, revision |-> 1, preview |-> {}, tag |-> 1]
          /\ isNew = [w \in Windows |-> FALSE]
       \/ /\ file = [content |-> {}, revision |-> 1, preview |-> NoPreview, tag |-> 0]
          /\ \E creator \in cast.editors : isNew = [w \in Windows |-> w = creator]
    /\ phase = [w \in Windows |-> IF isNew[w] THEN "downloading" ELSE "closed"]
    /\ wire = [w \in Windows |-> IF isNew[w]
                                 THEN [kind |-> "download", scene |-> {}, revision |-> 0, session |-> 0]
                                 ELSE Quiet]
    /\ sessions = <<>>
    /\ history = [w \in Windows |-> <<>>]
    /\ redo = [w \in Windows |-> <<>>]
    /\ edit = [w \in Windows |-> NoEdit]
    /\ autosave = [w \in Windows |-> Idle]
    /\ page = [w \in Windows |-> NoPage]
    /\ cache = [w \in Windows |-> <<>>]
    /\ fetching = [w \in Windows |-> {}]
    /\ unused = {s \in Strokes : s.n <= cast.strokes}
    /\ failures = 0

\* What goes on without the user: the timer, the server and what awaits its answers.
Continues(w) ==
    \/ TimerFires(w) \/ SaveAnswered(w) \/ FlushSettles(w) \/ PreviewsStored(w)
    \/ SessionEnded(w) \/ IdleReached(w) \/ Discarded(w)
    \/ Downloaded(w) \/ FirstPreviewsStored(w) \/ SessionStarted(w)

UserActs(w) ==
    \/ OpenEditor(w) \/ Draws(w) \/ MovesPointer(w) \/ Done(w) \/ Discard(w)
    \/ Undoes(w) \/ Redoes(w)

Arrives(w) == \E r \in fetching[w] : PreviewArrives(w, r)
Fails(w) == Loses(w) \/ Reload(w) \/ \E r \in fetching[w] : PreviewFails(w, r)

Next ==
    \/ \E w \in Windows : Continues(w) \/ UserActs(w) \/ Serves(w) \/ Arrives(w) \/ Fails(w)
    \/ \E w \in Windows : RendersNote(w)
    \/ Expires \/ ForgetsHistory

Spec == Init /\ [][Next]_vars

FairSpec ==
    /\ Spec
    /\ \A w \in Windows : WF_vars(Continues(w) \/ Serves(w))

\* --- Properties -------------------------------------------------------------------------

Files == [content: Scenes, revision: Nat \ {0}, preview: Scenes \cup {NoPreview}, tag: Nat]
Sessions == [id: Nat \ {0}, before: Snapshots]
Steps == [before: Snapshots, after: Snapshots]
Edits == [session: Nat, revision: Nat, scene: Scenes, seen: Scenes]
Controllers == [dirty: BOOLEAN, stopped: BOOLEAN, timer: BOOLEAN, status: Statuses]
Messages ==
    {Quiet}
    \cup [kind: Requests, scene: Scenes, revision: Nat, session: Nat]
    \cup [kind: {"reply"}, answer: {"ok", "conflict", "gone", "lost"}, scene: Scenes,
          revision: Nat, session: Nat]
Embeds ==
    [revision: Nat, state: {"absent", "loading", "loaded", "failed"},
     scene: Scenes \cup {NoPreview}]

\* Types: the variables stay in the sets their names say; a controller that stopped has no
\* timer, and only an open editor has a timer at all.
TypeOK ==
    /\ file \in Files
    /\ sessions \in Seq(Sessions) /\ Len(sessions) <= MaxOpenSessions
    /\ history \in [Windows -> Seq(Steps)] /\ redo \in [Windows -> Seq(Steps)]
    /\ phase \in [Windows -> Phases] /\ isNew \in [Windows -> BOOLEAN]
    /\ edit \in [Windows -> Edits] /\ autosave \in [Windows -> Controllers]
    /\ wire \in [Windows -> Messages]
    /\ \A w \in Windows : autosave[w].timer => phase[w] = "drawing" /\ ~autosave[w].stopped
    /\ page \in [Windows -> Embeds] /\ fetching \in [Windows -> SUBSET Nat]
    /\ DOMAIN cache = Windows
    /\ \A w \in Windows :
          cache[w] \in [DOMAIN cache[w] -> Scenes \cup {NoPreview, Pending}]
    /\ cast \in Casts /\ unused \subseteq Strokes /\ failures \in 0..MaxFailures

\* "All changes saved" is true: while it stands in an open editor whose revision the server
\* still has, the server's content has every stroke the editor took note of.
\* (excalidraw-autosave.js runSave, file_storage.py replace_file_content)
SavedMeansStored ==
    \A w \in Windows :
        (Open(w) /\ autosave[w].status = "saved" /\ edit[w].revision = file.revision)
            => edit[w].seen \subseteq file.content

\* An unsaved change is never forgotten: an editor that still saves has a timer or a save
\* under way for it.  (excalidraw-autosave.js scheduleSave after a failure, after a save during
\* which more was drawn, and after a Done that could not save)
NoChangeIsForgotten ==
    \A w \in Windows :
        (phase[w] = "drawing" /\ ~autosave[w].stopped /\ autosave[w].status # "saved")
            => autosave[w].timer \/ InFlight(w)

\* A diagram's undo step is the work of the window that owns it: what lies between its two
\* snapshots are strokes of that window alone.  (CmdFinishFileEditSession.execute)
UndoStepsAreOnesOwn ==
    \A w \in Windows :
        \A step \in {history[w][i] : i \in DOMAIN history[w]} \cup {redo[w][i] : i \in DOMAIN redo[w]} :
            /\ step.before.content # step.after.content
            /\ \A s \in Strokes :
                  (s \in step.before.content) # (s \in step.after.content) => s.by = w

\* No save and no discard of one window removes a stroke another window stored: only undo and
\* redo write over the work of others.  (file_storage.py replace_file_content,
\* CmdDiscardFileEditSession.execute)
OthersStrokesSurvive ==
    [][\A w \in Windows :
          (ReplaceContent(w) \/ DiscardSession(w))
              => \A s \in file.content \ file'.content : s.by = w]_vars

\* The previews Done stores leave out no stroke the diagram has at their revision.
\* (excalidraw-editor-service.js storePreviews, file_storage.py store_file_previews)
StoredPreviewsAreComplete ==
    [][\A w \in Windows :
          (StorePreviews(w) /\ file'.tag = file.revision /\ Answer(w)' = "ok")
              => file.content \subseteq file'.preview]_vars

\* A page shows a preview only as the one it asked for under the embed's present revision: a
\* late answer for a superseded revision never replaces it.  (excalidraw-preview-service.js)
PageShowsWhatItAskedFor ==
    \A w \in Windows :
        page[w].state = "loaded" =>
            page[w].revision \in DOMAIN cache[w] /\ cache[w][page[w].revision] = page[w].scene

\* An editor comes to rest: whatever was drawn gets saved, or another window's save ends the
\* saving; Done, Discard and an opening come to an end.  (runSave, flush, finish, discard)
AtRest(w) ==
    \/ phase[w] = "closed"
    \/ phase[w] = "drawing" /\ (autosave[w].stopped \/ ~autosave[w].dirty)
EditorComesToRest == \A w \in Windows : ~AtRest(w) ~> AtRest(w)
=============================================================================
