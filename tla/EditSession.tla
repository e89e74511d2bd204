---------------------------- MODULE EditSession ----------------------------
(***************************************************************************)
(* Editing notes in one browser window: the command gate, the edit state of  *)
(* ModeContext, the commands of mode-manager/actions, the view requests they *)
(* share with infinite scroll and with the link-title refresh, and the       *)
(* server's store and warm view as far as these depend on them.              *)
(*                                                                           *)
(* JavaScript runs to completion: a command is the list `todo' of its        *)
(* remaining steps, a step in Awaits waits for the server or for another     *)
(* request, and anything else happens only while the command waits.          *)
(*                                                                           *)
(* A text is a number, "stored" as the user wrote it or "rendered" for view  *)
(* mode.  The server never takes a note lock (sync.py acquire_note_lock has  *)
(* no caller), so no response counts as "editing by the current client".     *)
(***************************************************************************)
EXTENDS Naturals, Sequences, FiniteSets

CONSTANTS
    Notes,          \* identifiers of notes
    NoNote,         \* no note
    FirstNotes,     \* the notes that exist at the start
    Sessions,       \* bound: the background work that runs, the commands the user gives, and
                    \* how many requests and connectivity checks fail
    MaxTexts        \* bound: texts the user types

ASSUME EditSessionAssumption ==
    /\ NoNote \notin Notes
    /\ FirstNotes \subseteq Notes
    /\ \A s \in Sessions : s.background \subseteq {"scroll", "checks", "titles"} /\ s.failures \in Nat
    /\ MaxTexts \in Nat

VARIABLES
    editing, current, content, dirty, hasEdits, connected,  \* ModeContext
    page, editable,          \* each note's element, and the one that is editable
    running, target, todo,   \* the command gate, and the command that holds it
    confirming,              \* the note whose deletion a dialog asks the user to confirm
    sending, got,            \* the HTML a save sends; the result of a refresh
    views, waiting,          \* view requests in flight; who waits for them, and for which note
    pendingFetch, titleTimer, checking,   \* background work
    server, warm,            \* stored texts; the view the server believes is on the page
    session, made, texts, failures, owed  \* bounds and history

modeVars == <<editing, current, content, dirty, hasEdits>>
domVars == <<page, editable>>
gateVars == <<running, target, confirming>>
commandVars == <<gateVars, todo, sending, got>>
viewVars == <<views, waiting>>
loopVars == <<pendingFetch, titleTimer, checking>>
serverVars == <<server, warm>>
historyVars == <<session, made, texts, failures, owed>>
otherVars == <<viewVars, loopVars, serverVars, historyVars>>
vars == <<modeVars, connected, domVars, commandVars, otherVars>>

\* --- Texts -----------------------------------------------------------------

NoText == [text |-> 0, as |-> "none"]
NothingSent == [note |-> NoNote, text |-> NoText]
Texts == [text: 0..MaxTexts, as: {"stored", "rendered"}]
Stored(v) == [text |-> v, as |-> "stored"]
Rendering(t) == [t EXCEPT !.as = "rendered"]

\* --- Steps -----------------------------------------------------------------

Awaits == {"saving", "autosaving", "splitting", "calling", "creating", "deleting", "undoing",
           "viewing", "waiting"}
Effects == {"save", "idleSave", "split", "saved", "maybeCall", "discard", "drop", "forget",
            "decide", "confirm", "leave", "exit", "enter", "swap", "choose", "refresh", "refreshNow",
            "adopt", "adoptAny", "adoptSome"}

Requesters == {"command", "scroll", "links"}

\* What the server knows of a note it showed: the parts of its hash.
Shown == [text: Texts, edit: BOOLEAN]
NotShown == [text |-> NoText, edit |-> FALSE]

Requests ==
    [by: Requesters, note: Notes \cup {NoNote}, built: BOOLEAN,
     view: [Notes -> Shown \cup {NotShown}], payload: SUBSET Notes]

TypeOK ==
    /\ editing \in BOOLEAN /\ current \in Notes \cup {NoNote} /\ (editing <=> current # NoNote)
    /\ content \in Texts \cup {NoText}
    /\ dirty \in BOOLEAN /\ hasEdits \in BOOLEAN /\ connected \in BOOLEAN
    /\ page \in [Notes -> Texts \cup {NoText}]
    /\ editable \in Notes \cup {NoNote}
    /\ running \in BOOLEAN /\ target \in Notes \cup {NoNote} /\ confirming \in Notes \cup {NoNote}
    /\ todo \in Seq(Awaits \cup Effects)
    /\ sending \in [note: Notes \cup {NoNote}, text: Texts \cup {NoText}]
    /\ got \in Texts \cup {NoText}
    /\ views \subseteq Requests
    /\ waiting \in [{"command", "links"} -> {"no"} \cup Notes \cup {NoNote}]
    /\ pendingFetch \in BOOLEAN /\ titleTimer \in BOOLEAN /\ checking \in BOOLEAN
    /\ server \in [Notes -> Texts \cup {NoText}]
    /\ warm \in [Notes -> Shown \cup {NotShown}]
    /\ made \subseteq Notes /\ session \in Sessions /\ texts \in 0..MaxTexts /\ failures \in 0..session.failures
    /\ owed \in [Notes -> 0..MaxTexts]

Init ==
    /\ editing = FALSE /\ current = NoNote /\ content = NoText
    /\ dirty = FALSE /\ hasEdits = FALSE /\ connected = TRUE
    /\ server = [n \in Notes |-> IF n \in FirstNotes THEN Stored(0) ELSE NoText]
    /\ warm = [n \in Notes |-> IF n \in FirstNotes
                               THEN [text |-> Stored(0), edit |-> FALSE] ELSE NotShown]
    /\ page = [n \in Notes |-> IF n \in FirstNotes THEN Rendering(Stored(0)) ELSE NoText]
    /\ editable = NoNote
    /\ running = FALSE /\ target = NoNote /\ todo = <<>> /\ confirming = NoNote
    /\ sending = NothingSent /\ got = NoText
    /\ views = {} /\ waiting = [w \in {"command", "links"} |-> "no"]
    /\ pendingFetch = FALSE /\ titleTimer = FALSE /\ checking = FALSE
    /\ session \in Sessions /\ made = FirstNotes /\ texts = 0 /\ failures = 0
    /\ owed = [n \in Notes |-> 0]

\* --- The command gate --------------------------------------------------------

\* The browser is between two tasks: no command has synchronous work left.
Yielded == ~running \/ (todo # <<>> /\ Head(todo) \in Awaits)

At(step) == running /\ todo # <<>> /\ Head(todo) = step

\* CommandGate.run: a command is dropped while another one runs.
Run(n, program) ==
    /\ ~running
    /\ running' = TRUE /\ target' = n /\ todo' = program
    /\ UNCHANGED <<sending, got, confirming>>

\* The gate's finally: the command ended, or threw.
Finish ==
    /\ running /\ todo = <<>>
    /\ running' = FALSE /\ target' = NoNote /\ sending' = NothingSent /\ got' = NoText
    /\ UNCHANGED <<modeVars, connected, domVars, todo, confirming, otherVars>>

Throw == todo' = <<>>
Continue == todo' = Tail(todo)
Await(step) == todo' = <<step>> \o Tail(todo)

\* --- Programs: one per command -------------------------------------------------

SaveIfEdited == IF hasEdits /\ current # NoNote THEN <<"save">> ELSE <<>>

\* Mutated DeselectNote: the refresh is ignored while a view request is in flight.
MutDeselectNote ==
    (IF page[current] # NoText THEN <<"save", "maybeCall">> ELSE <<"discard">>)
        \o <<"leave", "refresh">>

DeselectNote ==
    (IF page[current] # NoText THEN <<"save", "maybeCall">> ELSE <<"discard">>)
        \o <<"leave", "refreshNow">>

\* recordEdit: recordNoteInteractionIfNew is awaited before the refresh.
SelectNote(recordEdit) ==
    (IF editing THEN DeselectNote ELSE <<>>)
        \o <<"enter">> \o (IF recordEdit THEN <<"maybeCall">> ELSE <<>>) \o <<"refresh", "adopt">>

\* Mutated SwitchNotes: the note left is not saved.
MutSwitchNotes == <<"maybeCall", "swap", "refresh", "adoptAny">>

SwitchNotes == <<"save", "maybeCall", "swap", "refresh", "adoptAny">>

SaveAndExitEditing == <<"save", "maybeCall", "exit">>

CreateNote == SaveIfEdited \o <<"creating", "choose">>

MoveNote == SaveIfEdited \o <<"calling", "maybeCall", "refresh", "adopt">>

\* Deletion asks the server first how many notes refer to the note.
AskAndDelete == <<"calling", "decide">>

DeleteNote == <<"drop", "deleting", "refresh">>

DeleteNoteOutsideEdit == IF editing THEN <<>> ELSE <<"deleting", "forget", "refresh">>

SplitNote == <<"split", "refresh", "adoptSome", "saved">>

\* A note in the edited note's subtree is folded without leaving the edit.
SetNoteCollapse(outside) ==
    (IF editing /\ outside THEN SaveAndExitEditing ELSE <<>>)
        \o <<"calling", "maybeCall", "refresh">>

ToggleTodoDone ==
    (IF editing THEN SaveAndExitEditing ELSE <<>>) \o <<"calling", "maybeCall", "refresh">>

SetEmbeddedNoteCollapse == (IF editing THEN DeselectNote ELSE <<>>) \o <<"calling", "refresh">>

CopyNote == SaveIfEdited \o <<"calling">>

UndoOrRedo == (IF dirty /\ current # NoNote THEN <<"save">> ELSE <<>>)
                 \o <<"undoing", "refresh", "adoptSome">>

\* --- Saving ------------------------------------------------------------------

\* reconcileContentBeforeSave: an editor that shows something else than the content
\* last seen has been edited.
Reconcile ==
    /\ content' = page[current]
    /\ dirty' = (dirty \/ page[current] # content)
    /\ hasEdits' = (hasEdits \/ page[current] # content)

NothingToSave == At("save") /\ current # NoNote /\ page[current] = NoText

\* A save without a note, or of an editor without its content snapshot, throws.
CannotSave == At("save") /\ (current = NoNote \/ (page[current] # NoText /\ content = NoText))

\* actionSaveNote up to its request: a note without unsaved edits is not sent.
Save ==
    /\ At("save")
    /\ IF CannotSave \/ NothingToSave
         THEN /\ IF CannotSave THEN Throw ELSE Continue
              /\ UNCHANGED <<content, dirty, hasEdits, sending>>
         ELSE /\ Reconcile
              /\ IF dirty' THEN /\ Await("saving")
                              /\ sending' = [note |-> current, text |-> page[current]]
                           ELSE Continue /\ UNCHANGED sending
    /\ UNCHANGED <<editing, current, connected, domVars, gateVars, got, otherVars>>

\* actionSaveNoteOnIdle up to its request; checkAndSaveContent starts it for a dirty note.
IdleSave ==
    /\ At("idleSave")
    /\ IF content = NoText
         THEN Throw /\ UNCHANGED <<content, dirty, hasEdits, sending>>
         ELSE /\ Reconcile
              /\ Await("autosaving")
              /\ sending' = [note |-> current, text |-> page[current]]
    /\ UNCHANGED <<editing, current, connected, domVars, gateVars, got, otherVars>>

\* The server stores the text, and its answer clears the dirty flag.
SaveAnswered ==
    /\ At("saving") \/ At("autosaving")
    /\ server[sending.note] # NoText
    /\ server' = [server EXCEPT ![sending.note] = sending.text]
    /\ dirty' = FALSE
    /\ sending' = NothingSent
    /\ Continue
    /\ UNCHANGED <<editing, current, content, hasEdits, connected, domVars, gateVars, got,
                   viewVars, loopVars, warm, historyVars>>

\* splitCurrentNoteFromSelection: the editor's text is sent, cut in two, without a save.
Split ==
    /\ At("split") /\ page[current] # NoText
    /\ hasEdits' = TRUE /\ Await("splitting")
    /\ sending' = [note |-> current, text |-> page[current]]
    /\ UNCHANGED <<editing, current, content, dirty, connected, domVars, gateVars, got, otherVars>>

SplitAnswered ==
    /\ At("splitting") /\ server[sending.note] # NoText
    /\ server' = [server EXCEPT ![sending.note] = sending.text]
    /\ owed' = [owed EXCEPT ![sending.note] = 0]    \* the text is in several notes now
    /\ sending' = NothingSent
    /\ Continue
    /\ UNCHANGED <<modeVars, connected, domVars, gateVars, got, viewVars, loopVars, warm, made, texts,
                   failures, session>>

Saved ==
    /\ At("saved")
    /\ dirty' = FALSE /\ Continue
    /\ UNCHANGED <<editing, current, content, hasEdits, connected, domVars, gateVars, sending, got,
                   otherVars>>

\* --- Other requests of a command -------------------------------------------------

\* recordNoteInteractionIfNew and persistExpandedEditSessionIfNeeded ask the server
\* only when there is something new to tell.
MaybeCall ==
    /\ At("maybeCall")
    /\ Continue \/ Await("calling")
    /\ UNCHANGED <<modeVars, connected, domVars, gateVars, sending, got, otherVars>>

\* A request that changes no text: a move, an indent, a collapse, a copy.
CallAnswered ==
    /\ At("calling")
    /\ Continue
    /\ UNCHANGED <<modeVars, connected, domVars, gateVars, sending, got, otherVars>>

\* The page may show a note that is gone: the server refuses the request.
Refused ==
    /\ \/ (At("saving") \/ At("autosaving") \/ At("splitting")) /\ server[sending.note] = NoText
       \/ (At("deleting") \/ At("calling")) /\ target # NoNote /\ server[target] = NoText
    /\ Throw
    /\ UNCHANGED <<modeVars, connected, domVars, gateVars, sending, got, otherVars>>

NoteCreated ==
    /\ At("creating")
    /\ \E n \in Notes :
         /\ n \notin made /\ made' = made \cup {n}
         /\ server' = [server EXCEPT ![n] = Stored(0)]
         /\ target' = n
    /\ Continue
    /\ UNCHANGED <<modeVars, connected, domVars, running, confirming, sending, got, viewVars,
                   loopVars, warm, texts, failures, owed, session>>

NoteDeleted ==
    /\ At("deleting") /\ server[target] # NoText
    /\ server' = [server EXCEPT ![target] = NoText]
    /\ Continue
    /\ UNCHANGED <<modeVars, connected, domVars, gateVars, sending, got, viewVars, loopVars,
                   warm, historyVars>>

ClearEditing ==
    /\ editing' = FALSE /\ current' = NoNote /\ content' = NoText /\ hasEdits' = FALSE

\* actionUndo and actionRedo after their request: nothing to undo, a text put back, or
\* a note removed, which ends editing.
HistoryAnswered ==
    /\ At("undoing")
    /\ \/ /\ Throw
          /\ UNCHANGED <<modeVars, editable, server, owed>>
       \/ \E n \in Notes :
            /\ server[n] # NoText
            /\ server' = [server EXCEPT ![n] = Stored(0)]
            /\ dirty' = FALSE /\ owed' = [owed EXCEPT ![n] = 0]
            /\ Continue
            /\ UNCHANGED <<editing, current, content, hasEdits, editable>>
       \/ \E n \in Notes :
            /\ server[n] # NoText
            /\ server' = [server EXCEPT ![n] = NoText]
            /\ dirty' = FALSE /\ owed' = [owed EXCEPT ![n] = 0]
            /\ Continue
            /\ ClearEditing /\ editable' = NoNote
    /\ UNCHANGED <<connected, page, gateVars, sending, got, viewVars, loopVars, warm, made,
                   texts, failures, session>>

\* --- Entering and leaving the edit mode --------------------------------------------

\* Mutated Leave: the mode stays on.
MutLeave ==
    /\ At("leave")
    /\ current' = NoNote /\ content' = NoText /\ hasEdits' = FALSE /\ Continue
    /\ UNCHANGED <<editing, dirty, connected, domVars, gateVars, sending, got, otherVars>>

\* clearSelectionStateForDeselect.
Leave ==
    /\ At("leave")
    /\ IF editing THEN ClearEditing /\ Continue
                  ELSE Throw /\ UNCHANGED <<editing, current, content, hasEdits>>
    /\ UNCHANGED <<dirty, connected, domVars, gateVars, sending, got, otherVars>>

\* The edited note is not on the page any more: there is nothing to save.
Discard ==
    /\ At("discard")
    /\ dirty' = FALSE /\ Continue
    /\ UNCHANGED <<editing, current, content, hasEdits, connected, domVars, gateVars, sending,
                   got, otherVars>>

\* Mutated Exit: the mode stays on.
MutExit ==
    /\ At("exit")
    /\ current' = NoNote /\ content' = NoText /\ hasEdits' = FALSE /\ editable' = NoNote /\ Continue
    /\ UNCHANGED <<editing, dirty, connected, page, gateVars, sending, got, otherVars>>

\* actionExitEditingWithoutSavingOrRefreshing.
Exit ==
    /\ At("exit")
    /\ IF editing /\ ~dirty
         THEN ClearEditing /\ editable' = NoNote /\ Continue
         ELSE Throw /\ UNCHANGED <<editing, current, content, hasEdits, editable>>
    /\ UNCHANGED <<dirty, connected, page, gateVars, sending, got, otherVars>>

\* deleteNote forgets the edit before it asks the server; it throws for another note than
\* the edited one.
Drop ==
    /\ At("drop")
    /\ IF editing /\ current = target
         THEN /\ ClearEditing /\ dirty' = FALSE /\ Continue
              /\ owed' = [owed EXCEPT ![target] = 0]
         ELSE Throw /\ UNCHANGED <<modeVars, owed>>
    /\ UNCHANGED <<connected, domVars, gateVars, sending, got, viewVars, loopVars, serverVars, made,
                   texts, failures, session>>

\* confirmRemovingReferencedNote: a note that no other note refers to is deleted at once;
\* else the note is left, and a dialog asks.
Decide ==
    /\ At("decide")
    /\ todo' \in {DeleteNote, (IF editing THEN DeselectNote ELSE <<>>) \o <<"confirm">>}
    /\ UNCHANGED <<modeVars, connected, domVars, gateVars, sending, got, otherVars>>

OpenDialog ==
    /\ At("confirm")
    /\ confirming' = target /\ Continue
    /\ UNCHANGED <<modeVars, connected, domVars, running, target, sending, got, otherVars>>

Forget ==
    /\ At("forget")
    /\ current' = (IF current = target THEN NoNote ELSE current)
    /\ content' = NoText /\ Continue
    /\ UNCHANGED <<editing, dirty, hasEdits, connected, domVars, gateVars, sending, got, otherVars>>

\* actionSelectNote: the note is edited before its content is known.
Enter ==
    /\ At("enter")
    /\ current' = target /\ editing' = TRUE /\ hasEdits' = FALSE /\ Continue
    /\ UNCHANGED <<content, dirty, connected, domVars, gateVars, sending, got, otherVars>>

\* actionSwitchNotes between its saves and its refresh.
Swap ==
    /\ At("swap")
    /\ IF content = NoText
         THEN Throw /\ UNCHANGED <<content, current, hasEdits, editable>>
         ELSE /\ content' = NoText /\ current' = target /\ hasEdits' = FALSE
              /\ editable' = NoNote /\ Continue
    /\ UNCHANGED <<editing, dirty, connected, page, gateVars, sending, got, otherVars>>

\* A new note is switched to while another is edited, and selected otherwise.
Choose ==
    /\ At("choose")
    /\ todo' = (IF editing THEN SwitchNotes ELSE SelectNote(FALSE)) \o Tail(todo)
    /\ UNCHANGED <<modeVars, connected, domVars, gateVars, sending, got, otherVars>>

\* What a command does with the text a refresh returned (none, when it was ignored):
\* a redundant setCurrentContent throws where the command does not compare first.
Adopt ==
    \/ /\ At("adopt") /\ content' = got /\ Continue
    \/ /\ At("adoptSome") /\ content' = (IF got = NoText THEN content ELSE got) /\ Continue
    \/ /\ At("adoptAny") /\ content' = got
       /\ IF content = got THEN Throw ELSE Continue

AdoptContent ==
    /\ Adopt
    /\ UNCHANGED <<editing, current, dirty, hasEdits, connected, domVars, gateVars, sending,
                   got, otherVars>>

\* --- View requests ---------------------------------------------------------------

EditedNote == IF editing THEN current ELSE NoNote

Sent(by, note) ==
    [by |-> by, note |-> note, built |-> FALSE,
     view |-> [n \in Notes |-> NotShown], payload |-> {}]

\* actionRefreshAndMaybeSelect: ignored, or made to wait, while a request is in flight.
Refresh ==
    /\ At("refresh") \/ At("refreshNow")
    /\ CASE views = {} ->
              /\ views' = {Sent("command", EditedNote)} /\ Await("viewing")
              /\ UNCHANGED <<waiting, got>>
         [] views # {} /\ At("refresh") ->
              /\ got' = NoText /\ Continue /\ UNCHANGED viewVars
         [] views # {} /\ At("refreshNow") ->
              /\ waiting' = [waiting EXCEPT !["command"] = EditedNote] /\ Await("waiting")
              /\ UNCHANGED <<views, got>>
    /\ UNCHANGED <<modeVars, connected, domVars, gateVars, sending, loopVars, serverVars,
                   historyVars>>

\* Mutated ViewIdle: the waiter does not look again whether a request is in flight.
MutViewIdle(w) ==
    /\ waiting[w] # "no"
    /\ views' = views \cup {Sent(w, waiting[w])}
    /\ waiting' = [waiting EXCEPT ![w] = "no"]
    /\ IF w = "command" THEN Await("viewing") ELSE UNCHANGED todo
    /\ UNCHANGED <<modeVars, connected, domVars, gateVars, sending, got, loopVars, serverVars,
                   historyVars>>

\* waitForViewRequestIdle: a waiter that polls and finds no request in flight sends its
\* own, for the note that was edited when it was asked for.
ViewIdle(w) ==
    /\ waiting[w] # "no" /\ views = {}
    /\ views' = views \cup {Sent(w, waiting[w])}
    /\ waiting' = [waiting EXCEPT ![w] = "no"]
    /\ IF w = "command" THEN Await("viewing") ELSE UNCHANGED todo
    /\ UNCHANGED <<modeVars, connected, domVars, gateVars, sending, got, loopVars, serverVars,
                   historyVars>>

\* The server builds the view, sends the notes whose hash changed, and remembers it as
\* what the page shows.  A note that is gone is not edited.
BuildView(v) ==
    LET view == [n \in Notes |-> IF server[n] = NoText THEN NotShown
                                 ELSE [text |-> server[n], edit |-> n = v.note]]
    IN  /\ ~v.built
        /\ views' = (views \ {v}) \cup
              {[v EXCEPT !.built = TRUE, !.view = view,
                         !.payload = {n \in Notes : view[n] # NotShown /\ view[n] # warm[n]}]}
        /\ warm' = view
        /\ UNCHANGED <<modeVars, connected, domVars, commandVars, waiting, loopVars, server,
                       historyVars>>

\* applyServerDiffOps: a note in the payload shows its stored text when the view was
\* asked for while it was edited, and its rendering otherwise.
ShownAfter(v) ==
    [n \in Notes |->
        CASE v.view[n] = NotShown -> NoText
          [] v.view[n] # NotShown /\ n \in v.payload ->
               IF v.view[n].edit THEN v.view[n].text ELSE Rendering(v.view[n].text)
          [] OTHER -> page[n]]

InView(v) == v.note # NoNote /\ v.view[v.note] # NotShown

\* The response is applied.  A note it was asked for that is not in it stops being
\* edited; a view asked for without a note detaches the editor.
ApplyView(v) ==
    /\ v.built
    /\ views' = views \ {v}
    /\ page' = ShownAfter(v)
    /\ editable' = IF InView(v) /\ (editing \/ v.note \in v.payload) THEN v.note
                   ELSE IF InView(v) /\ editable = v.note THEN editable ELSE NoNote
    /\ IF v.note # NoNote /\ ~InView(v) THEN ClearEditing
                                         ELSE UNCHANGED <<editing, current, content, hasEdits>>
    \* The response replaced what the editor showed, or ended the edit.
    /\ owed' = IF editing /\ (~editing' \/ page'[current] # page[current])
               THEN [owed EXCEPT ![current] = 0] ELSE owed

\* The response to a command's refresh: the command goes on with the note's text.
CommandViewed(v) ==
    /\ v.by = "command" /\ At("viewing")
    /\ ApplyView(v)
    /\ got' = IF InView(v) THEN page'[v.note] ELSE NoText
    /\ Continue
    /\ UNCHANGED <<dirty, connected, gateVars, sending, waiting, loopVars, serverVars, made,
                   texts, failures, session>>

\* The response to a background request is applied whenever the browser is between tasks.
BackgroundViewed(v) ==
    /\ v.by # "command" /\ Yielded
    /\ ApplyView(v)
    /\ pendingFetch' = (v.by # "scroll" /\ pendingFetch)
    /\ UNCHANGED <<dirty, connected, commandVars, waiting, titleTimer, checking, serverVars,
                   made, texts, failures, session>>

\* --- Background work ------------------------------------------------------------

\* Mutated ScrollPoll: it does not stop for a running command.
MutScrollPoll ==
    /\ "scroll" \in session.background
    /\ Yielded /\ ~pendingFetch
    /\ pendingFetch' = TRUE
    /\ IF views = {} THEN views' = {Sent("scroll", EditedNote)} ELSE UNCHANGED views
    /\ UNCHANGED <<modeVars, connected, domVars, commandVars, waiting, titleTimer, checking,
                   serverVars, historyVars>>

\* infinite-scroll handlePoll and maybeMoveBand: not while a command runs.  Asked while
\* another request is in flight, the refresh is ignored, the band has not moved, and
\* pendingFetch stays set.
ScrollPoll ==
    /\ "scroll" \in session.background
    /\ ~running /\ ~pendingFetch
    /\ pendingFetch' = TRUE
    /\ IF views = {} THEN views' = {Sent("scroll", EditedNote)} ELSE UNCHANGED views
    /\ UNCHANGED <<modeVars, connected, domVars, commandVars, waiting, titleTimer, checking,
                   serverVars, historyVars>>

\* checkConnectivityAndUpdates: one check at a time, not started while a command runs.
StartCheck ==
    /\ "checks" \in session.background
    /\ ~running /\ ~checking
    /\ checking' = TRUE
    /\ UNCHANGED <<modeVars, connected, domVars, commandVars, viewVars, pendingFetch,
                   titleTimer, serverVars, historyVars>>

\* The answer: the connection is back, and link titles may have changed.
CheckAnswered ==
    /\ checking /\ Yielded
    /\ checking' = FALSE /\ connected' = TRUE
    /\ titleTimer' \in {titleTimer, "titles" \in session.background}
    /\ UNCHANGED <<modeVars, domVars, commandVars, viewVars, pendingFetch, serverVars,
                   historyVars>>

\* refreshForLinkTitleChanges: put off while a command runs or a note is edited.
TitleTimer ==
    /\ titleTimer /\ ~running /\ ~editing
    /\ titleTimer' = FALSE
    /\ IF views = {}
         THEN views' = {Sent("links", EditedNote)} /\ UNCHANGED waiting
         ELSE waiting' = [waiting EXCEPT !["links"] = EditedNote] /\ UNCHANGED views
    /\ UNCHANGED <<modeVars, connected, domVars, commandVars, pendingFetch, checking,
                   serverVars, historyVars>>

\* --- The user -------------------------------------------------------------------

\* Mutated Type: typing goes on while a command runs.
MutType ==
    /\ Yielded /\ editing /\ editable = current /\ connected
    /\ texts < MaxTexts
    /\ texts' = texts + 1
    /\ page' = [page EXCEPT ![current] = Stored(texts + 1)]
    /\ content' = Stored(texts + 1) /\ dirty' = TRUE /\ hasEdits' = TRUE
    /\ owed' = [owed EXCEPT ![current] = texts + 1]
    /\ UNCHANGED <<editing, current, connected, editable, commandVars, viewVars, loopVars,
                   serverVars, made, failures, session>>

\* handleInput: ignored while a command runs.
Type ==
    /\ ~running /\ editing /\ editable = current /\ connected
    /\ texts < MaxTexts
    /\ texts' = texts + 1
    /\ page' = [page EXCEPT ![current] = Stored(texts + 1)]
    /\ content' = Stored(texts + 1) /\ dirty' = TRUE /\ hasEdits' = TRUE
    /\ owed' = [owed EXCEPT ![current] = texts + 1]
    /\ UNCHANGED <<editing, current, connected, editable, commandVars, viewVars, loopVars,
                   serverVars, made, failures, session>>

\* A command given while another one runs is dropped; a dialog keeps the user from others.
Start(command, n, program) ==
    /\ command \in session.commands
    /\ connected /\ confirming = NoNote
    /\ Run(n, program)
    /\ UNCHANGED <<modeVars, connected, domVars, otherVars>>

\* handleNoteShellMouseDown: a press on a note edits it.
PressNote(n) ==
    /\ page[n] # NoText /\ current # n
    /\ Start("select", n, IF current # NoNote THEN SwitchNotes ELSE SelectNote(TRUE))

\* handleOutsideMouseDown and handleEscapeKey.
LeaveNote == editing /\ Start("leave", current, DeselectNote)

\* handleEnterKey and handleCreateNoteShortcut.
PressCreate == made # Notes /\ Start("create", current, CreateNote)

\* handleMoveNoteUpShortcut and the other moves of the edited note.
PressMove == editing /\ Start("move", current, MoveNote)

PressDelete == editing /\ Start("delete", current, AskAndDelete)

PressSplit == editing /\ page[current] # NoText /\ Start("split", current, SplitNote)

PressToggle(n) == page[n] # NoText /\ Start("toggle", n, ToggleTodoDone)

\* handleCollapseToggleInteraction; the edited note is its own subtree's root.
PressCollapse(n) ==
    page[n] # NoText /\ \E outside \in BOOLEAN : Start("collapse", n, SetNoteCollapse(outside))

PressEmbedded(n) == page[n] # NoText /\ Start("collapse", n, SetEmbeddedNoteCollapse)

PressCopy == editing /\ Start("copy", current, CopyNote)

\* handleUndoShortcut: left to the browser's editor while the note has unsaved edits.
PressUndo == (editing => ~dirty /\ ~hasEdits) /\ Start("undo", current, UndoOrRedo)

\* Mutated IdleTimer: a note without unsaved edits is saved too.
MutIdleTimer ==
    /\ editing
    /\ Run(current, <<"idleSave">>)
    /\ UNCHANGED <<modeVars, connected, domVars, otherVars>>

\* checkAndSaveContent, a minute after the last change.
IdleTimer ==
    /\ editing /\ dirty
    /\ Run(current, <<"idleSave">>)
    /\ UNCHANGED <<modeVars, connected, domVars, otherVars>>

\* The dialog about a note other notes refer to.
AnswerDialog ==
    /\ confirming # NoNote /\ confirming' = NoNote
    /\ \/ /\ ~running
          /\ running' = TRUE /\ target' = confirming /\ todo' = DeleteNoteOutsideEdit
       \/ UNCHANGED <<running, target, todo>>
    /\ UNCHANGED <<modeVars, connected, domVars, sending, got, otherVars>>

\* --- Failures -------------------------------------------------------------------

\* clearEditingStateForDisconnect: editing ends without a save; dirty stays set.
Disconnect ==
    /\ connected' = FALSE
    /\ IF editing
         THEN ClearEditing /\ owed' = [owed EXCEPT ![current] = 0]
         ELSE UNCHANGED <<editing, current, content, hasEdits, owed>>
    /\ editable' = NoNote

Counted == failures < session.failures /\ failures' = failures + 1

\* handleNetworkError for a connectivity check that got no answer.
CheckFails ==
    /\ checking /\ Yielded /\ Counted
    /\ checking' = FALSE
    /\ Disconnect
    /\ UNCHANGED <<dirty, page, commandVars, viewVars, pendingFetch, titleTimer, serverVars,
                   made, texts, session>>

\* A command's request is refused by the server, or gets no answer; a request that gets
\* none may have been carried out.
CommandFails ==
    /\ running /\ Yielded /\ Counted
    /\ Throw
    /\ \/ UNCHANGED <<connected, editing, current, content, hasEdits, owed, editable>>
       \/ Disconnect
    /\ server' \in {server} \cup
         (IF sending # NothingSent /\ ~connected' /\ server[sending.note] # NoText
          THEN {[server EXCEPT ![sending.note] = sending.text]} ELSE {})
    /\ views' = {v \in views : v.by # "command"}
    /\ waiting' = [waiting EXCEPT !["command"] = "no"]
    /\ UNCHANGED <<dirty, page, gateVars, sending, got, loopVars, warm, made, texts, session>>

\* A background view request gets no answer; infinite scroll stays blocked.
BackgroundFails ==
    /\ Yielded /\ Counted
    /\ \E v \in views :
         /\ v.by # "command"
         /\ views' = views \ {v}
    /\ Disconnect
    /\ UNCHANGED <<dirty, page, commandVars, waiting, loopVars, serverVars, made, texts, session>>

\* --- Specification ----------------------------------------------------------------

Command ==
    \/ Save \/ IdleSave \/ SaveAnswered \/ Split \/ SplitAnswered \/ Saved
    \/ MaybeCall \/ CallAnswered
    \/ Refused \/ NoteCreated \/ NoteDeleted \/ HistoryAnswered
    \/ Decide \/ OpenDialog \/ Forget \/ Drop
    \/ Leave \/ Discard \/ Exit \/ Enter \/ Swap \/ Choose \/ AdoptContent
    \/ Refresh \/ Finish
    \/ \E v \in views : CommandViewed(v)

Loops ==
    \/ ScrollPoll \/ StartCheck \/ CheckAnswered \/ TitleTimer
    \/ \E v \in views : BackgroundViewed(v)

Waiters == Yielded /\ \E w \in {"command", "links"} : ViewIdle(w)

Serve == Yielded /\ \E v \in views : BuildView(v)

User ==
    \/ Type \/ LeaveNote \/ PressCreate \/ PressMove \/ PressDelete \/ PressCopy \/ PressUndo
    \/ PressSplit \/ IdleTimer \/ AnswerDialog
    \/ \E n \in Notes : PressNote(n) \/ PressToggle(n) \/ PressCollapse(n) \/ PressEmbedded(n)

Failures == CheckFails \/ CommandFails \/ BackgroundFails

Next == Command \/ Loops \/ Waiters \/ Serve \/ User \/ Failures

Spec == Init /\ [][Next]_vars

\* The server answers, and timers fire.  The user need not act, and nothing has to fail.
FairSpec ==
    /\ Spec
    /\ WF_vars(Command) /\ WF_vars(Waiters) /\ WF_vars(Serve)
    /\ WF_vars(\E v \in views : BackgroundViewed(v))

\* --- Properties -------------------------------------------------------------------

\* Text typed into a note is stored, on its way, or still in the editor with the note
\* marked as edited; unless the note was deleted or its edit undone, the connection was
\* lost, or a response replaced the unsaved text (SaveAnswered, Save, Leave).
TypedTextIsKept ==
    \A n \in Notes :
        \/ owed[n] = 0 \/ server[n] = NoText
        \/ server[n].text = owed[n]
        \/ current = n /\ editing /\ dirty /\ page[n].text = owed[n]

\* The browser never has two view requests in flight, whoever asks and waits for them
\* (actionRefreshAndMaybeSelect, waitForViewRequestIdle): the server's warm view is then
\* the view the page gets next.
OneViewRequest == Cardinality(views) <= 1

\* The autosave ends with setDirty(false), a strict setter: the note it saved is still
\* marked as edited when the answer arrives.
AutosaveStaysDirty == At("autosaving") => dirty

\* A note the user leaves is shown rendered from its stored text before long, also when
\* another view request was in flight (actionDeselectNote's requireExecution), as long as
\* no request fails.
LeftNoteIsRendered ==
    \A n \in Notes :
        session.failures = 0 /\ At("leave") /\ current = n
          ~> page[n] = NoText \/ page[n] = Rendering(server[n])

\* docs/design/differential-view-protocol.md:157 says that a refresh must not replace the
\* content of the note being edited once the edit session has edits of the user
\* (canReplaceWhileEditing).
EditorWithEditsIsPreserved ==
    [][ views' # views /\ editing /\ hasEdits => page'[current] = page[current] ]_vars

\* A command that started ends, and the gate is free again (CommandGate.run's finally):
\* background requests cannot keep it waiting.
GateIsFreed == running ~> ~running
=============================================================================
