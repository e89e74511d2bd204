--------------------------- MODULE AssistantTurn ---------------------------
(***************************************************************************)
(* A turn of the AI assistant that works on the vault, beside the requests   *)
(* of the same window and of others: the chat panel and its question cards   *)
(* in the browser, the guard that gives an operation the vault for itself    *)
(* (bulk_operation.py, transactions.py), and the server's end of the turn    *)
(* (ai_chat.py, ai_chat_stream.py, tagging_run.py, agent_loop.py).           *)
(*                                                                           *)
(* What the model decides is nondeterministic: it answers, tags, reviews     *)
(* proposals, summarizes the view, opens web pages or opens a menu.  The     *)
(* server's event loop runs a turn up to its next await at one moment; the   *)
(* synchronous routes run in other threads, one at a time.                   *)
(*                                                                           *)
(* Assumed of the libraries: a stream whose reader is gone is cancelled      *)
(* sooner or later, at a place where the turn awaits something.              *)
(***************************************************************************)
EXTENDS Integers, Sequences

CONSTANTS
    None,           \* no card, no answer under way
    Casts,          \* the instances explored: who acts beside the panel, and what may happen
    MaxTurns        \* bound: messages the user sends

AllRequests == {"command", "other", "upload", "preferences"}
AllKinds == {"answer", "tagging", "review", "summary", "pages", "menu"}

\* Of a cast: the other requests, what the assistant decides to do, how many failures
\* (lost replies, broken streams, failed requests, reloads), whether the user clears the chat.
ASSUME AssistantAssumption ==
    /\ MaxTurns \in Nat
    /\ \A c \in Casts : /\ c.requests \subseteq AllRequests /\ c.kinds \subseteq AllKinds
                        /\ c.failures \in Nat /\ c.clears \in BOOLEAN

VARIABLES
    cast,
    phase, turn, aborted, outcome,       \* the panel's _submitMessage
    card, progress, completion,          \* the question on the page, the progress panel, its result
    gate, clearing,                      \* the command gate; Clear Chat under way
    chat, answer, events, gone,          \* on the wire; the turns nobody reads any more
    inside, operation,                   \* requests past the guard's check; the turn that has the vault
    run, streaming, pending, delivering, \* the server's turns, their transcripts, and questions
    kept,                                \* batches of a summary that did not finish
    stale, consented, unseen, failures   \* history and bounds

panelVars == <<phase, turn, aborted, outcome>>
cardVars == <<card, progress, completion>>
pageVars == <<panelVars, cardVars, gate, clearing>>
wireVars == <<chat, answer, events, gone>>
guardVars == <<inside, operation>>
turnVars == <<run, streaming, pending, delivering, kept>>
serverVars == <<guardVars, turnVars>>
historyVars == <<cast, stale, consented, unseen, failures>>
vars == <<pageVars, wireVars, serverVars, historyVars>>

\* --- Types -------------------------------------------------------------------

Turns == 1..MaxTurns
Questions == [turn: Turns, kind: {"tagging", "review", "summary", "pages"}]
Answers == [question: Questions, value: {"yes", "no"}]

EventTypes == {"refused", "scope", "confirm", "progress", "committing", "changed", "unchanged", "menu", "preview",
               "done", "error", "broken", "end"}

Events == [kind: AllKinds \cup {"none"}, type: EventTypes]

\* A question on the page, and whether its answer was sent.
Cards == [kind: AllKinds \ {"answer", "menu"}, sent: BOOLEAN]

Steps == {"none", "thinking", "acquiring", "waiting", "menu", "batches", "applying", "finishing", "ending",
          "ended"}

\* A turn on the server: what it does, what kind of step it is about, the answer it heard,
\* and what it has behind it.
Runs == [at: Steps, kind: AllKinds \cup {"none"}, heard: {"none", "yes", "no"},
         did: SUBSET {"pages", "menu", "reused", "batch"}]

PanelTypes ==
    /\ phase \in {"idle", "saving", "streaming", "opening", "acknowledging", "closing", "refreshing", "stuck"}
    /\ turn \in 0..MaxTurns /\ aborted \in BOOLEAN
    /\ outcome \in {"none", "finished", "stopped", "failed"}
    /\ card \in Cards \cup {None}
    /\ progress \in {"none", "tagging", "summary", "committing"}
    /\ completion \in {"none", "changed", "unchanged"}
    /\ gate \in {"free", "command", "save", "operation"}
    /\ clearing \in {"no", "waiting", "sent"}

ServerTypes ==
    /\ inside \subseteq cast.requests /\ operation \in 0..MaxTurns
    /\ streaming \subseteq Turns /\ kept \in BOOLEAN
    /\ pending \subseteq Questions /\ delivering \subseteq Answers

HistoryTypes ==
    /\ cast \in Casts
    /\ stale \subseteq Turns /\ consented \subseteq Questions /\ unseen \subseteq Turns
    /\ failures \in 0..cast.failures

TypeOK ==
    /\ PanelTypes /\ ServerTypes /\ HistoryTypes
    /\ run \in [Turns -> Runs]
    /\ chat \subseteq Turns /\ gone \subseteq Turns
    /\ answer \in Answers \cup {None}
    /\ events \in Seq(Events)

NotBegun == [at |-> "none", kind |-> "none", heard |-> "none", did |-> {}]
Over == [NotBegun EXCEPT !.at = "ended"]

Init ==
    /\ cast \in Casts
    /\ phase = "idle" /\ turn = 0 /\ aborted = FALSE /\ outcome = "none"
    /\ card = None /\ progress = "none" /\ completion = "none"
    /\ gate = "free" /\ clearing = "no"
    /\ chat = {} /\ answer = None /\ events = <<>> /\ gone = {}
    /\ inside = {} /\ operation = 0
    /\ run = [t \in Turns |-> NotBegun] /\ streaming = {}
    /\ pending = {} /\ delivering = {} /\ kept = FALSE
    /\ stale = {} /\ consented = {} /\ unseen = {} /\ failures = 0

Counted == failures < cast.failures /\ failures' = failures + 1

At(t, step) == run[t].at = step
Alive(t) == run[t].at \notin {"none", "ended"}

\* --- The guard -----------------------------------------------------------------

\* A synchronous route keeps the guard's lock from its check to its end.
LockFree == inside \subseteq {"upload"}

\* track_mutation: one request at a time is past the check.
SlotFree == inside = {}

\* _check_bulk_guard: what an operation does not keep out.
Permitted(r) == r = "preferences" \/ operation = 0

\* Uploads and preferences leave the notes alone.  What a menu does to the proposals of a
\* scope (manage_bulk_proposals) asks nothing, applies at once and counts as "other".
ChangesNotes(r) == r \in {"command", "other"}

\* generate_new_uuid: the uuid at Send is no longer the current one.
NewUuid == stale' = stale \cup {t \in Turns : Alive(t)}

\* CommandGate.run.
StartCommand ==
    /\ "command" \in cast.requests
    /\ gate = "free" /\ gate' = "command"
    /\ UNCHANGED <<panelVars, cardVars, clearing, wireVars, serverVars, historyVars>>

EndCommand ==
    /\ gate = "command" /\ "command" \notin inside /\ gate' = "free"
    /\ UNCHANGED <<panelVars, cardVars, clearing, wireVars, serverVars, historyVars>>

\* A request that meets an operation or another request is answered 409 and changes nothing.
\* An upload is asynchronous: it keeps the slot while it reads the file, and never takes the lock.
EnterRoute(r) ==
    /\ SlotFree /\ Permitted(r)
    /\ r = "command" => gate = "command"
    /\ inside' = inside \cup {r}
    /\ UNCHANGED <<pageVars, wireVars, operation, turnVars, historyVars>>

LeaveRoute(r) ==
    /\ r \in inside /\ inside' = inside \ {r}
    /\ IF ChangesNotes(r) THEN NewUuid ELSE UNCHANGED stale
    /\ UNCHANGED <<pageVars, wireVars, operation, turnVars, cast, consented, unseen, failures>>

\* --- The server's turn -----------------------------------------------------------

\* Events nobody reads go nowhere, whether the server knows of it (gone) or not.
Emit(t, type) ==
    events' = IF t = turn /\ outcome = "none"
              THEN Append(events, [kind |-> run'[t].kind, type |-> type]) ELSE events

Go(t, step) == run' = [run EXCEPT ![t].at = step]

\* Mutated Release: the guard counts, and a turn that has no operation counts too.
MutRelease(t) == operation' = operation - t

\* What the guard's acquire leaves when its block ends, however it ends.
Release(t) == operation' = IF operation = t THEN 0 ELSE operation

\* A turn that is over is nobody's concern any more.
Ends(t) ==
    /\ run' = [run EXCEPT ![t] = Over]
    /\ gone' = gone \ {t} /\ stale' = stale \ {t}
    /\ consented' = {q \in consented : q.turn # t}

Concerns == <<gone, stale, consented>>

\* stream_ai_chat: refused while an operation runs, another request changes the vault or
\* a turn of the conversation still streams.
ChatArrives(t) ==
    /\ t \in chat /\ LockFree
    /\ chat' = chat \ {t}
    /\ IF SlotFree /\ operation = 0 /\ streaming = {}
         THEN /\ Go(t, "thinking")
              /\ streaming' = {t}
              /\ UNCHANGED <<events, Concerns>>
         ELSE /\ Ends(t) /\ Emit(t, "refused")
              /\ UNCHANGED streaming
    /\ UNCHANGED <<pageVars, answer, guardVars, pending, delivering, kept, cast, unseen, failures>>

\* A request that was aborted before the server read it.
ChatDropped(t) ==
    /\ t \in chat \cap gone
    /\ chat' = chat \ {t} /\ Ends(t)
    /\ UNCHANGED <<pageVars, answer, events, guardVars, streaming, pending, delivering, kept, cast, unseen,
                   failures>>

\* Batches of a summary finished in this turn, or reused from one that did not finish.
HasBatches(t) == run[t].did \cap {"reused", "batch"} # {}

\* _stream_staged_scope_summary, finally: what an unfinished summary leaves for another one.
KeepBatches(t) ==
    kept' = IF HasBatches(t) THEN TRUE
            ELSE kept /\ ~(At(t, "batches") /\ run[t].kind = "summary")

\* An expected failure: the operation ends, and the reader is told.  A turn whose
\* transcript was cleared has nowhere to write it: the stream breaks off.
Fails(t) ==
    /\ Release(t) /\ KeepBatches(t)
    /\ streaming' = streaming \ {t}
    /\ IF t \in streaming THEN /\ run' = [run EXCEPT ![t].at = "ending", ![t].did = {}]
                               /\ Emit(t, "error") /\ UNCHANGED Concerns
                          ELSE Ends(t) /\ Emit(t, "broken")

\* The final answer of a summary is still written when its result is out already.
WritesAnswer(t) == At(t, "finishing") /\ run[t].kind = "summary" /\ "batch" \in run[t].did

\* The provider gives no answer, or none that can be used.
InferenceFails(t) ==
    /\ At(t, "thinking") \/ At(t, "batches") \/ WritesAnswer(t)
    /\ Counted
    /\ Fails(t)
    /\ UNCHANGED <<pageVars, chat, answer, inside, pending, delivering, cast, unseen>>

\* A turn whose transcript was cleared fails where it writes to it next.
Orphaned(t) ==
    /\ At(t, "thinking") \/ At(t, "finishing")
    /\ t \notin streaming
    /\ Fails(t)
    /\ UNCHANGED <<pageVars, chat, answer, inside, pending, delivering, cast, unseen, failures>>

Asks(t, kind, type) ==
    /\ run' = [run EXCEPT ![t].at = "waiting", ![t].kind = kind]
    /\ pending' = pending \cup {[turn |-> t, kind |-> kind]}
    /\ Emit(t, type)

\* The model decides.  Pages and a menu come back to it, once each in a turn (a bound).
\* A summary that continues one that did not finish does not ask again.
Decide(t) ==
    /\ At(t, "thinking") /\ t \in streaming
    /\ \E kind \in cast.kinds \ run[t].did :
         \/ /\ kind = "answer"
            /\ run' = [run EXCEPT ![t].at = "ending", ![t].kind = kind]
            /\ streaming' = streaming \ {t}
            /\ Emit(t, "done") /\ UNCHANGED pending
         \/ /\ kind \in {"tagging", "review"}
            /\ run' = [run EXCEPT ![t].at = "acquiring", ![t].kind = kind]
            /\ UNCHANGED <<events, pending, streaming>>
         \/ kind = "summary" /\ Asks(t, kind, "scope") /\ UNCHANGED streaming
         \/ /\ kind = "summary" /\ kept
            /\ run' = [run EXCEPT ![t] = [at |-> "batches", kind |-> kind, heard |-> "none",
                                          did |-> run[t].did \cup {"reused"}]]
            /\ Emit(t, "progress")
            /\ UNCHANGED <<pending, streaming>>
         \/ kind = "pages" /\ Asks(t, kind, "confirm") /\ UNCHANGED streaming
         \/ /\ kind = "menu"
            /\ run' = [run EXCEPT ![t].at = "menu", ![t].kind = kind]
            /\ Emit(t, "menu")
            /\ UNCHANGED <<pending, streaming>>
    /\ UNCHANGED <<pageVars, chat, answer, gone, guardVars, delivering, kept, historyVars>>

\* Mutated CanAcquire: requests that are past their check do not count.
MutCanAcquire == operation = 0

CanAcquire == operation = 0 /\ SlotFree

\* Mutated Unchanged: the notes may have changed since Send.
MutUnchanged(t) == t \in Turns

\* validate_current: the sync uuid is the one at Send.
Unchanged(t) == t \notin stale

\* BulkOperationGuard.acquire, validate_current, and the question; there may be
\* nothing to ask about.
Acquire(t) ==
    /\ At(t, "acquiring") /\ LockFree
    /\ IF CanAcquire /\ Unchanged(t)
         THEN /\ operation' = t
              /\ \/ Asks(t, run[t].kind, IF run[t].kind = "tagging" THEN "scope" ELSE "confirm")
                 \/ Go(t, "finishing") /\ Emit(t, "unchanged") /\ UNCHANGED pending
              /\ UNCHANGED <<streaming, kept, Concerns>>
         ELSE Fails(t) /\ UNCHANGED pending
    /\ UNCHANGED <<pageVars, chat, answer, inside, delivering, cast, unseen, failures>>

\* The future is resolved, and the turn goes on with the answer.
Resume(t) ==
    /\ At(t, "waiting") /\ run[t].heard # "none"
    /\ LET kind == run[t].kind
           goOn(step, did) == run' = [run EXCEPT ![t] = [at |-> step, kind |-> kind, heard |-> "none",
                                                         did |-> run[t].did \cup did]]
       IN  \/ kind = "pages" /\ goOn("thinking", {"pages"}) /\ UNCHANGED events
           \/ kind # "pages" /\ run[t].heard = "no" /\ goOn("finishing", {}) /\ Emit(t, "unchanged")
           \/ /\ kind \in {"tagging", "summary"} /\ run[t].heard = "yes"
              /\ goOn("batches", {}) /\ Emit(t, "progress")
           \/ kind = "review" /\ run[t].heard = "yes" /\ goOn("applying", {}) /\ UNCHANGED events
    /\ UNCHANGED <<pageVars, chat, answer, gone, guardVars, streaming, pending, delivering, kept, historyVars>>

\* A batch of a summary is in; one more is to come (a bound).
BatchEnds(t) ==
    /\ At(t, "batches") /\ run[t].kind = "summary" /\ "batch" \notin run[t].did
    /\ run' = [run EXCEPT ![t].did = run[t].did \cup {"batch"}]
    /\ Emit(t, "preview")
    /\ UNCHANGED <<pageVars, chat, answer, gone, guardVars, streaming, pending, delivering, kept, historyVars>>

\* The last batch is in: a summary writes its answer, proposals are about to be applied.
BatchesEnd(t) ==
    /\ At(t, "batches") /\ (run[t].kind = "summary" => "batch" \in run[t].did)
    /\ IF run[t].kind = "summary" THEN Go(t, "finishing") /\ Emit(t, "unchanged")
                                  ELSE Go(t, "applying") /\ Emit(t, "committing")
    /\ UNCHANGED <<pageVars, chat, answer, gone, guardVars, streaming, pending, delivering, kept, historyVars>>

\* apply_bulk_proposals, under the guard's lock; the proposals generated may be none.
Apply(t) ==
    /\ At(t, "applying") /\ LockFree
    /\ IF Unchanged(t)
         THEN /\ Go(t, "finishing")
              /\ \/ unseen' = unseen \cup {t} /\ NewUuid /\ Emit(t, "changed")
                 \/ run[t].kind = "tagging" /\ Emit(t, "unchanged") /\ UNCHANGED <<stale, unseen>>
              /\ UNCHANGED <<operation, streaming, kept, gone, consented>>
         ELSE Fails(t) /\ UNCHANGED unseen
    /\ UNCHANGED <<pageVars, chat, answer, inside, pending, delivering, cast, failures>>

\* The operation's report is the turn's answer.
Finish(t) ==
    /\ At(t, "finishing") /\ t \in streaming
    /\ Go(t, "ending")
    /\ streaming' = streaming \ {t}
    /\ Emit(t, "done")
    /\ UNCHANGED <<pageVars, chat, answer, gone, guardVars, pending, delivering, kept, historyVars>>

\* The generator is resumed after its last event: the operation ends, then the stream.
\* A summary that got this far keeps nothing.
EndTurn(t) ==
    /\ At(t, "ending")
    /\ Ends(t) /\ Emit(t, "end")
    /\ Release(t)
    /\ kept' = (kept /\ ~HasBatches(t))
    /\ UNCHANGED <<pageVars, chat, answer, inside, streaming, pending, delivering, cast, unseen, failures>>

MenuEnds(t) == run' = [run EXCEPT ![t].at = "thinking", ![t].did = run[t].did \cup {"menu"}]

\* MenuActionStore.wait: thirty seconds.
MenuTimesOut(t) ==
    /\ At(t, "menu") /\ MenuEnds(t)
    /\ UNCHANGED <<pageVars, wireVars, guardVars, streaming, pending, delivering, kept, historyVars>>

\* Mutated Cancelled: the operation is not released.
MutCancelled(t) ==
    /\ t \in gone /\ Alive(t)
    /\ Ends(t) /\ KeepBatches(t)
    /\ streaming' = streaming \ {t}
    /\ pending' = {q \in pending : q.turn # t}
    /\ UNCHANGED <<pageVars, chat, answer, events, guardVars, delivering, cast, unseen, failures>>

\* The reader is gone and the turn's task is cancelled: its question and the operation go
\* with it.  Never within Apply, which awaits nothing.
Cancelled(t) ==
    /\ t \in gone /\ Alive(t)
    /\ Ends(t) /\ KeepBatches(t)
    /\ streaming' = streaming \ {t}
    /\ pending' = {q \in pending : q.turn # t}
    /\ Release(t)
    /\ UNCHANGED <<pageVars, chat, answer, events, inside, delivering, cast, unseen, failures>>

\* --- Answers ---------------------------------------------------------------------

\* The pending question the answer names, unless another request changes the vault.
Accepted == IF SlotFree THEN pending \cap {answer.question} ELSE {}

\* The card the answer was given on is still shown.
AnswersCard == card # None /\ answer.question = [turn |-> turn, kind |-> card.kind]

\* answer_bulk_question: refused when its question is no longer pending.  A reply that is
\* lost looks like a refusal, which stays on the card.  A confirmation card closes when it
\* is answered; a scope card is replaced by what the server says next.
AnswerArrives ==
    /\ answer # None /\ answer' = None
    /\ pending' = pending \ Accepted
    /\ delivering' = delivering \cup {[question |-> q, value |-> answer.value] : q \in Accepted}
    /\ \/ /\ AnswersCard /\ Accepted # {} /\ UNCHANGED failures
          /\ card' = IF card.kind \in {"review", "pages"} THEN None ELSE card
       \/ /\ AnswersCard /\ IF Accepted = {} THEN UNCHANGED failures ELSE Counted
          /\ card' = [kind |-> card.kind, sent |-> FALSE]
       \/ ~AnswersCard /\ UNCHANGED <<card, failures>>
    /\ UNCHANGED <<panelVars, progress, completion, gate, clearing, chat, events, gone, guardVars, run, streaming,
                   kept, cast, stale, consented, unseen>>

\* _deliver_answer on the event loop: cancellation may have come first.
Deliver(a) ==
    /\ a \in delivering /\ delivering' = delivering \ {a}
    /\ run' = IF At(a.question.turn, "waiting") THEN [run EXCEPT ![a.question.turn].heard = a.value] ELSE run
    /\ UNCHANGED <<pageVars, wireVars, guardVars, streaming, pending, kept, historyVars>>

\* --- The panel -------------------------------------------------------------------

Busy == phase # "idle"
InRequest == phase \in {"saving", "streaming", "opening", "acknowledging"} /\ ~aborted

\* _submitMessage: not while a command runs or another message is answered.  The note
\* being edited is saved first, through the command gate.
Send ==
    /\ ~Busy /\ gate = "free" /\ turn < MaxTurns
    /\ turn' = turn + 1 /\ aborted' = FALSE /\ outcome' = "none"
    /\ \/ phase' = "saving" /\ gate' = "save" /\ UNCHANGED chat
       \/ phase' = "streaming" /\ chat' = chat \cup {turn + 1} /\ UNCHANGED gate
    /\ UNCHANGED <<cardVars, clearing, answer, events, gone, serverVars, historyVars>>

SaveEnds ==
    /\ phase = "saving" /\ gate' = "free"
    /\ \/ /\ ~aborted
          /\ phase' = "streaming" /\ chat' = chat \cup {turn}
          /\ UNCHANGED <<outcome, run, failures>>
       \/ /\ IF aborted THEN UNCHANGED failures ELSE Counted
          /\ phase' = "closing" /\ outcome' = IF aborted THEN "stopped" ELSE "failed"
          /\ run' = [run EXCEPT ![turn] = Over]
          /\ UNCHANGED chat
    /\ UNCHANGED <<turn, aborted, cardVars, clearing, answer, events, gone, guardVars, streaming, pending,
                   delivering, kept, cast, stale, consented, unseen>>

Reading == phase = "streaming" /\ events # <<>>
Read(types) == Reading /\ Head(events).type \in types
Shown == [kind |-> Head(events).kind, sent |-> FALSE]

\* The stream is not read any more.
Leave(how) ==
    /\ phase' = "closing" /\ outcome' = how /\ card' = None
    /\ events' = <<>>

\* The turns nobody reads, when this one is left.
Abandoned == gone \cup {t \in {turn} : ~At(t, "ended")}

\* Mutated EndsStream: a stream that just stops is not noticed.
MutSilentEnd == {"refused", "end"}

\* Mutated EndsStream: the answer's last event ends the turn.
MutEndsStream == {"refused", "broken", "end", "done"}

EndsStream == {"refused", "broken", "end"}

\* The stream ends, or the request was refused or broke off.
ReadEnd ==
    /\ Read(EndsStream)
    /\ Leave(IF Head(events).type \in {"refused", "broken"} THEN "failed" ELSE "finished")
    /\ UNCHANGED <<turn, aborted, progress, completion, gate, clearing, chat, answer, gone, serverVars, historyVars>>

\* showConfirmationCard: not awaited, so that reading goes on.
ReadConfirm ==
    /\ Read({"confirm"})
    /\ card' = Shown
    /\ events' = Tail(events)
    /\ UNCHANGED <<panelVars, progress, completion, gate, clearing, chat, answer, gone, serverVars, historyVars>>

\* openProgress: tagging locks the page; the command gate is taken if it is free.
ReadScope ==
    /\ Read({"scope"})
    /\ card' = Shown /\ progress' = Shown.kind
    /\ gate' = IF gate = "free" THEN "operation" ELSE gate
    /\ events' = Tail(events)
    /\ UNCHANGED <<panelVars, completion, clearing, chat, answer, gone, serverVars, historyVars>>

\* handleBulkEvent: progress replaces the question, and disables Cancel while committing.
\* Without a question before it, openProgress finds no kind, and opens a panel for tagging.
ReadProgress ==
    /\ Read({"progress", "committing"})
    /\ card' = None
    /\ progress' = CASE Head(events).type = "committing" -> "committing"
                     [] progress = "none" -> "tagging"
                     [] OTHER -> progress
    /\ gate' = IF progress = "none" /\ gate = "free" THEN "operation" ELSE gate
    /\ events' = Tail(events)
    /\ UNCHANGED <<panelVars, completion, clearing, chat, answer, gone, serverVars, historyVars>>

\* The findings of a batch.  Outside a summary's panel this throws, and nobody tells the
\* server that its events are not read any more.
ReadPreview ==
    /\ Read({"preview"})
    /\ IF progress = "summary" THEN card' = None /\ events' = Tail(events) /\ UNCHANGED <<phase, outcome>>
                               ELSE Leave("failed")
    /\ UNCHANGED <<turn, aborted, progress, completion, gate, clearing, chat, answer, gone, serverVars, historyVars>>

\* Mutated Completed: without a progress panel the result is not kept.
MutCompleted(type) == IF progress = "none" THEN completion ELSE type

\* handleBulkEvent keeps the result in the panel, or as headlessCompletion.
Completed(type) == type

\* bulk_complete.  A summary that only asked for permission is closed at once.
ReadCompletion ==
    /\ Read({"changed", "unchanged"})
    /\ LET asksOnly == progress = "summary" /\ card # None
       IN  /\ completion' = IF asksOnly THEN "none" ELSE Completed(Head(events).type)
           /\ progress' = IF asksOnly THEN "none" ELSE progress
           /\ card' = None
           /\ gate' = IF asksOnly /\ gate = "operation" THEN "free" ELSE gate
    /\ events' = Tail(events)
    /\ UNCHANGED <<panelVars, clearing, chat, answer, gone, serverVars, historyVars>>

ReadText ==
    /\ Read({"done", "error"} \ EndsStream)
    /\ events' = Tail(events)
    /\ UNCHANGED <<pageVars, chat, answer, gone, serverVars, historyVars>>

\* executeAgentMenuRequest is awaited: nothing else is read meanwhile.
ReadMenu ==
    /\ Read({"menu"})
    /\ phase' = "opening"
    /\ events' = Tail(events)
    /\ UNCHANGED <<turn, aborted, outcome, cardVars, gate, clearing, chat, answer, gone, serverVars, historyVars>>

MenuOpens ==
    /\ phase = "opening" /\ phase' = "acknowledging"
    /\ UNCHANGED <<turn, aborted, outcome, cardVars, gate, clearing, wireVars, serverVars, historyVars>>

\* acknowledge_menu_result.  A refusal (another request changes the vault, or it came too
\* late) ends the reading, but nobody tells the server.
MenuAcknowledged ==
    /\ phase = "acknowledging"
    /\ IF SlotFree /\ operation = 0 /\ At(turn, "menu")
         THEN MenuEnds(turn) /\ phase' = "streaming" /\ UNCHANGED <<outcome, card, events>>
         ELSE Leave("failed") /\ UNCHANGED run
    /\ UNCHANGED <<turn, aborted, progress, completion, gate, clearing, chat, answer, gone, guardVars, streaming,
                   pending, delivering, kept, historyVars>>

\* The user answers the question on the page.
Click(value) ==
    /\ card # None /\ ~card.sent /\ InRequest /\ answer = None
    /\ card' = [kind |-> card.kind, sent |-> TRUE]
    /\ LET question == [turn |-> turn, kind |-> card.kind]
       IN  /\ answer' = [question |-> question, value |-> value]
           /\ consented' = IF value = "yes" THEN consented \cup {question} ELSE consented
    /\ UNCHANGED <<panelVars, progress, completion, gate, clearing, chat, events, gone, serverVars, cast, stale,
                   unseen, failures>>

\* The abort controller: a save goes on, a request or its stream does not.
Abort ==
    /\ InRequest /\ aborted' = TRUE
    /\ IF phase = "saving" THEN UNCHANGED <<phase, outcome, card, events, gone>>
                           ELSE Leave("stopped") /\ gone' = Abandoned

\* Stop in the composer, or Cancel in the progress panel while no question is shown and
\* nothing is committed.
Stop ==
    /\ Abort
    /\ UNCHANGED <<turn, progress, completion, gate, clearing, chat, answer, serverVars, historyVars>>

\* closeBulkProgress in the finally of _submitMessage; the page is refreshed when the
\* operation changed notes.
CloseProgress ==
    /\ phase = "closing"
    /\ phase' = IF completion = "changed" THEN "refreshing" ELSE "idle"
    /\ progress' = "none" /\ completion' = "none" /\ aborted' = FALSE
    /\ gate' = IF gate = "operation" THEN "free" ELSE gate
    /\ UNCHANGED <<turn, outcome, card, clearing, wireVars, serverVars, historyVars>>

\* A refresh that fails leaves the panel busy: _setBusy(false) comes after it.
Refresh ==
    /\ phase = "refreshing"
    /\ \/ phase' = "idle" /\ unseen' = {} /\ UNCHANGED failures
       \/ phase' = "stuck" /\ Counted /\ UNCHANGED unseen
    /\ UNCHANGED <<turn, aborted, outcome, cardVars, gate, clearing, wireVars, serverVars, cast, stale, consented>>

\* _clearSession: cancels the active request and waits for its end, then asks the server.
Clear ==
    /\ cast.clears /\ clearing = "no" /\ clearing' = "waiting" /\ turn > 0
    /\ \/ Abort
       \/ ~InRequest /\ UNCHANGED <<phase, outcome, card, events, aborted, gone>>
    /\ UNCHANGED <<turn, progress, completion, gate, chat, answer, serverVars, historyVars>>

ClearAsks ==
    /\ clearing = "waiting" /\ ~Busy
    /\ clearing' = "sent"
    /\ UNCHANGED <<panelVars, cardVars, gate, wireVars, serverVars, historyVars>>

\* clear_ai_session, or its refusal.
ClearArrives ==
    /\ clearing = "sent" /\ LockFree
    /\ clearing' = "no"
    /\ IF SlotFree /\ operation = 0 THEN streaming' = {} /\ kept' = FALSE
                                    ELSE UNCHANGED <<streaming, kept>>
    /\ UNCHANGED <<panelVars, cardVars, gate, wireVars, guardVars, run, pending, delivering, historyVars>>

\* The connection of the stream breaks.
StreamBreaks ==
    /\ phase = "streaming" /\ ~aborted /\ Counted
    /\ Leave("failed") /\ gone' = Abandoned
    /\ UNCHANGED <<turn, aborted, progress, completion, gate, clearing, chat, answer, serverVars, cast, stale,
                   consented, unseen>>

\* The window is loaded anew.
Reload ==
    /\ turn > 0 /\ Counted
    /\ phase' = "idle" /\ aborted' = FALSE /\ outcome' = "stopped" /\ events' = <<>>
    /\ card' = None /\ progress' = "none" /\ completion' = "none" /\ gate' = "free"
    /\ clearing' = IF clearing = "sent" THEN "sent" ELSE "no"
    /\ gone' = Abandoned /\ unseen' = {}
    /\ UNCHANGED <<turn, chat, answer, serverVars, cast, stale, consented>>

\* --- Specification ------------------------------------------------------------------

Panel ==
    \/ SaveEnds \/ ReadEnd \/ ReadConfirm \/ ReadScope \/ ReadProgress \/ ReadPreview \/ ReadCompletion \/ ReadText
    \/ ReadMenu \/ MenuOpens \/ MenuAcknowledged \/ CloseProgress \/ Refresh \/ ClearAsks

User == Send \/ Stop \/ Clear \/ \E value \in {"yes", "no"} : Click(value)

Turn(t) ==
    \/ Decide(t) \/ Orphaned(t) \/ Acquire(t) \/ Resume(t) \/ BatchEnds(t) \/ BatchesEnd(t) \/ Apply(t) \/ Finish(t)
    \/ EndTurn(t) \/ MenuTimesOut(t) \/ Cancelled(t)

Server ==
    \/ AnswerArrives \/ ClearArrives
    \/ \E t \in Turns : ChatArrives(t) \/ ChatDropped(t)
    \/ \E a \in delivering : Deliver(a)

Others ==
    \/ StartCommand \/ EndCommand
    \/ \E r \in cast.requests : EnterRoute(r) \/ LeaveRoute(r)

Failures == StreamBreaks \/ Reload \/ \E t \in Turns : InferenceFails(t)

Next == Panel \/ User \/ Server \/ Others \/ Failures \/ \E t \in Turns : Turn(t)

Spec == Init /\ [][Next]_vars

\* The event loop and the page go on; the model answers; the user need not act.
FairSpec ==
    /\ Spec
    /\ WF_vars(Panel)
    /\ \A t \in Turns : WF_vars(Turn(t))

\* --- Properties ----------------------------------------------------------------------

\* While an operation has the vault no other request is past its check, except one that
\* saves preferences; and there is at most one such request at any time (acquire,
\* track_mutation, _check_bulk_guard), although uploads take the slot without the lock.
OperationIsAlone ==
    /\ operation # 0 => inside \subseteq {"preferences"}
    /\ \A r1, r2 \in inside : r1 = r2

\* Proposals are applied only for the turn whose own question the user answered with yes,
\* and to the notes as they were at Send (stream_generation, stream_review, answer).
ChangeIsConsented ==
    [][ \A t \in unseen' \ unseen :
          t \notin stale /\ [turn |-> t, kind |-> run[t].kind] \in consented ]_vars

\* A chat that is idle has no card, no lock and no command gate left; and when its turn
\* ended by itself, the server has finished with it too, so that the next Send is not
\* refused on its account (_submitMessage, closeBulkProgress, ChatTurnStream.events).
IdleChatIsClean ==
    ~Busy => /\ card = None /\ progress = "none" /\ gate \in {"free", "command"}
             /\ outcome = "finished" => /\ At(turn, "ended") /\ turn # operation /\ turn \notin streaming
                                        /\ \A q \in pending : q.turn # turn

\* What a turn that ended by itself applied is on the page (handleBulkEvent, closeBulkProgress).
AppliedChangeIsShown == ~Busy /\ outcome = "finished" => turn \notin unseen

\* The findings of a batch reach a panel that shows a summary: handleBulkEvent throws "Only
\* summary operations may render batch previews", and docs/ui/ai-chat.md has a summary that
\* is continued show its progress.
PreviewsAreOfSummaries == Read({"preview"}) => progress = "summary"

\* A turn that was stopped, cut off or left by its window does not keep the vault
\* (BulkOperationGuard.acquire, ChatTurnStream.events).
VaultIsFreed == \A t \in Turns : operation = t /\ t \in gone ~> operation # t

\* The composer comes back after Stop, and after the server ended the turn, unless the
\* refresh at the end failed (_submitMessage).
ComposerComesBack == Busy /\ (aborted \/ At(turn, "ended")) ~> phase \in {"idle", "stuck"}
=============================================================================
