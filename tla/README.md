# MetaList in TLA+

MetaList is an outliner: one Python server per vault ("namespace") keeps a tree of
notes in SQLite and in memory, and browser windows show and edit it. This directory
models the parts of it where order, failure and several actors matter, on the server
and in the browser. Paths below are relative to the repository; names that end in `.js`
are below `app/static/js/modules`.

| module | what it is |
| --- | --- |
| `NoteOrdering` | the linked hierarchy as values: tables, stores, `insert`, `remove`, loading, the SQL updates |
| `NoteCommands` | the structural commands as requests that apply, then commit or fail; restarts |
| `SiblingLists` | abstract: an ordered list of children per note, one note changes place at a time |
| `UndoHistory` | the undo and redo stacks of several windows on top of `NoteCommands` |
| `LiveRecovery` | the rollback journal around a restore, an import or a change of password, file operation by file operation |
| `AtomicVault` | abstract: such a change happens to all files at one moment, and what a loss of power can leave |
| `EditSession` | editing in one window: the command gate, save and autosave, the view requests everything shares |
| `TreeDiff` | the server's difference between two views of the list, and what the page becomes when it applies it |
| `DiagramEditor` | one drawing edited in several windows: autosave, revisions, Done and Discard, undo steps, previews |
| `AssistantTurn` | turns of the AI assistant: the chat panel, its question cards, the guard that gives an operation the vault, the server's end |
| `MCNoteCommands`, `MCUndoHistory`, `MCLiveRecovery`, `MCEditSession`, `MCTreeDiff`, `MCDiagramEditor`, `MCAssistantTurn` | small instances, symmetry, bounds, refinement mappings for TLC |
| `NoteOrdering_proofs`, `NoteCommands_proofs`, `SiblingLists_proofs`, `LiveRecovery_proofs`, `AssistantTurn_proofs`, `UndoHistory_proofs`, `DiagramEditor_proofs`, `EditSession_proofs` | the proofs |

`NoteOrdering`, `NoteCommands` and `UndoHistory` build on each other; `SiblingLists` and
`AtomicVault` are what `NoteCommands` and `LiveRecovery` implement. The browser modules
each contain the part of the server they talk to: `EditSession` the stored texts and the
warm view, `TreeDiff` the hierarchy as lists, `DiagramEditor` the file's row,
`AssistantTurn` the guard and the turn.

A definition named "Mutated X" in the line above it is X with a plausible bug. No
specification uses it; it stands beside X to show which property would notice.
`PROJECT.json` gives for every definition the lines of code it models.

## 1. Inventory

**Note ordering and hierarchy** (`app/services/note_ordering.py`, `hierarchy.py`).
State: per note a parent and the siblings before and after it; per parent a head and
a tail. Operations: `insert`, `remove`, `children`, `from_records`,
`validate_database_parent`. Hard: the head/tail index and two neighbours are updated
by deltas, and a forgotten one shows only many commands later. Correct when every
list is one chain with a matching index, in a forest of bounded depth.

**Note store and notes table** (`services/note_store.py`, `services/store.py`,
`db/notes_sql.py`). State: the same columns twice, as records in memory and as rows.
Operations: load, reset, add, move, bulk move, remove, collapse; every usecase repeats
the memory change in SQL. Correct when memory is what a load of the rows would give.

**Structural commands** (`app/usecases/`). Create (note, child, sibling, file
preview), delete, move, indent, outdent, move to top and bottom, prioritize, collapse,
expand; alphabetize, paste, split and bulk collapse use the same functions on several
notes. Correct when each changes one note's place and nothing else.

**Undo and redo** (`services/undo_state.py`). State: per window a history and a redo
stack with the positions each command saw. Hard: the vault may have become another
one, through other windows, failed requests, restarts and dropped history.

**Request transaction and recovery** (`db/session.py`, `services/request_recovery.py`,
`api/transactions.py`). One lock and one transaction per mutating request. Hard: memory
changes before the commit; a failure reloads the vault from the database, which fails
for good if what is committed does not load.

**Live recovery journal** (`db/live_recovery.py`). State: files. Images of both
databases and a manifest before the first live write, a mark to end the change. Hard:
a stop or a loss of power between any two file operations, also during recovery.

**Backups** (`services/backup_service.py`). Archives beside the vault; a restore is a
journaled change.

**Bulk operation guard** (`services/bulk_operation.py`, `api/transactions.py`,
`services/agent/tagging_run.py`). One long AI operation beside ordinary requests, with
questions answered by another request, and cancellation. Hard: synchronous routes in a
thread pool against the event loop.

**Views** (`services/view_diff.py`, `view_cache.py`, `api/routes/notes.py`, and
`differential-view-service.js` in the browser). The server remembers the view it
believes a window shows (the warm view) and sends differences. Hard: lost responses;
several changes in one difference; a difference applied to a page that is not the
recorded one, or whose animations have not ended.

**Editing in the browser** (`mode-manager/mode-context.js`, `actions/`,
`services/command-gate-service.js`, `infinite-scroll-service.js`). State: the edit
session (the note, its text, dirty or not), the elements of the page, view requests in
flight. Commands hold a gate; autosave, infinite scroll, link titles and connectivity
checks run beside them. Hard: every `await` lets the others in. Correct when no typed
text is lost, one view request is under way at most, and every command ends.

**Diagram editor** (`excalidraw/excalidraw-editor-service.js`, `excalidraw-autosave.js`,
`excalidraw-preview-service.js`; `services/file_edit_sessions.py`,
`usecases/file_edit_session.py`, `services/file_storage.py`). State: a scene and an
autosave timer per window; a file with a revision and previews, and open sessions with
the snapshot they began with, on the server. Hard: two windows on one diagram, lost
answers, strokes drawn while a save or Done is under way.

**AI chat panel** (`ai-chat/ai-chat-panel-controller.js`, `bulk-proposal-ui.js`,
`confirmation-card.js`, `agent-menu-actions.js`, `ai-chat-api.js`) **and assistant
runtime** (`services/ai_chat.py`, `ai_chat_stream.py`, `services/agent/`). State: the
panel's request and cards; the transcript, pending questions and kept batches. A turn
streams events to the panel, waits for answers that come as other requests, and may hold
the vault. Hard: Stop, Clear Chat, reloads and broken streams at any moment.

**Tag inheritance and search index** (`note_store.py`, `search_index.py`,
`shared_sets.py`, `tag_ontology.py`, `backlink_index.py`). Tags propagate to
descendants, incrementally. Correct when equal to a rebuild.

**Sessions, note locks, clipboards** (`tokens.py`, `sync.py`, `tab_state.py`). One
session with an owner tab; per-window state evicted when there are too many.

**Unlock, hydration, maintenance** (`hydration_state.py`, `maintenance_mode.py`,
`runtime_generation.py`, `api/routes/auth.py`). Loading runs in the background of an
unlock and must notice that the vault was locked or restored meanwhile.

**Others**: content and tag commands (no effect on order), namespace workers (processes
and files), cryptography, rendering, reminders, files, link titles, search history, and
the rest of the browser's user interface. `PROJECT.json` lists each with the reason it is
left out or planned.

How they interact: a request takes the guard, opens a transaction, reads and changes
the store through a usecase, records an undo operation, and commits; on an exception
`request_recovery` restores the undo stacks and reloads the store. A restore or import
wraps the same transaction in the journal. After the command the browser asks for a view,
and the view module computes what the window must change. The diagram editor uses the
same requests and the same undo history; an operation of the assistant makes the guard
refuse every other request that changes notes until it has ended.

## 2. Plan

Done, in this order:

1. `NoteOrdering`, `NoteCommands`, `SiblingLists` and their proofs: the tree everything
   else shows and changes.
2. `UndoHistory`, `LiveRecovery`, `AtomicVault` and their proofs, undo of one window being exact.
3. `EditSession` with its proofs, and `TreeDiff`: what a window does between two requests,
   and what it shows. Abstractly: the page shows a view the server had, and no typed text is
   lost.
4. `DiagramEditor` and `AssistantTurn` and their proofs.

Left:

5. `NoteCommands`: alphabetize, paste, split and bulk collapse; a module for TLC only
   that runs the loop of `from_records` against `Ordered` on every small table.
6. `UndoHistory` with texts: undo of a note's content that another window has edited.
7. `TagInheritance`: incremental propagation against a rebuild.
8. `Hydration`: unlock, lock, restore and a late loader; `ClientState`: eviction of
   windows, their clipboards and sessions; `TabViews`: several tabs and their warm views.
9. To be proved: what the folds of `TreeDiff` compute (section 5).

## 3. How the models correspond to the code

### NoteOrdering, NoteCommands

A *table* is the columns `parent_id`, `prev_id`, `next_id`, `is_collapsed` and the set
of ids that exist; a *store* adds `heads` and `tails`. `store` is the `NoteStore`,
`rows` the notes table as the open transaction sees it, `db` the committed one.

A request is two steps. The command changes `store` and `rows` and makes `phase`
"applied" (or "raised" when an assertion or lookup of the code fails, "refused" when
that is before anything was written). Then `Commit`, or `Rollback` with a reload, or
`RollbackNothing`. Requests do not interleave, because `transactional_route` holds the
guard's lock from its first statement to its last. `Restart` can come at any time.
`serving` becomes FALSE when a reload does not accept what is committed.

Choices worth knowing:

* A guard that makes the code raise before it changes anything (an unknown note, a
  parent too deep, a sibling that is itself) disables the action: the request has no
  effect. Assertions after that point are *not* guards; they lead to "raised".
* `Subtree`, `LaterSiblings` and `HierarchyValid` are stated as least sets and as the
  existence of depths rather than as walks. That is what the walks compute, and it
  needs no recursion in a module with proofs.
* `from_records` follows pointers and raises when it meets something wrong. `Ordered`
  states when it does not raise.
* Views narrow some commands to what a search shows: `MoveToTop` and `CreateNote` take
  any earlier root, `Prioritize` any set of roots, `Indent` any earlier sibling.
* Collapse is modelled for notes that show their own content; a note that shows another
  one's keeps the flag of that one.
* The abstract `SiblingLists` takes `Next` over places, never over pointers.

### UndoHistory

`stacks[c]` is the entry of `_clients` for a window, `captured` what
`capture_undo_state` took when the request began. An entry holds the operation as the
code keeps it and two auxiliary fields (the order before and after the command) that
guard nothing and that the history properties compare. A new note has an id that no
undo step names, because ids are uuid4. `DeleteAndFocus` contains the look-up of the
root above the note to focus, which raises when that note is gone. The folding
`CmdIndent` may undo on the new parent is not undone by undo of the move; `Order`
therefore leaves `collapsed` out.

### LiveRecovery

`live` and `place`/`entries` are what programs see of the database files and of the
journal directory; `liveKept` and `metaKept` what a loss of power can leave: every
value since the last fsync. One action per file operation of `_write_snapshot`,
`commit` and `_recover_locked`. `Stop` is the end of the process or an exception out of
a recovery; `PowerLoss` picks from `liveKept` and `metaKept`. `WriteLive` in "writing"
is the restore's or import's own writes; in "idle" an ordinary request, which has no
journal and may be lost.

Assumed of the system below: changes of names (create, rename, remove) reach the disk
in the order they were made, as on journaling file systems; contents in any order; a
fsync of a file SQLite created keeps its name; a SQLite commit is atomic per file;
the file lock keeps other processes out. The order of names is needed: a start that
finds a `.finished` directory removes it without first syncing the directory above.
On Windows `_sync_directory` does nothing and these assumptions do not say enough.
The images are removed in one step of the sweep, which loses no case: some images are
no better than none.

### EditSession

One window. `editing`, `current`, `content`, `dirty`, `hasEdits` and `connected` are
`ModeContext`'s fields; `page` and `editable` the elements of the notes; `server` the
stored texts and `warm` the view the server believes the page shows. JavaScript runs to
completion, so a command is the list `todo` of its remaining steps, and only a step in
`Awaits` lets anything else happen. `views` are the view requests under way, each with
what it asked for and, once `built`, what it answers; `waiting` the callers that poll for
the slot. `session` names the background work and the commands of an instance.

A text is a number, "stored" as written or "rendered". A response never counts as
"editing by the current client", because the server never takes a note lock:
`acquire_note_lock` (`app/services/sync.py`) has no caller. `owed` remembers the last text
typed into a note until the code itself gives it up (the note is deleted, the edit
undone, the connection lost) or a response has replaced it; the last happens also to an
editor opened while a link-title refresh was waiting that was asked for outside an edit.

### TreeDiff

One tab. `lists` is the hierarchy of the notes the list shows as sequences, `warm` the
server's view with the hash of every note, `page` the elements as sequences of children,
`shut` those drawn collapsed, `fading` the children an animation will remove. Contents are
left out: of a note's hash the model keeps what depends on the hierarchy. `GenerateDiffOps`
is `view_diff.py`, `ApplyServerDiffOps` and `RenderStructure` are the two ways
`differential-view-service.js` uses an answer, operation by operation and index by index
as the code counts them. `RequestView` builds and records the view in one step (the route
holds the lock), `ReceiveView` applies the answer, `LoseResponse` drops it. `news` and
`inStep` are history: whether every answer so far was of one change and met a still page.

### DiagramEditor

`file` is the row (content, revision, preview, and the revision the preview is tagged
with), `sessions` and `history`/`redo` the server's editing sessions and undo steps,
`phase`, `edit` and `autosave` a window's editor, `page`, `cache` and `fetching` the
preview its page shows. A scene is a set of strokes. What a request carries is fixed when
it is sent (`Send`); the server handles it in one step (`Serves`), and the request or its
reply may be lost (`Loses`). `Continues` is what the editor does next by itself: timers,
answers, the steps of Done and Discard. The light and dark previews are one; Discard stands
for its second, confirming, click; a reload drops the editor and its request and keeps the
window's identity. Undo and redo of the diagram come through the window's history. A session's
id, a random uuid, is the least number that no session, editor or message names.

### AssistantTurn

`phase` and `outcome` are `_submitMessage`, `card`, `progress` and `completion` what the
panel shows, `gate` the command gate of the window. `chat`, `answer` and `events` are on
the wire; `gone` are the turns whose reader has left. `inside` and `operation` are the
guard, `run` the turns on the server, `streaming` their transcripts, `pending` and
`delivering` the questions and the answers on their way to the event loop, `kept` the
batches of a summary that did not finish.

A synchronous route keeps the guard's lock from its check to its end (`LockFree`); an
upload is asynchronous and only takes the slot (`SlotFree`). A request that is refused
changes nothing and is no step. `stale` stands for the sync uuid: the turns since whose
Send a request or an operation changed notes (`NewUuid`). `manage_bulk_proposals`, which a
menu calls, acquires the vault, applies and lets go without a question; for a turn it is one
more request that changes notes ("other"). A disconnection reaches a turn where it awaits
something (`Cancelled`), an assumption on the server library: a stream closed at a `yield`
instead would end without a record of its failure. `Apply` awaits nothing. A provider may
fail while the model decides, works on batches, or writes the final answer of a summary whose
result is out already (`WritesAnswer`). What the model decides, and whether it has anything to
propose, is free. Simplified: a summary has two batches; a summary that
fits into one request asks nothing and behaves like an answer, and so does an answer to
the question about a shorter prefix; pages and a menu come once each per turn; of the
buffered events of a chunk none is handled after Stop.

## 4. What the runs check

| run | instance | result |
| --- | --- | --- |
| `note_commands` | 4 notes, depth 3 | the tree loads, memory matches rows, no assertion fails, refines `SiblingLists` |
| `one_window` | 3 notes, depth 2, history of 2 | undo and redo restore the exact order; no undo step ever fails |
| `two_windows_memory` | 3 notes, depth 1, history of 1, 2 windows | the tree in memory stays well formed |
| `two_windows_database` | 3 notes, depth 2, history of 1, 2 windows | **violated**: an undo commits rows that do not load |
| `live_recovery` | 2 files, 2 contents, 2 interruptions, fairness | atomic change, no refusal, durable answers; every recovery ends |
| `editing_races` | 2 notes, 1 text; all background work, or all commands and 1 failure; fairness | no typed text lost, one view request, every command ends |
| `editor_replaced` | 2 notes, 2 texts, infinite scroll | **violated**: a refresh replaces the text being edited |
| `page_follows_view` | 3 notes, lost responses | the page shows the view, one change at a time |
| `snapshot_order` | 6 notes, 4 shown | **violated**: the page shows another order than the view |
| `diagram_windows` | 2 windows with 1 stroke each, or 1 with 2 strokes and a page; 1 failure; fairness | no stroke of another window lost, nothing unsaved forgotten, every editor comes to rest |
| `assistant_beside_requests` | 2 turns, 5 casts; fairness | an operation is alone, changes are consented and shown, vault and composer are freed |
| `summary_continued` | 2 turns that summarize | **violated**: findings reach a tagging panel |

`CommittedTreeLoads`: what is committed loads; otherwise the vault cannot be opened.
`MemoryMatchesRows`: memory is what a load of the rows would give, on every column and
on the index. `NoAssertionFails`: no command finds its neighbours gone.
`ImplementsSiblingLists`: seen from the database a request moves one note, or regroups
the roots, or does nothing. `UndoRestoresOrder`, `RedoRestoresOrder`: the order before,
or after, the command reversed or repeated, whatever was undone, redone, failed and
rolled back in between. `MemoryStaysOrdered`: `MemoryMatchesRows` is too much to ask
when windows interfere (see below), but the tree in memory stays sound.
`ImplementsAtomicVault`, `RecoveryNeverRefuses`, `AnswerIsDurable`, `VaultOpensAgain`:
all files or none; no manifest without its images; a change reported as made cannot be
lost; recovery ends.

`TypedTextIsKept`: what the user typed is stored, or in an editor that knows it has edits.
`OneViewRequest`: whoever asks for a view, and waits for the slot, one is under way; the
warm view is then what the page gets next. `AutosaveStaysDirty`: the autosave's answer
meets a note still marked as edited, as its strict setter demands. `LeftNoteIsRendered`: a
note that is left does not stay in its raw form. `GateIsFreed`: every command ends, also
those that wait for the view slot beside loops that ask again and again.

`PageFollowsView`: the difference between two views, applied to the page of the first, is
the page of the second; it holds one change at a time (below).

`SavedMeansStored`, `NoChangeIsForgotten`: "All changes saved" is true, and what is not
saved has a timer or a save under way. `OthersStrokesSurvive`, `UndoStepsAreOnesOwn`:
saves, discards and undo steps keep to one window's work. `StoredPreviewsAreComplete`,
`PageShowsWhatItAskedFor`: previews are not older than their tag says, and late answers
never show. `EditorComesToRest`: drawing gets saved, Done and Discard end.

`OperationIsAlone`: no request that changes notes is past its check while an operation has
the vault. `ChangeIsConsented`: proposals are applied only for the turn whose own question
was answered with yes, and to notes nobody changed since. `IdleChatIsClean`,
`AppliedChangeIsShown`: a chat that is idle has left no card, lock, gate, question or
unshown change. `VaultIsFreed`, `ComposerComesBack`: a turn nobody reads gives the vault
up, and the user can write again.

**Bounds.** Four notes are the smallest vault in which a subtree of two moves between
two other notes of another list; an operation touches a note, its two old and its two
new neighbours, some of which are then the list's ends. `MaxDepth` 3 with 4 notes makes
the limit bite. In `one_window` depth 2 does so with three notes (depth 3 was also
explored: 363 thousand states, no violation). A history of 2 makes it overflow, and undo,
failure and redo mix freely; operations are not bounded. In `two_windows_memory` the
depth is 1 and no note is folded (`NothingFolded`; folding reads and writes no link),
and `VIEW WithoutAuxiliary` leaves the auxiliary fields out of a state's identity, which
is sound because they guard no action and the run checks no history property. `MaxStops`
2 allows an interrupted change and an interrupted recovery; three were also explored
(928 thousand states, no violation) but take too long for every day. Symmetry: ids,
windows, files and contents are only compared for equality; runs with fairness use none.

`editing_races`: one note exists and one can be created, which is what switching, leaving
and deleting need; one new text tells the stored, the sent and the typed one apart. The two
sessions split the state space: races of all background work with the commands that start,
leave and extend an edit, and every command with one failure. All commands and all
background work without failures were also explored (11.2 million states, safety only).
`page_follows_view`: three notes have every parent, sibling and ancestor relation one change
can disturb, and CONSTRAINT `InStep` cuts behaviours where the property says nothing any
more; differences of a single change were also compared, outside TLC, for all forests of up
to five notes. `snapshot_order` needs six notes: with five flat ones the page comes out
right. `diagram_windows`: one stroke per window shows whose work is lost, two strokes let a
save overlap drawing; one open session (8 in the code) makes the limit bite; revision 3 was
also explored (818 thousand states, safety only). `assistant_beside_requests`: two turns,
because what a turn leaves behind meets the next one; five casts, because everything at once
is too much for liveness (all requests, kinds and no failure: 1.7 million states, safety
only).

Deadlock is checked except in `diagram_windows`, `assistant_beside_requests` and
`summary_continued`, where the drawing is done, or the chat answered, and nobody need act.

**Fairness.** `live_recovery`: weak fairness of opening, recovering and changing together
(synchronous code goes on until it is interrupted; after a stop the server is started
again, and `_prepare_namespaces_for_startup` recovers every namespace, as does every new
connection). Nobody has to begin a change, to write, or to stop. `editing_races`: of the
running command (JavaScript tasks are run), of the callers that poll for the view slot, of
the server's answers and of the background requests' answers. `diagram_windows`: of what a
window's editor does next, timers included, and of the server's answer to it.
`assistant_beside_requests`: of the panel's next step and of each turn's; arrivals of
requests at the server are not assumed fair. In none of them the user must act, and no
failure must happen or be repaired.

**The findings.**

* `two_windows_database`. `apply_restore_records` (`app/usecases/delete_subtree.py:82`)
  writes the `prev_id` and `next_id` a note had when the operation was recorded, whereas the
  store resolves a missing neighbour from the list as it is. One window deletes or creates
  a note, the other changes the same list, and undo (or redo) of the first commits two heads
  or two tails under one parent. Memory looks right until the next start or failed request;
  `load_from_db` then refuses the vault. `docs/REFACTORS.md:26` names "reciprocal links,
  connected siblings" as the invariants.
* `editor_replaced`. `docs/design/differential-view-protocol.md:157` promises that a refresh
  preserves an editor with edits. The browser does so only for a note the response calls
  locked by this client, and no note is ever locked. The user types, the autosave stores the
  text, the user types on, infinite scroll refreshes: the autosaved text is back in the
  editor.
* `snapshot_order`. `diffSiblingOrder` (`differential-view-service.js:390`) removes siblings
  without renumbering the others, which the server's version does. A page with the roots
  a, b, c, d that is given c, e, f, d, a shows c, e, f, a, d, and later differences build on
  that.
* `summary_continued`. A summary that continues one that was stopped asks nothing, so the
  panel's first event carries no kind and a tagging panel opens; the first findings of a
  batch then throw (`bulk-proposal-ui.js:132`), and the panel stops reading a turn that goes
  on. `docs/ui/ai-chat.md:37` describes continuing a summary.

**Also seen while modelling**, and shown by the models, but stated by no document as
strictly as a property would need:

* Views: with several changes in one difference, with a view applied while a collapse
  animation runs, or after a lost response, `PageShowsWarmView` fails; hence `PageFollowsView`
  speaks of one change and a still page.
* Editing: after several failures a stored text can be overwritten by an older one. The refresh
  after a note is left fails, and a late answer to infinite scroll has left the note's old text
  on the page; the response to selecting another note is lost; a connectivity check fails while
  that note has unsaved edits, and `dirty` outlives the edit
  (`clearEditingStateForDisconnect`); the response to selecting the first note is lost too. A
  move then adopts the page's old text for it, and the autosave, as `dirty` is set, stores it.
* Diagrams: with all editors closed a page at the present revision need not show the stored
  preview, because Done stores previews without a new revision and pages cache by revision
  (`docs/ui/excalidraw.md` has Done refresh every copy on screen). Strokes drawn while Done
  runs are no edits. When the reply of an accepted save is lost the retry conflicts with it,
  and Discard then leaves the file as it is. A snapshot taken while the previews were stale is
  restored with them, tagged as current. Undo and redo compare no revision and write over
  another window's later work.
* Assistant: a refused acknowledgement of a menu (an autosave has the slot) ends the turn in
  the panel only; the server's turn goes on and may ask a question nobody sees, holding the
  vault until a reload. When the refresh after a change fails, `_setBusy(false)` is not
  reached and the composer stays busy: `ComposerComesBack` allows that one end. Send right
  after Stop may be refused with 409 because the turn still ends. A Stop during "committing"
  applies the proposals without a refresh. Send is not prevented during the request of Clear
  Chat. `_loadSession` of one turn can replace the messages of the next Send. The condition
  `active_mutations > 1` of `_check_bulk_guard` never holds. A command that runs when the
  question about the scope arrives keeps the progress panel from taking the command gate.

Of the hazards in `PROJECT.json` around these, four are covered by no property: lost view
responses, a view applied during a collapse animation, a waiting refresh that keeps the edited
note of the moment it was asked for, and snapshots of stale previews. Three others are covered
in part, and their notes say which part is left: pictures cached by revision, strokes drawn
after Done was pressed, and the composer after a refresh that failed.

## 5. What is proved

For any finite set of notes and any depth limit, under the assumptions of
`NoteOrdering` (`NotesAssumption`, `NullAssumption`, `MaxDepthAssumption`):

* `StoreTypeCorrect`, `StoreInvariant`, and from it `CommittedTreeAlwaysLoads`,
  `MemoryAlwaysMatchesRows`, `RecoveryAlwaysSucceeds` and `AssertionsNeverFail`, all about
  `StoreSpec`.

The properties are not inductive: that `rows` load says nothing of `heads` and `tails`,
from which the next `insert` takes its anchors. `StoreInv` says that `rows` are exactly
the store's columns, that the store is *sound* (a forest within the limit, every list
one chain, the index naming its two ends) and that `db` loads. `NoteOrdering_proofs`
has the lemmas: `insert` and `remove` keep lists and index (`LinkInOrdered`,
`LinkInIndex`, `LinkOutOrdered`, `LinkOutIndex`), a subtree is closed and may go
(`SubtreeClosed`, `DropOrdered`), depths exist after each change (`HierarchyWithNew`,
`HierarchyWithMoved`, `HierarchyWithout`), the SQL statements make the same columns
(`InsertRowMatches`, `ClosedGapMatches`, `DropRowsMatches`, `LinkInOrderMatches`), and a
sound store is what loading its columns builds (`StoreIsHydrated`). `NoteCommands_proofs`
has one lemma per `apply_*` function and one case per command.

`AssertionsNeverFail` says of `StoreSpec` that no command raises: a sound store lets every note out of its list (`LinkOutSucceeds`) and into every
gap it is not an edge of (`GapAcceptsMove`), and that each command aims at such a gap. Two
commands need more than the links around it: `LaterSiblings` never reaches back to where it
started (`LaterIsAfter`), and the parent's parent is above the moved subtree
(`OutdentAllowed`). The chain check of a reordering holds because an order of the roots
numbers each of them once (`OrderLinks`, `OrdersAreChains`).

* `CommitsAreListSteps`: `StoreSpec` implements `SiblingLists` (`ImplementsSiblingLists`).

The abstract lists are what `Children` returns of the committed rows, a walk along `next`.
`SiblingLists_proofs` says without the walk what a list is (`IsList`): a sequence of notes that
holds exactly the notes under one parent, each linked to the one before and the one behind it.
A parent has at most one (`ListUnique`), the walk from the head gives one (`ChainExists`: notes
from which no chain reaches an end would be a ring, and `NoRings` has none), and a note put into a gap, taken out or renumbered leaves lists again
(`ListInserted`, `ListRemoved`, `ReorderedStep`). Between two commits the store may be one
change ahead of the database, and never more; `ListsInv` keeps that change (`Changed`: created,
moved, deleted, regrouped, or nothing but a flag) from the command to its commit, where it is
one step of `SiblingLists` (`ChangedStep`), while a rollback or a restart drops it.

For any finite set of notes, any number of windows and any length of the histories, under the
same assumptions and `UndoOperationsAssumption`:

* `UndoInvariant`, and from it `MemoryAlwaysOrdered`, about `UndoSpec`.

Undo breaks `StoreInv`: a restored row keeps the anchors it was recorded with, in a vault another
window has changed since, so rows and store may come to differ in their links, and a commit may
even leave rows that do not load (`two_windows_database`). `UndoInv` is what survives: the store
is sound, the rows have its notes and its nesting as long as the server serves (`SameTree`, from
which the checks of a parent are answered), and the stacks hold what an operation is made of. No
lemma may say anything of the places an operation names: `LinkInSound` shows that the anchors
`insert` itself accepts are a gap, wherever they came from. Two recursive functions are reasoned
about without the library's induction theorems, by a counterexample nothing is smaller than:
the walk of `SubtreeRecords` has a solution on every sound store, because any set of notes has
one whose first child and next sibling are outside it (`LastOfDeepest`: the last of the deepest
ones), and so does a batch of `Restored`, each step of which keeps the store sound
(`RestoreStepFits`).

If there is one window (`OneWindow`: any two members of `Clients` are equal), with any notes,
any depth and any length of the history:

* `WindowInvariant`, and from it `UndoIsExact`, `RedoIsExact`, and `OneWindowIsSafe`: undo and
  redo give back exactly the order, and commit only rows that load, keep memory what a load of
  the rows would give, and meet no failed assertion.

`WindowInv` keeps `StoreInv`, which two windows break, and adds that the stacks *lead* from the
order of the store back through the history and on through the redo stack (`HistoryLeads`,
`RedoLeads`): the newest operation became the present order, what it was is what the one below it
became, and each operation `Reverses`, that is, it tells its two orders apart by the place of a
note or by the list of a subtree. What was captured leads in the same way from the committed
order, which a rollback brings back. An undo then always finds the order its operation left, so
its place is a gap that has not changed. That an operation reverses takes the three kinds of
inverse: a move back gives the order back (`MoveGivesOrder`), a deletion does of what was
created or restored (`DeleteGivesOrder`), and a batch of records does, one note at a time
(`RestoreGivesOrder`), provided it lists every note after its parent and its previous sibling
and before its next one (`Listing`). `SubtreeListed` shows that `_snapshot_subtree` makes such a
list. Its walk is a recursive function, and no induction theorem can be used; what it lists from
a note on is the note, then what it lists from its first child, then from its next sibling
(`WalkedStep`), and notes that it skipped or listed twice or out of order would have a last
deepest one among them (`WalksAreWalked`, `WalkCovers`).

For any finite set of database files, any contents and any number of interruptions:

* `RecoveryInvariant`, and from it `RecoveryTypeCorrect`, `RecoveryNeverRefusesAnywhere`,
  `AnswersAreDurable`, and `RecoveryImplementsAtomicVault` (the refinement).

`RecoveryInv` adds to the properties where the journal is at each step (`Position`), that
no live file has been touched while the names on disk may still lack the journal
(`JournalFirst`), that a removed file is not on disk any more (`AbsentForGood`) and that
after the mark is synced nothing a power loss leaves is pending (`MarkIsKept`). The
refinement proof sorts the steps by what they do to the set of survivors: they narrow it
(syncs: `Narrowed`), rename the journal without changing any vault (`Renamed`), write
behind the journal (`Shielded`), or are the moment of the change (`ReadyRefines`,
`MarkRefines`).

For any number of turns, any casts and any number of failures, under `AssistantAssumption`:

* `TurnTypeCorrect`, `OperationsAreAlone`, `ChangesAreConsented`, `IdleChatsAreClean` and
  `AppliedChangesAreShown`, about `Spec`.

`OperationIsAlone` is inductive by itself: whoever enters looks at the slot and at the
operation in one step. `TypeOK` is not, since the record of a question takes its kind from the
turn's; `Types` adds which kind a waiting or acquiring turn has (`KindsFit`), which kind the
events on the wire carry (`EventsFit`) and that a turn whose message is still under way has
not begun (`ChatFits`). `ChangeIsConsented` looks one step back; `TurnInv` follows the click
forward to it: a "yes" that is on the page, accepted, delivered, heard, being worked on or
about to be applied is one the user gave to that turn's own question, or its turn has ended
(`AnswersFit`). A turn can ask again, so a late answer must not be taken for the next question's:
a question is pending, or its one answer is on the way, or its turn is over (`QuestionsFit`).

What the panel shows when no request runs (`IdleChatIsClean`, `AppliedChangeIsShown`) depends
on what is still on the stream, so it needs `ChatInv` on top of `TurnInv`: cards, progress, the
command gate and the events on the wire belong to the turn whose stream is read (`PanelFits`);
the server works only for a turn whose stream it serves (`ServingFits`); the last event of a
stream comes when the server is done with the turn (`StreamFits`), after at most one result
(`ResultFits`); a turn that writes a summary changes no notes (`SummaryFits`); and a change the
page has not shown yet is still to be sent, still to be read, or kept as the turn's result
(`ChangeFits`). The proof first sorts the server's steps by what they do to a turn and its
stream (`Moves`) and the panel's into those that stay where they are, leave the stream, take
another, or read on, and then proves each part of the invariant once for each sort.

For any finite set of windows and any values of the bounds (strokes, failures, revisions, and
sessions kept open), under `DiagramEditorAssumption` and `PreviewAssumption`, which only keeps
the two marks of a page apart from what can be drawn:

* `DiagramInvariant`, and from it `DiagramTypes`, `SavedIsStored`, `ChangesAreRemembered`,
  `StepsAreOnesOwn`, `PagesShowWhatTheyAskedFor`, `OthersWorkSurvives` and
  `PreviewsAreComplete`, about `Spec`.

The properties speak of an editor's revision and of the strokes it noted; none is inductive.
`DiagramInv` says of each window what its phase, editor, controller and request have to do with
the file (`Fits`): the request carries the revision and the session the editor still has
(`RevisionFits`); as long as the file has that revision too, the editor's scene has all the file
has and more only of its own (`SceneFits`), and only its own strokes lie between the file and the
snapshot its session began with (`SessionFits`); an accepted save's answer promises the same of
the revision it names, until it is read (`ReplyFits`); and an editor opens with the content of
the revision it downloaded (`OpeningFits`). That is why a revision is enough to compare: an
editor that knows an older one claims nothing, so whatever another window stores keeps its `Fits`
(`LaterFileFits`), and a save that names the current one removes only strokes of its own
(`SavedSceneIsOwn`). What the undo steps hold (`HistoryInv`) rests on `SessionFits`, the pages
(`PageInv`) on the mark of a preview that is still under way.

For any set of notes, any sessions, and any number of texts and of failures, under
`EditSessionAssumption`:

* `BaseHolds`, and from it `EditTypes`, `ViewRequestsComeOneByOne` and `AutosavesEndDirty`,
  about `Spec`; `TypedTextIsSafe`, about `Spec /\ ViewsAreAnswered`.

A command is the list of steps it has left, so the proofs are about lists. Every program has a
shape (`Shape`): a text is adopted right after a refresh, a note is left right after its save
and the calls about it, dirty is reset at the end of a split. Doing a step takes the head of the
list away, waiting replaces it, and both keep the shape (`AfterTail`, `AfterPut`); what the user
starts is a program that has it and fits the mode (`SoundPrograms`, `CommandsBegin`). `BaseInv`
is the types and what the program left says of the mode, the target, the text sent and the
requests. That an autosave ends dirty, for one, is kept by the steps between its request and its
answer, none of which is the command's own.

That typed text is kept needs where the texts are (`KeepInv`): the page shows the warm view's
text, a typed one, or one that the view on its way replaces (`PageFits`); a command's view is the
store's and asks for the edited note, because nothing stores a text while the command waits for
it (`ViewFits`); hence a refresh returns the typed text to the editor (`EditorFits`), the editor
sends it (`SendingFits`), and a note is left only once it is stored or gone from the page
(`EndFits`).

`ViewsAreAnswered` says that no request and no check fails while a view request is in flight.
Everything else may fail and be lost, any number of times. Without the condition the theorem is
false, which the run with its one failure does not show: four failures together break
`TypedTextIsKept` (section 4). With one failure of any kind it is model-checked.

**Only model-checked**: `VaultOpensAgain` of `LiveRecovery`, `LeftNoteIsRendered` and
`GateIsFreed` of `EditSession` (and its `TypedTextIsKept` when a view request fails), all of
`TreeDiff`, `EditorComesToRest` of `DiagramEditor`, and of `AssistantTurn` `VaultIsFreed` and
`ComposerComesBack`. Out of the provers' reach are liveness under fairness, ENABLED, and the
induction theorems of the library. Where a recursive function runs over the hierarchy, a
counterexample that nothing is smaller than takes their place; the folds of `TreeDiff` run over
lists of operations that the same module computes by recursion, and stay with TLC.

## 6. Not modelled

On the server: tags, timestamps and encryption of notes; bulk and derived commands; undo of
content, paste, split and files other than diagrams; sessions, note locks and clipboards;
hydration; archives of backups; several tabs of one window's view; search, band and lock
differences of a view. Section 2 says which are planned and `PROJECT.json` gives the reason
for the others: cryptography and rendering are functions on bytes and strings, the namespace
workers start and stop processes, reminders, link titles and search history are stores of
their own beside the notes. What the assistant's model is told and what it answers are
outside; the models take every decision it could make.

In the browser: most of its code lays out and renders. Key and mouse handlers translate
events into the commands `EditSession` has; modals, the command palette, the ontology editor,
context menus and settings read and write fields of forms; the paste sanitizer and the
formatters transform strings. None of these keeps state that another actor changes beneath
it, apart from the command gate and the page, and both are in the models. Paste, drag and
drop and the editing of tags go through the same gate and the same save as the commands
that are modelled. Excalidraw itself and the frames around a diagram are not modelled.
