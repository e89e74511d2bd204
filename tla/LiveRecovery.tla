---------------------------- MODULE LiveRecovery ----------------------------
(***************************************************************************)
(* The rollback journal of app/db/live_recovery.py.                          *)
(*                                                                         *)
(* A restore, an import or a change of password rewrites two SQLite files,    *)
(* the notes and the attachments.  Before the first live write the journal    *)
(* directory gets an image of each file and a manifest that is renamed to     *)
(* ready.json when complete; a file named "committed" ends the change.        *)
(* Recovery copies the images back unless that file is there, renames the     *)
(* directory out of the way and removes it; it runs at the end of every       *)
(* change, and before anybody opens the vault.                                *)
(*                                                                         *)
(* The program can stop between any two file operations, also with loss of    *)
(* power.  For every thing on disk the model has what programs see and what   *)
(* a power loss can leave (the values since the last fsync).  Assumed of the  *)
(* file system: names in directories reach the disk in the order they were    *)
(* changed in; file contents in any order; a fsync of a file SQLite created    *)
(* keeps its name too; a SQLite commit is atomic per file.                    *)
(***************************************************************************)
EXTENDS FiniteSets

CONSTANTS
    Targets,    \* the live databases of a namespace (_targets)
    Data,       \* the contents a database can have
    Absent,     \* a database that does not exist
    NoImage     \* no image of it in the journal yet

ASSUME TargetsAssumption == IsFiniteSet(Targets)
ASSUME AbsentAssumption == Absent \notin Data
ASSUME NoImageAssumption == NoImage \notin Data \cup {Absent}

Contents == Data \cup {Absent}

VARIABLES
    live,       \* target -> its content, as programs see it
    liveKept,   \* target -> the contents a power loss can leave
    place,      \* the name the journal directory has
    entries,    \* what is in it
    metaKept,   \* the <<place, entries>> a power loss can leave
    pc,         \* where the change or the recovery is
    purpose,    \* what _recover_locked was called for
    done        \* the targets a loop has been through

vars == <<live, liveKept, place, entries, metaKept, pc, purpose, done>>

files == <<live, liveKept>>
names == <<place, entries, metaKept>>

Places == {"none", "recovery", "finished"}

Entries ==
    [image : [Targets -> Contents \cup {NoImage}],     \* Absent: existed is false
     manifest : {"none", "preparing", "ready"},
     committed : BOOLEAN]

NoEntries == [image |-> [t \in Targets |-> NoImage], manifest |-> "none", committed |-> FALSE]

Preparing == {"snapshot", "copy", "prepared", "ready", "named"}
Changing == {"writing", "flush", "marked"}
Recovering == {"recover", "restore", "retire", "retired", "sweep", "swept"}

TypeOK ==
    /\ live \in [Targets -> Contents]
    /\ liveKept \in [Targets -> SUBSET Contents]
    /\ place \in Places
    /\ entries \in Entries
    /\ metaKept \in SUBSET (Places \X Entries)
    /\ pc \in {"closed", "idle"} \cup Preparing \cup Changing \cup Recovering
    /\ purpose \in {"open", "begin", "commit", "rollback"}
    /\ done \in SUBSET Targets

Init ==
    /\ live \in [Targets -> Contents]
    /\ liveKept = [t \in Targets |-> {live[t]}]
    /\ place = "none"
    /\ entries = NoEntries
    /\ metaKept = {<<place, entries>>}
    /\ pc = "closed"
    /\ purpose = "open"
    /\ done = {}

-----------------------------------------------------------------------------
(***************************************************************************)
(* The file system.                                                          *)
(***************************************************************************)
SetContent(t, v) ==
    /\ live' = [live EXCEPT ![t] = v]
    /\ liveKept' = [liveKept EXCEPT ![t] = @ \cup {v}]

\* _sync_file
SyncFile(t) ==
    liveKept' = IF live[t] = Absent THEN liveKept ELSE [liveKept EXCEPT ![t] = {live[t]}]

\* A file removed for good: its name goes with a sync of the directory it was in.
SyncRemoved ==
    liveKept' = [t \in Targets |-> IF live[t] = Absent THEN {Absent} ELSE liveKept[t]]

SetNames(p, e) ==
    /\ place' = p
    /\ entries' = e
    /\ metaKept' = metaKept \cup {<<p, e>>}

\* _sync_directory
SyncNames == metaKept' = {<<place, entries>>} /\ UNCHANGED <<place, entries>>

Goto(label) == pc' = label /\ UNCHANGED <<purpose, done>>

GotoLoop(label) == pc' = label /\ done' = {} /\ UNCHANGED purpose

Recover(why) == pc' = "recover" /\ purpose' = why /\ UNCHANGED done

-----------------------------------------------------------------------------
(***************************************************************************)
(* _recover_locked.                                                          *)
(***************************************************************************)

\* A ready manifest without the committed mark: the images go back.
Pending(p, e) == p = "recovery" /\ e.manifest = "ready" /\ ~e.committed

\* The checks before anything is copied: every image is there and intact.
Complete(e) == \A t \in Targets : e.image[t] # NoImage

\* What the caller does next.
Return ==
    Goto(IF purpose = "begin" THEN "snapshot" ELSE "idle")

NothingToRecover ==
    /\ pc = "recover" /\ place = "none"
    /\ Return
    /\ UNCHANGED <<files, names>>

\* Mutated Inspect: a journal that was never ready stays where it is.
InspectReadyOnly ==
    /\ pc = "recover" /\ place = "recovery" /\ entries.manifest = "ready"
    /\ IF Pending(place, entries) THEN Complete(entries) /\ GotoLoop("restore")
                                  ELSE Goto("retire")
    /\ UNCHANGED <<files, names>>

Inspect ==
    /\ pc = "recover" /\ place = "recovery"
    /\ IF Pending(place, entries) THEN Complete(entries) /\ GotoLoop("restore")
                                  ELSE Goto("retire")
    /\ UNCHANGED <<files, names>>

\* Mutated RestoreCopy: the existed flag is not looked at.
RestoreCopyAlways(t) ==
    /\ pc = "restore" /\ t \notin done
    /\ live[t] # entries.image[t]
    /\ SetContent(t, IF entries.image[t] = Absent THEN NoImage ELSE entries.image[t])
    /\ UNCHANGED <<names, pc, purpose, done>>

\* _copy_sqlite from the image, or the removal of a file that did not exist.
RestoreCopy(t) ==
    /\ pc = "restore" /\ t \notin done
    /\ live[t] # entries.image[t]
    /\ SetContent(t, entries.image[t])
    /\ UNCHANGED <<names, pc, purpose, done>>

\* The _sync_file that ends _copy_sqlite.
RestoreSync(t) ==
    /\ pc = "restore" /\ t \notin done
    /\ live[t] = entries.image[t]
    /\ SyncFile(t)
    /\ done' = done \cup {t}
    /\ UNCHANGED <<live, names, pc, purpose>>

\* The databases' directory is synced once all are restored.
Restored ==
    /\ pc = "restore" /\ done = Targets
    /\ SyncRemoved /\ SyncNames
    /\ Goto("retire")
    /\ UNCHANGED live

\* Mutated Retire: the journal is removed under the name it has.
RetireInPlace ==
    /\ pc = "retire"
    /\ Goto("retired")
    /\ UNCHANGED <<files, names>>

\* The journal gets its other name in one step, so that it is never half there.
Retire ==
    /\ pc = "retire"
    /\ SetNames("finished", entries)
    /\ Goto("retired")
    /\ UNCHANGED files

Retired ==
    /\ pc = "retired"
    /\ SyncNames
    /\ Goto("sweep")
    /\ UNCHANGED files

\* rmtree of the finished directory, in any order (the images in one step: some are
\* no better than none): at the end of a recovery, or at the start when an earlier
\* one stopped there.
Sweeping == pc = "sweep" \/ (pc = "recover" /\ place = "finished")

SweepEntry ==
    /\ Sweeping
    /\ \/ /\ entries.image # NoEntries.image
          /\ SetNames(place, [entries EXCEPT !.image = NoEntries.image])
       \/ /\ entries.manifest # "none"
          /\ SetNames(place, [entries EXCEPT !.manifest = "none"])
       \/ /\ entries.committed
          /\ SetNames(place, [entries EXCEPT !.committed = FALSE])
    /\ UNCHANGED <<files, pc, purpose, done>>

SweepDirectory ==
    /\ Sweeping /\ entries = NoEntries
    /\ SetNames("none", NoEntries)
    /\ Goto(IF pc = "sweep" THEN "swept" ELSE "recover")
    /\ UNCHANGED files

Swept ==
    /\ pc = "swept"
    /\ SyncNames
    /\ Return
    /\ UNCHANGED files

-----------------------------------------------------------------------------
(***************************************************************************)
(* recover_pending_change, LiveDatabaseRecovery and its use by a request       *)
(* (recoverable_database_change, begin_request_transaction in session.py).     *)
(***************************************************************************)

\* Nobody opens the vault past a journal.
Open ==
    /\ pc = "closed"
    /\ Recover("open")
    /\ UNCHANGED <<files, names>>

\* _write_snapshot starts with a recovery of its own.
Begin ==
    /\ pc = "idle"
    /\ Recover("begin")
    /\ UNCHANGED <<files, names>>

MakeDirectory ==
    /\ pc = "snapshot" /\ place = "none"
    /\ SetNames("recovery", NoEntries)
    /\ GotoLoop("copy")
    /\ UNCHANGED files

CopyImage(t) ==
    /\ pc = "copy" /\ t \notin done
    /\ SetNames(place, [entries EXCEPT !.image[t] = live[t]])
    /\ done' = done \cup {t}
    /\ UNCHANGED <<files, pc, purpose>>

Prepare ==
    /\ pc = "copy" /\ done = Targets
    /\ SetNames(place, [entries EXCEPT !.manifest = "preparing"])
    /\ Goto("prepared")
    /\ UNCHANGED files

MakeReady ==
    /\ pc = "prepared"
    /\ SetNames(place, [entries EXCEPT !.manifest = "ready"])
    /\ Goto("ready")
    /\ UNCHANGED files

\* Mutated SyncReady: live writes begin without the two syncs.
SyncReadyLater ==
    /\ pc = "ready" /\ Goto("writing")
    /\ UNCHANGED <<files, names>>

\* The journal directory is synced, and then the directory it is in.
SyncReady ==
    /\ \/ pc = "ready" /\ Goto("named")
       \/ pc = "named" /\ Goto("writing")
    /\ SyncNames
    /\ UNCHANGED files

\* A committed SQL statement or a copied database: within a change, or, one file
\* at a time, by a request that needs no journal.
WriteLive(t, v) ==
    /\ pc \in {"idle", "writing"}
    /\ SetContent(t, v)
    /\ UNCHANGED <<names, pc, purpose, done>>

\* The request ends well, or with an exception.
EndWriting ==
    /\ pc = "writing"
    /\ GotoLoop("flush") \/ Recover("rollback")
    /\ UNCHANGED <<files, names>>

\* Mutated Flush: the databases are left to the operating system.
FlushNothing(t) ==
    /\ pc = "flush" /\ t \notin done
    /\ done' = done \cup {t}
    /\ UNCHANGED <<files, names, pc, purpose>>

Flush(t) ==
    /\ pc = "flush" /\ t \notin done
    /\ SyncFile(t)
    /\ done' = done \cup {t}
    /\ UNCHANGED <<live, names, pc, purpose>>

MarkCommitted ==
    /\ pc = "flush" /\ done = Targets
    /\ SetNames(place, [entries EXCEPT !.committed = TRUE])
    /\ Goto("marked")
    /\ UNCHANGED files

SyncMark ==
    /\ pc = "marked"
    /\ SyncNames
    /\ Recover("commit")
    /\ UNCHANGED files

\* An error in commit() is answered with a rollback, whatever is on disk by then.
CommitFails ==
    /\ pc \in {"flush", "marked"}
    /\ Recover("rollback")
    /\ UNCHANGED <<files, names>>

-----------------------------------------------------------------------------
\* The process stops, or begin() or a recovery raises: the journal stays as it is
\* until somebody opens the vault again.
Stop ==
    /\ pc # "closed"
    /\ Goto("closed")
    /\ UNCHANGED <<files, names>>

\* Every file has one of the contents, and the names are as at one of the moments,
\* since the last sync.
PowerLoss ==
    \E content \in [Targets -> Contents], meta \in metaKept :
        /\ \A t \in Targets : content[t] \in liveKept[t]
        /\ live' = content
        /\ liveKept' = [t \in Targets |-> {content[t]}]
        /\ place' = meta[1]
        /\ entries' = meta[2]
        /\ metaKept' = {meta}
        /\ Goto("closed")

RecoveryStep ==
    \/ NothingToRecover
    \/ Inspect
    \/ \E t \in Targets : RestoreCopy(t) \/ RestoreSync(t)
    \/ Restored
    \/ Retire
    \/ Retired
    \/ SweepEntry
    \/ SweepDirectory
    \/ Swept

ChangeStep ==
    \/ MakeDirectory
    \/ \E t \in Targets : CopyImage(t) \/ Flush(t)
    \/ Prepare
    \/ MakeReady
    \/ SyncReady
    \/ EndWriting
    \/ MarkCommitted
    \/ SyncMark

Work ==
    \/ Open
    \/ Begin
    \/ RecoveryStep
    \/ ChangeStep
    \/ \E t \in Targets, v \in Data : WriteLive(t, v)
    \/ CommitFails

Next == Work \/ Stop \/ PowerLoss

Spec == Init /\ [][Next]_vars

-----------------------------------------------------------------------------
(***************************************************************************)
(* Properties.                                                               *)
(***************************************************************************)

\* The vault that opening these files gives.
Vault(content, p, e) == IF Pending(p, e) THEN e.image ELSE content

\* The vaults a power loss can leave.
Survivors ==
    {Vault(content, meta[1], meta[2]) :
        content \in {c \in [Targets -> Contents] : \A t \in Targets : c[t] \in liveKept[t]},
        meta \in metaKept}

\* Every journaled change happens to both databases in one step, and a stop, a
\* failed request, a recovery and a power loss never leave a mixture
\* (app/db/live_recovery.py: "an absent committed marker means startup restores
\* the entire original set").
Atomic ==
    INSTANCE AtomicVault WITH
        vault <- Vault(live, place, entries),
        survivors <- Survivors,
        busy <- pc # "idle"

ImplementsAtomicVault == Atomic!Spec

\* Recovery never finds a ready manifest with an image missing, which would raise
\* on every attempt to open the vault.
RecoveryNeverRefuses ==
    \A meta \in metaKept : Pending(meta[1], meta[2]) => Complete(meta[2])

\* A change is reported as made only when no power loss can undo it.
AnswerIsDurable ==
    [][purpose = "commit" /\ pc # "idle" /\ pc' = "idle" => Survivors' = {live'}]_vars
=============================================================================
