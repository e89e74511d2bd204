------------------------ MODULE LiveRecovery_proofs ------------------------
(***************************************************************************)
(* Theorems about LiveRecovery, for any databases and any contents, and for  *)
(* any number of stops and power losses.                                     *)
(***************************************************************************)
EXTENDS LiveRecovery, TLAPS

Now == <<place, entries>>

PendingMeta(meta) == Pending(meta[1], meta[2])

\* What programs see is one of the things a power loss can leave.
SeenSurvives ==
    /\ Now \in metaKept
    /\ \A t \in Targets : live[t] \in liveKept[t]

\* While the names on disk may lack the journal that programs see, no live file
\* has been touched.
JournalFirst ==
    PendingMeta(Now) /\ (\E meta \in metaKept : ~PendingMeta(meta)) => live = entries.image

\* A file seen as absent is absent on disk, unless a restore is under way.
AbsentForGood ==
    \A t \in Targets :
        live[t] = Absent =>
            \/ liveKept[t] = {Absent}
            \/ PendingMeta(Now) /\ pc \in {"closed", "recover", "restore"}

OnDisk(t) == liveKept[t] = {live[t]}

\* Where the journal is, at each point of a change and of a recovery.
Position ==
    /\ pc \in {"idle", "snapshot", "swept"} => place = "none"
    /\ pc \in {"copy", "prepared"} =>
          /\ place = "recovery" /\ ~entries.committed /\ entries.manifest # "ready"
    /\ pc = "copy" => \A t \in done : entries.image[t] = live[t]
    /\ pc = "prepared" => entries.image = live
    /\ pc \in {"ready", "named"} => PendingMeta(Now) /\ entries.image = live
    /\ pc \in {"writing", "flush"} => PendingMeta(Now) /\ metaKept = {Now}
    /\ pc = "flush" => \A t \in done : OnDisk(t)
    /\ pc = "marked" => /\ place = "recovery" /\ entries.committed
                        /\ \A t \in Targets : OnDisk(t)
    /\ pc = "restore" =>
          /\ PendingMeta(Now)
          /\ \A t \in done : /\ live[t] = entries.image[t]
                             /\ live[t] # Absent => OnDisk(t)
    /\ pc = "retire" =>
          /\ place = "recovery"
          /\ PendingMeta(Now) => live = entries.image /\ \A t \in Targets : OnDisk(t)
    /\ pc \in {"retired", "sweep"} => place = "finished"

\* A change being finished after its mark was synced cannot be undone any more.
MarkIsKept ==
    purpose = "commit" /\ pc \in Recovering =>
        /\ \A t \in Targets : OnDisk(t)
        /\ \A meta \in metaKept : ~PendingMeta(meta)

RecoveryInv ==
    /\ TypeOK
    /\ SeenSurvives
    /\ RecoveryNeverRefuses
    /\ JournalFirst
    /\ AbsentForGood
    /\ Position
    /\ MarkIsKept

-----------------------------------------------------------------------------
(***************************************************************************)
(* RecoveryInv is inductive.                                                 *)
(***************************************************************************)

\* The initial state.
LEMMA InvInit == Init => RecoveryInv
<1> SUFFICES ASSUME Init PROVE RecoveryInv
  OBVIOUS
<1>1. NoEntries \in Entries
  BY DEF NoEntries, Entries
<1>2. TypeOK
  BY <1>1 DEF Init, TypeOK, Places, Preparing, Changing, Recovering
<1>3. ~PendingMeta(Now) /\ metaKept = {Now}
  BY DEF Init, Now, PendingMeta, Pending
<1>4. QED
  BY <1>2, <1>3 DEF Init, RecoveryInv, SeenSurvives, RecoveryNeverRefuses, PendingMeta, JournalFirst,
     AbsentForGood, Position, MarkIsKept, Recovering, Now

\* Steps that only move on disturb nothing.
LEMMA InvMove ==
  ASSUME RecoveryInv, NothingToRecover \/ Inspect \/ Open \/ Begin \/ EndWriting \/ CommitFails \/ Stop
  PROVE  RecoveryInv'
<1> USE DEF RecoveryInv, TypeOK, SeenSurvives, RecoveryNeverRefuses, JournalFirst, AbsentForGood, Position,
     MarkIsKept, Now, PendingMeta, Pending, OnDisk, Preparing, Changing, Recovering
<1>1. CASE NothingToRecover
  BY <1>1 DEF NothingToRecover, Return, Goto, files, names
<1>2. CASE Inspect
  BY <1>2 DEF Inspect, Goto, GotoLoop, files, names
<1>3. CASE Open
  BY <1>3 DEF Open, Recover, files, names
<1>4. CASE Begin
  BY <1>4 DEF Begin, Recover, files, names
<1>5. CASE EndWriting
  BY <1>5 DEF EndWriting, GotoLoop, Recover, files, names
<1>6. CASE CommitFails
  BY <1>6 DEF CommitFails, Recover, files, names
<1>7. CASE Stop
  BY <1>7 DEF Stop, Goto, files, names
<1>8. QED
  BY <1>1, <1>2, <1>3, <1>4, <1>5, <1>6, <1>7

\* Steps that write or sync live files.
LEMMA InvFiles ==
  ASSUME RecoveryInv, (\E t \in Targets : RestoreCopy(t)) \/ (\E t \in Targets : RestoreSync(t)) \/ (\E t \in Targets : Flush(t)) \/ (\E t \in Targets, v \in Data : WriteLive(t, v))
  PROVE  RecoveryInv'
<1> USE DEF RecoveryInv, TypeOK, SeenSurvives, RecoveryNeverRefuses, JournalFirst, AbsentForGood, Position,
     MarkIsKept, Now, PendingMeta, Pending, OnDisk, Preparing, Changing, Recovering
<1>1. CASE (\E t \in Targets : RestoreCopy(t))
  BY <1>1 DEF RestoreCopy, SetContent, names, Complete, Entries, Contents
<1>2. CASE (\E t \in Targets : RestoreSync(t))
  BY <1>2 DEF RestoreSync, SyncFile, names, Entries, Contents
<1>3. CASE (\E t \in Targets : Flush(t))
  BY <1>3 DEF Flush, SyncFile, names, Entries, Contents
<1>4. CASE (\E t \in Targets, v \in Data : WriteLive(t, v))
  <2>1. PICK t \in Targets, v \in Data : WriteLive(t, v)
    BY <1>4
  <2>2. /\ pc \in {"idle", "writing"} /\ UNCHANGED <<names, pc, purpose, done>>
        /\ live' = [live EXCEPT ![t] = v]
        /\ liveKept' = [liveKept EXCEPT ![t] = @ \cup {v}]
    BY <2>1 DEF WriteLive, SetContent
  <2>3. TypeOK' /\ SeenSurvives' /\ RecoveryNeverRefuses'
    BY <2>2 DEF names, Contents
  <2>4. JournalFirst'
    <3>1. CASE pc = "idle"
      BY <2>2, <3>1 DEF names
    <3>2. CASE pc = "writing"
      BY <2>2, <3>2 DEF names
    <3>3. QED
      BY <2>2, <3>1, <3>2
  <2>5. AbsentForGood'
    BY <2>2, AbsentAssumption DEF names
  <2>6. Position' /\ MarkIsKept'
    BY <2>2 DEF names
  <2>7. QED
    BY <2>3, <2>4, <2>5, <2>6
<1>5. QED
  BY <1>1, <1>2, <1>3, <1>4

\* Steps that sync directories.
LEMMA InvSync ==
  ASSUME RecoveryInv, Restored \/ Retired \/ Swept \/ SyncReady \/ SyncMark
  PROVE  RecoveryInv'
<1> USE DEF RecoveryInv, TypeOK, SeenSurvives, RecoveryNeverRefuses, JournalFirst, AbsentForGood, Position,
     MarkIsKept, Now, PendingMeta, Pending, OnDisk, Preparing, Changing, Recovering
<1>1. CASE Restored
  BY <1>1 DEF Restored, SyncRemoved, SyncNames, Goto, Entries, Contents
<1>2. CASE Retired
  BY <1>2 DEF Retired, SyncNames, Goto, files
<1>3. CASE Swept
  BY <1>3 DEF Swept, SyncNames, Return, Goto, files
<1>4. CASE SyncReady
  BY <1>4 DEF SyncReady, SyncNames, Goto, files
<1>5. CASE SyncMark
  BY <1>5 DEF SyncMark, SyncNames, Recover, files
<1>6. QED
  BY <1>1, <1>2, <1>3, <1>4, <1>5

\* A change of names that leaves no pending journal.
LEMMA OtherNames ==
  ASSUME RecoveryInv, NEW p \in Places, NEW e \in Entries,
         SetNames(p, e), ~Pending(p, e), UNCHANGED files
  PROVE  /\ place' \in Places /\ entries' \in Entries
         /\ metaKept' \in SUBSET (Places \X Entries)
         /\ ~PendingMeta(Now)'
         /\ SeenSurvives' /\ RecoveryNeverRefuses' /\ JournalFirst'
         /\ (\A meta \in metaKept : ~PendingMeta(meta))
               => (\A meta \in metaKept' : ~PendingMeta(meta))
<1> USE DEF RecoveryInv, TypeOK, SetNames, files, PendingMeta, Now
<1>1. /\ place' = p /\ entries' = e
      /\ metaKept' = metaKept \cup {<<p, e>>}
      /\ live' = live /\ liveKept' = liveKept
  OBVIOUS
<1>2. ~PendingMeta(Now)'
  BY <1>1
<1>3. SeenSurvives'
  BY <1>1 DEF SeenSurvives
<1>4. RecoveryNeverRefuses'
  BY <1>1 DEF RecoveryNeverRefuses
<1>5. JournalFirst'
  BY <1>2 DEF JournalFirst
<1>6. QED
  BY <1>1, <1>2, <1>3, <1>4, <1>5

\* Steps that change the journal directory.
LEMMA InvNames ==
  ASSUME RecoveryInv, Retire \/ SweepEntry \/ SweepDirectory \/ MakeDirectory \/ (\E t \in Targets : CopyImage(t)) \/ Prepare \/ MakeReady \/ MarkCommitted
  PROVE  RecoveryInv'
<1> USE DEF RecoveryInv, TypeOK, SeenSurvives, RecoveryNeverRefuses, JournalFirst, AbsentForGood, Position,
     MarkIsKept, Now, PendingMeta, Pending, OnDisk, Preparing, Changing, Recovering
<1>1. CASE Retire
  BY <1>1 DEF Retire, SetNames, Goto, files, Places
<1>2. CASE SweepEntry
  <2>1. PICK e : /\ place = "finished" /\ e \in Entries /\ SetNames(place, e)
                 /\ UNCHANGED <<files, pc, purpose, done>>
    BY <1>2 DEF SweepEntry, Sweeping, NoEntries, Entries
  <2>2. ~Pending(place, e) /\ "finished" \in Places
    BY <2>1 DEF Places
  <2>3. QED
    BY <2>1, <2>2, OtherNames DEF SetNames, files
<1>3. CASE SweepDirectory
  <2>1. NoEntries \in Entries /\ ~Pending("none", NoEntries) /\ "none" \in Places
    BY DEF NoEntries, Entries, Places
  <2>2. /\ Sweeping /\ SetNames("none", NoEntries) /\ UNCHANGED files
        /\ pc' = (IF pc = "sweep" THEN "swept" ELSE "recover") /\ UNCHANGED <<purpose, done>>
    BY <1>3 DEF SweepDirectory, Goto
  <2>3. QED
    BY <2>1, <2>2, OtherNames DEF SetNames, Sweeping, files
<1>4. CASE MakeDirectory
  <2>1. NoEntries \in Entries /\ ~Pending("recovery", NoEntries) /\ "recovery" \in Places
    BY DEF NoEntries, Entries, Places
  <2>2. /\ pc = "snapshot" /\ SetNames("recovery", NoEntries) /\ UNCHANGED files
        /\ pc' = "copy" /\ done' = {} /\ purpose' = purpose
    BY <1>4 DEF MakeDirectory, GotoLoop
  <2>3. /\ place' = "recovery" /\ ~entries'.committed /\ entries'.manifest = "none"
    BY <2>2 DEF SetNames, NoEntries
  <2>4. QED
    BY <2>1, <2>2, <2>3, OtherNames DEF files
<1>5. CASE (\E t \in Targets : CopyImage(t))
  BY <1>5 DEF CopyImage, SetNames, files, Entries, Contents
<1>6. CASE Prepare
  BY <1>6 DEF Prepare, SetNames, Goto, files, Entries
<1>7. CASE MakeReady
  <2> DEFINE e == [entries EXCEPT !.manifest = "ready"]
  <2>1. /\ pc = "prepared" /\ place = "recovery" /\ entries.image = live /\ ~entries.committed
        /\ ~PendingMeta(Now)
    BY <1>7 DEF MakeReady
  <2>2. /\ place' = place /\ entries' = e /\ metaKept' = metaKept \cup {<<place, e>>}
        /\ pc' = "ready" /\ UNCHANGED <<files, purpose, done>>
    BY <1>7 DEF MakeReady, SetNames, Goto
  <2>3. e \in Entries /\ e.image = live /\ e.manifest = "ready" /\ ~e.committed
    BY <2>1 DEF Entries
  <2>4. Complete(e)
    BY <2>3, NoImageAssumption DEF Complete, Contents
  <2>5. TypeOK'
    BY <2>2, <2>3 DEF files
  <2>6. RecoveryNeverRefuses'
    BY <2>2, <2>4
  <2>7. SeenSurvives' /\ JournalFirst'
    BY <2>2, <2>3 DEF files
  <2>8. AbsentForGood' /\ Position' /\ MarkIsKept'
    BY <2>1, <2>2, <2>3 DEF files
  <2>9. QED
    BY <2>5, <2>6, <2>7, <2>8
<1>8. CASE MarkCommitted
  <2> DEFINE e == [entries EXCEPT !.committed = TRUE]
  <2>1. /\ pc = "flush" /\ done = Targets /\ place = "recovery"
        /\ SetNames(place, e) /\ pc' = "marked" /\ UNCHANGED <<files, purpose, done>>
    BY <1>8 DEF MarkCommitted, Goto
  <2>2. e \in Entries /\ ~Pending(place, e)
    BY DEF Entries
  <2>3. place' = place /\ entries'.committed /\ \A t \in Targets : OnDisk(t)'
    BY <2>1 DEF SetNames, files, Entries
  <2>4. QED
    BY <2>1, <2>2, <2>3, OtherNames DEF files
<1>9. QED
  BY <1>1, <1>2, <1>3, <1>4, <1>5, <1>6, <1>7, <1>8

\* A power loss.
LEMMA InvPowerLoss ==
  ASSUME RecoveryInv, PowerLoss
  PROVE  RecoveryInv'
<1> USE DEF RecoveryInv, TypeOK, SeenSurvives, RecoveryNeverRefuses, JournalFirst, AbsentForGood, Position,
     MarkIsKept, Now, PendingMeta, Pending, OnDisk, Preparing, Changing, Recovering
<1>1. PICK content \in [Targets -> Contents], meta \in metaKept :
        /\ live' = content /\ liveKept' = [t \in Targets |-> {content[t]}]
        /\ place' = meta[1] /\ entries' = meta[2] /\ metaKept' = {meta}
        /\ pc' = "closed" /\ UNCHANGED <<purpose, done>>
  BY DEF PowerLoss, Goto
<1>2. meta = <<meta[1], meta[2]>> /\ meta[1] \in Places /\ meta[2] \in Entries
  OBVIOUS
<1>3. TypeOK' /\ SeenSurvives'
  BY <1>1, <1>2
<1>4. RecoveryNeverRefuses'
  BY <1>1
<1>5. metaKept' = {Now'} /\ \A t \in Targets : OnDisk(t)'
  BY <1>1, <1>2
<1>6. JournalFirst' /\ AbsentForGood'
  BY <1>1, <1>5
<1>7. Position' /\ MarkIsKept'
  BY <1>1
<1>8. QED
  BY <1>3, <1>4, <1>6, <1>7

\* Every step keeps the invariant.
LEMMA InvNext == RecoveryInv /\ [Next]_vars => RecoveryInv'
<1> SUFFICES ASSUME RecoveryInv, [Next]_vars PROVE RecoveryInv'
  OBVIOUS
<1>1. CASE Work
  BY <1>1, InvMove, InvFiles, InvSync, InvNames DEF Work, RecoveryStep, ChangeStep
<1>2. CASE Stop
  BY <1>2, InvMove
<1>3. CASE PowerLoss
  BY <1>3, InvPowerLoss
<1>4. CASE UNCHANGED vars
  BY <1>4 DEF vars, RecoveryInv, TypeOK, SeenSurvives, RecoveryNeverRefuses, JournalFirst, AbsentForGood,
     Position, MarkIsKept, Now, PendingMeta, OnDisk
<1>5. QED
  BY <1>1, <1>2, <1>3, <1>4 DEF Next

\* Whatever is interrupted, and however often, the files and the journal keep to
\* RecoveryInv: the journal is on disk before a live file is touched, the live
\* files are on disk before the journal is given up.
THEOREM RecoveryInvariant == Spec => []RecoveryInv
  BY InvInit, InvNext, PTL DEF Spec

\* Every variable keeps its type.
THEOREM RecoveryTypeCorrect == Spec => []TypeOK
<1>1. RecoveryInv => TypeOK
  BY DEF RecoveryInv
<1>2. QED
  BY <1>1, RecoveryInvariant, PTL

\* No journal that a stop or a power loss leaves makes recovery raise
\* (_recover_locked checks every image before it restores).
THEOREM RecoveryNeverRefusesAnywhere == Spec => []RecoveryNeverRefuses
<1>1. RecoveryInv => RecoveryNeverRefuses
  BY DEF RecoveryInv
<1>2. QED
  BY <1>1, RecoveryInvariant, PTL

-----------------------------------------------------------------------------
(***************************************************************************)
(* The journal implements AtomicVault.                                       *)
(***************************************************************************)
Seen == Vault(live, place, entries)

Allowed(content) == \A t \in Targets : content[t] \in liveKept[t]

\* What a power loss can leave, element by element.
LEMMA SurvivorsMember ==
  ASSUME NEW v
  PROVE  v \in Survivors <=>
            \E content \in [Targets -> Contents], meta \in metaKept :
                Allowed(content) /\ v = Vault(content, meta[1], meta[2])
  BY DEF Survivors, Allowed

LEMMA SurvivorsMemberNext ==
  ASSUME NEW v
  PROVE  v \in Survivors' <=>
            \E content \in [Targets -> Contents], meta \in metaKept' :
                Allowed(content)' /\ v = Vault(content, meta[1], meta[2])
  BY DEF Survivors, Allowed, Vault

LEMMA SeenIsSurvivor == RecoveryInv => Seen \in Survivors /\ live \in [Targets -> Contents]
  BY SurvivorsMember DEF RecoveryInv, TypeOK, SeenSurvives, Allowed, Seen, Now

LEMMA SeenIsSurvivorNext == RecoveryInv' => Seen' \in Survivors'
  BY SurvivorsMemberNext DEF RecoveryInv, TypeOK, SeenSurvives, Allowed, Seen, Now, Vault

\* Steps that only narrow what a power loss can leave.
LEMMA Narrowed ==
  ASSUME RecoveryInv, RecoveryInv', Seen' = Seen,
         \A t \in Targets : liveKept'[t] \subseteq liveKept[t],
         metaKept' \subseteq metaKept
  PROVE  Atomic!Settle
<1>1. Survivors' \subseteq Survivors
  BY SurvivorsMember, SurvivorsMemberNext DEF Allowed
<1>2. QED
  BY <1>1, SeenIsSurvivorNext DEF Atomic!Settle, Seen

\* Names change, and neither before nor after is the journal pending.
LEMMA Renamed ==
  ASSUME RecoveryInv, RecoveryInv', UNCHANGED files,
         ~PendingMeta(Now), ~PendingMeta(Now)', metaKept' = metaKept \cup {Now'}
  PROVE  Atomic!Settle
<1>1. Seen' = Seen
  BY DEF Seen, Vault, PendingMeta, Now, files
<1>2. ASSUME NEW v \in Survivors' PROVE v \in Survivors
  <2>1. PICK content \in [Targets -> Contents], meta \in metaKept' :
            Allowed(content) /\ v = Vault(content, meta[1], meta[2])
    BY SurvivorsMemberNext DEF Allowed, files
  <2>2. CASE meta \in metaKept
    BY <2>1, <2>2, SurvivorsMember
  <2>3. CASE meta = Now'
    BY <2>1, <2>3, SurvivorsMember DEF Vault, PendingMeta, Now, RecoveryInv, SeenSurvives
  <2>4. QED
    BY <2>2, <2>3
<1>3. QED
  BY <1>1, <1>2, SeenIsSurvivorNext DEF Atomic!Settle, Seen

\* While every name on disk is a pending journal, live files do not matter.
LEMMA Shielded ==
  ASSUME RecoveryInv, RecoveryInv', UNCHANGED names,
         \A meta \in metaKept : PendingMeta(meta)
  PROVE  Atomic!Settle
<1>1. PendingMeta(Now)
  BY DEF RecoveryInv, SeenSurvives
<1>2. Seen' = Seen
  BY <1>1 DEF Seen, Vault, PendingMeta, Now, names
<1>3. Survivors' \subseteq Survivors
  <2>1. ASSUME NEW v \in Survivors' PROVE v \in Survivors
    <3>1. PICK content \in [Targets -> Contents], meta \in metaKept :
              v = Vault(content, meta[1], meta[2])
      BY SurvivorsMemberNext DEF names
    <3>2. v = Vault(live, meta[1], meta[2])
      BY <3>1 DEF Vault, PendingMeta
    <3>3. QED
      BY <3>2, SurvivorsMember DEF RecoveryInv, SeenSurvives, TypeOK, Allowed
  <2>2. QED
    BY <2>1
<1>4. QED
  BY <1>2, <1>3, SeenIsSurvivorNext DEF Atomic!Settle, Seen

\* Steps that touch neither files nor names.
LEMMA MovesRefine ==
  ASSUME RecoveryInv, RecoveryInv', UNCHANGED <<files, names>>
  PROVE  Atomic!Settle
  BY Narrowed DEF files, names, Seen

\* Live files: shielded by the journal, narrowed by a sync, or written freely.
LEMMA FilesRefine ==
  ASSUME RecoveryInv, RecoveryInv',
         \/ \E t \in Targets : RestoreCopy(t) \/ RestoreSync(t) \/ Flush(t)
         \/ \E t \in Targets, v \in Data : WriteLive(t, v)
  PROVE  Atomic!Next
<1>1. CASE \E t \in Targets : RestoreCopy(t)
  <2>1. PICK t \in Targets : RestoreCopy(t)
    BY <1>1
  <2>2. PendingMeta(Now) /\ live # entries.image
    BY <2>1 DEF RestoreCopy, RecoveryInv, Position
  <2>3. \A meta \in metaKept : PendingMeta(meta)
    BY <2>2 DEF RecoveryInv, JournalFirst
  <2>4. QED
    BY <2>1, <2>3, Shielded DEF RestoreCopy, Atomic!Next
<1>2. CASE \E t \in Targets : RestoreSync(t) \/ Flush(t)
  <2>1. UNCHANGED <<live, names>> /\ \E t \in Targets : SyncFile(t)
    BY <1>2 DEF RestoreSync, Flush
  <2>2. \A t \in Targets : liveKept'[t] \subseteq liveKept[t]
    BY <2>1 DEF SyncFile, RecoveryInv, SeenSurvives, TypeOK
  <2>3. QED
    BY <2>1, <2>2, Narrowed DEF names, Seen, Atomic!Next
<1>3. CASE \E t \in Targets, v \in Data : WriteLive(t, v)
  <2>1. PICK t \in Targets, v \in Data : WriteLive(t, v)
    BY <1>3
  <2>2. /\ pc \in {"idle", "writing"} /\ UNCHANGED <<names, pc>>
        /\ live' = [live EXCEPT ![t] = v]
        /\ liveKept' = [liveKept EXCEPT ![t] = @ \cup {v}]
    BY <2>1 DEF WriteLive, SetContent
  <2>3. CASE pc = "writing"
    BY <2>2, <2>3, Shielded DEF RecoveryInv, Position, Atomic!Next
  <2>4. CASE pc = "idle"
    <3>1. ~PendingMeta(Now) /\ Seen = live /\ Seen' = live'
      BY <2>2, <2>4 DEF RecoveryInv, Position, PendingMeta, Pending, Now, Seen, Vault, names
    <3>2. ASSUME NEW w \in Survivors'
          PROVE  w \in Survivors \cup {[s EXCEPT ![t] = v] : s \in Survivors}
      <4>1. PICK content \in [Targets -> Contents], meta \in metaKept :
                /\ \A x \in Targets : content[x] \in liveKept'[x]
                /\ w = Vault(content, meta[1], meta[2])
        BY <2>2, SurvivorsMemberNext DEF names, Allowed
      <4>2. CASE PendingMeta(meta)
        <5>1. w = Vault(live, meta[1], meta[2])
          BY <4>1, <4>2 DEF Vault, PendingMeta
        <5>2. QED
          BY <5>1, SurvivorsMember DEF RecoveryInv, SeenSurvives, TypeOK, Allowed
      <4>3. CASE ~PendingMeta(meta)
        <5> DEFINE before == [content EXCEPT ![t] = live[t]]
        <5>1. before \in [Targets -> Contents] /\ \A x \in Targets : before[x] \in liveKept[x]
          BY <4>1, <2>2 DEF RecoveryInv, SeenSurvives, TypeOK
        <5>2. before = Vault(before, meta[1], meta[2])
          BY <4>3 DEF Vault, PendingMeta
        <5>3. before \in Survivors
          BY <5>1, <5>2, SurvivorsMember DEF Allowed
        <5>4. w = content
          BY <4>1, <4>3 DEF Vault, PendingMeta
        <5>5. content[t] \in liveKept[t] \/ content = [before EXCEPT ![t] = v]
          BY <4>1, <2>2 DEF RecoveryInv, TypeOK
        <5>6. CASE content[t] \in liveKept[t]
          <6>1. \A x \in Targets : content[x] \in liveKept[x]
            BY <5>6, <4>1, <2>2 DEF RecoveryInv, TypeOK
          <6>2. QED
            BY <6>1, <4>1, SurvivorsMember DEF Allowed
        <5>7. QED
          BY <5>3, <5>4, <5>5, <5>6
      <4>4. QED
        BY <4>2, <4>3
    <3>3. Atomic!Write(t, v)
      BY <2>2, <2>4, <3>1, <3>2, SeenIsSurvivorNext DEF Atomic!Write, Seen
    <3>4. QED
      BY <3>3 DEF Atomic!Next, Contents
  <2>5. QED
    BY <2>2, <2>3, <2>4
<1>4. QED
  BY <1>1, <1>2, <1>3

\* Directory syncs narrow what a power loss can leave.
LEMMA SyncsRefine ==
  ASSUME RecoveryInv, RecoveryInv', Restored \/ Retired \/ Swept \/ SyncReady \/ SyncMark
  PROVE  Atomic!Settle
<1>1. UNCHANGED <<live, place, entries>> /\ metaKept' = {Now} /\ (SyncRemoved \/ liveKept' = liveKept)
  BY DEF Restored, Retired, Swept, SyncReady, SyncMark, SyncNames, files, Now
<1>2. \A t \in Targets : liveKept'[t] \subseteq liveKept[t]
  BY <1>1 DEF SyncRemoved, RecoveryInv, SeenSurvives, TypeOK
<1>3. metaKept' \subseteq metaKept
  BY <1>1 DEF RecoveryInv, SeenSurvives
<1>4. QED
  BY <1>1, <1>2, <1>3, Narrowed DEF Seen

\* The two moments a journal becomes, or stops being, pending; the second is the
\* moment of the change.
LEMMA ReadyRefines ==
  ASSUME RecoveryInv, RecoveryInv', MakeReady
  PROVE  Atomic!Settle
<1>1. /\ entries.image = live /\ ~PendingMeta(Now)
      /\ UNCHANGED files /\ metaKept' = metaKept \cup {Now'}
  BY DEF MakeReady, SetNames, RecoveryInv, Position, PendingMeta, Pending, Now
<1>2. PendingMeta(Now)' /\ entries'.image = live
  BY <1>1 DEF MakeReady, SetNames, RecoveryInv, Position, PendingMeta, Pending, Now, TypeOK, Entries, Goto, files
<1>3. Seen = live /\ Seen' = live
  BY <1>1, <1>2 DEF Seen, Vault, PendingMeta, Now
<1>4. ASSUME NEW v \in Survivors' PROVE v \in Survivors
  <2>1. PICK content \in [Targets -> Contents], meta \in metaKept' :
            Allowed(content) /\ v = Vault(content, meta[1], meta[2])
    BY <1>1, SurvivorsMemberNext DEF Allowed, files
  <2>2. CASE meta \in metaKept
    BY <2>1, <2>2, SurvivorsMember
  <2>3. CASE meta = Now'
    BY <2>1, <2>3, <1>2, <1>3, SeenIsSurvivor DEF Vault, PendingMeta, Now
  <2>4. QED
    BY <2>2, <2>3, <1>1
<1>5. QED
  BY <1>3, <1>4, SeenIsSurvivorNext DEF Atomic!Settle, Seen

LEMMA MarkRefines ==
  ASSUME RecoveryInv, RecoveryInv', MarkCommitted
  PROVE  Atomic!Change
<1>1. /\ pc # "idle" /\ pc' # "idle" /\ UNCHANGED files
      /\ metaKept' = metaKept \cup {Now'} /\ ~PendingMeta(Now)'
  BY DEF MarkCommitted, SetNames, Goto, PendingMeta, Pending, Now, RecoveryInv, TypeOK, Entries
<1>2. Seen' = live /\ live \in [Targets -> Contents]
  BY <1>1 DEF Seen, Vault, PendingMeta, Now, files, RecoveryInv, TypeOK
<1>3. \A t \in Targets : OnDisk(t)
  BY DEF MarkCommitted, RecoveryInv, Position
<1>4. \A content \in [Targets -> Contents] : Allowed(content) <=> content = live
  BY <1>2, <1>3 DEF Allowed, OnDisk
<1>5. \A v : v \in Survivors' <=> v \in Survivors \/ v = live
  <2>1. ASSUME NEW v, v \in Survivors' PROVE v \in Survivors \/ v = live
    <3>1. PICK content \in [Targets -> Contents], meta \in metaKept' :
              Allowed(content) /\ v = Vault(content, meta[1], meta[2])
      BY <1>1, <2>1, SurvivorsMemberNext DEF Allowed, files
    <3>2. CASE meta \in metaKept
      BY <3>1, <3>2, SurvivorsMember
    <3>3. CASE meta = Now'
      BY <3>1, <3>3, <1>1, <1>4 DEF Vault, PendingMeta
    <3>4. QED
      BY <3>2, <3>3, <1>1
  <2>2. ASSUME NEW v, v \in Survivors PROVE v \in Survivors'
    BY <1>1, <2>2, SurvivorsMember, SurvivorsMemberNext DEF Allowed, files
  <2>3. live \in Survivors'
    BY <1>2, SeenIsSurvivorNext
  <2>4. QED
    BY <2>1, <2>2, <2>3
<1>6. QED
  BY <1>1, <1>2, <1>5 DEF Atomic!Change, Atomic!Vaults, Seen

\* All other changes of names, between journals that are not pending or, after a
\* restore, from one whose images the live files equal.
LEMMA NamesRefine ==
  ASSUME RecoveryInv, RecoveryInv',
         \/ Retire \/ SweepEntry \/ SweepDirectory \/ MakeDirectory \/ Prepare
         \/ \E t \in Targets : CopyImage(t)
  PROVE  Atomic!Settle
<1>1. UNCHANGED files /\ metaKept' = metaKept \cup {Now'}
  BY DEF Retire, SweepEntry, SweepDirectory, MakeDirectory, Prepare, CopyImage, SetNames, Now
<1>2. ~PendingMeta(Now)'
  <2>1. CASE Retire \/ SweepEntry \/ SweepDirectory
    BY <2>1 DEF Retire, SweepEntry, SweepDirectory, Sweeping, SetNames, Now, PendingMeta, Pending,
       RecoveryInv, Position
  <2>2. CASE MakeDirectory
    BY <2>2 DEF MakeDirectory, SetNames, NoEntries, Now, PendingMeta, Pending
  <2>3. CASE Prepare \/ \E t \in Targets : CopyImage(t)
    BY <2>3 DEF Prepare, CopyImage, SetNames, Now, PendingMeta, Pending, RecoveryInv, Position, TypeOK, Entries
  <2>4. QED
    BY <2>1, <2>2, <2>3
<1>3. CASE ~PendingMeta(Now)
  BY <1>1, <1>2, <1>3, Renamed
<1>4. CASE PendingMeta(Now)
  <2>1. Retire
    BY <1>4 DEF SweepEntry, SweepDirectory, Sweeping, MakeDirectory, Prepare, CopyImage, Now, PendingMeta, Pending,
       RecoveryInv, Position
  <2>2. live = entries.image /\ \A t \in Targets : OnDisk(t)
    BY <2>1, <1>4 DEF Retire, RecoveryInv, Position
  <2>3. Seen = live /\ Seen' = live
    BY <2>2, <1>1, <1>2, <1>4 DEF Seen, Vault, PendingMeta, Now, files
  <2>4. ASSUME NEW v \in Survivors' PROVE v \in Survivors
    <3>1. PICK content \in [Targets -> Contents], meta \in metaKept' :
              Allowed(content) /\ v = Vault(content, meta[1], meta[2])
      BY <1>1, SurvivorsMemberNext DEF Allowed, files
    <3>2. CASE meta \in metaKept
      BY <3>1, <3>2, SurvivorsMember
    <3>3. CASE meta = Now'
      <4>1. content = live
        BY <3>1, <2>2 DEF Allowed, OnDisk, RecoveryInv, TypeOK
      <4>2. QED
        BY <3>1, <3>3, <4>1, <1>2, <2>3, SeenIsSurvivor DEF Vault, PendingMeta
    <3>4. QED
      BY <3>2, <3>3, <1>1
  <2>5. QED
    BY <2>3, <2>4, SeenIsSurvivorNext DEF Atomic!Settle, Seen
<1>5. QED
  BY <1>3, <1>4

LEMMA PowerLossRefines ==
  ASSUME RecoveryInv, RecoveryInv', PowerLoss
  PROVE  Atomic!PowerLoss
<1>1. PICK content \in [Targets -> Contents], meta \in metaKept :
        /\ Allowed(content)
        /\ live' = content /\ liveKept' = [t \in Targets |-> {content[t]}]
        /\ place' = meta[1] /\ entries' = meta[2] /\ metaKept' = {meta}
        /\ pc' = "closed"
  BY DEF PowerLoss, Goto, Allowed
<1>2. Seen' = Vault(content, meta[1], meta[2]) /\ Seen' \in Survivors
  BY <1>1, SurvivorsMember DEF Seen, Vault
<1>3. \A v \in Survivors' : v = Seen'
  <2>1. ASSUME NEW v \in Survivors' PROVE v = Seen'
    <3>1. PICK other \in [Targets -> Contents] :
              Allowed(other)' /\ v = Vault(other, meta[1], meta[2])
      BY <1>1, SurvivorsMemberNext
    <3>2. other = content
      BY <1>1, <3>1 DEF Allowed
    <3>3. QED
      BY <1>2, <3>1, <3>2
  <2>2. QED
    BY <2>1
<1>4. Survivors' = {Seen'}
  BY <1>3, SeenIsSurvivorNext
<1>5. QED
  BY <1>1, <1>2, <1>4 DEF Atomic!PowerLoss, Seen

LEMMA InitRefines == Init => Atomic!Init
<1> SUFFICES ASSUME Init PROVE Atomic!Init
  OBVIOUS
<1>1. RecoveryInv /\ Seen = live
  BY InvInit DEF Init, Seen, Vault, Pending
<1>2. ASSUME NEW v \in Survivors PROVE v = live
  <2>1. PICK content \in [Targets -> Contents] : Allowed(content) /\ v = content
    BY SurvivorsMember DEF Init, Vault, Pending
  <2>2. QED
    BY <2>1 DEF Allowed, Init
<1>3. Survivors = {Seen}
  BY <1>1, <1>2, SeenIsSurvivor
<1>4. QED
  BY <1>1, <1>3 DEF Atomic!Init, Atomic!Vaults, Seen, Init

LEMMA NextRefines ==
  RecoveryInv /\ RecoveryInv' /\ [Next]_vars
     => [Atomic!Next]_<<Vault(live, place, entries), Survivors, pc # "idle">>
<1> SUFFICES ASSUME RecoveryInv, RecoveryInv', [Next]_vars
             PROVE  Atomic!Next \/ UNCHANGED <<Vault(live, place, entries), Survivors, pc # "idle">>
  OBVIOUS
<1>1. CASE NothingToRecover \/ Inspect \/ Open \/ Begin \/ EndWriting \/ CommitFails \/ Stop
  BY <1>1, MovesRefine DEF NothingToRecover, Inspect, Open, Begin, EndWriting, CommitFails, Stop, Atomic!Next
<1>2. CASE \/ \E t \in Targets : RestoreCopy(t) \/ RestoreSync(t) \/ Flush(t)
           \/ \E t \in Targets, v \in Data : WriteLive(t, v)
  BY <1>2, FilesRefine
<1>3. CASE Restored \/ Retired \/ Swept \/ SyncReady \/ SyncMark
  BY <1>3, SyncsRefine DEF Atomic!Next
<1>4. CASE \/ Retire \/ SweepEntry \/ SweepDirectory \/ MakeDirectory \/ Prepare
           \/ \E t \in Targets : CopyImage(t)
  BY <1>4, NamesRefine DEF Atomic!Next
<1>5. CASE MakeReady
  BY <1>5, ReadyRefines DEF Atomic!Next
<1>6. CASE MarkCommitted
  BY <1>6, MarkRefines DEF Atomic!Next
<1>7. CASE PowerLoss
  BY <1>7, PowerLossRefines DEF Atomic!Next
<1>8. CASE UNCHANGED vars
  BY <1>8, MovesRefine DEF vars, files, names, Atomic!Next
<1>9. QED
  BY <1>1, <1>2, <1>3, <1>4, <1>5, <1>6, <1>7, <1>8 DEF Next, Work, RecoveryStep, ChangeStep

\* A journaled change happens to all databases at once or not at all, through any
\* stops, failures, recoveries and power losses.
THEOREM RecoveryImplementsAtomicVault == Spec => ImplementsAtomicVault
<1>1. Spec => [][Atomic!Next]_<<Vault(live, place, entries), Survivors, pc # "idle">>
  BY RecoveryInvariant, NextRefines, PTL DEF Spec
<1>2. QED
  BY <1>1, InitRefines, PTL DEF Spec, ImplementsAtomicVault, Atomic!Spec

\* When a change is reported as made, the vault it made is the only one a power
\* loss can leave.
THEOREM AnswersAreDurable == Spec => AnswerIsDurable
<1>1. ASSUME RecoveryInv, RecoveryInv', [Next]_vars,
             purpose = "commit", pc # "idle", pc' = "idle"
      PROVE  Survivors' = {live'}
  <2>1. (NothingToRecover \/ Swept) /\ pc \in Recovering
    BY <1>1 DEF Next, Work, RecoveryStep, ChangeStep, vars, Goto, GotoLoop, Recover, Return, Recovering,
       NothingToRecover, Inspect, RestoreCopy, RestoreSync, Restored, Retire, Retired, SweepEntry, SweepDirectory,
       Swept, Open, Begin, MakeDirectory, CopyImage, Prepare, MakeReady, SyncReady, WriteLive, EndWriting, Flush,
       MarkCommitted, SyncMark, CommitFails, Stop, PowerLoss
  <2>2. /\ \A t \in Targets : OnDisk(t)
        /\ \A meta \in metaKept : ~PendingMeta(meta)
    BY <1>1, <2>1 DEF RecoveryInv, MarkIsKept
  <2>3. UNCHANGED files /\ metaKept' \subseteq metaKept
    BY <1>1, <2>1 DEF NothingToRecover, Swept, SyncNames, names, RecoveryInv, SeenSurvives, Now
  <2>4. ASSUME NEW v \in Survivors' PROVE v = live'
    <3>1. PICK content \in [Targets -> Contents], meta \in metaKept' :
              Allowed(content) /\ v = Vault(content, meta[1], meta[2])
      BY <2>3, SurvivorsMemberNext DEF Allowed, files
    <3>2. v = content
      BY <2>2, <2>3, <3>1 DEF Vault, PendingMeta
    <3>3. QED
      BY <1>1, <2>2, <2>3, <3>1, <3>2 DEF Allowed, OnDisk, files, RecoveryInv, TypeOK
  <2>5. Seen' \in Survivors'
    BY <1>1, SeenIsSurvivorNext
  <2>6. QED
    BY <2>4, <2>5
<1>2. QED
  BY <1>1, RecoveryInvariant, PTL DEF Spec, AnswerIsDurable
=============================================================================
