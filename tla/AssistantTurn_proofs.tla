------------------------ MODULE AssistantTurn_proofs ------------------------
(***************************************************************************)
(* Theorems about AssistantTurn, for any number of turns, of failures and    *)
(* of other requests.                                                        *)
(***************************************************************************)
EXTENDS AssistantTurn, TLAPS

\* The question a turn has asked, or asked last.
Question(t) == [turn |-> t, kind |-> run[t].kind]

\* What a turn has its kind and its answer for.
KindsFit ==
    \A t \in Turns :
        /\ At(t, "waiting") => run[t].kind \in {"tagging", "review", "summary", "pages"}
        /\ At(t, "acquiring") => run[t].kind \in {"tagging", "review"}
        /\ run[t].heard # "none" => At(t, "waiting")

\* The events that show a question are of a kind that asks.
Fitting ==
    {e \in Events : /\ e.type = "scope" => e.kind \in {"tagging", "summary"}
                    /\ e.type = "confirm" => e.kind \in {"review", "pages"}}

EventsFit == events \in Seq(Fitting)

\* A message is sent for a turn that has not begun, and while the panel works it has a turn.
ChatFits ==
    /\ Busy => turn \in Turns
    /\ \A t \in Turns : t \in chat \/ t > turn => At(t, "none")
    /\ phase = "saving" => At(turn, "none") /\ turn \notin chat
    /\ \A t \in chat : t <= turn

\* A question waits for its answer, or its only answer is on the way, or its turn is over.
QuestionsFit ==
    /\ \A q \in pending : At(q.turn, "waiting") /\ run[q.turn].kind = q.kind /\ run[q.turn].heard = "none"
    /\ \A a \in delivering :
          \/ At(a.question.turn, "ended")
          \/ /\ At(a.question.turn, "waiting") /\ run[a.question.turn].kind = a.question.kind
             /\ run[a.question.turn].heard = "none" /\ a.question \notin pending
    /\ \A a, b \in delivering : a.question.turn = b.question.turn => a = b

\* An answer that allows a change goes back to a click, from the page to the change.
AnswersFit ==
    /\ answer # None /\ answer.value = "yes" =>
          answer.question \in consented \/ At(answer.question.turn, "ended")
    /\ \A a \in delivering : a.value = "yes" => a.question \in consented \/ At(a.question.turn, "ended")
    /\ \A t \in Turns :
          /\ At(t, "waiting") /\ run[t].heard = "yes" => Question(t) \in consented
          /\ At(t, "batches") /\ run[t].kind # "summary" => Question(t) \in consented
          /\ At(t, "applying") => Question(t) \in consented

Types == TypeOK /\ KindsFit /\ EventsFit /\ ChatFits

TurnInv == Types /\ QuestionsFit /\ AnswersFit

-----------------------------------------------------------------------------
(***************************************************************************)
(* OperationIsAlone is inductive by itself.                                  *)
(***************************************************************************)

\* The steps by which requests and operations come and go.
LEMMA AloneStep ==
  ASSUME OperationIsAlone, [Next]_vars
  PROVE  OperationIsAlone'
<1> USE DEF OperationIsAlone, guardVars, serverVars
<1>1. ASSUME NEW r \in cast.requests, EnterRoute(r) PROVE OperationIsAlone'
  BY <1>1 DEF EnterRoute, SlotFree, Permitted
<1>2. ASSUME NEW r \in cast.requests, LeaveRoute(r) PROVE OperationIsAlone'
  BY <1>2 DEF LeaveRoute
<1>3. ASSUME NEW t \in Turns, inside' = inside, Release(t) PROVE OperationIsAlone'
  BY <1>3 DEF Release
<1>4. ASSUME UNCHANGED guardVars PROVE OperationIsAlone'
  BY <1>4
<1>5. ASSUME NEW t \in Turns, Acquire(t) PROVE OperationIsAlone'
  <2>1. CASE CanAcquire /\ Unchanged(t)
    BY <1>5, <2>1 DEF Acquire, CanAcquire, SlotFree
  <2>2. CASE ~(CanAcquire /\ Unchanged(t))
    BY <1>3, <1>5, <2>2 DEF Acquire, Fails
  <2>3. QED
    BY <2>1, <2>2
<1>6. ASSUME NEW t \in Turns, Apply(t) PROVE OperationIsAlone'
  <2>1. inside' = inside /\ (operation' = operation \/ Release(t))
    BY <1>6 DEF Apply, Fails
  <2>2. QED
    BY <1>3, <1>4, <2>1
<1>7. ASSUME NEW t \in Turns, Orphaned(t) \/ EndTurn(t) \/ Cancelled(t) \/ InferenceFails(t)
      PROVE  OperationIsAlone'
  BY <1>3, <1>7 DEF Orphaned, EndTurn, Cancelled, InferenceFails, Fails
<1>8. ASSUME NEW t \in Turns,
             Decide(t) \/ Resume(t) \/ BatchEnds(t) \/ BatchesEnd(t) \/ Finish(t) \/ MenuTimesOut(t)
      PROVE  UNCHANGED guardVars
  BY <1>8 DEF Decide, Resume, BatchEnds, BatchesEnd, Finish, MenuTimesOut
<1>9. Panel => UNCHANGED guardVars
  BY DEF Panel, SaveEnds, ReadEnd, ReadConfirm, ReadScope, ReadProgress, ReadPreview, ReadCompletion, ReadText,
     ReadMenu, MenuOpens, MenuAcknowledged, CloseProgress, Refresh, ClearAsks
<1>10. User => UNCHANGED guardVars
  BY DEF User, Send, Stop, Clear, Click
<1>11. Server => UNCHANGED guardVars
  BY DEF Server, AnswerArrives, ClearArrives, ChatArrives, ChatDropped, Deliver
<1>12. StartCommand \/ EndCommand \/ StreamBreaks \/ Reload => UNCHANGED guardVars
  BY DEF StartCommand, EndCommand, StreamBreaks, Reload
<1>13. UNCHANGED vars => UNCHANGED guardVars
  BY DEF vars
<1>14. QED
  BY <1>1, <1>2, <1>4, <1>5, <1>6, <1>7, <1>8, <1>9, <1>10, <1>11, <1>12, <1>13 DEF Next, Turn, Others, Failures

\* While an operation of the assistant has the vault no request that changes notes is past
\* its check, and two requests are never past it together (BulkOperationGuard.acquire,
\* track_mutation, _check_bulk_guard).
THEOREM OperationsAreAlone == Spec => []OperationIsAlone
<1>1. Init => OperationIsAlone
  BY DEF Init, OperationIsAlone
<1>2. QED
  BY <1>1, AloneStep, PTL DEF Spec

-----------------------------------------------------------------------------
(***************************************************************************)
(* The types.                                                                *)
(***************************************************************************)

\* The numbers of turns.
LEMMA TurnNumbers ==
  /\ \A n \in 0..MaxTurns : n > 0 <=> n \in Turns
  /\ \A n \in 0..MaxTurns : n < MaxTurns => n + 1 \in Turns
  /\ Turns \subseteq Nat
BY AssistantAssumption DEF Turns

\* The first event fits, and so do the others.
LEMMA HeadFits ==
  ASSUME EventsFit, events # <<>>
  PROVE  Head(events) \in Fitting /\ Tail(events) \in Seq(Fitting)
BY DEF EventsFit

\* What an answer that arrives does to the question on the page.
LEMMA AnswerOnCard ==
  ASSUME AnswerArrives, card \in Cards \cup {None}
  PROVE  card' \in Cards \cup {None}
<1>1. CASE ~AnswersCard
  <2>1. card' = card
    BY <1>1 DEF AnswerArrives
  <2>2. QED
    BY <2>1
<1>2. CASE AnswersCard
  <2>1. card \in Cards
    BY <1>2 DEF AnswersCard
  <2>2. card' = card \/ card' = None \/ card' = [kind |-> card.kind, sent |-> FALSE]
    BY <1>2 DEF AnswerArrives
  <2>3. [kind |-> card.kind, sent |-> FALSE] \in Cards
    BY <2>1 DEF Cards
  <2>4. QED
    BY <2>1, <2>2, <2>3
<1>3. QED
  BY <1>1, <1>2

\* What the panel shows keeps its type.
LEMMA PanelTypesKept ==
  ASSUME Types, [Next]_vars
  PROVE  PanelTypes'
<1> USE DEF Types, TypeOK, PanelTypes, panelVars, cardVars, pageVars
<1>1. ASSUME UNCHANGED pageVars PROVE PanelTypes'
  BY <1>1
<1>2. ASSUME SaveEnds PROVE PanelTypes'
  BY <1>2 DEF SaveEnds
<1>3. ASSUME ReadEnd PROVE PanelTypes'
  BY <1>3 DEF ReadEnd, Leave
<1>4. ASSUME ReadProgress PROVE PanelTypes'
  BY <1>4 DEF ReadProgress
<1>5. ASSUME ReadPreview PROVE PanelTypes'
  BY <1>5 DEF ReadPreview, Leave
<1>6. ASSUME ReadCompletion PROVE PanelTypes'
  BY <1>6 DEF ReadCompletion, Completed, Read
<1>7. ASSUME ReadText PROVE PanelTypes'
  BY <1>7 DEF ReadText
<1>8. ASSUME ReadMenu PROVE PanelTypes'
  BY <1>8 DEF ReadMenu
<1>9. ASSUME MenuOpens PROVE PanelTypes'
  BY <1>9 DEF MenuOpens
<1>10. ASSUME MenuAcknowledged PROVE PanelTypes'
  BY <1>10 DEF MenuAcknowledged, Leave
<1>11. ASSUME CloseProgress PROVE PanelTypes'
  BY <1>11 DEF CloseProgress
<1>12. ASSUME Refresh PROVE PanelTypes'
  BY <1>12 DEF Refresh
<1>13. ASSUME ClearAsks PROVE PanelTypes'
  BY <1>13 DEF ClearAsks
<1>14. ASSUME StartCommand PROVE PanelTypes'
  BY <1>14 DEF StartCommand
<1>15. ASSUME EndCommand PROVE PanelTypes'
  BY <1>15 DEF EndCommand
<1>16. ASSUME Reload PROVE PanelTypes'
  BY <1>16 DEF Reload
<1>17. ASSUME StreamBreaks PROVE PanelTypes'
  BY <1>17 DEF StreamBreaks, Leave
<1>18. ASSUME ClearArrives PROVE PanelTypes'
  BY <1>18 DEF ClearArrives
<1>19. ASSUME Stop PROVE PanelTypes'
  BY <1>19 DEF Stop, Abort, Leave
<1>20. ASSUME Clear PROVE PanelTypes'
  BY <1>20 DEF Clear, Abort, Leave
<1>21. ASSUME Send PROVE PanelTypes'
  <2>1. turn' \in 0..MaxTurns
    BY <1>21, AssistantAssumption DEF Send
  <2>2. QED
    BY <1>21, <2>1 DEF Send
<1>22. ASSUME ReadConfirm \/ ReadScope PROVE PanelTypes'
  <2>1. Head(events) \in Fitting /\ Head(events).type \in {"confirm", "scope"}
    BY <1>22, HeadFits DEF ReadConfirm, ReadScope, Read, Reading
  <2>2. Head(events).kind \in {"tagging", "review", "summary", "pages"}
    BY <2>1 DEF Fitting
  <2>3. QED
    <3>1. [kind |-> Head(events).kind, sent |-> FALSE] \in Cards
      BY <2>2 DEF Cards, AllKinds
    <3>2. card' \in Cards
      BY <1>22, <3>1 DEF ReadConfirm, ReadScope, Shown
    <3>3. CASE ReadConfirm
      BY <3>2, <3>3 DEF ReadConfirm
    <3>4. CASE ReadScope
      <4>1. progress' \in {"tagging", "summary"}
        BY <2>1, <3>4 DEF ReadScope, Read, Shown, Fitting
      <4>2. QED
        BY <3>2, <3>4, <4>1 DEF ReadScope
    <3>5. QED
      BY <1>22, <3>3, <3>4
<1>23. ASSUME NEW value \in {"yes", "no"}, Click(value) PROVE PanelTypes'
  <2>1. card \in Cards
    BY <1>23 DEF Click
  <2>2. card' \in Cards
    BY <1>23, <2>1 DEF Click, Cards
  <2>3. QED
    BY <1>23, <2>2 DEF Click
<1>24. ASSUME AnswerArrives PROVE PanelTypes'
  <2>1. UNCHANGED <<panelVars, progress, completion, gate, clearing>>
    BY <1>24 DEF AnswerArrives
  <2>2. QED
    BY <1>24, <2>1, AnswerOnCard
<1>25. ASSUME NEW t \in Turns, Turn(t) \/ ChatArrives(t) \/ ChatDropped(t) \/ InferenceFails(t) PROVE PanelTypes'
  BY <1>1, <1>25 DEF Turn, ChatArrives, ChatDropped, InferenceFails, Decide, Orphaned, Acquire, Resume, BatchEnds,
     BatchesEnd, Apply, Finish,
     EndTurn, MenuTimesOut, Cancelled
<1>26. ASSUME (\E a \in delivering : Deliver(a)) \/ (\E r \in cast.requests : EnterRoute(r) \/ LeaveRoute(r))
       PROVE  PanelTypes'
  BY <1>1, <1>26 DEF Deliver, EnterRoute, LeaveRoute
<1>27. QED
  BY <1>1, <1>2, <1>3, <1>4, <1>5, <1>6, <1>7, <1>8, <1>9, <1>10, <1>11, <1>12, <1>13, <1>14, <1>15, <1>16, <1>17,
     <1>18, <1>19, <1>20, <1>21, <1>22, <1>23, <1>24, <1>25, <1>26 DEF Next, Panel, User, Server, Others, Failures,
     vars

\* The ways a turn's record changes.
LEMMA RunChanges ==
  ASSUME run \in [Turns -> Runs], NEW t \in Turns, NEW step \in Steps, NEW kind \in AllKinds \cup {"none"}
  PROVE  /\ [run EXCEPT ![t] = Over] \in [Turns -> Runs]
         /\ [run EXCEPT ![t].at = step] \in [Turns -> Runs]
         /\ [run EXCEPT ![t].at = step, ![t].kind = kind] \in [Turns -> Runs]
         /\ [run EXCEPT ![t].at = step, ![t].did = {}] \in [Turns -> Runs]
<1>1. [run EXCEPT ![t] = Over] \in [Turns -> Runs]
  BY DEF Runs, Steps, AllKinds, Over, NotBegun
<1>2. [run EXCEPT ![t].at = step] \in [Turns -> Runs]
  BY DEF Runs
<1>3. [run EXCEPT ![t].at = step, ![t].kind = kind] \in [Turns -> Runs]
  BY DEF Runs
<1>4. [run EXCEPT ![t].at = step, ![t].did = {}] \in [Turns -> Runs]
  BY DEF Runs
<1>5. QED
  BY <1>1, <1>2, <1>3, <1>4

\* A turn that has done something more.
LEMMA RunAdvances ==
  ASSUME run \in [Turns -> Runs], NEW t \in Turns, NEW step \in Steps, NEW kind \in AllKinds \cup {"none"},
         NEW did \in SUBSET {"pages", "menu", "reused", "batch"}
  PROVE  /\ [run EXCEPT ![t].did = run[t].did \cup did] \in [Turns -> Runs]
         /\ [run EXCEPT ![t].at = step, ![t].did = run[t].did \cup did] \in [Turns -> Runs]
         /\ [run EXCEPT ![t] = [at |-> step, kind |-> kind, heard |-> "none",
                               did |-> run[t].did \cup did]] \in [Turns -> Runs]
<1>1. [run EXCEPT ![t].did = run[t].did \cup did] \in [Turns -> Runs]
  BY DEF Runs
<1>2. [run EXCEPT ![t].at = step, ![t].did = run[t].did \cup did] \in [Turns -> Runs]
  BY DEF Runs
<1>3. [run EXCEPT ![t] = [at |-> step, kind |-> kind, heard |-> "none",
                        did |-> run[t].did \cup did]] \in [Turns -> Runs]
  BY DEF Runs
<1>4. QED
  BY <1>1, <1>2, <1>3

\* Steps of the panel, of the user and of others.
Quiet ==
    \/ ReadEnd \/ ReadConfirm \/ ReadScope \/ ReadProgress \/ ReadPreview \/ ReadCompletion \/ ReadText
    \/ ReadMenu \/ MenuOpens \/ CloseProgress \/ Refresh \/ ClearAsks
    \/ User \/ AnswerArrives \/ ClearArrives \/ Others \/ StreamBreaks \/ Reload
    \/ UNCHANGED vars

\* They leave the turns' records alone.
LEMMA QuietRun ==
  ASSUME Quiet
  PROVE  UNCHANGED run
<1> USE DEF serverVars, turnVars
<1>1. ASSUME ReadEnd \/ ReadConfirm \/ ReadScope \/ ReadProgress \/ ReadPreview \/ ReadCompletion \/ ReadText
             \/ ReadMenu \/ MenuOpens \/ CloseProgress \/ Refresh \/ ClearAsks
      PROVE  UNCHANGED run
  BY <1>1 DEF ReadEnd, ReadConfirm, ReadScope, ReadProgress, ReadPreview, ReadCompletion, ReadText, ReadMenu,
     MenuOpens, CloseProgress, Refresh, ClearAsks
<1>2. ASSUME User \/ AnswerArrives \/ ClearArrives \/ Others \/ StreamBreaks \/ Reload
      PROVE  UNCHANGED run
  BY <1>2 DEF User, Send, Stop, Clear, Click, AnswerArrives, ClearArrives, Others, StartCommand, EndCommand,
     EnterRoute, LeaveRoute, StreamBreaks, Reload
<1>3. QED
  BY <1>1, <1>2 DEF Quiet, vars

\* The other steps.
LEMMA QuietSteps ==
  ASSUME [Next]_vars
  PROVE  \/ Quiet
         \/ SaveEnds \/ MenuAcknowledged \/ \E a \in delivering : Deliver(a)
         \/ \E t \in Turns : \/ Decide(t) \/ Orphaned(t) \/ Acquire(t) \/ Resume(t) \/ BatchEnds(t)
                             \/ BatchesEnd(t) \/ Apply(t) \/ Finish(t) \/ EndTurn(t) \/ MenuTimesOut(t)
                             \/ Cancelled(t) \/ ChatArrives(t) \/ ChatDropped(t) \/ InferenceFails(t)
BY DEF Quiet, Next, Panel, Server, Failures, Turn

\* The turns' records keep their type.
LEMMA RunTypesKept ==
  ASSUME Types, [Next]_vars
  PROVE  run' \in [Turns -> Runs]
<1> USE DEF Types, TypeOK
<1>1. ASSUME UNCHANGED run PROVE run' \in [Turns -> Runs]
  BY <1>1
<1>2. ASSUME SaveEnds PROVE run' \in [Turns -> Runs]
  <2>1. turn \in Turns
    BY <1>2 DEF SaveEnds, ChatFits, Busy
  <2>2. run' = run \/ run' = [run EXCEPT ![turn] = Over]
    BY <1>2 DEF SaveEnds
  <2>3. [run EXCEPT ![turn] = Over] \in [Turns -> Runs]
    BY <2>1, RunChanges DEF Steps
  <2>4. QED
    BY <2>2, <2>3
<1>3. ASSUME NEW t \in Turns, MenuEnds(t) PROVE run' \in [Turns -> Runs]
  BY RunAdvances, <1>3 DEF MenuEnds, Steps
<1>4. ASSUME NEW t \in Turns, Ends(t) PROVE run' \in [Turns -> Runs]
  BY RunChanges, <1>4 DEF Ends, Steps
<1>5. ASSUME NEW t \in Turns, NEW step \in Steps, Go(t, step) PROVE run' \in [Turns -> Runs]
  BY RunChanges, <1>5 DEF Go
<1>6. ASSUME NEW t \in Turns, Fails(t) PROVE run' \in [Turns -> Runs]
  <2>1. Ends(t) \/ run' = [run EXCEPT ![t].at = "ending", ![t].did = {}]
    BY <1>6 DEF Fails
  <2>2. [run EXCEPT ![t].at = "ending", ![t].did = {}] \in [Turns -> Runs]
    BY RunChanges DEF Steps
  <2>3. QED
    BY <1>4, <2>1, <2>2
<1>7. ASSUME NEW t \in Turns, NEW kind \in AllKinds, NEW type, Asks(t, kind, type) PROVE run' \in [Turns -> Runs]
  BY RunChanges, <1>7 DEF Asks, Steps
<1>8. ASSUME NEW t \in Turns, Decide(t) PROVE run' \in [Turns -> Runs]
  <2>1. PICK kind \in AllKinds :
          \/ run' = [run EXCEPT ![t].at = "ending", ![t].kind = kind]
          \/ run' = [run EXCEPT ![t].at = "acquiring", ![t].kind = kind]
          \/ run' = [run EXCEPT ![t].at = "menu", ![t].kind = kind]
          \/ run' = [run EXCEPT ![t] = [at |-> "batches", kind |-> kind, heard |-> "none",
                                        did |-> run[t].did \cup {"reused"}]]
          \/ \E type \in {"scope", "confirm"} : Asks(t, kind, type)
    <3>1. cast.kinds \subseteq AllKinds
      BY AssistantAssumption DEF HistoryTypes
    <3>2. QED
      BY <1>8, <3>1 DEF Decide
  <2>2. CASE run' = [run EXCEPT ![t] = [at |-> "batches", kind |-> kind, heard |-> "none",
                                       did |-> run[t].did \cup {"reused"}]]
    BY <2>2, RunAdvances DEF Steps
  <2>3. CASE \E step \in Steps : run' = [run EXCEPT ![t].at = step, ![t].kind = kind]
    <3>1. PICK step \in Steps : run' = [run EXCEPT ![t].at = step, ![t].kind = kind]
      BY <2>3
    <3>2. kind \in AllKinds \cup {"none"}
      OBVIOUS
    <3>3. QED
      BY <3>1, <3>2, RunChanges
  <2>4. QED
    BY <1>7, <2>1, <2>2, <2>3 DEF Steps
<1>9. ASSUME NEW t \in Turns, Acquire(t) PROVE run' \in [Turns -> Runs]
  <2>1. run[t].kind \in AllKinds
    BY <1>9 DEF Acquire, At, KindsFit, AllKinds
  <2>2. Fails(t) \/ Go(t, "finishing") \/ \E type \in {"scope", "confirm"} : Asks(t, run[t].kind, type)
    BY <1>9 DEF Acquire
  <2>3. QED
    BY <1>5, <1>6, <1>7, <2>1, <2>2 DEF Steps
<1>10. ASSUME NEW t \in Turns, Resume(t) PROVE run' \in [Turns -> Runs]
  <2>1. PICK step \in Steps, did \in SUBSET {"pages", "menu", "reused", "batch"} :
          run' = [run EXCEPT ![t] = [at |-> step, kind |-> run[t].kind, heard |-> "none",
                                    did |-> run[t].did \cup did]]
    BY <1>10 DEF Resume, Steps
  <2>2. run[t].kind \in AllKinds \cup {"none"}
    BY DEF Runs
  <2>3. QED
    BY <2>1, <2>2, RunAdvances
<1>11. ASSUME NEW t \in Turns, BatchEnds(t) PROVE run' \in [Turns -> Runs]
  BY <1>11 DEF BatchEnds, Runs
<1>12. ASSUME NEW t \in Turns, BatchesEnd(t) \/ Finish(t) PROVE run' \in [Turns -> Runs]
  BY <1>5, <1>12 DEF BatchesEnd, Finish, Steps
<1>13. ASSUME NEW t \in Turns, Apply(t) PROVE run' \in [Turns -> Runs]
  BY <1>5, <1>6, <1>13 DEF Apply, Steps
<1>14. ASSUME NEW t \in Turns, Orphaned(t) \/ EndTurn(t) \/ MenuTimesOut(t) \/ Cancelled(t) \/ InferenceFails(t)
       PROVE  run' \in [Turns -> Runs]
  BY <1>3, <1>4, <1>6, <1>14 DEF Orphaned, EndTurn, MenuTimesOut, Cancelled, InferenceFails
<1>15. ASSUME NEW t \in Turns, ChatArrives(t) \/ ChatDropped(t) PROVE run' \in [Turns -> Runs]
  BY <1>4, <1>5, <1>15 DEF ChatArrives, ChatDropped, Steps
<1>16. ASSUME NEW a \in delivering, Deliver(a) PROVE run' \in [Turns -> Runs]
  <2>1. a \in Answers /\ a.question.turn \in Turns /\ a.value \in {"none", "yes", "no"}
    BY DEF ServerTypes, Answers, Questions
  <2>2. QED
    BY <1>16, <2>1 DEF Deliver, Runs
<1>17. ASSUME MenuAcknowledged PROVE run' \in [Turns -> Runs]
  <2>1. turn \in Turns
    BY <1>17 DEF MenuAcknowledged, ChatFits, Busy
  <2>2. QED
    BY <1>1, <1>3, <1>17, <2>1 DEF MenuAcknowledged
<1>18. QED
  BY <1>1, <1>2, <1>8, <1>9, <1>10, <1>11, <1>12, <1>13, <1>14, <1>15, <1>16, <1>17, QuietSteps, QuietRun

\* The server's sets keep their types.
LEMMA ServerTypesKept ==
  ASSUME Types, [Next]_vars
  PROVE  ServerTypes' /\ cast' = cast
<1> DEFINE Kept == ServerTypes' /\ cast' = cast
<1> USE DEF Types, TypeOK, ServerTypes, guardVars, turnVars, serverVars, historyVars
<1>1. ASSUME UNCHANGED <<serverVars, cast>> PROVE Kept
  BY <1>1
<1>2. ASSUME NEW r \in cast.requests, EnterRoute(r) \/ LeaveRoute(r) PROVE Kept
  BY <1>2 DEF EnterRoute, LeaveRoute
<1>3. ASSUME NEW t \in Turns, Release(t) PROVE operation' \in 0..MaxTurns
  BY AssistantAssumption, <1>3 DEF Release
<1>4. ASSUME NEW t \in Turns, KeepBatches(t) PROVE kept' \in BOOLEAN
  BY <1>4 DEF KeepBatches
<1>5. ASSUME NEW t \in Turns, Fails(t), UNCHANGED <<inside, pending, delivering, cast>> PROVE Kept
  BY <1>3, <1>4, <1>5 DEF Fails
<1>6. ASSUME NEW t \in Turns, NEW kind \in {"tagging", "review", "summary", "pages"}, NEW type, Asks(t, kind, type)
      PROVE  pending' \subseteq Questions
  BY <1>6 DEF Asks, Questions
<1>7. ASSUME NEW t \in Turns, Decide(t) PROVE Kept
  <2>1. pending' = pending \/ \E kind \in {"summary", "pages"} : pending' = pending \cup {[turn |-> t, kind |-> kind]}
    BY <1>7 DEF Decide, Asks
  <2>2. pending' \subseteq Questions
    BY <2>1 DEF Questions
  <2>3. UNCHANGED <<guardVars, delivering, kept, cast>> /\ (streaming' = streaming \/ streaming' = streaming \ {t})
    BY <1>7 DEF Decide
  <2>4. QED
    BY <2>2, <2>3
<1>8. ASSUME NEW t \in Turns, Acquire(t) PROVE Kept
  <2>1. CASE CanAcquire /\ Unchanged(t)
    <3>1. run[t].kind \in {"tagging", "review"}
      BY <1>8 DEF Acquire, KindsFit
    <3>2. pending' \subseteq Questions
      BY <1>6, <1>8, <2>1, <3>1 DEF Acquire
    <3>3. operation' \in 0..MaxTurns
      BY <1>8, <2>1 DEF Acquire, Turns
    <3>4. UNCHANGED <<inside, streaming, delivering, kept, cast>>
      BY <1>8, <2>1 DEF Acquire, Concerns
    <3>5. QED
      BY <3>2, <3>3, <3>4
  <2>2. CASE ~(CanAcquire /\ Unchanged(t))
    BY <1>5, <1>8, <2>2 DEF Acquire
  <2>3. QED
    BY <2>1, <2>2
<1>9. ASSUME NEW t \in Turns, Apply(t) PROVE Kept
  <2>1. CASE Unchanged(t)
    BY <1>9, <2>1 DEF Apply
  <2>2. CASE ~Unchanged(t)
    BY <1>5, <1>9, <2>2 DEF Apply
  <2>3. QED
    BY <2>1, <2>2
<1>10. ASSUME NEW t \in Turns, Orphaned(t) \/ InferenceFails(t) PROVE Kept
  BY <1>5, <1>10 DEF Orphaned, InferenceFails
<1>11. ASSUME NEW t \in Turns, EndTurn(t) \/ Cancelled(t) PROVE Kept
  BY <1>3, <1>4, <1>11 DEF EndTurn, Cancelled
<1>12. ASSUME NEW t \in Turns, Resume(t) \/ BatchEnds(t) \/ BatchesEnd(t) \/ MenuTimesOut(t) PROVE Kept
  BY <1>12 DEF Resume, BatchEnds, BatchesEnd, MenuTimesOut
<1>13. ASSUME NEW t \in Turns, Finish(t) \/ ChatArrives(t) \/ ChatDropped(t) PROVE Kept
  BY <1>13 DEF Finish, ChatArrives, ChatDropped
<1>14. ASSUME AnswerArrives PROVE Kept
  <2>1. answer \in Answers
    BY <1>14 DEF AnswerArrives
  <2>2. \A q \in Accepted : [question |-> q, value |-> answer.value] \in Answers
    BY <2>1 DEF Accepted, Answers
  <2>3. pending' \subseteq Questions /\ delivering' \subseteq Answers
    BY <1>14, <2>2 DEF AnswerArrives
  <2>4. UNCHANGED <<guardVars, streaming, kept, cast>>
    BY <1>14 DEF AnswerArrives
  <2>5. QED
    BY <2>3, <2>4
<1>15. ASSUME NEW a \in delivering, Deliver(a) PROVE Kept
  BY <1>15 DEF Deliver
<1>16. ASSUME ClearArrives PROVE Kept
  BY <1>16 DEF ClearArrives
<1>17. ASSUME SaveEnds \/ MenuAcknowledged PROVE Kept
  BY <1>17 DEF SaveEnds, MenuAcknowledged
<1>18. UNCHANGED vars => UNCHANGED <<serverVars, cast>>
  BY DEF vars
<1>19. ReadEnd \/ ReadConfirm \/ ReadScope \/ ReadProgress \/ ReadPreview \/ ReadCompletion \/ ReadText
       \/ ReadMenu \/ MenuOpens \/ CloseProgress \/ Refresh \/ ClearAsks => UNCHANGED <<serverVars, cast>>
  BY DEF ReadEnd, ReadConfirm, ReadScope, ReadProgress, ReadPreview, ReadCompletion, ReadText, ReadMenu, MenuOpens,
     CloseProgress, Refresh, ClearAsks
<1>20. User \/ StartCommand \/ EndCommand \/ StreamBreaks \/ Reload => UNCHANGED <<serverVars, cast>>
  BY DEF User, Send, Stop, Clear, Click, StartCommand, EndCommand, StreamBreaks, Reload
<1>21. QED
  BY <1>1, <1>2, <1>7, <1>8, <1>9, <1>10, <1>11, <1>12, <1>13, <1>14, <1>15, <1>16, <1>17, <1>18, <1>19,
     <1>20 DEF Next, Panel, Server, Others, Failures, Turn

\* Who consented, what is stale and what is not shown keep their types.
LEMMA HistoryTypesKept ==
  ASSUME Types, [Next]_vars
  PROVE  HistoryTypes'
<1> DEFINE Kept == HistoryTypes'
<1> USE DEF Types, TypeOK, HistoryTypes, historyVars
<1>0. cast' = cast
  BY ServerTypesKept
<1>a. cast.failures \in Nat
  BY AssistantAssumption
<1>b. Counted => failures' \in 0..cast.failures
  BY <1>a DEF Counted
<1>1. ASSUME UNCHANGED historyVars PROVE Kept
  BY <1>1
<1>2. ASSUME NEW r \in cast.requests, EnterRoute(r) \/ LeaveRoute(r) PROVE Kept
  BY <1>0, <1>2 DEF EnterRoute, LeaveRoute, NewUuid
<1>3. ASSUME NEW t \in Turns, Ends(t) PROVE stale' \subseteq Turns /\ consented' \subseteq Questions
  BY <1>3 DEF Ends
<1>4. ASSUME NEW t \in Turns, Fails(t) PROVE stale' \subseteq Turns /\ consented' \subseteq Questions
  BY <1>3, <1>4 DEF Fails, Concerns
<1>5. ASSUME NEW t \in Turns, Acquire(t) \/ Orphaned(t) PROVE Kept
  BY <1>0, <1>4, <1>5 DEF Acquire, Orphaned, Concerns
<1>6. ASSUME NEW t \in Turns, Apply(t) PROVE Kept
  <2>1. CASE Unchanged(t)
    BY <1>0, <1>6, <2>1 DEF Apply, NewUuid
  <2>2. CASE ~Unchanged(t)
    BY <1>0, <1>4, <1>6, <2>2 DEF Apply
  <2>3. QED
    BY <2>1, <2>2
<1>7. ASSUME NEW t \in Turns, EndTurn(t) \/ Cancelled(t) \/ ChatArrives(t) \/ ChatDropped(t) PROVE Kept
  BY <1>0, <1>3, <1>7 DEF EndTurn, Cancelled, ChatArrives, ChatDropped, Concerns
<1>8. ASSUME NEW t \in Turns, InferenceFails(t) PROVE Kept
  BY <1>0, <1>b, <1>4, <1>8 DEF InferenceFails
<1>9. ASSUME NEW t \in Turns, Decide(t) \/ Resume(t) \/ BatchEnds(t) \/ BatchesEnd(t) \/ Finish(t) \/ MenuTimesOut(t)
      PROVE  Kept
  BY <1>1, <1>9 DEF Decide, Resume, BatchEnds, BatchesEnd, Finish, MenuTimesOut
<1>10. ASSUME NEW value \in {"yes", "no"}, Click(value) PROVE Kept
  <2>1. card \in Cards /\ turn \in Turns
    BY <1>10 DEF Click, PanelTypes, InRequest, ChatFits, Busy
  <2>2. [turn |-> turn, kind |-> card.kind] \in Questions
    BY <2>1 DEF Cards, Questions, AllKinds
  <2>3. QED
    BY <1>0, <1>10, <2>2 DEF Click
<1>11. ASSUME AnswerArrives PROVE Kept
  BY <1>0, <1>b, <1>11 DEF AnswerArrives
<1>12. ASSUME SaveEnds \/ Refresh \/ StreamBreaks \/ Reload PROVE Kept
  BY <1>0, <1>b, <1>12 DEF SaveEnds, Refresh, StreamBreaks, Reload
<1>13. ASSUME (\E a \in delivering : Deliver(a)) \/ ClearArrives \/ StartCommand \/ EndCommand PROVE Kept
  BY <1>1, <1>13 DEF Deliver, ClearArrives, StartCommand, EndCommand
<1>14. ReadEnd \/ ReadConfirm \/ ReadScope \/ ReadProgress \/ ReadPreview \/ ReadCompletion \/ ReadText
       \/ ReadMenu \/ MenuOpens \/ MenuAcknowledged \/ CloseProgress \/ ClearAsks \/ Send \/ Stop \/ Clear
       => UNCHANGED historyVars
  BY DEF ReadEnd, ReadConfirm, ReadScope, ReadProgress, ReadPreview, ReadCompletion, ReadText, ReadMenu, MenuOpens,
     MenuAcknowledged, CloseProgress, ClearAsks, Send, Stop, Clear
<1>15. QED
  BY <1>1, <1>2, <1>5, <1>6, <1>7, <1>8, <1>9, <1>10, <1>11, <1>12, <1>13, <1>14 DEF Next, Panel, User, Server,
     Others, Failures, Turn, vars

\* What is on the wire keeps its type.
LEMMA WireTypesKept ==
  ASSUME Types, [Next]_vars
  PROVE  chat' \subseteq Turns /\ gone' \subseteq Turns /\ answer' \in Answers \cup {None}
<1> DEFINE Kept == chat' \subseteq Turns /\ gone' \subseteq Turns /\ answer' \in Answers \cup {None}
<1> USE DEF Types, TypeOK, wireVars
<1>1. ASSUME UNCHANGED <<chat, gone, answer>> PROVE Kept
  BY <1>1
<1>2. ASSUME NEW t \in Turns, Ends(t) PROVE gone' \subseteq Turns
  BY <1>2 DEF Ends
<1>3. ASSUME NEW t \in Turns, Fails(t) PROVE gone' \subseteq Turns
  BY <1>2, <1>3 DEF Fails, Concerns
<1>4. ASSUME NEW t \in Turns, Acquire(t) \/ Orphaned(t) \/ InferenceFails(t) PROVE Kept
  BY <1>3, <1>4 DEF Acquire, Orphaned, InferenceFails, Concerns
<1>5. ASSUME NEW t \in Turns, Apply(t) PROVE Kept
  BY <1>3, <1>5 DEF Apply, Concerns
<1>6. ASSUME NEW t \in Turns, EndTurn(t) \/ Cancelled(t) \/ ChatArrives(t) \/ ChatDropped(t) PROVE Kept
  BY <1>2, <1>6 DEF EndTurn, Cancelled, ChatArrives, ChatDropped, Concerns
<1>7. ASSUME NEW t \in Turns, Decide(t) \/ Resume(t) \/ BatchEnds(t) \/ BatchesEnd(t) \/ Finish(t) \/ MenuTimesOut(t)
      PROVE  Kept
  BY <1>1, <1>7 DEF Decide, Resume, BatchEnds, BatchesEnd, Finish, MenuTimesOut
<1>8. ASSUME NEW value \in {"yes", "no"}, Click(value) PROVE Kept
  <2>1. card \in Cards /\ turn \in Turns
    BY <1>8 DEF Click, PanelTypes, InRequest, ChatFits, Busy
  <2>2. [turn |-> turn, kind |-> card.kind] \in Questions
    BY <2>1 DEF Cards, Questions, AllKinds
  <2>3. answer' \in Answers
    BY <1>8, <2>2 DEF Click, Answers
  <2>4. QED
    BY <1>8, <2>3 DEF Click
<1>9. ASSUME AnswerArrives PROVE Kept
  BY <1>9 DEF AnswerArrives
<1>10. ASSUME turn \in Turns PROVE Abandoned \subseteq Turns
  BY <1>10 DEF Abandoned
<1>11. ASSUME Abort PROVE gone' \subseteq Turns
  <2>1. turn \in Turns
    BY <1>11 DEF Abort, InRequest, ChatFits, Busy
  <2>2. QED
    BY <1>10, <1>11, <2>1 DEF Abort
<1>12. ASSUME Stop \/ Clear PROVE Kept
  BY <1>11, <1>12 DEF Stop, Clear
<1>13. ASSUME StreamBreaks PROVE Kept
  BY <1>10, <1>13 DEF StreamBreaks, ChatFits, Busy
<1>14. ASSUME Reload PROVE Kept
  BY <1>10, TurnNumbers, <1>14 DEF Reload, PanelTypes
<1>15. ASSUME Send PROVE Kept
  <2>1. turn + 1 \in Turns
    BY <1>15, TurnNumbers DEF Send, PanelTypes
  <2>2. QED
    BY <1>15, <2>1 DEF Send
<1>16. ASSUME SaveEnds PROVE Kept
  BY <1>16 DEF SaveEnds, ChatFits, Busy
<1>17. ASSUME (\E a \in delivering : Deliver(a)) \/ ClearArrives \/ Others PROVE Kept
  BY <1>1, <1>17 DEF Deliver, ClearArrives, Others, StartCommand, EndCommand, EnterRoute, LeaveRoute
<1>18. ReadEnd \/ ReadConfirm \/ ReadScope \/ ReadProgress \/ ReadPreview \/ ReadCompletion \/ ReadText
       \/ ReadMenu \/ MenuOpens \/ MenuAcknowledged \/ CloseProgress \/ Refresh \/ ClearAsks
       => UNCHANGED <<chat, gone, answer>>
  BY DEF ReadEnd, ReadConfirm, ReadScope, ReadProgress, ReadPreview, ReadCompletion, ReadText, ReadMenu, MenuOpens,
     MenuAcknowledged, CloseProgress, Refresh, ClearAsks
<1>19. QED
  BY <1>1, <1>4, <1>5, <1>6, <1>7, <1>8, <1>9, <1>12, <1>13, <1>14, <1>15, <1>16, <1>17, <1>18 DEF Next, Panel,
     User, Server, Failures, Turn, vars

\* An event is sent with the kind its turn has.
LEMMA EmitFits ==
  ASSUME Types, run' \in [Turns -> Runs], NEW t \in Turns, NEW type \in EventTypes, Emit(t, type),
         type = "scope" => run'[t].kind \in {"tagging", "summary"},
         type = "confirm" => run'[t].kind \in {"review", "pages"}
  PROVE  EventsFit'
<1>1. [kind |-> run'[t].kind, type |-> type] \in Fitting
  BY DEF Fitting, Events, Runs
<1>2. QED
  BY <1>1 DEF Emit, Types, EventsFit

\* Questions are shown as what they are.
LEMMA EventsKept ==
  ASSUME Types, [Next]_vars
  PROVE  EventsFit'
<1> USE DEF wireVars
<1>a. run' \in [Turns -> Runs] /\ run \in [Turns -> Runs] /\ EventsFit
  BY RunTypesKept DEF Types, TypeOK
<1>1. ASSUME UNCHANGED events PROVE EventsFit'
  BY <1>a, <1>1 DEF EventsFit
<1>2. ASSUME events' = <<>> PROVE EventsFit'
  BY <1>2 DEF EventsFit
<1>3. ASSUME events # <<>>, events' = Tail(events) PROVE EventsFit'
  BY <1>a, <1>3, HeadFits DEF EventsFit
<1>4. ASSUME NEW t \in Turns, NEW type \in EventTypes \ {"scope", "confirm"}, Emit(t, type) PROVE EventsFit'
  BY <1>a, <1>4, EmitFits DEF EventTypes
<1>5. ASSUME NEW t \in Turns, NEW kind \in AllKinds, NEW type \in EventTypes, Asks(t, kind, type),
            type = "scope" => kind \in {"tagging", "summary"}, type = "confirm" => kind \in {"review", "pages"}
     PROVE  EventsFit'
  <2>1. run'[t].kind = kind
    BY <1>a, <1>5 DEF Asks, Runs
  <2>2. QED
    BY <1>a, <1>5, <2>1, EmitFits DEF Asks
<1>6. ASSUME NEW t \in Turns, Fails(t) PROVE EventsFit'
  BY <1>4, <1>6 DEF Fails, EventTypes
<1>7. ASSUME NEW t \in Turns, Decide(t) PROVE EventsFit'
  <2>1. \/ UNCHANGED events
        \/ \E type \in {"done", "progress", "menu"} : Emit(t, type)
        \/ Asks(t, "summary", "scope") \/ Asks(t, "pages", "confirm")
    BY <1>7 DEF Decide
  <2>2. QED
    BY <1>1, <1>4, <1>5, <2>1 DEF EventTypes, AllKinds
<1>8. ASSUME NEW t \in Turns, Acquire(t) PROVE EventsFit'
  <2>1. run[t].kind \in {"tagging", "review"}
    BY <1>8 DEF Acquire, Types, KindsFit
  <2>2. \/ Fails(t) \/ Emit(t, "unchanged")
        \/ Asks(t, run[t].kind, IF run[t].kind = "tagging" THEN "scope" ELSE "confirm")
    BY <1>8 DEF Acquire
  <2>3. QED
    BY <1>4, <1>5, <1>6, <2>1, <2>2 DEF EventTypes, AllKinds
<1>9. ASSUME NEW t \in Turns, Resume(t) \/ BatchEnds(t) \/ BatchesEnd(t) \/ Finish(t) PROVE EventsFit'
  BY <1>1, <1>4, <1>9 DEF Resume, BatchEnds, BatchesEnd, Finish, EventTypes
<1>10. ASSUME NEW t \in Turns, Apply(t) PROVE EventsFit'
  BY <1>4, <1>6, <1>10 DEF Apply, EventTypes
<1>11. ASSUME NEW t \in Turns, EndTurn(t) \/ Orphaned(t) \/ InferenceFails(t) \/ ChatArrives(t) PROVE EventsFit'
  BY <1>1, <1>4, <1>6, <1>11 DEF EndTurn, Orphaned, InferenceFails, ChatArrives, EventTypes
<1>12. ASSUME NEW t \in Turns, MenuTimesOut(t) \/ Cancelled(t) \/ ChatDropped(t) PROVE EventsFit'
  BY <1>1, <1>12 DEF MenuTimesOut, Cancelled, ChatDropped
<1>13. ASSUME MenuAcknowledged PROVE EventsFit'
  BY <1>1, <1>2, <1>13 DEF MenuAcknowledged, Leave
<1>14. ASSUME ReadEnd \/ ReadConfirm \/ ReadScope \/ ReadProgress \/ ReadPreview \/ ReadCompletion \/ ReadText
       \/ ReadMenu PROVE EventsFit'
  BY <1>2, <1>3, <1>14 DEF ReadEnd, ReadConfirm, ReadScope, ReadProgress, ReadPreview, ReadCompletion, ReadText,
     ReadMenu, Read, Reading, Leave
<1>15. ASSUME Stop \/ Clear \/ StreamBreaks \/ Reload PROVE EventsFit'
  BY <1>1, <1>2, <1>15 DEF Stop, Clear, StreamBreaks, Reload, Abort, Leave
<1>16. SaveEnds \/ MenuOpens \/ CloseProgress \/ Refresh \/ ClearAsks \/ Send \/ AnswerArrives \/ ClearArrives
       \/ Others \/ (\E a \in delivering : Deliver(a)) \/ (\E value \in {"yes", "no"} : Click(value))
       => UNCHANGED events
  BY DEF SaveEnds, MenuOpens, CloseProgress, Refresh, ClearAsks, Send, AnswerArrives, ClearArrives, Others,
     StartCommand, EndCommand, EnterRoute, LeaveRoute, Deliver, Click
<1>17. QED
  BY <1>1, <1>7, <1>8, <1>9, <1>10, <1>11, <1>12, <1>13, <1>14, <1>15, <1>16 DEF Next, Panel, User, Server,
     Failures, Turn, vars

\* A turn's kind and answer stay what its step has them for.
LEMMA KindsKept ==
  ASSUME Types, [Next]_vars
  PROVE  KindsFit'
<1> USE DEF KindsFit, At
<1>a. run \in [Turns -> Runs] /\ KindsFit
  BY DEF Types, TypeOK
<1>1. ASSUME UNCHANGED run PROVE KindsFit'
  BY <1>a, <1>1
<1>2. ASSUME NEW t \in Turns, Ends(t) PROVE KindsFit'
  BY <1>a, <1>2 DEF Ends, Over, NotBegun
<1>3. ASSUME NEW t \in Turns, NEW step \in Steps \ {"waiting", "acquiring"}, ~At(t, "waiting"), Go(t, step)
      PROVE  KindsFit'
  BY <1>a, <1>3 DEF Go, Runs
<1>4. ASSUME NEW t \in Turns, ~At(t, "waiting"), Fails(t) PROVE KindsFit'
  BY <1>a, <1>2, <1>4 DEF Fails, Runs
<1>5. ASSUME NEW t \in Turns, At(t, "menu"), MenuEnds(t) PROVE KindsFit'
  BY <1>a, <1>5 DEF MenuEnds, Runs
<1>6. ASSUME NEW t \in Turns, NEW kind \in {"tagging", "review", "summary", "pages"}, NEW type, Asks(t, kind, type)
      PROVE  KindsFit'
  BY <1>a, <1>6 DEF Asks, Runs
<1>7. ASSUME NEW t \in Turns, Decide(t) PROVE KindsFit'
  BY <1>a, <1>6, <1>7 DEF Decide, Runs
<1>8. ASSUME NEW t \in Turns, Acquire(t) PROVE KindsFit'
  BY <1>a, <1>3, <1>4, <1>6, <1>8 DEF Acquire, Steps
<1>9. ASSUME NEW t \in Turns, Resume(t) PROVE KindsFit'
  BY <1>a, <1>9 DEF Resume, Runs
<1>10. ASSUME NEW t \in Turns, BatchEnds(t) PROVE KindsFit'
  BY <1>a, <1>10 DEF BatchEnds, Runs
<1>11. ASSUME NEW t \in Turns, BatchesEnd(t) \/ Finish(t) PROVE KindsFit'
  BY <1>3, <1>11 DEF BatchesEnd, Finish, Steps
<1>12. ASSUME NEW t \in Turns, Apply(t) PROVE KindsFit'
  BY <1>3, <1>4, <1>12 DEF Apply, Steps
<1>13. ASSUME NEW t \in Turns, Orphaned(t) \/ InferenceFails(t) PROVE KindsFit'
  BY <1>4, <1>13 DEF Orphaned, InferenceFails, WritesAnswer, At
<1>14. ASSUME NEW t \in Turns, EndTurn(t) \/ Cancelled(t) \/ ChatDropped(t) PROVE KindsFit'
  BY <1>2, <1>14 DEF EndTurn, Cancelled, ChatDropped
<1>15. ASSUME NEW t \in Turns, ChatArrives(t) PROVE KindsFit'
  <2>1. ~At(t, "waiting")
    BY <1>15 DEF ChatArrives, Types, ChatFits
  <2>2. QED
    BY <1>2, <1>3, <1>15, <2>1 DEF ChatArrives, Steps
<1>16. ASSUME NEW t \in Turns, MenuTimesOut(t) PROVE KindsFit'
  BY <1>5, <1>16 DEF MenuTimesOut
<1>17. ASSUME NEW a \in delivering, Deliver(a) PROVE KindsFit'
  BY <1>a, <1>17 DEF Deliver, Runs
<1>18. ASSUME MenuAcknowledged PROVE KindsFit'
  <2>1. turn \in Turns
    BY <1>18 DEF MenuAcknowledged, Types, ChatFits, Busy
  <2>2. QED
    BY <1>1, <1>5, <1>18, <2>1 DEF MenuAcknowledged
<1>19. ASSUME SaveEnds PROVE KindsFit'
  <2>1. run' = run \/ run' = [run EXCEPT ![turn] = Over]
    BY <1>19 DEF SaveEnds
  <2>2. QED
    BY <1>a, <2>1 DEF Over, NotBegun
<1>20. QED
  BY <1>1, <1>7, <1>8, <1>9, <1>10, <1>11, <1>12, <1>13, <1>14, <1>15, <1>16, <1>17, <1>18, <1>19, QuietSteps,
     QuietRun

\* A message is sent for a turn that has not begun.
LEMMA ChatKept ==
  ASSUME Types, [Next]_vars
  PROVE  ChatFits'
<1> USE DEF ChatFits, At, Busy
<1>a. run \in [Turns -> Runs] /\ turn \in 0..MaxTurns /\ chat \subseteq Turns /\ ChatFits
  BY DEF Types, TypeOK, PanelTypes
<1>1. ASSUME UNCHANGED <<run, turn, chat>>, phase' # "saving", phase # "idle" \/ phase' = "idle" PROVE ChatFits'
  BY <1>a, <1>1
<1>2. ASSUME UNCHANGED <<run, turn, chat, phase>> PROVE ChatFits'
  BY <1>a, <1>2
<1>3. ASSUME NEW t \in Turns, t <= turn, t \notin chat', phase = "saving" => t # turn,
            \A u \in Turns \ {t} : run'[u] = run[u], chat' \subseteq chat, UNCHANGED <<turn, phase>> PROVE ChatFits'
  <2>1. \A u \in Turns : u > turn => u # t
    BY <1>a, <1>3, TurnNumbers
  <2>2. \A u \in Turns : u \in chat' \/ u > turn => run'[u].at = "none"
    BY <1>a, <1>3, <2>1
  <2>3. phase = "saving" => turn \in Turns /\ run'[turn].at = "none" /\ turn \notin chat'
    BY <1>a, <1>3
  <2>4. QED
    BY <1>a, <1>3, <2>2, <2>3
<1>4. ASSUME NEW t \in Turns, Decide(t) \/ Resume(t) PROVE ChatFits'
  <2>1. \A u \in Turns \ {t} : run'[u] = run[u]
    BY <1>a, <1>4 DEF Decide, Resume, Asks
  <2>2. ~At(t, "none") /\ chat' \subseteq chat /\ UNCHANGED <<turn, phase>>
    BY <1>4 DEF Decide, Resume, pageVars, panelVars
  <2>3. t <= turn /\ t \notin chat' /\ (phase = "saving" => t # turn)
    BY <1>a, <2>2, TurnNumbers
  <2>4. QED
    BY <1>3, <2>1, <2>2, <2>3
<1>5. ASSUME NEW t \in Turns, Acquire(t) \/ Apply(t) PROVE ChatFits'
  <2>1. \A u \in Turns \ {t} : run'[u] = run[u]
    BY <1>a, <1>5 DEF Acquire, Apply, Asks, Go, Fails, Ends
  <2>2. ~At(t, "none") /\ chat' \subseteq chat /\ UNCHANGED <<turn, phase>>
    BY <1>5 DEF Acquire, Apply, pageVars, panelVars
  <2>3. t <= turn /\ t \notin chat' /\ (phase = "saving" => t # turn)
    BY <1>a, <2>2, TurnNumbers
  <2>4. QED
    BY <1>3, <2>1, <2>2, <2>3
<1>6. ASSUME NEW t \in Turns, BatchEnds(t) \/ BatchesEnd(t) \/ Finish(t) \/ MenuTimesOut(t) PROVE ChatFits'
  <2>1. \A u \in Turns \ {t} : run'[u] = run[u]
    BY <1>a, <1>6 DEF BatchEnds, BatchesEnd, Finish, MenuTimesOut, MenuEnds, Go
  <2>2. ~At(t, "none") /\ chat' \subseteq chat /\ UNCHANGED <<turn, phase>>
    BY <1>6 DEF BatchEnds, BatchesEnd, Finish, MenuTimesOut, wireVars, pageVars, panelVars
  <2>3. t <= turn /\ t \notin chat' /\ (phase = "saving" => t # turn)
    BY <1>a, <2>2, TurnNumbers
  <2>4. QED
    BY <1>3, <2>1, <2>2, <2>3
<1>7. ASSUME NEW t \in Turns, Orphaned(t) \/ InferenceFails(t) \/ EndTurn(t) \/ Cancelled(t) PROVE ChatFits'
  <2>1. \A u \in Turns \ {t} : run'[u] = run[u]
    BY <1>a, <1>7 DEF Orphaned, InferenceFails, EndTurn, Cancelled, Fails, Ends
  <2>2. ~At(t, "none") /\ chat' \subseteq chat /\ UNCHANGED <<turn, phase>>
    BY <1>7 DEF Orphaned, InferenceFails, WritesAnswer, At, EndTurn, Cancelled, Alive, pageVars, panelVars
  <2>3. t <= turn /\ t \notin chat' /\ (phase = "saving" => t # turn)
    BY <1>a, <2>2, TurnNumbers
  <2>4. QED
    BY <1>3, <2>1, <2>2, <2>3
<1>8. ASSUME NEW t \in Turns, ChatArrives(t) \/ ChatDropped(t) PROVE ChatFits'
  <2>1. \A u \in Turns \ {t} : run'[u] = run[u]
    BY <1>a, <1>8 DEF ChatArrives, ChatDropped, Go, Ends
  <2>2. t \in chat /\ chat' = chat \ {t} /\ chat' \subseteq chat /\ UNCHANGED <<turn, phase>>
    BY <1>8 DEF ChatArrives, ChatDropped, pageVars, panelVars
  <2>3. t <= turn /\ t \notin chat' /\ (phase = "saving" => t # turn)
    BY <1>a, <2>2, TurnNumbers
  <2>4. QED
    BY <1>3, <2>1, <2>2, <2>3
<1>9. ASSUME NEW a \in delivering, Deliver(a) PROVE ChatFits'
  <2>1. a.question.turn \in Turns /\ UNCHANGED <<turn, chat, phase>>
    BY <1>9 DEF Deliver, Types, TypeOK, ServerTypes, Answers, Questions, wireVars, pageVars, panelVars
  <2>2. CASE At(a.question.turn, "waiting")
    BY <1>a, <1>3, <1>9, <2>1, <2>2 DEF Deliver
  <2>3. CASE ~At(a.question.turn, "waiting")
    BY <1>a, <1>2, <1>9, <2>1, <2>3 DEF Deliver
  <2>4. QED
    BY <2>2, <2>3
<1>10. ASSUME MenuAcknowledged PROVE ChatFits'
  <2>1. turn \in Turns /\ UNCHANGED <<turn, chat>> /\ phase' # "saving"
    BY <1>a, <1>10 DEF MenuAcknowledged, Leave
  <2>2. \/ run' = run
        \/ /\ run[turn].at = "menu"
           /\ run' = [run EXCEPT ![turn].at = "thinking", ![turn].did = run[turn].did \cup {"menu"}]
    BY <1>10 DEF MenuAcknowledged, MenuEnds
  <2>3. \A u \in Turns : run'[u].at = "none" <=> run[u].at = "none"
    BY <1>a, <2>1, <2>2 DEF MenuEnds, Runs
  <2>4. QED
    BY <1>a, <2>1, <2>3
<1>11. ASSUME SaveEnds PROVE ChatFits'
  <2>1. turn \in Turns /\ UNCHANGED turn /\ phase' # "saving" /\ At(turn, "none") /\ turn \notin chat
    BY <1>a, <1>11 DEF SaveEnds
  <2>2. \/ run' = run /\ chat' = chat \cup {turn}
        \/ run' = [run EXCEPT ![turn] = Over] /\ chat' = chat
    BY <1>11 DEF SaveEnds
  <2>3. \A u \in Turns \ {turn} : run'[u] = run[u]
    BY <1>a, <2>2
  <2>4. \A u \in Turns : u > turn => u # turn
    BY <1>a, TurnNumbers
  <2>5. CASE run' = run /\ chat' = chat \cup {turn}
    <3>1. \A u \in chat' : u \in chat \/ u = turn
      BY <2>5
    <3>2. \A u \in chat' : u <= turn
      <4>1. turn \in Nat
        BY <2>1, TurnNumbers
      <4>2. \A u \in chat : u <= turn
        BY <1>a
      <4>3. QED
        BY <3>1, <4>1, <4>2
    <3>3. QED
      BY <1>a, <2>1, <2>5, <3>1, <3>2
  <2>6. CASE run' = [run EXCEPT ![turn] = Over] /\ chat' = chat
    BY <1>a, <2>1, <2>3, <2>4, <2>6
  <2>7. QED
    BY <2>2, <2>5, <2>6
<1>12. ASSUME Send PROVE ChatFits'
  <2>1. turn' = turn + 1 /\ turn + 1 \in Turns /\ UNCHANGED run
    BY <1>a, <1>12, TurnNumbers DEF Send, serverVars, turnVars
  <2>2. (chat' = chat \/ chat' = chat \cup {turn + 1}) /\ (phase' = "saving" => chat' = chat)
    BY <1>a, <1>12 DEF Send
  <2>3. turn + 1 > turn /\ turn + 1 \notin chat /\ \A u \in Turns : u > turn + 1 => u > turn
    BY <1>a, TurnNumbers
  <2>4. \A u \in chat' : u <= turn + 1
    <3>1. \A u \in chat' : u \in chat \/ u = turn + 1
      BY <2>2
    <3>2. \A u \in chat : u \in Nat /\ u <= turn
      BY <1>a, TurnNumbers
    <3>3. QED
      BY <1>a, <3>1, <3>2
  <2>5. \A u \in Turns : u \in chat' \/ u > turn + 1 => run[u].at = "none"
    BY <1>a, <2>1, <2>2, <2>3
  <2>6. phase' = "saving" => turn + 1 \notin chat'
    BY <2>2, <2>3
  <2>7. QED
    BY <1>a, <2>1, <2>3, <2>4, <2>5, <2>6
<1>13. ASSUME Stop \/ Clear \/ StreamBreaks \/ Reload PROVE ChatFits'
  BY <1>a, <1>1, <1>2, <1>13 DEF Stop, Clear, StreamBreaks, Reload, Abort, InRequest, Leave, serverVars, turnVars
<1>14. ASSUME ReadEnd \/ ReadPreview \/ ReadMenu \/ MenuOpens PROVE ChatFits'
  BY <1>1, <1>14 DEF ReadEnd, ReadPreview, ReadMenu, MenuOpens, Read, Reading, Leave, wireVars, serverVars, turnVars
<1>15. ASSUME CloseProgress \/ Refresh PROVE ChatFits'
  BY <1>1, <1>15 DEF CloseProgress, Refresh, wireVars, serverVars, turnVars
<1>16. ASSUME ReadConfirm \/ ReadScope \/ ReadProgress \/ ReadCompletion \/ ReadText \/ ClearAsks PROVE ChatFits'
  BY <1>2, <1>16 DEF ReadConfirm, ReadScope, ReadProgress, ReadCompletion, ReadText, ClearAsks, pageVars, panelVars, wireVars,
     serverVars, turnVars
<1>17. ASSUME AnswerArrives \/ ClearArrives \/ Others \/ (\E value \in {"yes", "no"} : Click(value)) PROVE ChatFits'
  BY <1>2, <1>17 DEF AnswerArrives, ClearArrives, Others, StartCommand, EndCommand, EnterRoute, LeaveRoute, Click,
     pageVars, panelVars, wireVars, serverVars, turnVars
<1>18. QED
  BY <1>2, <1>4, <1>5, <1>6, <1>7, <1>8, <1>9, <1>10, <1>11, <1>12, <1>13, <1>14, <1>15, <1>16, <1>17 DEF Next,
     Panel, User, Server, Failures, Turn, vars, pageVars, panelVars, wireVars,
     serverVars, turnVars

\* The initial state.
LEMMA TypesInit == Init => Types
<1> SUFFICES ASSUME Init PROVE Types
  OBVIOUS
<1> USE AssistantAssumption DEF Init
<1>1. run \in [Turns -> Runs]
  BY DEF NotBegun, Runs, Steps, AllKinds
<1>2. PanelTypes /\ ServerTypes
  <2>1. 0 \in 0..MaxTurns
    OBVIOUS
  <2>2. PanelTypes
    BY <2>1 DEF PanelTypes
  <2>3. ServerTypes
    BY <2>1 DEF ServerTypes
  <2>4. QED
    BY <2>2, <2>3
<1>3. HistoryTypes
  <2>1. cast \in Casts /\ cast.failures \in Nat
    OBVIOUS
  <2>2. QED
    BY <2>1 DEF HistoryTypes
<1>4. events \in Seq(Events) /\ EventsFit
  BY DEF EventsFit
<1>5. KindsFit
  BY DEF KindsFit, At, NotBegun
<1>6. ChatFits
  BY DEF ChatFits, Busy, At, NotBegun
<1>7. QED
  BY <1>1, <1>2, <1>3, <1>4, <1>5, <1>6 DEF Types, TypeOK

\* Each step keeps the types.
LEMMA TypesKept ==
  ASSUME Types, [Next]_vars
  PROVE  Types'
<1>1. events' \in Seq(Events)
  <2>1. EventsFit'
    BY EventsKept
  <2>2. Fitting \subseteq Events
    BY DEF Fitting
  <2>3. QED
    BY <2>1, <2>2 DEF EventsFit
<1>2. QED
  BY <1>1, PanelTypesKept, RunTypesKept, ServerTypesKept, HistoryTypesKept, WireTypesKept, EventsKept, KindsKept,
     ChatKept DEF Types, TypeOK

\* Every variable keeps its type, in the panel, on the wire and on the server.
THEOREM TurnTypeCorrect == Spec => []TypeOK
<1>1. Types => TypeOK
  BY DEF Types
<1>2. QED
  BY <1>1, TypesInit, TypesKept, PTL DEF Spec

-----------------------------------------------------------------------------
(***************************************************************************)
(* From a click to the change it allows.                                     *)
(***************************************************************************)

\* Of those steps only an answer that arrives concerns the questions.
LEMMA QuietQuestions ==
  ASSUME Quiet, ~AnswerArrives
  PROVE  UNCHANGED <<pending, delivering>>
<1> USE DEF serverVars, turnVars
<1>1. ASSUME ReadEnd \/ ReadConfirm \/ ReadScope \/ ReadProgress \/ ReadPreview \/ ReadCompletion \/ ReadText
             \/ ReadMenu \/ MenuOpens \/ CloseProgress \/ Refresh \/ ClearAsks
      PROVE  UNCHANGED <<pending, delivering>>
  BY <1>1 DEF ReadEnd, ReadConfirm, ReadScope, ReadProgress, ReadPreview, ReadCompletion, ReadText, ReadMenu,
     MenuOpens, CloseProgress, Refresh, ClearAsks
<1>2. ASSUME User \/ ClearArrives \/ Others \/ StreamBreaks \/ Reload
      PROVE  UNCHANGED <<pending, delivering>>
  BY <1>2 DEF User, Send, Stop, Clear, Click, ClearArrives, Others, StartCommand, EndCommand, EnterRoute,
     LeaveRoute, StreamBreaks, Reload
<1>3. QED
  BY <1>1, <1>2 DEF Quiet, vars

\* A question has one answer, and only while its turn waits for it.
LEMMA QuestionsKept ==
  ASSUME Types, QuestionsFit, [Next]_vars
  PROVE  QuestionsFit'
<1> USE DEF QuestionsFit, At
<1>a. /\ run \in [Turns -> Runs] /\ run' \in [Turns -> Runs] /\ KindsFit /\ ChatFits
      /\ pending \subseteq Questions /\ delivering \subseteq Answers
  BY RunTypesKept DEF Types, TypeOK, ServerTypes
<1>b. \A q \in pending : q.turn \in Turns
  BY <1>a DEF Questions
<1>c. \A a \in delivering : a.question \in Questions /\ a.question.turn \in Turns
  BY <1>a DEF Answers, Questions
<1>1. ASSUME UNCHANGED <<run, pending, delivering>> PROVE QuestionsFit'
  BY <1>1
<1>2. ASSUME NEW t \in Turns, run[t].at \notin {"waiting", "ended"},
            \A u \in Turns \ {t} : run'[u] = run[u], UNCHANGED <<pending, delivering>> PROVE QuestionsFit'
  <2>1. \A q \in pending : q.turn # t
    BY <1>2
  <2>2. \A a \in delivering : a.question.turn # t
    BY <1>2
  <2>3. QED
    BY <1>b, <1>c, <1>2, <2>1, <2>2
<1>3. ASSUME NEW t \in Turns, NEW kind, NEW type, run[t].at \notin {"waiting", "ended"}, Asks(t, kind, type),
            UNCHANGED delivering PROVE QuestionsFit'
  <2>1. run' = [run EXCEPT ![t].at = "waiting", ![t].kind = kind]
        /\ pending' = pending \cup {[turn |-> t, kind |-> kind]}
    BY <1>3 DEF Asks
  <2>2. \A q \in pending : q.turn # t
    BY <1>3
  <2>3. \A a \in delivering : a.question.turn # t
    BY <1>3
  <2>4. run'[t].at = "waiting" /\ run'[t].kind = kind /\ run'[t].heard = "none"
    BY <1>a, <1>3, <2>1 DEF Runs, KindsFit
  <2>5. \A u \in Turns \ {t} : run'[u] = run[u]
    BY <1>a, <2>1
  <2>6. \A q \in pending' : run'[q.turn].at = "waiting" /\ run'[q.turn].kind = q.kind /\ run'[q.turn].heard = "none"
    <3>1. SUFFICES ASSUME NEW q \in pending'
                   PROVE  run'[q.turn].at = "waiting" /\ run'[q.turn].kind = q.kind /\ run'[q.turn].heard = "none"
      OBVIOUS
    <3>2. CASE q \in pending
      BY <1>b, <2>2, <2>5, <3>2
    <3>3. CASE q = [turn |-> t, kind |-> kind]
      BY <2>4, <3>3
    <3>4. QED
      BY <2>1, <3>2, <3>3
  <2>7. \A a \in delivering : a.question \in pending' => a.question \in pending
    BY <2>1, <2>3
  <2>8. QED
    BY <1>c, <1>3, <2>3, <2>5, <2>6, <2>7
<1>4. ASSUME NEW t \in Turns, Decide(t) PROVE QuestionsFit'
  <2>1. \/ \E kind, type : Asks(t, kind, type)
        \/ (\A u \in Turns \ {t} : run'[u] = run[u]) /\ UNCHANGED pending
    BY <1>a, <1>4 DEF Decide
  <2>2. run[t].at \notin {"waiting", "ended"} /\ UNCHANGED delivering
    BY <1>4 DEF Decide
  <2>3. QED
    BY <1>2, <1>3, <2>1, <2>2
<1>5. ASSUME NEW t \in Turns, Acquire(t) PROVE QuestionsFit'
  <2>1. \/ \E kind, type : Asks(t, kind, type)
        \/ (\A u \in Turns \ {t} : run'[u] = run[u]) /\ UNCHANGED pending
    BY <1>a, <1>5 DEF Acquire, Fails, Ends, Go
  <2>2. run[t].at \notin {"waiting", "ended"} /\ UNCHANGED delivering
    BY <1>5 DEF Acquire
  <2>3. QED
    BY <1>2, <1>3, <2>1, <2>2
<1>6. ASSUME NEW t \in Turns, Resume(t) PROVE QuestionsFit'
  <2>1. /\ run[t].at = "waiting" /\ run[t].heard # "none" /\ UNCHANGED <<pending, delivering>>
        /\ \A u \in Turns \ {t} : run'[u] = run[u]
    BY <1>a, <1>6 DEF Resume
  <2>2. \A q \in pending : q.turn # t
    BY <2>1
  <2>3. \A a \in delivering : a.question.turn # t
    BY <2>1
  <2>4. QED
    BY <1>b, <1>c, <2>1, <2>2, <2>3
<1>7. ASSUME NEW t \in Turns, BatchEnds(t) \/ BatchesEnd(t) \/ Apply(t) \/ Finish(t) PROVE QuestionsFit'
  <2>1. \A u \in Turns \ {t} : run'[u] = run[u]
    BY <1>a, <1>7 DEF BatchEnds, BatchesEnd, Apply, Finish, Go, Fails, Ends
  <2>2. run[t].at \notin {"waiting", "ended"} /\ UNCHANGED <<pending, delivering>>
    BY <1>7 DEF BatchEnds, BatchesEnd, Apply, Finish
  <2>3. QED
    BY <1>2, <2>1, <2>2
<1>8. ASSUME NEW t \in Turns, Orphaned(t) \/ InferenceFails(t) \/ EndTurn(t) \/ MenuTimesOut(t) PROVE QuestionsFit'
  <2>1. \A u \in Turns \ {t} : run'[u] = run[u]
    BY <1>a, <1>8 DEF Orphaned, InferenceFails, EndTurn, MenuTimesOut, MenuEnds, Fails, Ends
  <2>2. run[t].at \notin {"waiting", "ended"} /\ UNCHANGED <<pending, delivering>>
    BY <1>8 DEF Orphaned, InferenceFails, WritesAnswer, At, EndTurn, MenuTimesOut
  <2>3. QED
    BY <1>2, <2>1, <2>2
<1>9. ASSUME NEW t \in Turns, ChatArrives(t) \/ ChatDropped(t) PROVE QuestionsFit'
  <2>1. \A u \in Turns \ {t} : run'[u] = run[u]
    BY <1>a, <1>9 DEF ChatArrives, ChatDropped, Go, Ends
  <2>2. run[t].at = "none" /\ UNCHANGED <<pending, delivering>>
    BY <1>a, <1>9 DEF ChatArrives, ChatDropped, ChatFits
  <2>3. QED
    BY <1>2, <2>1, <2>2
<1>10. ASSUME NEW t \in Turns, Cancelled(t) PROVE QuestionsFit'
  <2>1. /\ \A u \in Turns \ {t} : run'[u] = run[u]
        /\ run'[t].at = "ended"
    BY <1>a, <1>10 DEF Cancelled, Ends, Over
  <2>2. pending' = {q \in pending : q.turn # t} /\ UNCHANGED delivering
    BY <1>10 DEF Cancelled
  <2>3. QED
    BY <1>b, <1>c, <2>1, <2>2
<1>11. ASSUME SaveEnds PROVE QuestionsFit'
  <2>1. turn \in Turns /\ run[turn].at = "none" /\ UNCHANGED <<pending, delivering>>
    BY <1>a, <1>11 DEF SaveEnds, ChatFits, Busy
  <2>2. \A u \in Turns \ {turn} : run'[u] = run[u]
    BY <1>a, <1>11 DEF SaveEnds
  <2>3. QED
    BY <1>2, <2>1, <2>2
<1>12. ASSUME MenuAcknowledged PROVE QuestionsFit'
  <2>1. turn \in Turns /\ UNCHANGED <<pending, delivering>>
    BY <1>a, <1>12 DEF MenuAcknowledged, ChatFits, Busy
  <2>2. UNCHANGED run \/ (run[turn].at = "menu" /\ \A u \in Turns \ {turn} : run'[u] = run[u])
    BY <1>a, <1>12 DEF MenuAcknowledged, MenuEnds
  <2>3. QED
    BY <1>1, <1>2, <2>1, <2>2
<1>13. ASSUME AnswerArrives PROVE QuestionsFit'
  <2>1. Accepted \subseteq pending /\ Accepted \subseteq {answer.question} /\ UNCHANGED run
    BY <1>13 DEF Accepted, AnswerArrives
  <2>2. /\ pending' = pending \ Accepted
        /\ delivering' = delivering \cup {[question |-> q, value |-> answer.value] : q \in Accepted}
    BY <1>13 DEF AnswerArrives
  <2>3. \A a \in delivering' :
           \/ a \in delivering
           \/ a.question \in Accepted /\ a = [question |-> answer.question, value |-> answer.value]
    <3>1. SUFFICES ASSUME NEW a \in delivering', a \notin delivering
                   PROVE  a.question \in Accepted /\ a = [question |-> answer.question, value |-> answer.value]
      OBVIOUS
    <3>2. PICK q \in Accepted : a = [question |-> q, value |-> answer.value]
      BY <2>2, <3>1
    <3>3. q = answer.question
      BY <2>1
    <3>4. QED
      BY <3>2, <3>3
  <2>4. \A a \in delivering, b \in delivering' : b.question \in Accepted => a.question.turn # b.question.turn \/ a = b
    <3>1. \A a \in delivering, q \in pending : a.question.turn # q.turn
      BY <1>a, <1>b, <1>c DEF Questions
    <3>2. QED
      BY <2>1, <3>1
  <2>5. \A a, b \in delivering' : a.question.turn = b.question.turn => a = b
    BY <2>3, <2>4
  <2>6. QED
    BY <1>b, <1>c, <2>1, <2>2, <2>3, <2>5
<1>14. ASSUME NEW a \in delivering, Deliver(a) PROVE QuestionsFit'
  <2>1. /\ delivering' = delivering \ {a} /\ UNCHANGED pending
        /\ \A u \in Turns \ {a.question.turn} : run'[u] = run[u]
    BY <1>a, <1>14 DEF Deliver
  <2>2. \A b \in delivering' : b.question.turn # a.question.turn
    BY <2>1
  <2>3. run[a.question.turn].at # "waiting" => UNCHANGED run
    BY <1>14 DEF Deliver
  <2>4. \A q \in pending : q.turn # a.question.turn
    BY <1>a, <1>b, <1>c DEF Questions
  <2>5. QED
    BY <1>b, <1>c, <2>1, <2>2, <2>4
<1>15. ASSUME Quiet, ~AnswerArrives PROVE QuestionsFit'
  <2>1. UNCHANGED run
    BY <1>15, QuietRun
  <2>2. UNCHANGED <<pending, delivering>>
    BY <1>15, QuietQuestions
  <2>3. QED
    BY <1>1, <2>1, <2>2
<1>16. QED
  BY <1>4, <1>5, <1>6, <1>7, <1>8, <1>9, <1>10, <1>11, <1>12, <1>13, <1>14, <1>15, QuietSteps

\* Of those steps only a click and an answer that arrives concern the answers.
LEMMA QuietAnswers ==
  ASSUME Quiet, ~AnswerArrives
  PROVE  \/ UNCHANGED <<answer, consented>>
         \/ \E value \in {"yes", "no"} : Click(value)
<1> USE DEF wireVars, historyVars
<1>1. ASSUME ReadEnd \/ ReadConfirm \/ ReadScope \/ ReadProgress \/ ReadPreview \/ ReadCompletion \/ ReadText
             \/ ReadMenu \/ MenuOpens \/ CloseProgress \/ Refresh \/ ClearAsks
      PROVE  UNCHANGED <<answer, consented>>
  BY <1>1 DEF ReadEnd, ReadConfirm, ReadScope, ReadProgress, ReadPreview, ReadCompletion, ReadText, ReadMenu,
     MenuOpens, CloseProgress, Refresh, ClearAsks
<1>2. ASSUME Send \/ Stop \/ Clear \/ ClearArrives \/ Others \/ StreamBreaks \/ Reload
      PROVE  UNCHANGED <<answer, consented>>
  BY <1>2 DEF Send, Stop, Clear, ClearArrives, Others, StartCommand, EndCommand, EnterRoute, LeaveRoute,
     StreamBreaks, Reload
<1>3. QED
  BY <1>1, <1>2 DEF Quiet, User, vars

\* What the answer that a turn goes on with allows.
AnswerFits(t) ==
    /\ At(t, "waiting") /\ run[t].heard = "yes" => Question(t) \in consented
    /\ At(t, "batches") /\ run[t].kind # "summary" => Question(t) \in consented
    /\ At(t, "applying") => Question(t) \in consented

\* When one turn moves on, its own answer is the one to look at.
LEMMA OtherAnswers ==
  ASSUME Types, AnswersFit, NEW t \in Turns, ~At(t, "ended"), UNCHANGED <<answer, delivering>>,
         \A u \in Turns \ {t} : run'[u] = run[u],
         \A q \in consented : q \in consented' \/ (q.turn = t /\ run'[t].at = "ended"),
         AnswerFits(t)'
  PROVE  AnswersFit'
<1> USE DEF AnswersFit, At, Question
<1>1. answer \in Answers \cup {None} /\ delivering \subseteq Answers
  BY DEF Types, TypeOK, ServerTypes
<1>2. \A a \in Answers : a.question.turn \in Turns
  BY DEF Answers, Questions
<1>3. \A a \in Answers :
         a.question \in consented \/ At(a.question.turn, "ended")
         => a.question \in consented' \/ run'[a.question.turn].at = "ended"
  BY <1>2
<1>4. answer # None /\ answer.value = "yes" =>
         answer.question \in consented' \/ run'[answer.question.turn].at = "ended"
  BY <1>1, <1>3
<1>5. \A a \in delivering : a.value = "yes" => a.question \in consented' \/ run'[a.question.turn].at = "ended"
  BY <1>1, <1>3
<1>6. \A u \in Turns \ {t} : [turn |-> u, kind |-> run[u].kind] \in consented
                            => [turn |-> u, kind |-> run'[u].kind] \in consented'
  OBVIOUS
<1>7. \A u \in Turns : AnswerFits(u)'
  BY <1>6 DEF AnswerFits
<1>8. QED
  BY <1>4, <1>5, <1>7 DEF AnswerFits

\* Who goes on to a change was allowed to.
LEMMA AnswersKept ==
  ASSUME Types, QuestionsFit, AnswersFit, [Next]_vars
  PROVE  AnswersFit'
<1> USE DEF At
<1>a. /\ run \in [Turns -> Runs] /\ run' \in [Turns -> Runs] /\ KindsFit /\ ChatFits
      /\ pending \subseteq Questions /\ delivering \subseteq Answers /\ answer \in Answers \cup {None}
  BY RunTypesKept DEF Types, TypeOK, ServerTypes
<1>b. \A t \in Turns : AnswerFits(t)
  BY DEF AnswersFit, AnswerFits
<1>c. ASSUME NEW t \in Turns, Ends(t)
      PROVE  /\ run'[t].at = "ended" /\ consented' = {q \in consented : q.turn # t}
             /\ (\A u \in Turns \ {t} : run'[u] = run[u]) /\ AnswerFits(t)'
  BY <1>a, <1>c DEF Ends, Over, NotBegun, AnswerFits
<1>d. ASSUME NEW t \in Turns, ~At(t, "ended"), Ends(t), UNCHANGED <<answer, delivering>>
      PROVE  AnswersFit'
  BY <1>c, <1>d, OtherAnswers
<1>e. ASSUME NEW t \in Turns, ~At(t, "ended"), UNCHANGED <<answer, delivering, consented>>,
             \A u \in Turns \ {t} : run'[u] = run[u], AnswerFits(t)'
      PROVE  AnswersFit'
  <2>1. consented' = consented
    BY <1>e
  <2>2. \A q \in consented : q \in consented' \/ (q.turn = t /\ run'[t].at = "ended")
    BY <2>1
  <2>3. UNCHANGED <<answer, delivering>>
    BY <1>e
  <2>4. QED
    BY <1>e, <2>2, <2>3, OtherAnswers
<1>f. ASSUME NEW t \in Turns, ~At(t, "ended"), Fails(t), UNCHANGED <<answer, delivering>>
      PROVE  AnswersFit'
  <2>1. CASE t \in streaming
    <3>1. run' = [run EXCEPT ![t].at = "ending", ![t].did = {}] /\ UNCHANGED consented
      BY <1>f, <2>1 DEF Fails, Concerns
    <3>2. run'[t].at = "ending" /\ \A u \in Turns \ {t} : run'[u] = run[u]
      BY <1>a, <3>1 DEF Runs
    <3>3. QED
      BY <1>e, <1>f, <3>1, <3>2 DEF AnswerFits
  <2>2. CASE t \notin streaming
    BY <1>d, <1>f, <2>2 DEF Fails
  <2>3. QED
    BY <2>1, <2>2
<1>1. ASSUME NEW t \in Turns, Decide(t) PROVE AnswersFit'
  <2>1. /\ \A u \in Turns \ {t} : run'[u] = run[u]
        /\ ~At(t, "ended") /\ UNCHANGED <<answer, delivering, consented>>
    BY <1>a, <1>1 DEF Decide, Asks, historyVars
  <2>2. AnswerFits(t)'
    <3>1. run[t].heard = "none"
      BY <1>a, <1>1 DEF Decide, KindsFit
    <3>2. /\ run'[t].at = "batches" => run'[t].kind = "summary"
          /\ run'[t].at # "applying" /\ (run'[t].at = "waiting" => run'[t].heard = "none")
      BY <1>a, <1>1, <3>1 DEF Decide, Asks, Runs
    <3>3. QED
      BY <3>2 DEF AnswerFits
  <2>3. QED
    BY <1>e, <2>1, <2>2
<1>2. ASSUME NEW t \in Turns, Acquire(t) PROVE AnswersFit'
  <2>1. ~At(t, "ended") /\ UNCHANGED <<answer, delivering>> /\ run[t].heard = "none"
    BY <1>a, <1>2 DEF Acquire, KindsFit
  <2>2. CASE Fails(t)
    BY <1>f, <2>1, <2>2
  <2>3. CASE ~Fails(t)
    <3>1. /\ \A u \in Turns \ {t} : run'[u] = run[u]
          /\ run'[t].heard = "none" /\ run'[t].at \in {"waiting", "finishing"}
          /\ UNCHANGED consented
      BY <1>a, <1>2, <2>1, <2>3 DEF Acquire, Asks, Go, Concerns, Runs
    <3>2. QED
      BY <1>e, <2>1, <3>1 DEF AnswerFits
  <2>4. QED
    BY <2>2, <2>3
<1>3. ASSUME NEW t \in Turns, Resume(t) PROVE AnswersFit'
  <2>1. /\ \A u \in Turns \ {t} : run'[u] = run[u]
        /\ ~At(t, "ended") /\ UNCHANGED <<answer, delivering, consented>>
    BY <1>a, <1>3 DEF Resume, historyVars
  <2>2. /\ run'[t].kind = run[t].kind /\ run'[t].heard = "none"
        /\ run'[t].at \in {"batches", "applying"} => run[t].heard = "yes"
        /\ run'[t].at \in {"thinking", "finishing", "batches", "applying"}
    BY <1>a, <1>3 DEF Resume
  <2>3. AnswerFits(t)'
    BY <1>b, <1>3, <2>1, <2>2 DEF AnswerFits, Question, Resume
  <2>4. QED
    BY <1>e, <2>1, <2>3
<1>4. ASSUME NEW t \in Turns, BatchEnds(t) \/ BatchesEnd(t) PROVE AnswersFit'
  <2>1. /\ \A u \in Turns \ {t} : run'[u] = run[u]
        /\ At(t, "batches") /\ UNCHANGED <<answer, delivering, consented>>
    BY <1>a, <1>4 DEF BatchEnds, BatchesEnd, Go, historyVars
  <2>2. /\ run'[t].kind = run[t].kind /\ run'[t].at \in {"batches", "finishing", "applying"}
        /\ run[t].kind = "summary" => run'[t].at # "applying"
    BY <1>a, <1>4 DEF BatchEnds, BatchesEnd, Go, Runs
  <2>3. AnswerFits(t)'
    BY <1>b, <2>1, <2>2 DEF AnswerFits, Question
  <2>4. QED
    BY <1>e, <2>1, <2>3
<1>5. ASSUME NEW t \in Turns, Apply(t) PROVE AnswersFit'
  <2>1. ~At(t, "ended") /\ UNCHANGED <<answer, delivering>>
    BY <1>5 DEF Apply
  <2>2. CASE Fails(t)
    BY <1>f, <2>1, <2>2
  <2>3. CASE ~Fails(t)
    <3>1. /\ \A u \in Turns \ {t} : run'[u] = run[u]
          /\ run'[t].at = "finishing" /\ UNCHANGED consented
      BY <1>a, <1>5, <2>3 DEF Apply, Go, Concerns, Runs
    <3>2. QED
      BY <1>e, <2>1, <3>1 DEF AnswerFits
  <2>4. QED
    BY <2>2, <2>3
<1>6. ASSUME NEW t \in Turns, Finish(t) \/ MenuTimesOut(t) PROVE AnswersFit'
  <2>1. /\ \A u \in Turns \ {t} : run'[u] = run[u]
        /\ ~At(t, "ended") /\ UNCHANGED <<answer, delivering, consented>>
        /\ run'[t].at \in {"ending", "thinking"}
    BY <1>a, <1>6 DEF Finish, MenuTimesOut, MenuEnds, Go, wireVars, historyVars, Runs
  <2>2. QED
    BY <1>e, <2>1 DEF AnswerFits
<1>7. ASSUME NEW t \in Turns, Orphaned(t) \/ InferenceFails(t) PROVE AnswersFit'
  BY <1>f, <1>7 DEF Orphaned, InferenceFails, WritesAnswer, At
<1>8. ASSUME NEW t \in Turns, EndTurn(t) \/ Cancelled(t) PROVE AnswersFit'
  BY <1>d, <1>8 DEF EndTurn, Cancelled, Alive
<1>9. ASSUME NEW t \in Turns, ChatDropped(t) PROVE AnswersFit'
  BY <1>a, <1>d, <1>9 DEF ChatDropped, ChatFits
<1>10. ASSUME NEW t \in Turns, ChatArrives(t) PROVE AnswersFit'
  <2>1. ~At(t, "ended") /\ UNCHANGED <<answer, delivering>>
    BY <1>a, <1>10 DEF ChatArrives, ChatFits
  <2>2. CASE Ends(t)
    BY <1>d, <2>1, <2>2
  <2>3. CASE ~Ends(t)
    <3>1. /\ \A u \in Turns \ {t} : run'[u] = run[u]
          /\ run'[t].at = "thinking" /\ UNCHANGED consented
      BY <1>a, <1>10, <2>3 DEF ChatArrives, Go, Concerns, Runs
    <3>2. QED
      BY <1>e, <2>1, <3>1 DEF AnswerFits
  <2>4. QED
    BY <2>2, <2>3
<1>11. ASSUME SaveEnds PROVE AnswersFit'
  <2>1. PICK t \in Turns : t = turn /\ ~At(t, "ended") /\ UNCHANGED <<answer, delivering, consented>>
    BY <1>a, <1>11 DEF SaveEnds, ChatFits, Busy
  <2>2. run' = run \/ run' = [run EXCEPT ![t] = Over]
    BY <1>11, <2>1 DEF SaveEnds
  <2>3. \A u \in Turns \ {t} : run'[u] = run[u]
    BY <1>a, <2>2
  <2>4. CASE run' = run
    BY <2>1, <2>4 DEF AnswersFit, Question
  <2>5. CASE run' = [run EXCEPT ![t] = Over]
    <3>1. run'[t].at = "ended"
      BY <1>a, <2>5 DEF Over, NotBegun
    <3>2. QED
      BY <1>e, <2>1, <2>3, <3>1 DEF AnswerFits
  <2>6. QED
    BY <2>2, <2>4, <2>5
<1>12. ASSUME MenuAcknowledged PROVE AnswersFit'
  <2>1. turn \in Turns /\ UNCHANGED <<answer, delivering, consented>>
    BY <1>a, <1>12 DEF MenuAcknowledged, ChatFits, Busy, historyVars
  <2>2. CASE run' = run
    BY <2>1, <2>2 DEF AnswersFit, Question
  <2>3. CASE run' # run
    <3>1. /\ \A u \in Turns \ {turn} : run'[u] = run[u]
          /\ ~At(turn, "ended") /\ run'[turn].at = "thinking"
      BY <1>a, <1>12, <2>1, <2>3 DEF MenuAcknowledged, MenuEnds, Runs
    <3>2. QED
      BY <1>e, <2>1, <3>1 DEF AnswerFits
  <2>4. QED
    BY <2>2, <2>3
<1>13. ASSUME AnswerArrives PROVE AnswersFit'
  <2>1. /\ answer # None /\ answer' = None /\ UNCHANGED <<run, consented>>
        /\ delivering' = delivering \cup {[question |-> q, value |-> answer.value] : q \in Accepted}
    BY <1>13 DEF AnswerArrives
  <2>2. Accepted \subseteq {answer.question}
    BY DEF Accepted
  <2>3. \A a \in delivering' : a.value = "yes" => a.question \in consented \/ At(a.question.turn, "ended")
    <3>1. SUFFICES ASSUME NEW a \in delivering', a.value = "yes"
                   PROVE  a.question \in consented \/ At(a.question.turn, "ended")
      OBVIOUS
    <3>2. CASE a \in delivering
      BY <3>1, <3>2 DEF AnswersFit
    <3>3. CASE a \notin delivering
      <4>1. PICK q \in Accepted : a = [question |-> q, value |-> answer.value]
        BY <2>1, <3>3
      <4>2. a.question = answer.question /\ answer.value = "yes"
        BY <2>2, <3>1, <4>1
      <4>3. QED
        BY <2>1, <4>2 DEF AnswersFit
    <3>4. QED
      BY <3>2, <3>3
  <2>4. QED
    BY <1>b, <2>1, <2>3 DEF AnswersFit, AnswerFits, Question
<1>14. ASSUME NEW a \in delivering, Deliver(a) PROVE AnswersFit'
  <2>1. a \in Answers /\ a.question \in Questions /\ a.question.turn \in Turns
    BY <1>a DEF Answers, Questions
  <2>2. /\ delivering' \subseteq delivering /\ UNCHANGED <<answer, consented>>
        /\ \A u \in Turns \ {a.question.turn} : run'[u] = run[u]
    BY <1>a, <1>14 DEF Deliver, wireVars, historyVars
  <2>3. /\ run'[a.question.turn].at = run[a.question.turn].at
        /\ run'[a.question.turn].kind = run[a.question.turn].kind
        /\ \/ run'[a.question.turn] = run[a.question.turn]
           \/ run'[a.question.turn].heard = a.value /\ At(a.question.turn, "waiting")
    <3>1. CASE At(a.question.turn, "waiting")
      <4>1. run' = [run EXCEPT ![a.question.turn].heard = a.value]
        BY <1>14, <3>1 DEF Deliver
      <4>2. run[a.question.turn] \in Runs
        BY <1>a, <2>1
      <4>3. QED
        BY <1>a, <2>1, <3>1, <4>1, <4>2 DEF Runs
    <3>2. CASE ~At(a.question.turn, "waiting")
      BY <1>14, <3>2 DEF Deliver
    <3>3. QED
      BY <3>1, <3>2
  <2>4. At(a.question.turn, "waiting") => a.question = Question(a.question.turn)
    BY <2>1 DEF QuestionsFit, Question, Questions
  <2>5. AnswerFits(a.question.turn)'
    BY <1>b, <2>1, <2>2, <2>3, <2>4 DEF AnswersFit, AnswerFits, Question
  <2>6. \A u \in Turns : AnswerFits(u)'
    BY <1>b, <2>1, <2>2, <2>5 DEF AnswerFits, Question
  <2>7. \A u \in Turns : run'[u].at = run[u].at
    BY <2>2, <2>3
  <2>8. \A b \in Answers : b.question.turn \in Turns
    BY DEF Answers, Questions
  <2>9. QED
    BY <1>a, <2>2, <2>6, <2>7, <2>8 DEF AnswersFit, AnswerFits
<1>15. ASSUME Quiet, ~AnswerArrives PROVE AnswersFit'
  <2>1. UNCHANGED <<run, delivering>>
    BY <1>15, QuietRun, QuietQuestions
  <2>2. CASE UNCHANGED <<answer, consented>>
    BY <2>1, <2>2 DEF AnswersFit, Question
  <2>3. ASSUME NEW value \in {"yes", "no"}, Click(value) PROVE AnswersFit'
    <3>1. consented \subseteq consented' /\ (answer'.value = "yes" => answer'.question \in consented')
      BY <2>3 DEF Click
    <3>2. QED
      BY <2>1, <3>1 DEF AnswersFit, Question
  <2>4. QED
    BY <1>15, <2>2, <2>3, QuietAnswers
<1>16. QED
  BY <1>1, <1>2, <1>3, <1>4, <1>5, <1>6, <1>7, <1>8, <1>9, <1>10, <1>11, <1>12, <1>13, <1>14, <1>15, QuietSteps
-----------------------------------------------------------------------------
(***************************************************************************)
(* The invariant, and what it is for.                                        *)
(***************************************************************************)

\* The invariant holds at the start.
LEMMA TurnInvInit == Init => TurnInv
<1> SUFFICES ASSUME Init PROVE TurnInv
  OBVIOUS
<1>1. Types
  BY TypesInit
<1>2. pending = {} /\ delivering = {} /\ answer = None
  BY DEF Init
<1>3. \A t \in Turns : run[t].at = "none"
  BY DEF Init, NotBegun
<1>4. QuestionsFit /\ AnswersFit
  BY <1>2, <1>3 DEF QuestionsFit, AnswersFit, At
<1>5. QED
  BY <1>1, <1>4 DEF TurnInv

\* No step breaks the invariant.
LEMMA TurnInvKept ==
  ASSUME TurnInv, [Next]_vars
  PROVE  TurnInv'
BY TypesKept, QuestionsKept, AnswersKept DEF TurnInv

\* The strengthening holds of every state.
THEOREM TurnInvariant == Spec => []TurnInv
<1>1. QED
  BY TurnInvInit, TurnInvKept, PTL DEF Spec

\* Only Apply makes a change that the page has not shown.
LEMMA OnlyApplyChanges ==
  ASSUME [Next]_vars
  PROVE  \/ unseen' \subseteq unseen
         \/ \E t \in Turns : Apply(t)
<1> USE DEF historyVars
<1>1. ASSUME Quiet PROVE unseen' \subseteq unseen
  <2>1. ASSUME ReadEnd \/ ReadConfirm \/ ReadScope \/ ReadProgress \/ ReadPreview \/ ReadCompletion \/ ReadText
               \/ ReadMenu \/ MenuOpens \/ CloseProgress \/ Refresh \/ ClearAsks
        PROVE  unseen' \subseteq unseen
    BY <2>1 DEF ReadEnd, ReadConfirm, ReadScope, ReadProgress, ReadPreview, ReadCompletion, ReadText, ReadMenu,
       MenuOpens, CloseProgress, Refresh, ClearAsks
  <2>2. ASSUME Send \/ Stop \/ Clear \/ (\E value \in {"yes", "no"} : Click(value)) \/ AnswerArrives
               \/ ClearArrives \/ Others \/ StreamBreaks \/ Reload
        PROVE  unseen' \subseteq unseen
    BY <2>2 DEF Send, Stop, Clear, Click, AnswerArrives, ClearArrives, Others, StartCommand, EndCommand,
       EnterRoute, LeaveRoute, StreamBreaks, Reload
  <2>3. QED
    BY <1>1, <2>1, <2>2 DEF Quiet, User, vars
<1>2. ASSUME NEW t \in Turns,
             \/ Decide(t) \/ Orphaned(t) \/ Acquire(t) \/ Resume(t) \/ BatchEnds(t) \/ BatchesEnd(t) \/ Finish(t)
             \/ EndTurn(t) \/ MenuTimesOut(t) \/ Cancelled(t) \/ InferenceFails(t) \/ ChatArrives(t)
             \/ ChatDropped(t)
      PROVE  unseen' = unseen
  BY <1>2 DEF Decide, Orphaned, Acquire, Resume, BatchEnds, BatchesEnd, Finish, EndTurn, MenuTimesOut, Cancelled,
     InferenceFails, ChatArrives, ChatDropped
<1>3. ASSUME SaveEnds \/ MenuAcknowledged \/ (\E a \in delivering : Deliver(a)) PROVE unseen' = unseen
  BY <1>3 DEF SaveEnds, MenuAcknowledged, Deliver
<1>4. QED
  BY <1>1, <1>2, <1>3, QuietSteps

\* Proposals are applied only for a turn whose own question was answered with yes, and to
\* the notes as they were at Send (stream_generation, stream_review, answer,
\* validate_current): however answers, cancellations and requests overtake each other.
THEOREM ChangesAreConsented == Spec => ChangeIsConsented
<1>1. ASSUME TurnInv, [Next]_vars
      PROVE  \A t \in unseen' \ unseen : t \notin stale /\ [turn |-> t, kind |-> run[t].kind] \in consented
  <2>1. SUFFICES ASSUME NEW t \in unseen' \ unseen
                 PROVE  t \notin stale /\ Question(t) \in consented
    BY DEF Question
  <2>2. PICK u \in Turns : Apply(u)
    BY <1>1, <2>1, OnlyApplyChanges
  <2>3. t = u /\ At(u, "applying") /\ Unchanged(u)
    BY <2>1, <2>2 DEF Apply
  <2>4. QED
    BY <1>1, <2>2, <2>3 DEF TurnInv, AnswersFit, Unchanged
<1>2. QED
  BY <1>1, TurnInvariant, PTL DEF Spec, ChangeIsConsented

-----------------------------------------------------------------------------
(***************************************************************************)
(* What the panel is left with when a turn is over.                          *)
(***************************************************************************)

OnPage == {"streaming", "opening", "acknowledging"}
Results == {"changed", "unchanged"}
Reported == {"finishing", "ending", "ended"}
SummarySteps == {"waiting", "batches", "finishing", "ending"}

\* Cards, progress, gate and events belong to a turn whose stream is read.
PanelFits ==
    /\ phase \notin OnPage => card = None
    /\ phase \in {"idle", "saving", "refreshing", "stuck"} => progress = "none" /\ completion = "none"
    /\ gate = "save" <=> phase = "saving"
    /\ gate = "operation" => progress # "none"
    /\ phase \in {"saving"} \cup OnPage <=> (Busy /\ outcome = "none")
    /\ ~Busy /\ outcome = "none" => turn = 0
    /\ turn = 0 => outcome = "none"
    /\ events # <<>> => phase \in OnPage

\* The server has finished with a turn.
Settled(t) == At(t, "ended") /\ t # operation /\ t \notin streaming /\ \A q \in pending : q.turn # t

\* A transcript is open, and an operation runs, for a turn that is under way.
ServingFits ==
    /\ \A t \in streaming : run[t].at \notin {"none", "ending", "ended"}
    /\ operation # 0 => Alive(operation)

\* The last event of a turn comes when the server has finished with it.
StreamFits ==
    /\ \A i \in 1..Len(events) : events[i].type \in EndsStream => At(turn, "ended") /\ i = Len(events)
    /\ outcome = "finished" \/ (\E i \in 1..Len(events) : events[i].type = "end") => Settled(turn)

\* A turn reports one result, and applies nothing after it.
ResultFits ==
    /\ \A t \in unseen : run[t].at \in Reported
    /\ completion # "none" \/ (\E i \in 1..Len(events) : events[i].type \in Results) => run[turn].at \in Reported
    /\ \A i \in 1..Len(events) : events[i].type \in Results =>
          completion = "none" /\ \A j \in 1..Len(events) : events[j].type \in Results => j = i

\* A turn that summarizes changes nothing.
SummaryFits ==
    /\ progress = "summary" \/ (\E i \in 1..Len(events) : events[i].type = "scope" /\ events[i].kind = "summary")
         => At(turn, "ended") \/ (run[turn].kind = "summary" /\ run[turn].at \in SummarySteps)
    /\ \A i \in 1..Len(events) : events[i].type = "changed" =>
           progress # "summary" /\ \A j \in 1..Len(events) : ~(events[j].type = "scope" /\ events[j].kind = "summary")
    /\ \A t \in Turns : At(t, "applying") => run[t].kind \in {"tagging", "review"}
    /\ \A t \in Turns : At(t, "batches") => run[t].kind \in {"tagging", "summary"}

\* A change not shown yet is still to be read, or kept as the result.
ChangeFits ==
    turn \in unseen =>
        /\ outcome = "none" => completion = "changed" \/ \E i \in 1..Len(events) : events[i].type = "changed"
        /\ outcome = "finished" => phase \in {"refreshing", "stuck"} \/ (phase = "closing" /\ completion = "changed")

ChatInv == PanelFits /\ ServingFits /\ StreamFits /\ ResultFits /\ SummaryFits /\ ChangeFits

\* A sequence with an element added, and one whose first element is taken.
LEMMA Appended ==
  ASSUME NEW S, NEW q \in Seq(S), NEW e \in S, NEW r, r = Append(q, e)
  PROVE  /\ Len(r) = Len(q) + 1 /\ Len(q) \in Nat /\ r # <<>>
         /\ \A i \in 1..Len(q) : r[i] = q[i]
         /\ r[Len(q) + 1] = e
         /\ \A i \in 1..Len(r) : i \in 1..Len(q) \/ i = Len(q) + 1
OBVIOUS

\* The same for what is left of a sequence.
LEMMA Rest ==
  ASSUME NEW S, NEW q \in Seq(S), q # <<>>, NEW r, r = Tail(q)
  PROVE  /\ Len(q) \in Nat /\ Len(q) > 0 /\ Len(r) = Len(q) - 1
         /\ Head(q) = q[1] /\ 1 \in 1..Len(q)
         /\ \A i \in 1..Len(r) : r[i] = q[i + 1] /\ i + 1 \in 1..Len(q)
         /\ r # <<>> => q # <<>>
OBVIOUS

\* Steps of a turn on the server.
ServerStep(t) ==
    \/ Decide(t) \/ Orphaned(t) \/ Acquire(t) \/ Resume(t) \/ BatchEnds(t) \/ BatchesEnd(t) \/ Apply(t) \/ Finish(t)
    \/ EndTurn(t) \/ MenuTimesOut(t) \/ Cancelled(t) \/ ChatArrives(t) \/ ChatDropped(t) \/ InferenceFails(t)

\* When an event of a type may be sent, by the turn's record before and after.
Sendable(type, r, s) ==
    /\ type \in EndsStream => s.at = "ended"
    /\ type = "end" => r.at = "ending"
    /\ type \in Results => r.at \notin Reported \cup {"none"} /\ s.at = "finishing"
    /\ type = "changed" => r.at = "applying"
    /\ type = "scope" => r.at \in {"thinking", "acquiring"} /\ s.at = "waiting"

\* How a turn's record moves on.
Advances(r, s) ==
    /\ r.at # "ended"
    /\ r.at \in {"finishing", "ending"} => s.at \in Reported
    /\ r.kind = "summary" /\ r.at \in SummarySteps => s.at = "ended" \/ (s.kind = "summary" /\ s.at \in SummarySteps)
    /\ s.at = "applying" /\ r.at # "applying" =>
           r.kind = s.kind /\ ((r.at = "batches" /\ r.kind # "summary") \/ (r.at = "waiting" /\ r.kind = "review"))
    /\ s.at = "batches" /\ r.at # "batches" => s.kind \in {"tagging", "summary"}
    /\ s.at = r.at => s.kind = r.kind

\* What a step of a turn on the server may do.
Moves(t) ==
    /\ UNCHANGED pageVars
    /\ \A u \in Turns \ {t} : run'[u] = run[u]
    /\ Advances(run[t], run'[t])
    /\ run[t].at = "none" => t \in chat
    /\ UNCHANGED events \/ \E type \in EventTypes : Emit(t, type) /\ Sendable(type, run[t], run'[t])
    /\ streaming' \ {t} \subseteq streaming
    /\ t \in streaming' => run'[t].at \notin {"none", "ending", "ended"}
    /\ operation' \in {operation, 0, t}
    /\ operation' = t => Alive(t)'
    /\ \A q \in pending' : q \in pending \/ q.turn = t
    /\ run'[t].at = "ended" => \A q \in pending' : q.turn # t
    /\ \/ unseen' = unseen
       \/ unseen' = unseen \cup {t} /\ run'[t].at = "finishing" /\ Emit(t, "changed")

\* A turn that ends leaves a record of its own.
LEMMA EndSteps ==
  ASSUME run \in [Turns -> Runs], NEW t \in Turns, Ends(t), run[t].at # "ended"
  PROVE  /\ \A u \in Turns \ {t} : run'[u] = run[u]
         /\ run'[t].at = "ended" /\ Advances(run[t], run'[t])
BY DEF Ends, Over, NotBegun, Runs, Advances, Reported, SummarySteps

\* A turn that fails tells its reader, and ends or is about to.
LEMMA FailSteps ==
  ASSUME run \in [Turns -> Runs], NEW t \in Turns, Fails(t), run[t].at \notin {"none", "ended"}
  PROVE  /\ \A u \in Turns \ {t} : run'[u] = run[u]
         /\ run'[t].at \in {"ending", "ended"} /\ Advances(run[t], run'[t])
         /\ \E type \in EventTypes : Emit(t, type) /\ Sendable(type, run[t], run'[t])
         /\ streaming' = streaming \ {t} /\ Release(t)
         /\ run'[t].at = "ended" => t \notin streaming
<1>1. CASE t \in streaming
  <2>1. run' = [run EXCEPT ![t].at = "ending", ![t].did = {}] /\ Emit(t, "error") /\ Release(t)
    BY <1>1 DEF Fails
  <2>2. run'[t].at = "ending" /\ run'[t].kind = run[t].kind /\ \A u \in Turns \ {t} : run'[u] = run[u]
    BY <2>1 DEF Runs
  <2>3. Advances(run[t], run'[t])
    BY <2>2 DEF Advances, Reported, SummarySteps
  <2>4. Sendable("error", run[t], run'[t])
    BY DEF Sendable, EndsStream, Results
  <2>5. QED
    BY <1>1, <2>1, <2>2, <2>3, <2>4 DEF EventTypes, Fails
<1>2. CASE t \notin streaming
  <2>1. Ends(t) /\ Emit(t, "broken") /\ Release(t) /\ streaming' = streaming \ {t}
    BY <1>2 DEF Fails
  <2>2. Sendable("broken", run[t], run'[t])
    BY <2>1, EndSteps DEF Sendable, EndsStream, Results
  <2>3. QED
    BY <1>2, <2>1, <2>2, EndSteps DEF EventTypes
<1>3. QED
  BY <1>1, <1>2

\* Questions wait for turns that wait for their answers.
LEMMA NoQuestion ==
  ASSUME QuestionsFit, NEW t \in Turns, ~At(t, "waiting")
  PROVE  \A q \in pending : q.turn # t
BY DEF QuestionsFit

\* What a failed turn leaves.
LEMMA FailMoves ==
  ASSUME Types, QuestionsFit, ServingFits, NEW t \in Turns, Fails(t), run[t].at \notin {"none", "ended", "waiting"},
         UNCHANGED <<pageVars, pending, unseen>>
  PROVE  Moves(t)
<1>1. \A q \in pending : q.turn # t
  BY NoQuestion DEF At
<1>2. t > 0 /\ t # 0
  BY TurnNumbers DEF Turns
<1>3. operation' \in {operation, 0} /\ operation' # t
  BY <1>2, FailSteps DEF Release, Types, TypeOK
<1>4. QED
  BY <1>1, <1>3, FailSteps DEF Moves, Types, TypeOK

\* What a turn that ended leaves.
LEMMA EndMoves ==
  ASSUME Types, NEW t \in Turns, Ends(t), run[t].at # "ended", run[t].at = "none" => t \in chat,
         UNCHANGED <<pageVars, unseen>>, operation' \in {operation, 0}, operation' # t,
         streaming' \subseteq streaming \ {t}, pending' \subseteq pending, \A q \in pending' : q.turn # t,
         UNCHANGED events \/ Emit(t, "refused") \/ (Emit(t, "end") /\ At(t, "ending"))
  PROVE  Moves(t)
<1>1. /\ \A u \in Turns \ {t} : run'[u] = run[u]
      /\ run'[t].at = "ended" /\ Advances(run[t], run'[t])
  BY EndSteps DEF Types, TypeOK
<1>2. \A type \in {"refused", "end"} : (type = "end" => At(t, "ending")) => Sendable(type, run[t], run'[t])
  BY <1>1 DEF Sendable, EndsStream, Results, At
<1>3. UNCHANGED events \/ \E type \in EventTypes : Emit(t, type) /\ Sendable(type, run[t], run'[t])
  BY <1>2 DEF EventTypes
<1>4. QED
  BY <1>1, <1>3 DEF Moves

\* What a turn that goes on leaves.
LEMMA GoMoves ==
  ASSUME Types, ServingFits, NEW t \in Turns, run[t].at # "ended", run[t].at = "none" => t \in chat,
         run'[t].at \notin {"none", "ended"}, \A u \in Turns \ {t} : run'[u] = run[u], Advances(run[t], run'[t]),
         UNCHANGED pageVars, operation' \in {operation, t},
         streaming' \ {t} \subseteq streaming, t \in streaming' => run'[t].at # "ending",
         \A q \in pending' : q \in pending \/ q.turn = t,
         UNCHANGED events \/ \E type \in EventTypes : Emit(t, type) /\ Sendable(type, run[t], run'[t]),
         \/ unseen' = unseen
         \/ unseen' = unseen \cup {t} /\ run'[t].at = "finishing" /\ Emit(t, "changed")
  PROVE  Moves(t)
BY DEF Moves, Alive, At

\* What a turn sends as it goes on: a new step, and the event that tells of it.
LEMMA Sends ==
  ASSUME NEW t \in Turns, NEW type \in EventTypes \ {"broken", "refused", "end"}, Emit(t, type),
         type \in Results => run[t].at \notin Reported \cup {"none"} /\ run'[t].at = "finishing",
         type = "changed" => run[t].at = "applying",
         type = "scope" => run[t].at \in {"thinking", "acquiring"} /\ run'[t].at = "waiting"
  PROVE  \E e \in EventTypes : Emit(t, e) /\ Sendable(e, run[t], run'[t])
<1>1. Sendable(type, run[t], run'[t])
  BY DEF Sendable, EndsStream
<1>2. QED
  BY <1>1

\* A turn that fails while it thinks, works on its batches or writes its report.
LEMMA FailingMoves ==
  ASSUME Types, QuestionsFit, ServingFits, NEW t \in Turns, Orphaned(t) \/ InferenceFails(t)
  PROVE  Moves(t)
<1>1. run[t].at \notin {"none", "ended", "waiting"}
  BY DEF Orphaned, InferenceFails, WritesAnswer, At
<1>2. Fails(t) /\ UNCHANGED <<pageVars, pending, unseen>>
  BY DEF Orphaned, InferenceFails
<1>3. QED
  BY <1>1, <1>2, FailMoves

\* The model decides.
LEMMA DecideMoves ==
  ASSUME Types, ServingFits, NEW t \in Turns, Decide(t)
  PROVE  Moves(t)
<1>a. run \in [Turns -> Runs] /\ At(t, "thinking") /\ t \in streaming
  BY DEF Types, TypeOK, Decide
<1>b. UNCHANGED pageVars /\ operation' = operation /\ unseen' = unseen
  BY DEF Decide, guardVars, historyVars
<1>1. ASSUME NEW kind, NEW step \in {"ending", "acquiring", "menu", "waiting"},
             run' = [run EXCEPT ![t].at = step, ![t].kind = kind]
      PROVE  /\ \A u \in Turns \ {t} : run'[u] = run[u]
             /\ run'[t].at = step /\ Advances(run[t], run'[t])
  <2>1. run'[t].at = step /\ \A u \in Turns \ {t} : run'[u] = run[u]
    BY <1>a, <1>1 DEF Runs
  <2>2. QED
    BY <1>a, <2>1 DEF Advances, Reported, SummarySteps, At
<1>2. ASSUME NEW kind, NEW type \in {"scope", "confirm"}, Asks(t, kind, type), streaming' = streaming
      PROVE  Moves(t)
  <2>1. /\ \A u \in Turns \ {t} : run'[u] = run[u]
        /\ run'[t].at = "waiting" /\ Advances(run[t], run'[t])
    BY <1>1, <1>2 DEF Asks
  <2>2. \A q \in pending' : q \in pending \/ q.turn = t
    BY <1>2 DEF Asks
  <2>3. \E e \in EventTypes : Emit(t, e) /\ Sendable(e, run[t], run'[t])
    BY <1>a, <1>2, <2>1, Sends DEF Asks, At, Results, EventTypes
  <2>4. QED
    BY <1>a, <1>b, <1>2, <2>1, <2>2, <2>3, GoMoves DEF At
<1>3. ASSUME NEW kind, run' = [run EXCEPT ![t].at = "ending", ![t].kind = kind], streaming' = streaming \ {t},
             Emit(t, "done"), UNCHANGED pending
      PROVE  Moves(t)
  <2>1. \E e \in EventTypes : Emit(t, e) /\ Sendable(e, run[t], run'[t])
    BY <1>3, Sends DEF Results, EventTypes
  <2>2. QED
    BY <1>a, <1>b, <1>1, <1>3, <2>1, GoMoves DEF At
<1>4. ASSUME NEW kind, run' = [run EXCEPT ![t].at = "acquiring", ![t].kind = kind],
             UNCHANGED <<events, pending, streaming>>
      PROVE  Moves(t)
  BY <1>a, <1>b, <1>1, <1>4, GoMoves DEF At
<1>5. ASSUME run' = [run EXCEPT ![t] = [at |-> "batches", kind |-> "summary", heard |-> "none",
                                        did |-> run[t].did \cup {"reused"}]],
             Emit(t, "progress"), UNCHANGED <<pending, streaming>>
      PROVE  Moves(t)
  <2>1. /\ \A u \in Turns \ {t} : run'[u] = run[u]
        /\ run'[t].at = "batches" /\ run'[t].kind = "summary"
    BY <1>a, <1>5
  <2>2. Advances(run[t], run'[t])
    BY <1>a, <2>1 DEF Advances, Reported, SummarySteps, At
  <2>3. \E e \in EventTypes : Emit(t, e) /\ Sendable(e, run[t], run'[t])
    BY <1>5, Sends DEF Results, EventTypes
  <2>4. QED
    BY <1>a, <1>b, <1>5, <2>1, <2>2, <2>3, GoMoves DEF At
<1>6. ASSUME NEW kind, run' = [run EXCEPT ![t].at = "menu", ![t].kind = kind],
             Emit(t, "menu"), UNCHANGED <<pending, streaming>>
      PROVE  Moves(t)
  <2>1. \E e \in EventTypes : Emit(t, e) /\ Sendable(e, run[t], run'[t])
    BY <1>6, Sends DEF Results, EventTypes
  <2>2. QED
    BY <1>a, <1>b, <1>1, <1>6, <2>1, GoMoves DEF At
<1>7. QED
  BY <1>2, <1>3, <1>4, <1>5, <1>6 DEF Decide

\* The operation, its question, or what stands in its way.
LEMMA AcquireMoves ==
  ASSUME Types, QuestionsFit, ServingFits, NEW t \in Turns, Acquire(t)
  PROVE  Moves(t)
<1>a. run \in [Turns -> Runs] /\ At(t, "acquiring") /\ UNCHANGED <<pageVars, unseen>>
  BY DEF Types, TypeOK, Acquire
<1>1. CASE Fails(t) /\ UNCHANGED pending
  BY <1>a, <1>1, FailMoves DEF At
<1>2. ASSUME NEW kind, NEW type \in {"scope", "confirm"}, Asks(t, kind, type), operation' = t, UNCHANGED streaming
      PROVE  Moves(t)
  <2>1. run' = [run EXCEPT ![t].at = "waiting", ![t].kind = kind] /\ Emit(t, type)
        /\ \A q \in pending' : q \in pending \/ q.turn = t
    BY <1>2 DEF Asks
  <2>2. run'[t].at = "waiting" /\ \A u \in Turns \ {t} : run'[u] = run[u]
    BY <1>a, <2>1 DEF Runs
  <2>3. Advances(run[t], run'[t])
    BY <1>a, <2>2 DEF Advances, Reported, SummarySteps, At
  <2>4. \E e \in EventTypes : Emit(t, e) /\ Sendable(e, run[t], run'[t])
    BY <1>a, <2>1, <2>2, Sends DEF At, Results, EventTypes
  <2>5. QED
    BY <1>a, <1>2, <2>1, <2>2, <2>3, <2>4, GoMoves DEF At
<1>3. CASE Go(t, "finishing") /\ Emit(t, "unchanged") /\ UNCHANGED <<pending, streaming>> /\ operation' = t
  <2>2. run'[t].at = "finishing" /\ \A u \in Turns \ {t} : run'[u] = run[u]
    BY <1>a, <1>3 DEF Runs, Go
  <2>3. Advances(run[t], run'[t])
    BY <1>a, <2>2 DEF Advances, Reported, SummarySteps, At
  <2>4. \E e \in EventTypes : Emit(t, e) /\ Sendable(e, run[t], run'[t])
    BY <1>a, <1>3, <2>2, Sends DEF At, Results, EventTypes, Reported
  <2>5. QED
    BY <1>a, <1>3, <2>2, <2>3, <2>4, GoMoves DEF At
<1>4. QED
  BY <1>1, <1>2, <1>3 DEF Acquire

\* The turn goes on with its answer.
LEMMA ResumeMoves ==
  ASSUME Types, ServingFits, NEW t \in Turns, Resume(t)
  PROVE  Moves(t)
<1>a. run \in [Turns -> Runs] /\ At(t, "waiting") /\ UNCHANGED <<pageVars, unseen, operation, streaming, pending>>
  BY DEF Types, TypeOK, Resume, guardVars, historyVars
<1>1. PICK step, did :
         /\ step \in {"thinking", "finishing", "batches", "applying"}
         /\ run' = [run EXCEPT ![t] = [at |-> step, kind |-> run[t].kind, heard |-> "none", did |-> did]]
         /\ (step = "thinking" => run[t].kind = "pages" /\ UNCHANGED events)
         /\ (step = "finishing" => Emit(t, "unchanged"))
         /\ (step = "batches" => run[t].kind \in {"tagging", "summary"} /\ Emit(t, "progress"))
         /\ (step = "applying" => run[t].kind = "review" /\ UNCHANGED events)
  BY DEF Resume
<1>2. run'[t].at = step /\ run'[t].kind = run[t].kind /\ \A u \in Turns \ {t} : run'[u] = run[u]
  BY <1>a, <1>1
<1>3. Advances(run[t], run'[t])
  BY <1>a, <1>1, <1>2 DEF Advances, Reported, SummarySteps, At
<1>4. UNCHANGED events \/ \E e \in EventTypes : Emit(t, e) /\ Sendable(e, run[t], run'[t])
  <2>1. CASE step = "finishing"
    BY <1>a, <1>1, <1>2, <2>1, Sends DEF At, Results, EventTypes, Reported
  <2>2. CASE step = "batches"
    BY <1>a, <1>1, <1>2, <2>2, Sends DEF At, Results, EventTypes
  <2>3. QED
    BY <1>1, <2>1, <2>2
<1>5. QED
  BY <1>a, <1>1, <1>2, <1>3, <1>4, GoMoves DEF At

\* The batches, and what comes after them.
LEMMA BatchMoves ==
  ASSUME Types, ServingFits, SummaryFits, NEW t \in Turns, BatchEnds(t) \/ BatchesEnd(t)
  PROVE  Moves(t)
<1>a. run \in [Turns -> Runs] /\ At(t, "batches") /\ UNCHANGED <<pageVars, unseen, operation, streaming, pending>>
  BY DEF Types, TypeOK, BatchEnds, BatchesEnd, guardVars, historyVars
<1>1. CASE BatchEnds(t)
  <2>1. run' = [run EXCEPT ![t].did = run[t].did \cup {"batch"}] /\ Emit(t, "preview")
    BY <1>1 DEF BatchEnds
  <2>2. run'[t].at = run[t].at /\ run'[t].kind = run[t].kind /\ \A u \in Turns \ {t} : run'[u] = run[u]
    BY <1>a, <2>1 DEF Runs
  <2>3. Advances(run[t], run'[t])
    BY <1>a, <2>2 DEF Advances, Reported, SummarySteps, At
  <2>4. \E e \in EventTypes : Emit(t, e) /\ Sendable(e, run[t], run'[t])
    BY <2>1, Sends DEF Results, EventTypes
  <2>5. QED
    BY <1>a, <2>2, <2>3, <2>4, GoMoves DEF At
<1>2. CASE BatchesEnd(t) /\ run[t].kind = "summary"
  <2>1. Go(t, "finishing") /\ Emit(t, "unchanged")
    BY <1>2 DEF BatchesEnd
  <2>2. run'[t].at = "finishing" /\ run'[t].kind = run[t].kind /\ \A u \in Turns \ {t} : run'[u] = run[u]
    BY <1>a, <2>1 DEF Runs, Go
  <2>3. Advances(run[t], run'[t])
    BY <1>a, <2>2 DEF Advances, Reported, SummarySteps, At
  <2>4. \E e \in EventTypes : Emit(t, e) /\ Sendable(e, run[t], run'[t])
    BY <1>a, <2>1, <2>2, Sends DEF Results, EventTypes, Reported, At
  <2>5. QED
    BY <1>a, <2>2, <2>3, <2>4, GoMoves DEF At
<1>3. CASE BatchesEnd(t) /\ run[t].kind # "summary"
  <2>1. Go(t, "applying") /\ Emit(t, "committing")
    BY <1>3 DEF BatchesEnd
  <2>2. run'[t].at = "applying" /\ run'[t].kind = run[t].kind /\ \A u \in Turns \ {t} : run'[u] = run[u]
    BY <1>a, <2>1 DEF Runs, Go
  <2>3. Advances(run[t], run'[t])
    BY <1>a, <1>3, <2>2 DEF Advances, Reported, SummarySteps, At
  <2>4. \E e \in EventTypes : Emit(t, e) /\ Sendable(e, run[t], run'[t])
    BY <2>1, Sends DEF Results, EventTypes
  <2>5. QED
    BY <1>a, <2>2, <2>3, <2>4, GoMoves DEF At
<1>4. QED
  BY <1>1, <1>2, <1>3

\* The proposals are applied, or not any more.
LEMMA ApplyMoves ==
  ASSUME Types, QuestionsFit, ServingFits, NEW t \in Turns, Apply(t)
  PROVE  Moves(t)
<1>a. run \in [Turns -> Runs] /\ At(t, "applying") /\ UNCHANGED <<pageVars, pending>>
  BY DEF Types, TypeOK, Apply
<1>1. CASE Unchanged(t)
  <2>1. /\ Go(t, "finishing") /\ UNCHANGED <<operation, streaming>>
        /\ \/ unseen' = unseen \cup {t} /\ Emit(t, "changed")
           \/ unseen' = unseen /\ Emit(t, "unchanged")
    BY <1>1 DEF Apply
  <2>2. run'[t].at = "finishing" /\ \A u \in Turns \ {t} : run'[u] = run[u]
    BY <1>a, <2>1 DEF Runs, Go
  <2>3. Advances(run[t], run'[t])
    BY <1>a, <2>2 DEF Advances, Reported, SummarySteps, At
  <2>4. \E e \in EventTypes : Emit(t, e) /\ Sendable(e, run[t], run'[t])
    BY <1>a, <2>1, <2>2, Sends DEF Results, EventTypes, Reported, At
  <2>5. QED
    BY <1>a, <2>1, <2>2, <2>3, <2>4, GoMoves DEF At
<1>2. CASE ~Unchanged(t)
  BY <1>a, <1>2, FailMoves DEF Apply, At
<1>3. QED
  BY <1>1, <1>2

\* The turn's answer is written, its stream ends, or its task is cancelled.
LEMMA LastMoves ==
  ASSUME Types, QuestionsFit, ServingFits, NEW t \in Turns, Finish(t) \/ EndTurn(t) \/ Cancelled(t)
  PROVE  Moves(t)
<1>a. run \in [Turns -> Runs] /\ UNCHANGED <<pageVars, unseen>> /\ t # 0
  BY TurnNumbers DEF Types, TypeOK, Finish, EndTurn, Cancelled, historyVars, Turns
<1>1. CASE Finish(t)
  <2>1. Go(t, "ending") /\ Emit(t, "done") /\ UNCHANGED <<operation, pending>> /\ streaming' = streaming \ {t}
        /\ At(t, "finishing")
    BY <1>1 DEF Finish, guardVars
  <2>2. run'[t].at = "ending" /\ run'[t].kind = run[t].kind /\ \A u \in Turns \ {t} : run'[u] = run[u]
    BY <1>a, <2>1 DEF Runs, Go
  <2>3. Advances(run[t], run'[t])
    BY <2>1, <2>2 DEF Advances, Reported, SummarySteps, At
  <2>4. \E e \in EventTypes : Emit(t, e) /\ Sendable(e, run[t], run'[t])
    BY <2>1, Sends DEF Results, EventTypes
  <2>5. QED
    BY <1>a, <2>1, <2>2, <2>3, <2>4, GoMoves DEF At
<1>2. CASE EndTurn(t)
  <2>1. /\ Ends(t) /\ Emit(t, "end") /\ Release(t) /\ UNCHANGED <<streaming, pending>>
        /\ At(t, "ending")
    BY <1>2 DEF EndTurn
  <2>2. t \notin streaming /\ \A q \in pending : q.turn # t
    BY <2>1, NoQuestion DEF ServingFits, At
  <2>3. operation' \in {operation, 0} /\ operation' # t
    BY <1>a, <2>1 DEF Release
  <2>4. QED
    BY <1>a, <2>1, <2>2, <2>3, EndMoves DEF At
<1>3. CASE Cancelled(t)
  <2>1. /\ Ends(t) /\ Release(t) /\ streaming' = streaming \ {t} /\ UNCHANGED events
        /\ pending' = {q \in pending : q.turn # t} /\ Alive(t)
    BY <1>3 DEF Cancelled
  <2>2. operation' \in {operation, 0} /\ operation' # t
    BY <1>a, <2>1 DEF Release
  <2>3. QED
    BY <1>a, <2>1, <2>2, EndMoves DEF Alive
<1>4. QED
  BY <1>1, <1>2, <1>3

\* A menu that nobody acknowledges in time; a message that arrives, or is dropped.
LEMMA OtherMoves ==
  ASSUME Types, QuestionsFit, ServingFits, NEW t \in Turns, MenuTimesOut(t) \/ ChatArrives(t) \/ ChatDropped(t)
  PROVE  Moves(t)
<1>a. run \in [Turns -> Runs] /\ UNCHANGED <<pageVars, unseen, operation, pending>>
  BY DEF Types, TypeOK, MenuTimesOut, ChatArrives, ChatDropped, guardVars, historyVars
<1>1. CASE MenuTimesOut(t)
  <2>1. At(t, "menu") /\ MenuEnds(t) /\ UNCHANGED <<events, streaming>>
    BY <1>1 DEF MenuTimesOut, wireVars
  <2>2. run'[t].at = "thinking" /\ run'[t].kind = run[t].kind /\ \A u \in Turns \ {t} : run'[u] = run[u]
    BY <1>a, <2>1 DEF Runs, MenuEnds
  <2>3. Advances(run[t], run'[t])
    BY <2>1, <2>2 DEF Advances, Reported, SummarySteps, At
  <2>4. QED
    BY <1>a, <2>1, <2>2, <2>3, GoMoves DEF At
<1>b. ChatArrives(t) \/ ChatDropped(t) => t \in chat /\ At(t, "none")
  BY DEF ChatArrives, ChatDropped, Types, ChatFits
<1>c. At(t, "none") => t \notin streaming /\ operation # t /\ \A q \in pending : q.turn # t
  <2>1. ASSUME At(t, "none"), operation = t PROVE FALSE
    BY <2>1, TurnNumbers DEF ServingFits, Alive, At, Turns
  <2>2. QED
    BY <2>1, NoQuestion DEF ServingFits, At
<1>2. CASE ChatDropped(t)
  BY <1>a, <1>b, <1>c, <1>2, EndMoves DEF ChatDropped, At
<1>3. CASE ChatArrives(t) /\ SlotFree /\ operation = 0 /\ streaming = {}
  <2>1. Go(t, "thinking") /\ streaming' = {t} /\ UNCHANGED events
    BY <1>3 DEF ChatArrives
  <2>2. run'[t].at = "thinking" /\ run'[t].kind = run[t].kind /\ \A u \in Turns \ {t} : run'[u] = run[u]
    BY <1>a, <2>1 DEF Runs, Go
  <2>3. Advances(run[t], run'[t])
    BY <1>b, <1>3, <2>1, <2>2 DEF Advances, Reported, SummarySteps, At
  <2>4. QED
    BY <1>a, <1>b, <1>3, <2>1, <2>2, <2>3, GoMoves DEF At
<1>4. CASE ChatArrives(t) /\ ~(SlotFree /\ operation = 0 /\ streaming = {})
  <2>1. Ends(t) /\ Emit(t, "refused") /\ UNCHANGED streaming
    BY <1>4 DEF ChatArrives
  <2>2. QED
    BY <1>a, <1>b, <1>c, <1>4, <2>1, EndMoves DEF At
<1>5. QED
  BY <1>1, <1>2, <1>3, <1>4

\* Every step of a turn is such a move.
LEMMA ServerMoves ==
  ASSUME Types, QuestionsFit, ServingFits, SummaryFits, NEW t \in Turns, ServerStep(t)
  PROVE  Moves(t)
BY FailingMoves, DecideMoves, AcquireMoves, ResumeMoves, BatchMoves, ApplyMoves, LastMoves, OtherMoves
   DEF ServerStep

\* What the invariant has of the panel's turn.
LEMMA PanelTurn ==
  ASSUME Types, PanelFits
  PROVE  /\ turn # 0 => turn \in Turns
         /\ phase \in OnPage => outcome = "none" /\ turn \in Turns
         /\ events # <<>> => outcome = "none" /\ turn \in Turns /\ phase \in OnPage
         /\ progress # "none" \/ completion # "none" => turn \in Turns
         /\ outcome # "none" => turn \in Turns
         /\ Len(events) \in Nat /\ events \in Seq(Fitting)
         /\ outcome = "none" /\ phase # "saving" => phase \in OnPage \/ turn = 0
<1>1. turn \in 0..MaxTurns /\ (Busy => turn \in Turns)
  BY DEF Types, TypeOK, PanelTypes, ChatFits
<1>2. turn # 0 => turn \in Turns
  BY <1>1, TurnNumbers
<1>3. events \in Seq(Fitting)
  BY DEF Types, EventsFit
<1>4. phase \in OnPage => Busy
  BY DEF Busy, OnPage
<1>5. QED
  BY <1>1, <1>2, <1>3, <1>4 DEF PanelFits, Busy

\* The panel's turn, when the server takes a step of it while the panel has no outcome yet.
LEMMA MovesOnPage ==
  ASSUME Types, PanelFits, NEW t \in Turns, Moves(t), t = turn, outcome = "none"
  PROVE  phase \in OnPage
<1>1. phase # "saving"
  BY DEF Types, ChatFits, Moves, At
<1>2. t # 0
  BY TurnNumbers DEF Turns
<1>3. QED
  BY <1>1, <1>2, PanelTurn

\* The panel shows what its turn needs, through the steps of the turns.
LEMMA PanelMoves ==
  ASSUME Types, PanelFits, NEW t \in Turns, Moves(t)
  PROVE  PanelFits'
<1>1. UNCHANGED <<phase, turn, aborted, outcome, card, progress, completion, gate>>
  BY DEF Moves, pageVars, panelVars, cardVars
<1>2. events' # <<>> => phase \in OnPage
  <2>1. CASE t = turn /\ outcome = "none"
    BY <2>1, MovesOnPage
  <2>2. CASE ~(t = turn /\ outcome = "none")
    BY <2>2 DEF Moves, Emit, PanelFits
  <2>3. QED
    BY <2>1, <2>2
<1>3. QED
  BY <1>1, <1>2 DEF PanelFits, Busy

\* The same through the other steps.
LEMMA PanelQuiet ==
  ASSUME Types, PanelFits, Quiet \/ SaveEnds \/ MenuAcknowledged \/ \E a \in delivering : Deliver(a)
  PROVE  PanelFits'
<1> USE DEF PanelFits, Busy, OnPage, panelVars, cardVars, pageVars, wireVars
<1>a. Types
  OBVIOUS
<1>1. ASSUME UNCHANGED <<pageVars, events>> PROVE PanelFits'
  BY <1>1
<1>2. ASSUME ReadEnd \/ ReadPreview PROVE PanelFits'
  <2>1. turn # 0 /\ phase = "streaming"
    BY <1>2, TurnNumbers DEF ReadEnd, ReadPreview, Read, Reading, Types, ChatFits, Turns
  <2>2. CASE ReadEnd
    BY <2>1, <2>2 DEF ReadEnd, Leave
  <2>3. CASE ReadPreview
    BY <2>1, <2>3 DEF ReadPreview, Read, Reading, Leave
  <2>4. QED
    BY <1>2, <2>2, <2>3
<1>3. ASSUME ReadConfirm \/ ReadText \/ ReadMenu PROVE PanelFits'
  BY <1>3 DEF ReadConfirm, ReadText, ReadMenu, Read, Reading
<1>4. ASSUME ReadScope PROVE PanelFits'
  <2>1. progress' # "none"
    BY <1>4, HeadFits DEF ReadScope, Shown, Types, Read, Reading, Fitting
  <2>2. QED
    BY <1>4, <2>1 DEF ReadScope, Read, Reading
<1>5. ASSUME ReadProgress PROVE PanelFits'
  <2>1. progress' # "none"
    BY <1>5 DEF ReadProgress
  <2>2. QED
    BY <1>5, <2>1 DEF ReadProgress, Read, Reading
<1>6. ASSUME ReadCompletion PROVE PanelFits'
  BY <1>6 DEF ReadCompletion, Read, Reading
<1>7. ASSUME MenuOpens PROVE PanelFits'
  BY <1>7 DEF MenuOpens
<1>8. ASSUME CloseProgress PROVE PanelFits'
  BY <1>8 DEF CloseProgress
<1>9. ASSUME Refresh PROVE PanelFits'
  BY <1>9 DEF Refresh
<1>10. ASSUME Send PROVE PanelFits'
  <2>1. turn' # 0
    BY <1>10 DEF Send, Types, TypeOK, PanelTypes
  <2>2. QED
    BY <1>10, <2>1 DEF Send
<1>11. ASSUME Abort, UNCHANGED <<turn, progress, completion, gate>> PROVE PanelFits'
  <2>1. turn # 0
    BY <1>11, TurnNumbers DEF Abort, InRequest, Types, ChatFits, Turns
  <2>2. QED
    BY <1>11, <2>1 DEF Abort, InRequest, Leave
<1>12. ASSUME Stop \/ Clear PROVE PanelFits'
  BY <1>1, <1>11, <1>12 DEF Stop, Clear
<1>13. ASSUME NEW value \in {"yes", "no"}, Click(value) PROVE PanelFits'
  BY <1>13 DEF Click
<1>14. ASSUME AnswerArrives PROVE PanelFits'
  BY <1>14 DEF AnswerArrives, AnswersCard
<1>15. ASSUME StartCommand \/ EndCommand PROVE PanelFits'
  BY <1>15 DEF StartCommand, EndCommand
<1>16. ASSUME StreamBreaks PROVE PanelFits'
  <2>1. turn # 0
    BY <1>16, TurnNumbers DEF StreamBreaks, Types, ChatFits, Turns
  <2>2. QED
    BY <1>16, <2>1 DEF StreamBreaks, Leave
<1>17. ASSUME Reload PROVE PanelFits'
  BY <1>17 DEF Reload, Types, TypeOK, PanelTypes
<1>18. ASSUME ClearAsks \/ ClearArrives \/ (\E r \in cast.requests : EnterRoute(r) \/ LeaveRoute(r))
              \/ UNCHANGED vars \/ \E a \in delivering : Deliver(a)
       PROVE  PanelFits'
  BY <1>18 DEF ClearAsks, ClearArrives, EnterRoute, LeaveRoute, Deliver, vars
<1>19. ASSUME SaveEnds PROVE PanelFits'
  <2>1. turn # 0
    BY <1>19, TurnNumbers DEF SaveEnds, Types, ChatFits, Turns
  <2>2. QED
    BY <1>19, <2>1 DEF SaveEnds
<1>20. ASSUME MenuAcknowledged PROVE PanelFits'
  <2>1. turn # 0
    BY <1>20, TurnNumbers DEF MenuAcknowledged, Types, ChatFits, Turns
  <2>2. CASE UNCHANGED <<outcome, card, events>> /\ phase' = "streaming"
    BY <1>20, <2>1, <2>2 DEF MenuAcknowledged
  <2>3. CASE Leave("failed")
    BY <1>20, <2>1, <2>3 DEF MenuAcknowledged, Leave
  <2>4. QED
    BY <1>20, <2>2, <2>3 DEF MenuAcknowledged
<1>21. QED
  BY <1>2, <1>3, <1>4, <1>5, <1>6, <1>7, <1>8, <1>9, <1>10, <1>12, <1>13, <1>14, <1>15, <1>16, <1>17, <1>18, <1>19,
     <1>20 DEF Quiet, User, Others

\* What the server serves, through the steps of the turns.
LEMMA ServingMoves ==
  ASSUME Types, ServingFits, NEW t \in Turns, Moves(t)
  PROVE  ServingFits'
<1>1. operation \in 0..MaxTurns /\ streaming \subseteq Turns
  BY DEF Types, TypeOK, ServerTypes
<1>2. \A n \in 0..MaxTurns : n # 0 => n \in Turns
  BY TurnNumbers
<1>3. ASSUME operation' # 0 PROVE Alive(operation)'
  <2>1. CASE operation' = t
    BY <2>1 DEF Moves
  <2>2. CASE operation' # t
    <3>1. operation' = operation /\ operation \in Turns \ {t}
      BY <1>1, <1>2, <1>3, <2>2 DEF Moves
    <3>2. QED
      BY <1>3, <3>1 DEF Moves, ServingFits, Alive
  <2>3. QED
    BY <2>1, <2>2
<1>4. ASSUME NEW u \in streaming' PROVE run'[u].at \notin {"none", "ending", "ended"}
  BY <1>1, <1>4 DEF Moves, ServingFits
<1>5. QED
  BY <1>3, <1>4 DEF ServingFits

\* How the other steps leave the turns: one that was not sent is over, one whose menu is
\* acknowledged goes on, one is told its answer.
LEMMA QuietTurns ==
  ASSUME Types, Quiet \/ SaveEnds \/ MenuAcknowledged \/ \E a \in delivering : Deliver(a)
  PROVE  /\ \A t \in Turns : \/ run'[t].at = run[t].at /\ run'[t].kind = run[t].kind
                             \/ SaveEnds /\ t = turn /\ run[t].at = "none" /\ run'[t].at = "ended"
                             \/ MenuAcknowledged /\ t = turn /\ run[t].at = "menu" /\ run'[t].at = "thinking"
         /\ operation' = operation
         /\ streaming' \subseteq streaming /\ pending' \subseteq pending
<1>a. run \in [Turns -> Runs]
  BY DEF Types, TypeOK
<1> USE DEF serverVars, guardVars, turnVars
<1>1. CASE Quiet
  <2>1. UNCHANGED run
    BY <1>1, QuietRun
  <2>2. ASSUME ReadEnd \/ ReadConfirm \/ ReadScope \/ ReadProgress \/ ReadPreview \/ ReadCompletion \/ ReadText
               \/ ReadMenu \/ MenuOpens \/ CloseProgress \/ Refresh \/ ClearAsks
        PROVE  UNCHANGED <<operation, streaming, pending>>
    BY <2>2 DEF ReadEnd, ReadConfirm, ReadScope, ReadProgress, ReadPreview, ReadCompletion, ReadText, ReadMenu,
       MenuOpens, CloseProgress, Refresh, ClearAsks
  <2>3. ASSUME User \/ AnswerArrives \/ ClearArrives \/ Others \/ StreamBreaks \/ Reload
        PROVE  operation' = operation /\ streaming' \subseteq streaming /\ pending' \subseteq pending
    BY <2>3 DEF User, Send, Stop, Clear, Click, AnswerArrives, ClearArrives, Others, StartCommand, EndCommand,
       EnterRoute, LeaveRoute, StreamBreaks, Reload
  <2>4. QED
    BY <1>1, <2>1, <2>2, <2>3 DEF Quiet, vars
<1>2. CASE SaveEnds
  <2>1. turn \in Turns /\ run[turn].at = "none"
    BY <1>2 DEF SaveEnds, Types, ChatFits, Busy, At
  <2>2. run' = run \/ run' = [run EXCEPT ![turn] = Over]
    BY <1>2 DEF SaveEnds
  <2>3. QED
    BY <1>a, <1>2, <2>1, <2>2 DEF SaveEnds, Over, NotBegun
<1>3. CASE MenuAcknowledged
  <2>1. turn \in Turns
    BY <1>3 DEF MenuAcknowledged, Types, ChatFits, Busy
  <2>2. run' = run \/ (At(turn, "menu") /\ MenuEnds(turn))
    BY <1>3 DEF MenuAcknowledged
  <2>3. CASE At(turn, "menu") /\ MenuEnds(turn)
    <3>1. /\ run'[turn].at = "thinking" /\ run[turn].at = "menu"
          /\ \A u \in Turns \ {turn} : run'[u] = run[u]
      BY <1>a, <2>1, <2>3 DEF MenuEnds, Runs, At
    <3>2. QED
      BY <1>3, <3>1 DEF MenuAcknowledged
  <2>4. QED
    BY <1>3, <2>2, <2>3 DEF MenuAcknowledged
<1>4. ASSUME NEW a \in delivering, Deliver(a)
      PROVE  /\ \A t \in Turns : run'[t].at = run[t].at /\ run'[t].kind = run[t].kind
             /\ UNCHANGED <<operation, streaming, pending>>
  <2>1. a.question.turn \in Turns
    BY DEF Types, TypeOK, ServerTypes, Answers, Questions
  <2>2. run' = run \/ run' = [run EXCEPT ![a.question.turn].heard = a.value]
    BY <1>4 DEF Deliver
  <2>3. \A t \in Turns : run'[t].at = run[t].at /\ run'[t].kind = run[t].kind
    BY <1>a, <2>1, <2>2 DEF Runs
  <2>4. QED
    BY <1>4, <2>3 DEF Deliver
<1>5. QED
  BY <1>1, <1>2, <1>3, <1>4

\* What the server serves, through the other steps.
LEMMA ServingQuiet ==
  ASSUME Types, ServingFits, Quiet \/ SaveEnds \/ MenuAcknowledged \/ \E a \in delivering : Deliver(a)
  PROVE  ServingFits'
<1>1. operation \in 0..MaxTurns /\ streaming \subseteq Turns
  BY DEF Types, TypeOK, ServerTypes
<1>2. \A n \in 0..MaxTurns : n # 0 => n \in Turns
  BY TurnNumbers
<1>3. \A t \in Turns : Alive(t) => Alive(t)'
  BY QuietTurns DEF Alive
<1>4. \A t \in Turns : run[t].at \notin {"none", "ending", "ended"} => run'[t].at \notin {"none", "ending", "ended"}
  BY QuietTurns
<1>5. operation' = operation /\ streaming' \subseteq streaming
  BY QuietTurns
<1>6. operation' # 0 => Alive(operation)'
  BY <1>1, <1>2, <1>3, <1>5 DEF ServingFits
<1>7. \A t \in streaming' : run'[t].at \notin {"none", "ending", "ended"}
  BY <1>1, <1>4, <1>5 DEF ServingFits
<1>8. QED
  BY <1>6, <1>7 DEF ServingFits

\* Steps of the panel, by what they do to what is read, to the result and to the turn.
Stays ==
    /\ UNCHANGED <<turn, outcome, events, progress, completion, unseen>>
    /\ phase' = phase \/ (phase \in OnPage /\ phase' \in OnPage)

Leaves ==
    /\ UNCHANGED <<turn, progress, completion, unseen>>
    /\ events' = <<>> /\ phase' = "closing" /\ phase \in OnPage
    /\ outcome' \in {"stopped", "failed"} \/ (outcome' = "finished" /\ Read({"end"}))

Takes == Reading /\ UNCHANGED <<turn, outcome, unseen>> /\ events' = Tail(events) /\ phase' \in OnPage

ReadsOn ==
    /\ Takes /\ Head(events).type \notin Results
    /\ UNCHANGED completion /\ (progress' # "summary" \/ progress' = progress)

\* The steps that are not the server's are of these kinds.
LEMMA PanelSteps ==
  ASSUME Types, PanelFits, Quiet \/ SaveEnds \/ MenuAcknowledged \/ \E a \in delivering : Deliver(a)
  PROVE  Stays \/ Leaves \/ ReadsOn \/ (ReadScope /\ Takes) \/ (ReadCompletion /\ Takes)
         \/ Send \/ CloseProgress \/ Refresh \/ SaveEnds \/ Reload
<1> USE DEF panelVars, cardVars, pageVars, wireVars, historyVars
<1>1. ASSUME ReadConfirm \/ ReadText \/ ReadMenu \/ ReadProgress PROVE ReadsOn
  BY <1>1 DEF ReadConfirm, ReadText, ReadMenu, ReadProgress, ReadsOn, Takes, Read, Reading, Results, OnPage
<1>2. ASSUME ReadScope \/ ReadCompletion PROVE Takes
  BY <1>2 DEF ReadScope, ReadCompletion, Takes, Read, Reading, OnPage
<1>3. ASSUME ReadEnd PROVE Leaves
  BY <1>3 DEF ReadEnd, Leave, Leaves, Read, Reading, EndsStream, OnPage
<1>4. ASSUME ReadPreview PROVE Leaves \/ ReadsOn
  BY <1>4 DEF ReadPreview, Leave, Leaves, ReadsOn, Takes, Read, Reading, OnPage, Results
<1>5. ASSUME MenuOpens PROVE Stays
  BY <1>5 DEF MenuOpens, Stays, OnPage
<1>6. ASSUME MenuAcknowledged PROVE Stays \/ Leaves
  BY <1>6 DEF MenuAcknowledged, Stays, Leaves, Leave, OnPage
<1>7. ASSUME Abort, UNCHANGED <<turn, progress, completion, unseen>> PROVE Stays \/ Leaves
  BY <1>7 DEF Abort, InRequest, Leave, Stays, Leaves, OnPage
<1>8. ASSUME Stop \/ Clear PROVE Stays \/ Leaves
  BY <1>7, <1>8 DEF Stop, Clear, Stays
<1>9. ASSUME StreamBreaks PROVE Leaves
  BY <1>9 DEF StreamBreaks, Leave, Leaves, OnPage
<1>10. ASSUME ClearAsks \/ ClearArrives \/ Others \/ AnswerArrives \/ (\E value \in {"yes", "no"} : Click(value))
              \/ UNCHANGED vars \/ \E a \in delivering : Deliver(a)
       PROVE  Stays
  BY <1>10 DEF ClearAsks, ClearArrives, Others, StartCommand, EndCommand, EnterRoute, LeaveRoute, AnswerArrives,
     Click, Deliver, Stays, vars
<1>11. QED
  BY <1>1, <1>2, <1>3, <1>4, <1>5, <1>6, <1>8, <1>9, <1>10 DEF Quiet, User

\* What is left of the events when the first is read.
LEMMA TakenEvents ==
  ASSUME Types, Takes
  PROVE  /\ Len(events) \in Nat /\ Len(events) > 0 /\ Len(events') = Len(events) - 1
         /\ Head(events) = events[1] /\ 1 \in 1..Len(events)
         /\ \A i \in 1..Len(events') : events'[i] = events[i + 1] /\ i + 1 \in 1..Len(events) /\ i \in Nat
         /\ phase = "streaming" /\ phase \in OnPage
BY Rest DEF Takes, Reading, Types, EventsFit, OnPage

\* What is read after a step of a turn.
LEMMA SentEvents ==
  ASSUME Types, NEW t \in Turns, Moves(t)
  PROVE  \/ events' = events
         \/ /\ t = turn /\ outcome = "none" /\ Len(events) \in Nat /\ Len(events') = Len(events) + 1
            /\ \A i \in 1..Len(events) : events'[i] = events[i]
            /\ \A i \in 1..Len(events') : i \in 1..Len(events) \/ i = Len(events) + 1
            /\ Len(events) + 1 \in 1..Len(events')
            /\ events'[Len(events) + 1].kind = run'[t].kind
            /\ Sendable(events'[Len(events) + 1].type, run[t], run'[t])
<1> SUFFICES ASSUME events' # events
             PROVE  /\ t = turn /\ outcome = "none" /\ Len(events) \in Nat /\ Len(events') = Len(events) + 1
                    /\ \A i \in 1..Len(events) : events'[i] = events[i]
                    /\ \A i \in 1..Len(events') : i \in 1..Len(events) \/ i = Len(events) + 1
                    /\ Len(events) + 1 \in 1..Len(events')
                    /\ events'[Len(events) + 1].kind = run'[t].kind
                    /\ Sendable(events'[Len(events) + 1].type, run[t], run'[t])
  OBVIOUS
<1>1. PICK type \in EventTypes : Emit(t, type) /\ Sendable(type, run[t], run'[t])
  BY DEF Moves
<1> DEFINE e == [kind |-> run'[t].kind, type |-> type]
<1>2. t = turn /\ outcome = "none" /\ events' = Append(events, e)
  BY <1>1 DEF Emit
<1>3. e.type = type /\ e.kind = run'[t].kind
  OBVIOUS
<1>4. events \in Seq(Events \cup {e}) /\ e \in Events \cup {e}
  BY DEF Types, TypeOK
<1> HIDE DEF e
<1>5. /\ Len(events') = Len(events) + 1 /\ Len(events) \in Nat
      /\ \A i \in 1..Len(events) : events'[i] = events[i]
      /\ events'[Len(events) + 1] = e
      /\ \A i \in 1..Len(events') : i \in 1..Len(events) \/ i = Len(events) + 1
  BY <1>2, <1>4, Appended
<1>6. Len(events) + 1 \in 1..Len(events')
  BY <1>5
<1>7. QED
  BY <1>1, <1>2, <1>3, <1>5, <1>6

\* The last event, through the steps of the turns.
LEMMA StreamMoves ==
  ASSUME Types, PanelFits, StreamFits, ServingFits', NEW t \in Turns, Moves(t)
  PROVE  StreamFits'
<1>1. turn' = turn /\ outcome' = outcome
  BY DEF Moves, pageVars, panelVars
<1>2. run'[t].at = "ended" => Settled(t)'
  BY DEF Moves, Settled, At, ServingFits, Alive
<1>3. run[t].at # "ended"
  BY DEF Moves, Advances
<1>4. CASE events' = events
  <2>1. ASSUME NEW i \in 1..Len(events), events[i].type \in EndsStream PROVE At(turn, "ended")'
    <3>1. At(turn, "ended") /\ turn # t /\ turn \in Turns
      BY <1>3, <2>1, PanelTurn DEF StreamFits, At
    <3>2. QED
      BY <1>1, <3>1 DEF Moves, At
  <2>2. ASSUME Settled(turn), turn \in Turns PROVE Settled(turn)'
    <3>1. Settled(turn)' <=> /\ run'[turn].at = "ended" /\ turn # operation' /\ turn \notin streaming'
                             /\ \A q \in pending' : q.turn # turn
      BY <1>1 DEF Settled, At
    <3>2. turn # t /\ turn # 0
      BY <1>3, <2>2, TurnNumbers DEF Settled, At, Turns
    <3>3. run'[turn] = run[turn] /\ turn # operation'
      BY <2>2, <3>2 DEF Moves, Settled
    <3>4. turn \notin streaming' /\ \A q \in pending' : q.turn # turn
      BY <2>2, <3>2 DEF Moves, Settled
    <3>5. QED
      BY <2>2, <3>1, <3>3, <3>4 DEF Settled, At
  <2>3. outcome = "finished" \/ (\E i \in 1..Len(events) : events[i].type = "end") => turn \in Turns
    BY PanelTurn
  <2>4. QED
    BY <1>1, <1>4, <2>1, <2>2, <2>3 DEF StreamFits
<1>5. CASE events' # events
  <2>1. /\ t = turn /\ outcome = "none" /\ Len(events) \in Nat /\ Len(events') = Len(events) + 1
        /\ \A i \in 1..Len(events) : events'[i] = events[i]
        /\ \A i \in 1..Len(events') : i \in 1..Len(events) \/ i = Len(events) + 1
        /\ Sendable(events'[Len(events) + 1].type, run[t], run'[t])
    BY <1>5, SentEvents
  <2>2. \A i \in 1..Len(events) : events[i].type \notin EndsStream
    BY <1>3, <2>1 DEF StreamFits, At
  <2>3. ASSUME NEW i \in 1..Len(events'), events'[i].type \in EndsStream
        PROVE  i = Len(events') /\ run'[t].at = "ended"
    BY <2>1, <2>2, <2>3 DEF Sendable
  <2>4. (\E i \in 1..Len(events') : events'[i].type = "end") => Settled(t)'
    BY <1>2, <2>3 DEF EndsStream
  <2>5. Settled(turn)' <=> Settled(t)'
    BY <1>1, <2>1 DEF Settled, At
  <2>6. At(turn, "ended")' <=> run'[t].at = "ended"
    BY <1>1, <2>1 DEF At
  <2>7. outcome' # "finished"
    BY <1>1, <2>1
  <2>8. QED
    BY <2>3, <2>4, <2>5, <2>6, <2>7 DEF StreamFits
<1>6. QED
  BY <1>4, <1>5

\* The last event, through the other steps.
LEMMA StreamQuiet ==
  ASSUME Types, PanelFits, StreamFits,
         Quiet \/ SaveEnds \/ MenuAcknowledged \/ \E a \in delivering : Deliver(a)
  PROVE  StreamFits'
<1>a. ASSUME turn' = turn, turn \in Turns, Settled(turn) PROVE Settled(turn)'
  <2>1. Settled(turn)' <=> /\ run'[turn].at = "ended" /\ turn # operation' /\ turn \notin streaming'
                           /\ \A q \in pending' : q.turn # turn
    BY <1>a DEF Settled, At
  <2>2. run'[turn].at = "ended"
    BY <1>a, QuietTurns DEF Settled, At
  <2>3. operation' = operation /\ streaming' \subseteq streaming /\ pending' \subseteq pending
    BY QuietTurns
  <2>4. QED
    BY <1>a, <2>1, <2>2, <2>3 DEF Settled
<1>b. ASSUME turn' = turn, turn \in Turns, At(turn, "ended") PROVE At(turn, "ended")'
  BY <1>b, QuietTurns DEF At
<1>c. /\ events # <<>> => turn \in Turns
      /\ outcome # "none" => turn \in Turns
      /\ Len(events) \in Nat /\ events \in Seq(Fitting)
  BY PanelTurn
<1>d. \A i \in 1..Len(events) : events # <<>>
  BY <1>c
<1>1. CASE UNCHANGED <<turn, outcome, events>>
  BY <1>a, <1>b, <1>c, <1>d, <1>1 DEF StreamFits
<1>2. CASE Takes
  <2>1. /\ Len(events) \in Nat /\ Len(events') = Len(events) - 1
        /\ \A i \in 1..Len(events') : events'[i] = events[i + 1] /\ i + 1 \in 1..Len(events) /\ i \in Nat
    BY <1>2, TakenEvents
  <2>2. UNCHANGED <<turn, outcome>> /\ turn \in Turns
    BY <1>2, <1>c DEF Takes, Reading
  <2>3. ASSUME NEW i \in 1..Len(events'), events'[i].type \in EndsStream
        PROVE  At(turn, "ended")' /\ i = Len(events')
    <3>1. At(turn, "ended") /\ i + 1 = Len(events)
      BY <2>1, <2>3 DEF StreamFits
    <3>2. QED
      BY <1>b, <2>1, <2>2, <3>1
  <2>4. (\E i \in 1..Len(events') : events'[i].type = "end") => \E i \in 1..Len(events) : events[i].type = "end"
    BY <2>1
  <2>5. QED
    BY <1>a, <2>2, <2>3, <2>4 DEF StreamFits
<1>3. CASE Leaves
  <2>1. ASSUME outcome' = "finished" PROVE Settled(turn)'
    <3>1. events # <<>> /\ Head(events).type = "end" /\ turn' = turn
      BY <1>3, <2>1 DEF Leaves, Read, Reading
    <3>2. 1 \in 1..Len(events) /\ events[1].type = "end"
      BY <1>c, <3>1, Rest
    <3>3. QED
      BY <1>a, <1>c, <3>1, <3>2 DEF StreamFits
  <2>2. events' = <<>>
    BY <1>3 DEF Leaves
  <2>3. QED
    BY <2>1, <2>2 DEF StreamFits
<1>4. CASE Send \/ SaveEnds \/ Reload
  <2>1. phase \in {"idle", "saving"} \/ Reload
    BY <1>4 DEF Send, SaveEnds, Busy
  <2>2. events' = <<>>
    BY <1>4, <2>1 DEF Send, SaveEnds, Reload, PanelFits, OnPage
  <2>3. outcome' # "finished"
    BY <1>4 DEF Send, SaveEnds, Reload, PanelFits, Busy
  <2>4. QED
    BY <2>2, <2>3 DEF StreamFits
<1>5. Stays \/ CloseProgress \/ Refresh => UNCHANGED <<turn, outcome, events>>
  BY DEF Stays, CloseProgress, Refresh, wireVars
<1>6. QED
  BY <1>1, <1>2, <1>3, <1>4, <1>5, PanelSteps DEF ReadsOn

\* The result, through the steps of the turns.
LEMMA ResultMoves ==
  ASSUME Types, PanelFits, ResultFits, NEW t \in Turns, Moves(t)
  PROVE  ResultFits'
<1>1. UNCHANGED <<turn, outcome, completion>>
  BY DEF Moves, pageVars, panelVars, cardVars
<1>2. unseen \subseteq Turns
  BY DEF Types, TypeOK, HistoryTypes
<1>3. \A u \in Turns : run[u].at \in Reported => run'[u].at \in Reported
  BY DEF Moves, Advances, Reported
<1>4. \A u \in unseen' : run'[u].at \in Reported
  <2>1. unseen' = unseen \/ (unseen' = unseen \cup {t} /\ run'[t].at \in Reported)
    BY DEF Moves, Reported
  <2>2. QED
    BY <1>2, <1>3, <2>1 DEF ResultFits
<1>5. completion # "none" \/ (\E i \in 1..Len(events) : events[i].type \in Results) => turn \in Turns
  BY PanelTurn
<1>6. CASE events' = events
  BY <1>1, <1>3, <1>4, <1>5, <1>6 DEF ResultFits
<1>7. CASE events' # events
  <2>1. /\ t = turn /\ outcome = "none" /\ Len(events) \in Nat /\ Len(events') = Len(events) + 1
        /\ \A i \in 1..Len(events) : events'[i] = events[i]
        /\ \A i \in 1..Len(events') : i \in 1..Len(events) \/ i = Len(events) + 1
        /\ Len(events) + 1 \in 1..Len(events')
        /\ Sendable(events'[Len(events) + 1].type, run[t], run'[t])
    BY <1>7, SentEvents
  <2> DEFINE last == events'[Len(events) + 1]
  <2>2. CASE last.type \in Results
    <3>1. run[turn].at \notin Reported /\ run'[turn].at \in Reported
      BY <2>1, <2>2 DEF Sendable, Reported
    <3>2. completion = "none" /\ \A i \in 1..Len(events) : events[i].type \notin Results
      BY <3>1 DEF ResultFits
    <3>3. \A i \in 1..Len(events') : events'[i].type \in Results => i = Len(events) + 1
      BY <2>1, <3>2
    <3>4. QED
      BY <1>1, <1>4, <3>1, <3>2, <3>3 DEF ResultFits
  <2>3. CASE last.type \notin Results
    <3>1. \A i \in 1..Len(events') : events'[i].type \in Results => i \in 1..Len(events) /\ events'[i] = events[i]
      BY <2>1, <2>3
    <3>2. (completion # "none" \/ \E i \in 1..Len(events') : events'[i].type \in Results)
             => run'[turn].at \in Reported
      BY <1>3, <1>5, <2>1, <3>1 DEF ResultFits
    <3>3. \A i \in 1..Len(events') : events'[i].type \in Results =>
             completion = "none" /\ \A j \in 1..Len(events') : events'[j].type \in Results => j = i
      BY <3>1 DEF ResultFits
    <3>4. QED
      BY <1>1, <1>4, <3>2, <3>3 DEF ResultFits
  <2>4. QED
    BY <2>2, <2>3
<1>8. QED
  BY <1>6, <1>7

\* The result, through the other steps.
LEMMA ResultQuiet ==
  ASSUME Types, PanelFits, ResultFits,
         Quiet \/ SaveEnds \/ MenuAcknowledged \/ \E a \in delivering : Deliver(a)
  PROVE  ResultFits'
<1>1. \A u \in Turns : run[u].at \in Reported => run'[u].at \in Reported
  BY QuietTurns DEF Reported
<1>2. unseen' \subseteq unseen /\ unseen \subseteq Turns
  BY PanelSteps DEF Types, TypeOK, HistoryTypes, Stays, Leaves, ReadsOn, Takes, Send, CloseProgress, Refresh,
     SaveEnds, Reload, historyVars
<1>3. \A u \in unseen' : run'[u].at \in Reported
  BY <1>1, <1>2 DEF ResultFits
<1>4. /\ events # <<>> => turn \in Turns
      /\ completion # "none" => turn \in Turns
      /\ Len(events) \in Nat
  BY PanelTurn
<1>5. CASE Stays
  <2>1. UNCHANGED <<turn, events, completion>>
    BY <1>5 DEF Stays
  <2>2. completion # "none" \/ (\E i \in 1..Len(events) : events[i].type \in Results) => turn \in Turns
    BY PanelTurn
  <2>3. QED
    BY <1>1, <1>3, <2>1, <2>2 DEF ResultFits
<1>6. ASSUME events' = <<>>, completion' # "none" => completion' = completion /\ turn' = turn PROVE ResultFits'
  <2>1. \A i \in 1..Len(events') : FALSE
    BY <1>6
  <2>2. completion' # "none" => run'[turn'].at \in Reported
    BY <1>1, <1>4, <1>6 DEF ResultFits
  <2>3. QED
    BY <1>3, <2>1, <2>2 DEF ResultFits
<1>7. CASE Takes /\ (completion' \in {completion, "none"} \/ ReadCompletion)
  <2>1. /\ Len(events) \in Nat /\ Len(events') = Len(events) - 1 /\ Head(events) = events[1]
        /\ \A i \in 1..Len(events') : events'[i] = events[i + 1] /\ i + 1 \in 1..Len(events) /\ i \in Nat
        /\ 1 \in 1..Len(events)
    BY <1>7, TakenEvents
  <2>2. turn' = turn /\ turn \in Turns
    BY <1>4, <1>7 DEF Takes, Reading
  <2>3. (\E i \in 1..Len(events') : events'[i].type \in Results)
           => \E i \in 1..Len(events) : events[i].type \in Results
    BY <2>1
  <2>4. \A i \in 1..Len(events') : events'[i].type \in Results =>
           completion = "none" /\ \A j \in 1..Len(events') : events'[j].type \in Results => j = i
    <3>1. SUFFICES ASSUME NEW i \in 1..Len(events'), events'[i].type \in Results
                   PROVE  completion = "none" /\ \A j \in 1..Len(events') : events'[j].type \in Results => j = i
      OBVIOUS
    <3>2. i + 1 \in 1..Len(events) /\ events[i + 1].type \in Results
      BY <2>1, <3>1
    <3>3. completion = "none" /\ \A j \in 1..Len(events) : events[j].type \in Results => j = i + 1
      BY <3>2 DEF ResultFits
    <3>4. QED
      BY <2>1, <3>1, <3>3
  <2>5. CASE completion' \in {completion, "none"}
    <3>1. completion' # "none" \/ (\E i \in 1..Len(events') : events'[i].type \in Results)
             => run'[turn].at \in Reported
      BY <1>1, <2>2, <2>3, <2>5 DEF ResultFits
    <3>2. QED
      BY <1>3, <2>2, <2>4, <2>5, <3>1 DEF ResultFits
  <2>6. CASE ReadCompletion
    <3>1. events[1].type \in Results
      BY <2>1, <2>6 DEF ReadCompletion, Read, Results
    <3>2. run'[turn].at \in Reported
      BY <1>1, <2>1, <2>2, <3>1 DEF ResultFits
    <3>3. \A i \in 1..Len(events') : events'[i].type \notin Results
      <4>1. ASSUME NEW i \in 1..Len(events'), events'[i].type \in Results PROVE FALSE
        <5>1. i + 1 \in 1..Len(events) /\ events[i + 1].type \in Results /\ i + 1 # 1
          BY <2>1, <4>1
        <5>2. QED
          BY <2>1, <3>1, <5>1 DEF ResultFits
      <4>2. QED
        BY <4>1
    <3>4. QED
      BY <1>3, <2>2, <3>2, <3>3 DEF ResultFits
  <2>7. QED
    BY <1>7, <2>5, <2>6
<1>8. CASE Leaves \/ Reload
  BY <1>6, <1>8 DEF Leaves, Reload
<1>9. CASE Send \/ SaveEnds \/ CloseProgress \/ Refresh
  <2>1. events = <<>> /\ events' = events
    BY <1>9 DEF Send, SaveEnds, CloseProgress, Refresh, PanelFits, OnPage, Busy, wireVars
  <2>2. completion' = "none"
    BY <1>9 DEF Send, SaveEnds, CloseProgress, Refresh, PanelFits, Busy, cardVars
  <2>3. QED
    BY <1>6, <2>1, <2>2
<1>10. ReadScope => completion' = completion
  BY DEF ReadScope
<1>11. QED
  BY <1>5, <1>7, <1>8, <1>9, <1>10, PanelSteps DEF ReadsOn

\* A summary is shown.
LEMMA SummaryMoves ==
  ASSUME Types, PanelFits, ResultFits, SummaryFits, NEW t \in Turns, Moves(t)
  PROVE  SummaryFits'
<1> DEFINE Summarizes(r) == r.at = "ended" \/ (r.kind = "summary" /\ r.at \in SummarySteps)
           Asked(e) == e.type = "scope" /\ e.kind = "summary"
<1>1. UNCHANGED <<turn, outcome, progress>>
  BY DEF Moves, pageVars, panelVars, cardVars
<1>2. \A u \in Turns : Summarizes(run[u]) => Summarizes(run'[u])
  <2>1. Summarizes(run[t]) => Summarizes(run'[t])
    BY DEF Moves, Advances
  <2>2. QED
    BY <2>1 DEF Moves
<1>3. \A u \in Turns : /\ At(u, "applying")' => run'[u].kind \in {"tagging", "review"}
                       /\ At(u, "batches")' => run'[u].kind \in {"tagging", "summary"}
  <2>1. At(t, "applying")' => run'[t].kind \in {"tagging", "review"}
    BY DEF Moves, Advances, SummaryFits, At
  <2>2. At(t, "batches")' => run'[t].kind \in {"tagging", "summary"}
    BY DEF Moves, Advances, SummaryFits, At
  <2>3. QED
    BY <2>1, <2>2 DEF Moves, SummaryFits, At
<1>4. progress = "summary" \/ (\E i \in 1..Len(events) : Asked(events[i])) => turn \in Turns /\ Summarizes(run[turn])
  BY PanelTurn DEF SummaryFits, At
<1>5. CASE events' = events
  <2>1. progress = "summary" \/ (\E i \in 1..Len(events) : Asked(events[i])) => Summarizes(run'[turn])
    BY <1>2, <1>4
  <2>2. QED
    BY <1>1, <1>3, <1>5, <2>1 DEF SummaryFits, At
<1>6. CASE events' # events
  <2>1. /\ t = turn /\ outcome = "none" /\ Len(events) \in Nat /\ Len(events') = Len(events) + 1
        /\ \A i \in 1..Len(events) : events'[i] = events[i]
        /\ \A i \in 1..Len(events') : i \in 1..Len(events) \/ i = Len(events) + 1
        /\ events'[Len(events) + 1].kind = run'[t].kind
        /\ Sendable(events'[Len(events) + 1].type, run[t], run'[t])
    BY <1>6, SentEvents
  <2> DEFINE last == events'[Len(events) + 1]
  <2>2. Asked(last) => Summarizes(run'[turn])
    BY <2>1 DEF Sendable, SummarySteps
  <2>3. progress = "summary" \/ (\E i \in 1..Len(events') : Asked(events'[i])) => Summarizes(run'[turn])
    <3>1. ASSUME NEW i \in 1..Len(events'), Asked(events'[i]) PROVE Summarizes(run'[turn])
      <4>1. CASE i \in 1..Len(events)
        BY <1>2, <1>4, <2>1, <3>1, <4>1
      <4>2. CASE i = Len(events) + 1
        BY <2>2, <3>1, <4>2
      <4>3. QED
        BY <2>1, <4>1, <4>2
    <3>2. progress = "summary" => Summarizes(run'[turn])
      BY <1>2, <1>4
    <3>3. QED
      BY <3>1, <3>2
  <2>4. ASSUME NEW i \in 1..Len(events'), events'[i].type = "changed"
        PROVE  progress # "summary" /\ \A j \in 1..Len(events') : ~Asked(events'[j])
    <3>1. CASE i \in 1..Len(events)
      <4>1. events[i].type = "changed"
        BY <2>1, <2>4, <3>1
      <4>2. progress # "summary" /\ \A j \in 1..Len(events) : ~Asked(events[j])
        BY <3>1, <4>1 DEF SummaryFits
      <4>3. run[turn].at \in Reported
        BY <3>1, <4>1 DEF ResultFits, Results
      <4>4. last.type # "scope"
        BY <2>1, <4>3 DEF Sendable, Reported
      <4>5. \A j \in 1..Len(events') : ~Asked(events'[j])
        BY <2>1, <4>2, <4>4
      <4>6. QED
        BY <4>2, <4>5
    <3>2. CASE i = Len(events) + 1
      <4>1. run[turn].at = "applying"
        BY <2>1, <2>4, <3>2 DEF Sendable
      <4>2. progress # "summary" /\ \A j \in 1..Len(events) : ~Asked(events[j])
        BY <1>4, <4>1 DEF SummarySteps
      <4>3. \A j \in 1..Len(events') : ~Asked(events'[j])
        BY <2>1, <2>4, <3>2, <4>2
      <4>4. QED
        BY <4>2, <4>3
    <3>3. QED
      BY <2>1, <3>1, <3>2
  <2>5. QED
    BY <1>1, <1>3, <2>3, <2>4 DEF SummaryFits, At
<1>7. QED
  BY <1>5, <1>6

\* A summary is shown, through the other steps.
LEMMA SummaryQuiet ==
  ASSUME Types, PanelFits, SummaryFits,
         Quiet \/ SaveEnds \/ MenuAcknowledged \/ \E a \in delivering : Deliver(a)
  PROVE  SummaryFits'
<1> DEFINE Summarizes(r) == r.at = "ended" \/ (r.kind = "summary" /\ r.at \in SummarySteps)
           Asked(e) == e.type = "scope" /\ e.kind = "summary"
<1>1. \A u \in Turns : Summarizes(run[u]) => Summarizes(run'[u])
  BY QuietTurns DEF SummarySteps
<1>2. \A u \in Turns : /\ At(u, "applying")' => run'[u].kind \in {"tagging", "review"}
                       /\ At(u, "batches")' => run'[u].kind \in {"tagging", "summary"}
  BY QuietTurns DEF SummaryFits, At
<1>3. progress = "summary" \/ (\E i \in 1..Len(events) : Asked(events[i])) => turn \in Turns /\ Summarizes(run[turn])
  BY PanelTurn DEF SummaryFits, At
<1>4. CASE Stays
  <2>1. UNCHANGED <<turn, events, progress>>
    BY <1>4 DEF Stays
  <2>2. progress = "summary" \/ (\E i \in 1..Len(events) : Asked(events[i])) => Summarizes(run'[turn])
    BY <1>1, <1>3
  <2>3. QED
    BY <1>2, <2>1, <2>2 DEF SummaryFits, At
<1>5. ASSUME events' = <<>>, progress' = "summary" => progress' = progress /\ turn' = turn PROVE SummaryFits'
  <2>1. \A i \in 1..Len(events') : FALSE
    BY <1>5
  <2>2. progress' = "summary" => Summarizes(run'[turn'])
    BY <1>1, <1>3, <1>5
  <2>3. QED
    BY <1>2, <2>1, <2>2 DEF SummaryFits, At
<1>6. CASE Takes /\ (progress' # "summary" \/ progress' = progress \/ ReadScope)
  <2>1. /\ Len(events) \in Nat /\ Len(events') = Len(events) - 1 /\ Head(events) = events[1]
        /\ \A i \in 1..Len(events') : events'[i] = events[i + 1] /\ i + 1 \in 1..Len(events) /\ i \in Nat
        /\ 1 \in 1..Len(events)
    BY <1>6, TakenEvents
  <2>2. turn' = turn
    BY <1>6 DEF Takes
  <2>3. progress' = "summary" => progress = "summary" \/ Asked(events[1])
    BY <1>6, <2>1 DEF ReadScope, Read, Shown
  <2>4. progress' = "summary" \/ (\E i \in 1..Len(events') : Asked(events'[i])) =>
           progress = "summary" \/ \E i \in 1..Len(events) : Asked(events[i])
    BY <2>1, <2>3
  <2>5. progress' = "summary" \/ (\E i \in 1..Len(events') : Asked(events'[i])) => Summarizes(run'[turn])
    BY <1>1, <1>3, <2>4
  <2>6. ASSUME NEW i \in 1..Len(events'), events'[i].type = "changed"
        PROVE  progress' # "summary" /\ \A j \in 1..Len(events') : ~Asked(events'[j])
    <3>1. i + 1 \in 1..Len(events) /\ events[i + 1].type = "changed"
      BY <2>1, <2>6
    <3>2. progress # "summary" /\ \A j \in 1..Len(events) : ~Asked(events[j])
      BY <3>1 DEF SummaryFits
    <3>3. QED
      BY <2>1, <2>3, <3>2
  <2>7. QED
    BY <1>2, <2>2, <2>5, <2>6 DEF SummaryFits, At
<1>7. CASE Leaves \/ Reload
  BY <1>5, <1>7 DEF Leaves, Reload
<1>8. CASE Send \/ SaveEnds \/ CloseProgress \/ Refresh
  <2>1. events = <<>> /\ events' = events
    BY <1>8 DEF Send, SaveEnds, CloseProgress, Refresh, PanelFits, OnPage, Busy, wireVars
  <2>2. progress' = "none"
    BY <1>8 DEF Send, SaveEnds, CloseProgress, Refresh, PanelFits, Busy, cardVars
  <2>3. QED
    BY <1>5, <2>1, <2>2
<1>9. ReadCompletion => progress' # "summary" \/ progress' = progress
  BY DEF ReadCompletion
<1>10. QED
  BY <1>4, <1>6, <1>7, <1>8, <1>9, PanelSteps DEF ReadsOn

\* A change not shown yet, through the steps of the turns.
LEMMA ChangeMoves ==
  ASSUME Types, PanelFits, StreamFits, ChangeFits, NEW t \in Turns, Moves(t)
  PROVE  ChangeFits'
<1>1. UNCHANGED <<turn, outcome, phase, completion>>
  BY DEF Moves, pageVars, panelVars, cardVars
<1>2. ASSUME NEW i \in 1..Len(events) PROVE \E j \in 1..Len(events') : events'[j].type = events[i].type
  <2>1. CASE events' = events
    BY <2>1
  <2>2. CASE events' # events
    BY <2>2, SentEvents
  <2>3. QED
    BY <2>1, <2>2
<1>3. CASE turn \in unseen
  BY <1>1, <1>2, <1>3 DEF ChangeFits
<1>4. CASE turn \notin unseen /\ turn \in unseen'
  <2>1. turn = t /\ Emit(t, "changed") /\ run[t].at # "ended"
    BY <1>4 DEF Moves, Advances
  <2>2. outcome # "finished"
    BY <2>1 DEF StreamFits, Settled, At
  <2>3. outcome = "none" => \E j \in 1..Len(events') : events'[j].type = "changed"
    <3>1. SUFFICES ASSUME outcome = "none" PROVE \E j \in 1..Len(events') : events'[j].type = "changed"
      OBVIOUS
    <3> DEFINE e == [kind |-> run'[t].kind, type |-> "changed"]
    <3>2. events' = Append(events, e) /\ e.type = "changed"
      BY <2>1, <3>1 DEF Emit
    <3>3. events \in Seq(Events \cup {e}) /\ e \in Events \cup {e}
      BY DEF Types, TypeOK
    <3> HIDE DEF e
    <3>4. Len(events') = Len(events) + 1 /\ Len(events) \in Nat /\ events'[Len(events) + 1] = e
      BY <3>2, <3>3, Appended
    <3>5. Len(events) + 1 \in 1..Len(events')
      BY <3>4
    <3>6. QED
      BY <3>2, <3>4, <3>5
  <2>4. QED
    BY <1>1, <2>2, <2>3 DEF ChangeFits
<1>5. QED
  BY <1>3, <1>4, <1>1 DEF ChangeFits

\* A change not shown yet, through the other steps.
LEMMA ChangeQuiet ==
  ASSUME Types, PanelFits, StreamFits, ResultFits, SummaryFits, ChangeFits,
         Quiet \/ SaveEnds \/ MenuAcknowledged \/ \E a \in delivering : Deliver(a)
  PROVE  ChangeFits'
<1>a. Len(events) \in Nat
  BY PanelTurn
<1>1. CASE Stays
  BY <1>1 DEF ChangeFits, Stays, OnPage
<1>2. CASE Takes /\ ((completion' = completion /\ Head(events).type \notin Results) \/ ReadCompletion)
  <2>1. /\ Len(events) \in Nat /\ Len(events') = Len(events) - 1 /\ Head(events) = events[1]
        /\ \A i \in 1..Len(events') : events'[i] = events[i + 1] /\ i + 1 \in 1..Len(events) /\ i \in Nat
        /\ 1 \in 1..Len(events) /\ phase \in OnPage
    BY <1>2, TakenEvents
  <2>2. outcome = "none" /\ UNCHANGED <<turn, outcome, unseen>>
    BY <1>2, <2>1, PanelTurn DEF Takes
  <2>3. SUFFICES ASSUME turn \in unseen
                 PROVE  completion' = "changed" \/ \E i \in 1..Len(events') : events'[i].type = "changed"
    BY <2>2 DEF ChangeFits
  <2>4. completion = "changed" \/ \E i \in 1..Len(events) : events[i].type = "changed"
    BY <2>2, <2>3 DEF ChangeFits
  <2>5. ASSUME NEW i \in 1..Len(events), events[i].type = "changed", i # 1
        PROVE  \E j \in 1..Len(events') : events'[j].type = "changed"
    <3>1. i - 1 \in 1..Len(events') /\ events'[i - 1] = events[i]
      BY <2>1, <2>5
    <3>2. QED
      BY <2>5, <3>1
  <2>6. CASE completion' = completion /\ Head(events).type \notin Results
    BY <2>1, <2>4, <2>5, <2>6 DEF Results
  <2>7. CASE ReadCompletion
    <3>1. Head(events).type \in Results /\ completion = "none"
      BY <2>1, <2>7 DEF ReadCompletion, Read, Results, ResultFits
    <3>2. PICK i \in 1..Len(events) : events[i].type = "changed"
      BY <2>4, <3>1
    <3>3. i = 1
      BY <2>1, <3>1, <3>2 DEF ResultFits, Results
    <3>4. progress # "summary" /\ Head(events).type = "changed"
      BY <2>1, <3>2, <3>3 DEF SummaryFits
    <3>5. completion' = "changed"
      BY <2>7, <3>4 DEF ReadCompletion, Completed
    <3>6. QED
      BY <3>5
  <2>8. QED
    BY <1>2, <2>6, <2>7
<1>3. CASE Leaves
  <2>1. turn' = turn /\ unseen' = unseen /\ completion' = completion /\ phase' = "closing" /\ outcome = "none"
    BY <1>3, PanelTurn DEF Leaves
  <2>2. ASSUME turn \in unseen, outcome' = "finished" PROVE completion = "changed"
    <3>1. events # <<>> /\ Head(events).type = "end"
      BY <1>3, <2>2 DEF Leaves, Read, Reading
    <3>2. 1 \in 1..Len(events) /\ events[1].type = "end"
      BY <3>1, PanelTurn, Rest
    <3>3. Len(events) = 1
      BY <3>2 DEF StreamFits, EndsStream
    <3>4. QED
      BY <2>1, <2>2, <3>2, <3>3 DEF ChangeFits
  <2>3. outcome' # "none"
    BY <1>3 DEF Leaves
  <2>4. QED
    BY <2>1, <2>2, <2>3 DEF ChangeFits
<1>4. CASE Send
  <2>1. turn' \in Turns /\ turn' > turn /\ unseen' = unseen
    BY <1>4, TurnNumbers DEF Send, Types, TypeOK, PanelTypes, historyVars
  <2>2. run[turn'].at = "none"
    BY <2>1 DEF Types, ChatFits, At
  <2>3. turn' \notin unseen'
    BY <2>1, <2>2 DEF ResultFits, Reported
  <2>4. QED
    BY <2>3 DEF ChangeFits
<1>5. CASE SaveEnds
  <2>1. run[turn].at = "none" /\ turn' = turn /\ unseen' = unseen
    BY <1>5 DEF SaveEnds, Types, ChatFits, At
  <2>2. turn' \notin unseen'
    BY <2>1 DEF ResultFits, Reported
  <2>3. QED
    BY <2>2 DEF ChangeFits
<1>6. CASE CloseProgress
  BY <1>6 DEF CloseProgress, ChangeFits, PanelFits, OnPage, Busy, wireVars, historyVars
<1>7. CASE Refresh
  BY <1>7 DEF Refresh, ChangeFits, PanelFits, OnPage, Busy, cardVars, wireVars
<1>8. CASE Reload
  BY <1>8 DEF Reload, ChangeFits
<1>9. ReadScope => completion' = completion /\ Head(events).type \notin Results
  BY DEF ReadScope, Read, Results
<1>10. QED
  BY <1>1, <1>2, <1>3, <1>4, <1>5, <1>6, <1>7, <1>8, <1>9, PanelSteps DEF ReadsOn

-----------------------------------------------------------------------------
(***************************************************************************)
(* The panel after a turn.                                                   *)
(***************************************************************************)

\* The invariant holds at the start.
LEMMA ChatInvInit == Init => ChatInv
<1> SUFFICES ASSUME Init PROVE ChatInv
  OBVIOUS
<1>1. PanelFits
  BY DEF Init, PanelFits, OnPage, Busy
<1>2. events = <<>> /\ streaming = {} /\ operation = 0 /\ unseen = {} /\ outcome = "none" /\ completion = "none"
      /\ progress = "none" /\ \A t \in Turns : run[t].at = "none"
  BY DEF Init, NotBegun
<1>3. \A i \in 1..Len(events) : FALSE
  BY <1>2
<1>4. ServingFits /\ StreamFits /\ ResultFits /\ SummaryFits /\ ChangeFits
  BY <1>2, <1>3 DEF ServingFits, StreamFits, ResultFits, SummaryFits, ChangeFits, At
<1>5. QED
  BY <1>1, <1>4 DEF ChatInv

\* No step breaks the invariant.
LEMMA ChatInvKept ==
  ASSUME Types, QuestionsFit, ChatInv, [Next]_vars
  PROVE  ChatInv'
<1>a. PanelFits /\ ServingFits /\ StreamFits /\ ResultFits /\ SummaryFits /\ ChangeFits
  BY DEF ChatInv
<1>1. ASSUME NEW t \in Turns, ServerStep(t) PROVE ChatInv'
  <2>1. Moves(t)
    BY <1>a, <1>1, ServerMoves
  <2>2. ServingFits'
    BY <1>a, <2>1, ServingMoves
  <2>3. PanelFits' /\ StreamFits' /\ ResultFits' /\ SummaryFits' /\ ChangeFits'
    BY <1>a, <2>1, <2>2, PanelMoves, StreamMoves, ResultMoves, SummaryMoves, ChangeMoves
  <2>4. QED
    BY <2>2, <2>3 DEF ChatInv
<1>2. ASSUME Quiet \/ SaveEnds \/ MenuAcknowledged \/ \E a \in delivering : Deliver(a) PROVE ChatInv'
  <2>1. PanelFits' /\ ServingFits' /\ StreamFits' /\ ResultFits' /\ SummaryFits' /\ ChangeFits'
    BY <1>a, <1>2, PanelQuiet, ServingQuiet, StreamQuiet, ResultQuiet, SummaryQuiet, ChangeQuiet
  <2>2. QED
    BY <2>1 DEF ChatInv
<1>3. QED
  BY <1>1, <1>2, QuietSteps DEF ServerStep

\* The strengthening holds of every state.
THEOREM ChatInvariant == Spec => []ChatInv
<1>1. TurnInv => Types /\ QuestionsFit
  BY DEF TurnInv
<1>2. QED
  BY <1>1, ChatInvInit, ChatInvKept, TurnInvariant, PTL DEF Spec

\* A chat that is idle has no card, no lock and no command gate left; when its turn ended by
\* itself the server has finished with it too, so that the next Send is not refused on its
\* account: whatever was stopped, broke off, timed out or was refused before
\* (_submitMessage, closeBulkProgress, ChatTurnStream.events).
THEOREM IdleChatsAreClean == Spec => []IdleChatIsClean
<1>1. ASSUME Types, ChatInv PROVE IdleChatIsClean
  <2>1. SUFFICES ASSUME phase = "idle"
                 PROVE  /\ card = None /\ progress = "none" /\ gate \in {"free", "command"}
                        /\ outcome = "finished" => Settled(turn)
    BY DEF IdleChatIsClean, Busy, Settled
  <2>2. card = None /\ progress = "none" /\ gate \notin {"save", "operation"}
    BY <1>1, <2>1 DEF ChatInv, PanelFits, OnPage
  <2>3. gate \in {"free", "command"}
    BY <1>1, <2>2 DEF Types, TypeOK, PanelTypes
  <2>4. outcome = "finished" => Settled(turn)
    BY <1>1 DEF ChatInv, StreamFits
  <2>5. QED
    BY <2>2, <2>3, <2>4
<1>2. TurnInv => Types
  BY DEF TurnInv
<1>3. QED
  BY <1>1, <1>2, TurnInvariant, ChatInvariant, PTL

\* What a turn that ended by itself applied is on the page when the composer comes back:
\* its result is read before its end, and the page is refreshed for it (handleBulkEvent,
\* closeBulkProgress).
THEOREM AppliedChangesAreShown == Spec => []AppliedChangeIsShown
<1>1. ChatInv => AppliedChangeIsShown
  BY DEF ChatInv, ChangeFits, AppliedChangeIsShown, Busy
<1>2. QED
  BY <1>1, ChatInvariant, PTL
=============================================================================
