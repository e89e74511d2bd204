--------------------------- MODULE MCAssistantTurn ---------------------------
(***************************************************************************)
(* Two turns of the assistant, by what they do and who acts beside them.     *)
(***************************************************************************)
EXTENDS AssistantTurn

Cast(requests, kinds, most, clears) ==
    [requests |-> requests, kinds |-> kinds, failures |-> most, clears |-> clears]

\* Operations on the vault beside the requests that keep the guard's lock, with a failure.
Operations == Cast(AllRequests \ {"upload"}, {"tagging", "review", "answer"}, 1, FALSE)

\* Questions of steps that only read, beside commands of the window.
OnlyReading == Cast({"command"}, {"summary", "pages"}, 0, FALSE)

\* A summary that fails, also while its answer is written, and is asked for again.
Failing == Cast({}, {"summary"}, 1, FALSE)

\* Menus and operations beside requests that make the acknowledgement fail.
Menus == Cast({"other"}, {"menu", "review", "answer"}, 0, FALSE)

\* The chat is cleared while turns run, beside uploads, which do not take the lock.
Cleared == Cast({"upload"}, {"tagging", "answer"}, 0, TRUE)

\* Summaries that are stopped and asked for again.
Summaries == {Cast({}, {"summary"}, 0, FALSE)}

TurnsOfTheAssistant == {Operations, OnlyReading, Failing, Menus, Cleared}
==============================================================================
