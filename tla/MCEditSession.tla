--------------------------- MODULE MCEditSession ---------------------------
EXTENDS EditSession
CONSTANTS n1, n2

\* All background work around the commands that start, leave and extend an edit.
Races == [background |-> {"scroll", "checks", "titles"},
          commands |-> {"select", "leave", "create"}, failures |-> 0]

\* Every other command, while one request or check may fail.
Failing == [background |-> {"scroll", "checks"},
            commands |-> {"select", "leave", "delete", "move", "toggle", "collapse", "copy",
                          "split", "undo"}, failures |-> 1]

RacesAndFailures == {Races, Failing}

\* Scrolling while a note is edited.
ScrollOnly == {[background |-> {"scroll"}, commands |-> {"select", "leave"}, failures |-> 0]}
=============================================================================
