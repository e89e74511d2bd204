----------------------------- MODULE AtomicVault -----------------------------
(***************************************************************************)
(* What the recovery journal promises about the database files of a vault.   *)
(* A journaled change (a restore, an import, a change of password) happens    *)
(* to all files at once or not at all, wherever the program stops; and only   *)
(* states the vault has been in survive a power loss.                         *)
(***************************************************************************)
CONSTANTS
    Targets,    \* the database files
    Contents    \* what a file can hold, "no file" included

VARIABLES
    vault,      \* file -> content, as the next one to open the vault finds it
    survivors,  \* the vaults a power loss can leave behind
    busy        \* a journaled change or a recovery is in progress, or nobody runs

Vaults == [Targets -> Contents]

Init == vault \in Vaults /\ survivors = {vault} /\ busy = TRUE

\* Outside a change, an ordinary write changes one file and may not survive.
Write(t, v) ==
    /\ ~busy /\ ~busy'
    /\ vault' = [vault EXCEPT ![t] = v]
    /\ survivors' \subseteq survivors \cup {[s EXCEPT ![t] = v] : s \in survivors}
    /\ vault' \in survivors'

\* The one moment of a change.
Change ==
    /\ busy /\ busy'
    /\ vault' \in Vaults
    /\ survivors' = survivors \cup {vault'}

\* Waiting for the disk.
Settle ==
    /\ vault' = vault
    /\ survivors' \subseteq survivors
    /\ vault \in survivors'

PowerLoss ==
    /\ busy'
    /\ vault' \in survivors
    /\ survivors' = {vault'}

Next ==
    \/ \E t \in Targets, v \in Contents : Write(t, v)
    \/ Change
    \/ Settle
    \/ PowerLoss

Spec == Init /\ [][Next]_<<vault, survivors, busy>>
=============================================================================
