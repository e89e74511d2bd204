--------------------------- MODULE MCLiveRecovery ---------------------------
(***************************************************************************)
(* LiveRecovery on one namespace, with a bound on how often it is stopped.   *)
(***************************************************************************)
EXTENDS LiveRecovery, Naturals

CONSTANT MaxStops   \* stops and power losses in one behaviour

VARIABLE stops

MCInit == Init /\ stops = 0

Interrupt ==
    /\ stops < MaxStops
    /\ Stop \/ PowerLoss
    /\ stops' = stops + 1

MCNext == (Work /\ UNCHANGED stops) \/ Interrupt

MCSpec == MCInit /\ [][MCNext]_<<vars, stops>>

\* A started change or recovery goes on until it is interrupted, and after a stop
\* the program is started again, or another request opens the vault.  Nobody has
\* to begin a change or to write.
FairSpec ==
    /\ MCSpec
    /\ WF_vars(Open \/ RecoveryStep \/ ChangeStep)

\* Once the interruptions are over, every recovery and every change ends, and the
\* vault can be opened: no leftover of an earlier stop, in whatever order a power
\* loss left it, keeps recover_pending_change from finishing.
VaultOpensAgain == (pc # "idle") ~> (pc = "idle")
=============================================================================
