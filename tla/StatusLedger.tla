---------------------------- MODULE StatusLedger ----------------------------
(***************************************************************************)
(* What the status component promises: the service_state row changes by    *)
(* one whole operation at a time, each applied to the row as it stands.    *)
(* No session, lock, snapshot or crash is visible here.                    *)
(***************************************************************************)
EXTENDS ServiceState

VARIABLES
    row,    \* the committed row, None before first use
    manual  \* whether the open window is an operator's

ledgerVars == <<row, manual>>

Init ==
    /\ row = None
    /\ manual = FALSE

\* Request q, its clock read lag ago, with probe outcome ok.
Operate(q, ok, lag) ==
    /\ row' = Perform(q, ok, GetOrCreate(row), lag)
    /\ manual' = HeldByOperator(manual, q, row')

Tick ==
    /\ row # None
    /\ row' = Older(row)
    /\ UNCHANGED manual

Next ==
    \/ \E q \in Requests, ok \in BOOLEAN, lag \in Lags : Operate(q, ok, lag)
    \/ Tick

Spec == Init /\ [][Next]_ledgerVars
=============================================================================
