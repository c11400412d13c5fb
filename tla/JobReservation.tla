--------------------------- MODULE JobReservation ---------------------------
(***************************************************************************)
(* What the spend ledger promises to the one job that a coordinator runs:  *)
(* the life of the job's reservation, whatever the other jobs do.  Attempt *)
(* 1 of a retry continues the reservation of attempt 0.  BudgetLedger      *)
(* implements it for every job; Coordinator uses its actions as the ledger *)
(* port.                                                                   *)
(***************************************************************************)

VARIABLES
    status,     \* of the job's reservation
    created     \* whether the creation of its sandbox is on record

jvars == <<status, created>>

Holding == {"reserved", "partiallyCharged", "retained"}
Statuses == Holding \cup {"none", "settled"}

Init == status = "none" /\ created = FALSE

Reserve == status = "none" /\ status' = "reserved" /\ UNCHANGED created

\* retryBeforeCreate continues a reservation that has paid for nothing.
RetryBeforeCreate == status = "reserved" /\ ~created /\ UNCHANGED jvars

\* The creation is observed once, also for a reservation retained before.
ObserveCreate ==
    /\ status \in {"reserved", "retained"}
    /\ ~created
    /\ status' = "partiallyCharged"
    /\ created' = TRUE

Retain == status \in Holding /\ status' = "retained" /\ UNCHANGED created

Settle == status \in Holding /\ status' = "settled" /\ created' = TRUE

SettleUncertain ==
    status \in Holding /\ status' = "retained" /\ created' = TRUE

\* An operator's evidence of the cleanup needs the receipt of the creation.
ReconcileCleanup ==
    status = "retained" /\ created /\ status' = "settled" /\ UNCHANGED created

\* release gives nothing back that settle has not given back before.
Release == status = "settled" /\ UNCHANGED jvars

Next ==
    \/ Reserve
    \/ RetryBeforeCreate
    \/ ObserveCreate
    \/ Retain
    \/ Settle
    \/ SettleUncertain
    \/ ReconcileCleanup
    \/ Release

Spec == Init /\ [][Next]_jvars

=============================================================================
