------------------------- MODULE CompilationOutcome -------------------------
(***************************************************************************)
(* What CompilationCoordinator promises to its client and to the chantier  *)
(* about one compilation, whatever fails, is retried or comes late: one    *)
(* sandbox, paid for when it is deleted; an artifact that is published     *)
(* only after that; an outcome that is final, and true when it says        *)
(* released.                                                               *)
(***************************************************************************)

VARIABLES
    outcome,    \* "none", "running", "released", "quarantined" or "failed"
    guest,      \* the sandbox: "none", "live" or "gone"
    paid,       \* whether the job's reservation is settled
    artifact    \* "private", "published" or "withdrawn"

ovars == <<outcome, guest, paid, artifact>>

Init ==
    outcome = "none" /\ guest = "none" /\ ~paid /\ artifact = "private"

Begin ==
    outcome = "none" /\ outcome' = "running" /\ UNCHANGED <<guest, paid, artifact>>

Allocate ==
    guest = "none" /\ guest' = "live" /\ UNCHANGED <<outcome, paid, artifact>>

Delete ==
    guest = "live" /\ guest' = "gone" /\ UNCHANGED <<outcome, paid, artifact>>

\* The payment is final once the sandbox is certainly gone.
Pay ==
    /\ guest \in {"live", "gone"} /\ ~paid
    /\ guest' = "gone" /\ paid' = TRUE
    /\ UNCHANGED <<outcome, artifact>>

Publish ==
    /\ artifact = "private" /\ guest = "gone" /\ paid
    /\ artifact' = "published"
    /\ UNCHANGED <<outcome, guest, paid>>

\* What was published is withdrawn from an operation that is not released.
Withdraw ==
    /\ artifact = "published" /\ outcome # "released"
    /\ artifact' = "withdrawn"
    /\ UNCHANGED <<outcome, guest, paid>>

Decide(o) ==
    /\ outcome = "running"
    /\ o = "released" => artifact = "published"
    /\ outcome' = o
    /\ UNCHANGED <<guest, paid, artifact>>

Next ==
    \/ Begin
    \/ Allocate
    \/ Delete
    \/ Pay
    \/ Publish
    \/ Withdraw
    \/ \E o \in {"released", "quarantined", "failed"} : Decide(o)

Spec == Init /\ [][Next]_ovars

=============================================================================
