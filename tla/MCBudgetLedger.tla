--------------------------- MODULE MCBudgetLedger ---------------------------
(***************************************************************************)
(* A small chantier for TLC with a ceiling of 6: job j1 with both attempts *)
(* (EUR 2), j2 (EUR 1), j3 of the same tenant as j1 (EUR 4) and j4 (EUR    *)
(* 3).  The pair j1, j3 fits the ceiling and collides on the tenant, the   *)
(* pair j3, j4 collides on the ceiling alone, and the three jobs j1, j2,   *)
(* j4 fit the ceiling and exceed the two slots.                            *)
(***************************************************************************)
EXTENDS BudgetLedger, TLC

CONSTANTS a0, a1, b0, c0, d0, j1, j2, j3, j4, t1, t2, t3, p1, p2, p3, p4,
          u1, u2, u3, u4, x, y, e1

MCRequest ==
    a0 :> [job |-> j1, tenant |-> t1, project |-> p1, attempt |-> 0,
              eur |-> 2, rateAt |-> 0, createdAt |-> 0]
    @@ a1 :> [job |-> j1, tenant |-> t1, project |-> p1, attempt |-> 1,
              eur |-> 2, rateAt |-> 0, createdAt |-> 0]
    @@ b0 :> [job |-> j2, tenant |-> t2, project |-> p2, attempt |-> 0,
              eur |-> 1, rateAt |-> 1, createdAt |-> 1]
    @@ c0 :> [job |-> j3, tenant |-> t1, project |-> p3, attempt |-> 0,
              eur |-> 4, rateAt |-> 0, createdAt |-> 0]
    @@ d0 :> [job |-> j4, tenant |-> t3, project |-> p4, attempt |-> 0,
              eur |-> 3, rateAt |-> 1, createdAt |-> 0]

MCUsage ==
    u1 :> [reservation |-> a0, job |-> j1, resource |-> x,
              eur |-> 2, observedAt |-> 1]
    @@ u2 :> [reservation |-> a1, job |-> j1, resource |-> x,
              eur |-> 1, observedAt |-> 1]
    @@ u3 :> [reservation |-> b0, job |-> j2, resource |-> y,
              eur |-> 1, observedAt |-> 1]
    @@ u4 :> [reservation |-> c0, job |-> j3, resource |-> y,
              eur |-> 4, observedAt |-> 0]

=============================================================================
