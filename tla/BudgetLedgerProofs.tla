------------------------- MODULE BudgetLedgerProofs -------------------------
(***************************************************************************)
(* Proofs about BudgetLedger for every set of reservations, receipts and   *)
(* limits.  The inductive invariant IInv adds to the invariants that the   *)
(* runs check what a reservation's history must have been: which attempts  *)
(* a job has used, and what the created index and the receipts record.     *)
(***************************************************************************)
EXTENDS BudgetLedger, FiniteSetTheorems, TLAPS

KnownFinite == IsFiniteSet(Known)

\* A job uses an attempt number once, and attempt 1 only after attempt 0.
AttemptsDistinct ==
    \A r, s \in Known : r # s /\ Request[r].job = Request[s].job =>
        Request[r].attempt # Request[s].attempt
RetryHasFirst ==
    \A r \in Known : Request[r].attempt = 1 =>
        \E s \in Known : /\ Request[s].attempt = 0
                         /\ Request[s].job = Request[r].job

\* A charged or settled reservation had its creation observed, and the created
\* index names no job without such a reservation.
CreatedSound ==
    /\ \A r \in Reservation :
            state[r] \in {"partiallyCharged", "settled"} =>
                Request[r].job \in created
    /\ created \subseteq ExpectedCreated

\* A receipt is the only one of its reservation, belongs to its job, and its
\* reservation is settled or retained with the creation on record.
ReceiptsSound ==
    /\ \A u \in receipts :
            /\ Usage[u].job = Request[Usage[u].reservation].job
            /\ Usage[u].job \in created
            /\ state[Usage[u].reservation] \in {"settled", "retained"}
    /\ \A u, v \in receipts :
            Usage[u].reservation = Usage[v].reservation => u = v
    /\ \A r \in Reservation : state[r] = "settled" => ReceiptsOf(r) # {}

IInv ==
    /\ TypeOK
    /\ LiveIsActive
    /\ ConcurrencyBounded
    /\ OneReservationPerJob
    /\ RetainedIsQuarantined
    /\ KnownFinite
    /\ AttemptsDistinct
    /\ RetryHasFirst
    /\ CreatedSound
    /\ ReceiptsSound

-----------------------------------------------------------------------------
\* The types of what the constant records carry.
LEMMA RequestType ==
    ASSUME NEW r \in Reservation
    PROVE  /\ Request[r].job \in Job
           /\ Request[r].attempt \in {0, 1}
BY LedgerAssumption

\* ... and of the constant record of a receipt.
LEMMA UsageType ==
    ASSUME NEW u \in Receipt
    PROVE  /\ Usage[u].job \in Job
           /\ Usage[u].reservation \in Reservation
BY LedgerAssumption

\* The reservations of one job compete for the tenant's slot.
LEMMA JobHasOneTenant ==
    ASSUME NEW r \in Reservation, NEW s \in Reservation,
           Request[r].job = Request[s].job
    PROVE  Request[r].tenant = Request[s].tenant
BY LedgerAssumption

\* A new slot within the concurrency test stays within the limit.
LEMMA OneMoreSlot ==
    ASSUME NEW S, IsFiniteSet(S), NEW x, x \notin S, Cardinality(S) < GlobalLimit
    PROVE  Cardinality(S \cup {x}) <= GlobalLimit
<1>1. Cardinality(S) \in Nat /\ GlobalLimit \in Nat
    BY FS_CardinalityType, LedgerAssumption
<1>2. Cardinality(S \cup {x}) = Cardinality(S) + 1
    BY FS_AddElement
<1> QED BY <1>1, <1>2

\* Swapping a slot for another one takes no further slot.
LEMMA SwappedSlot ==
    ASSUME NEW S, IsFiniteSet(S), NEW p \in S, NEW x, x \notin S
    PROVE  Cardinality((S \ {p}) \cup {x}) = Cardinality(S)
<1>1. Cardinality(S) \in Nat
    BY FS_CardinalityType
<1>2. IsFiniteSet(S \ {p}) /\ Cardinality(S \ {p}) = Cardinality(S) - 1
    BY FS_RemoveElement
<1>3. Cardinality((S \ {p}) \cup {x}) = Cardinality(S \ {p}) + 1
    BY <1>2, FS_AddElement
<1> QED BY <1>1, <1>2, <1>3

\* Giving a slot back keeps the number of slots within the limit.
LEMMA FewerSlots ==
    ASSUME NEW S, IsFiniteSet(S), NEW T \in SUBSET S,
           Cardinality(S) <= GlobalLimit
    PROVE  Cardinality(T) <= GlobalLimit
<1>1. Cardinality(S) \in Nat /\ GlobalLimit \in Nat
    BY FS_CardinalityType, LedgerAssumption
<1>2. IsFiniteSet(T) /\ Cardinality(T) <= Cardinality(S)
    BY FS_Subset
<1>3. Cardinality(T) \in Nat
    BY <1>2, FS_CardinalityType
<1> QED BY <1>1, <1>2, <1>3

\* Only finitely many reservations hold a slot.
LEMMA LiveFinite ==
    ASSUME IInv
    PROVE  IsFiniteSet(live)
BY FS_Subset DEF IInv, LiveIsActive, ExpectedLive, KnownFinite

-----------------------------------------------------------------------------
\* The empty ledger satisfies the inductive invariant.
LEMMA InitInv == Init => IInv
<1> SUFFICES ASSUME Init PROVE IInv
    OBVIOUS
<1>1. Known = {} /\ live = {} /\ receipts = {}
    BY DEF Init, Known
<1>2. TypeOK
    BY DEF Init, TypeOK, States
<1>3. LiveIsActive
    BY <1>1 DEF LiveIsActive, ExpectedLive
<1>4. ConcurrencyBounded
    BY <1>1, FS_EmptySet, LedgerAssumption DEF ConcurrencyBounded
<1>5. KnownFinite
    BY <1>1, FS_EmptySet DEF KnownFinite
<1>6. OneReservationPerJob /\ AttemptsDistinct /\ RetryHasFirst
    BY <1>1 DEF OneReservationPerJob, AttemptsDistinct, RetryHasFirst
<1>7. RetainedIsQuarantined /\ CreatedSound /\ ReceiptsSound
    BY <1>1 DEF Init, RetainedIsQuarantined, CreatedSound, ReceiptsSound
<1> QED BY <1>2, <1>3, <1>4, <1>5, <1>6, <1>7 DEF IInv

-----------------------------------------------------------------------------
\* A new reservation of a job meets only retired ones: an active one holds the
\* tenant's slot, a settled one is in the created index, and an attempt 0 may
\* not follow an attempt 1.
LEMMA ReserveMeetsRetired ==
    ASSUME IInv, NEW r \in Reservation, state[r] = "none",
           AttemptAllowed(r), Concurrency(r),
           NEW s \in Known, Request[s].job = Request[r].job
    PROVE  state[s] = "retired"
<1>1. s \in SameJob(r) /\ s \in Reservation
    BY DEF SameJob, Known
<1>2. ~Active(s)
    BY <1>1, JobHasOneTenant
    DEF IInv, LiveIsActive, ExpectedLive, Concurrency
<1>3. state[s] \in {"settled", "retired"}
    BY <1>1, <1>2 DEF IInv, TypeOK, States, Active, Known
<1>4. CASE Request[r].attempt = 1
    BY <1>1, <1>3, <1>4 DEF AttemptAllowed, IInv, CreatedSound
<1>5. CASE Request[r].attempt = 0
    <2>1. Request[s].attempt = 1
        BY <1>1, <1>5, RequestType DEF AttemptAllowed
    <2>2. PICK t \in Known : /\ Request[t].attempt = 0
                             /\ Request[t].job = Request[s].job
        BY <2>1 DEF IInv, RetryHasFirst
    <2>3. t \in SameJob(r)
        BY <2>2 DEF SameJob
    <2> QED BY <1>5, <2>2, <2>3 DEF AttemptAllowed
<1> QED BY <1>4, <1>5, RequestType

\* reserve keeps the inductive invariant.
LEMMA ReserveStep ==
    ASSUME IInv, NEW r \in Reservation, NEW now \in 0 .. MaxTime,
           Reserve(r, now)
    PROVE  IInv'
<1> USE DEF Reserve, Bump
<1>1. TypeOK'
    BY DEF IInv, TypeOK, States
<1>2. Known' = Known \cup {r} /\ r \notin Known
    BY DEF IInv, TypeOK, Known
<1>3. LiveIsActive'
    BY DEF IInv, TypeOK, LiveIsActive, ExpectedLive, Known, Active
<1>4. ConcurrencyBounded'
    <2>1. r \notin live
        BY DEF IInv, LiveIsActive, ExpectedLive, Known
    <2>2. Cardinality(live') <= GlobalLimit
        BY <2>1, LiveFinite, OneMoreSlot DEF Concurrency
    <2> QED BY <2>2 DEF IInv, ConcurrencyBounded, Concurrency
<1>5. OneReservationPerJob'
    BY <1>2, ReserveMeetsRetired
    DEF IInv, TypeOK, OneReservationPerJob, Known
<1>6. RetainedIsQuarantined'
    BY <1>2 DEF IInv, TypeOK, RetainedIsQuarantined, Known
<1>7. KnownFinite'
    BY <1>2, FS_AddElement DEF IInv, KnownFinite
<1>8. AttemptsDistinct'
    BY <1>2 DEF IInv, AttemptsDistinct, AttemptAllowed, SameJob
<1>9. RetryHasFirst'
    <2>1. CASE Request[r].attempt = 1
        <3>1. Cardinality(SameJob(r)) = 1
            BY <2>1 DEF AttemptAllowed
        <3>2. IsFiniteSet(SameJob(r))
            BY FS_Subset DEF SameJob, IInv, KnownFinite
        <3>3. PICK s \in SameJob(r) : TRUE
            BY <3>1, <3>2, FS_Singleton
        <3>4. s \in Known /\ Request[s].job = Request[r].job
            BY DEF SameJob
        <3>5. Request[s].attempt = 0
            BY <2>1, <3>3, <3>4, RequestType DEF AttemptAllowed, Known
        <3> QED BY <1>2, <3>4, <3>5 DEF IInv, RetryHasFirst
    <2>2. CASE Request[r].attempt # 1
        BY <1>2, <2>2 DEF IInv, RetryHasFirst
    <2> QED BY <2>1, <2>2
<1>10. CreatedSound'
    BY <1>2 DEF IInv, TypeOK, CreatedSound, ExpectedCreated, Known
<1>11. ReceiptsSound'
    BY UsageType DEF IInv, TypeOK, ReceiptsSound, ReceiptsOf
<1> QED BY <1>1, <1>3, <1>4, <1>5, <1>6, <1>7, <1>8, <1>9, <1>10, <1>11
        DEF IInv

\* The attempt 0 that a retry replaces is the only known reservation of its job.
LEMMA RetryReplacesTheOnly ==
    ASSUME IInv, NEW p \in Reservation, NEW r \in Reservation,
           NEW now \in 0 .. MaxTime, RetryBeforeCreate(p, r, now),
           NEW s \in Known, Request[s].job = Request[p].job
    PROVE  s = p
<1>1. s \in SameJob(p) /\ s \in Reservation /\ p \in Known
    BY DEF SameJob, Known, RetryBeforeCreate
<1>2. Request[s].attempt = 0 /\ Request[p].attempt = 0
    BY <1>1, RequestType DEF RetryBeforeCreate
<1> QED BY <1>1, <1>2 DEF IInv, AttemptsDistinct

\* retryBeforeCreate keeps the inductive invariant.
LEMMA RetryBeforeCreateStep ==
    ASSUME IInv, NEW p \in Reservation, NEW r \in Reservation,
           NEW now \in 0 .. MaxTime, RetryBeforeCreate(p, r, now)
    PROVE  IInv'
<1>0. \A s \in Known : Request[s].job = Request[p].job => s = p
    BY RetryReplacesTheOnly
<1> USE DEF RetryBeforeCreate, Bump
<1>1. TypeOK'
    BY DEF IInv, TypeOK, States
<1>2. /\ Known' = Known \cup {r} /\ r \notin Known
      /\ p \in Known /\ p # r /\ Request[p].job = Request[r].job
    BY DEF IInv, TypeOK, Known, SameLineage
<1>3. LiveIsActive'
    BY <1>2 DEF IInv, TypeOK, LiveIsActive, ExpectedLive, Known, Active
<1>4. ConcurrencyBounded'
    <2>1. r \notin live
        BY DEF IInv, LiveIsActive, ExpectedLive, Known
    <2>2. Cardinality(live') <= GlobalLimit
        BY <2>1, LiveFinite, SwappedSlot DEF IInv, ConcurrencyBounded
    <2> QED BY <2>2 DEF IInv, ConcurrencyBounded, SameLineage
<1>5. OneReservationPerJob'
    <2> SUFFICES ASSUME NEW s \in Known', NEW t \in Known', s # t,
                        Request[s].job = Request[t].job
                 PROVE  state'[s] = "retired" \/ state'[t] = "retired"
        BY DEF OneReservationPerJob
    <2>1. CASE s = r \/ t = r
        BY <1>0, <1>2, <2>1 DEF IInv, TypeOK
    <2>2. CASE s # r /\ t # r
        BY <1>2, <2>2 DEF IInv, TypeOK, OneReservationPerJob, Known
    <2> QED BY <2>1, <2>2
<1>6. RetainedIsQuarantined'
    BY <1>2 DEF IInv, TypeOK, RetainedIsQuarantined, Known
<1>7. KnownFinite'
    BY <1>2, FS_AddElement DEF IInv, KnownFinite
<1>8. AttemptsDistinct'
    BY <1>0, <1>2 DEF IInv, AttemptsDistinct
<1>9. RetryHasFirst'
    BY <1>2 DEF IInv, RetryHasFirst
<1>10. CreatedSound'
    BY <1>2 DEF IInv, TypeOK, CreatedSound, ExpectedCreated, Known
<1>11. ReceiptsSound'
    BY <1>2, UsageType DEF IInv, TypeOK, ReceiptsSound, ReceiptsOf
<1> QED BY <1>1, <1>3, <1>4, <1>5, <1>6, <1>7, <1>8, <1>9, <1>10, <1>11
        DEF IInv

-----------------------------------------------------------------------------
\* The other actions move a known reservation to another known state: what
\* depends only on which reservations are known is kept.
LEMMA SameKnown ==
    ASSUME IInv, Known' = Known
    PROVE  KnownFinite' /\ AttemptsDistinct' /\ RetryHasFirst'
BY DEF IInv, KnownFinite, AttemptsDistinct, RetryHasFirst

\* ... and so is the concurrency bound, when no slot is taken.
LEMMA NoNewSlot ==
    ASSUME IInv, live' \in SUBSET live
    PROVE  ConcurrencyBounded'
<1>1. Cardinality(live') <= GlobalLimit
    BY LiveFinite, FewerSlots DEF IInv, ConcurrencyBounded
<1> QED BY <1>1 DEF IInv, ConcurrencyBounded

\* observeCreate keeps the inductive invariant.
LEMMA ObserveCreateStep ==
    ASSUME IInv, NEW r \in Reservation, NEW now \in 0 .. MaxTime,
           ObserveCreate(r, now)
    PROVE  IInv'
<1> USE DEF ObserveCreate, MayReplace, Bump
<1>1. TypeOK'
    BY RequestType DEF IInv, TypeOK, States
<1>2. Known' = Known /\ r \in Known
    BY DEF IInv, TypeOK, Known
<1>3. state[r] # "settled"
    BY DEF IInv, CreatedSound
<1>4. LiveIsActive'
    BY <1>2, <1>3
    DEF IInv, TypeOK, States, LiveIsActive, ExpectedLive, Known, Active
<1>5. ConcurrencyBounded'
    BY NoNewSlot
<1>6. OneReservationPerJob'
    BY <1>2 DEF IInv, TypeOK, OneReservationPerJob, Known
<1>7. RetainedIsQuarantined'
    BY <1>2 DEF IInv, TypeOK, RetainedIsQuarantined, Known
<1>8. CreatedSound'
    BY <1>2 DEF IInv, TypeOK, CreatedSound, ExpectedCreated, Known
<1>9. ReceiptsSound'
    BY <1>3, UsageType DEF IInv, TypeOK, ReceiptsSound, ReceiptsOf
<1> QED BY <1>1, <1>2, <1>4, <1>5, <1>6, <1>7, <1>8, <1>9, SameKnown DEF IInv

\* retain keeps the inductive invariant.
LEMMA RetainStep ==
    ASSUME IInv, NEW r \in Reservation, NEW now \in 0 .. MaxTime,
           Retain(r, now)
    PROVE  IInv'
<1> USE DEF Retain, MayReplace, Bump
<1>1. TypeOK'
    BY RequestType DEF IInv, TypeOK, States
<1>2. Known' = Known /\ r \in Known
    BY DEF IInv, TypeOK, Known
<1>3. LiveIsActive'
    BY <1>2 DEF IInv, TypeOK, LiveIsActive, ExpectedLive, Known, Active
<1>4. ConcurrencyBounded'
    BY NoNewSlot
<1>5. OneReservationPerJob'
    BY <1>2 DEF IInv, TypeOK, OneReservationPerJob, Known
<1>6. RetainedIsQuarantined'
    BY <1>2 DEF IInv, TypeOK, RetainedIsQuarantined, Known
<1>7. CreatedSound'
    BY <1>2 DEF IInv, TypeOK, CreatedSound, ExpectedCreated, Known
<1>8. ReceiptsSound'
    BY UsageType DEF IInv, TypeOK, ReceiptsSound, ReceiptsOf
<1> QED BY <1>1, <1>2, <1>3, <1>4, <1>5, <1>6, <1>7, <1>8, SameKnown DEF IInv

\* settle with certain cleanup keeps the inductive invariant.
LEMMA SettleCertainStep ==
    ASSUME IInv, NEW u \in Receipt, NEW r \in Reservation,
           NEW now \in 0 .. MaxTime, SettleCertain(u, r, now)
    PROVE  IInv'
<1> USE DEF SettleCertain, Settleable, MayReplace, Freed, Bump
<1>1. TypeOK'
    BY RequestType DEF IInv, TypeOK, States
<1>2. Known' = Known /\ r \in Known
    BY DEF IInv, TypeOK, Known
<1>3. LiveIsActive'
    BY <1>2 DEF IInv, TypeOK, LiveIsActive, ExpectedLive, Known, Active
<1>4. ConcurrencyBounded'
    BY NoNewSlot
<1>5. OneReservationPerJob'
    BY <1>2 DEF IInv, TypeOK, OneReservationPerJob, Known
<1>6. RetainedIsQuarantined'
    <2>1. ASSUME NEW s \in Known', state'[s] = "retained"
          PROVE  s \in live' /\ Request[s].job \in quarantined'
        BY <1>2, <2>1 DEF IInv, TypeOK, RetainedIsQuarantined, Known
    <2> QED BY <2>1 DEF IInv, RetainedIsQuarantined
<1>7. CreatedSound'
    BY <1>2 DEF IInv, TypeOK, CreatedSound, ExpectedCreated, Known
<1>8. ReceiptsSound'
    BY UsageType DEF IInv, TypeOK, ReceiptsSound, ReceiptsOf
<1> QED BY <1>1, <1>2, <1>3, <1>4, <1>5, <1>6, <1>7, <1>8, SameKnown DEF IInv

\* settle with uncertain cleanup keeps the inductive invariant.
LEMMA SettleUncertainStep ==
    ASSUME IInv, NEW u \in Receipt, NEW r \in Reservation,
           NEW now \in 0 .. MaxTime, SettleUncertain(u, r, now)
    PROVE  IInv'
<1> USE DEF SettleUncertain, Settleable, MayReplace, Bump
<1>1. TypeOK'
    BY RequestType DEF IInv, TypeOK, States
<1>2. Known' = Known /\ r \in Known
    BY DEF IInv, TypeOK, Known
<1>3. r \in live
    BY <1>2 DEF IInv, TypeOK, States, LiveIsActive, ExpectedLive, Active, Known
<1>4. LiveIsActive'
    BY <1>2, <1>3 DEF IInv, TypeOK, LiveIsActive, ExpectedLive, Known, Active
<1>5. ConcurrencyBounded'
    BY NoNewSlot
<1>6. OneReservationPerJob'
    BY <1>2 DEF IInv, TypeOK, OneReservationPerJob, Known
<1>7. RetainedIsQuarantined'
    BY <1>2, <1>3 DEF IInv, TypeOK, RetainedIsQuarantined, Known
<1>8. CreatedSound'
    BY <1>2 DEF IInv, TypeOK, CreatedSound, ExpectedCreated, Known
<1>9. ReceiptsSound'
    BY UsageType DEF IInv, TypeOK, ReceiptsSound, ReceiptsOf
<1> QED BY <1>1, <1>2, <1>4, <1>5, <1>6, <1>7, <1>8, <1>9, SameKnown DEF IInv

\* release keeps the inductive invariant.
LEMMA ReleaseStep ==
    ASSUME IInv, NEW r \in Reservation, NEW now \in 0 .. MaxTime,
           Release(r, now)
    PROVE  IInv'
<1> USE DEF Release, Releasable, Freed, Bump
<1>1. TypeOK'
    BY DEF IInv, TypeOK
<1>2. Known' = Known /\ live' = live
    BY DEF IInv, Known, LiveIsActive, ExpectedLive, Active
<1>3. LiveIsActive' /\ OneReservationPerJob' /\ RetainedIsQuarantined'
    BY <1>2 DEF IInv, LiveIsActive, ExpectedLive, Known, Active,
                OneReservationPerJob, RetainedIsQuarantined
<1>4. ConcurrencyBounded'
    BY <1>2, NoNewSlot
<1>5. CreatedSound' /\ ReceiptsSound'
    BY <1>2 DEF IInv, CreatedSound, ExpectedCreated, ReceiptsSound, ReceiptsOf
<1> QED BY <1>1, <1>2, <1>3, <1>4, <1>5, SameKnown DEF IInv

\* Clearing a job's quarantine leaves no retained reservation behind: the job
\* has no other reservation that is not retired.
LEMMA ReconcileCleanupStep ==
    ASSUME IInv, NEW r \in Reservation, NEW resource, NEW e \in Evidence,
           NEW t, NEW now \in 0 .. MaxTime,
           ReconcileCleanup(r, resource, e, t, now)
    PROVE  IInv'
<1> USE DEF ReconcileCleanup, ReconciledState, Freed, StillUncertain, Bump
<1>1. TypeOK'
    BY DEF IInv, TypeOK, States
<1>2. Known' = Known /\ r \in Known
    BY DEF IInv, TypeOK, Known
<1>3. LiveIsActive'
    BY <1>2 DEF IInv, TypeOK, LiveIsActive, ExpectedLive, Known, Active
<1>4. ConcurrencyBounded'
    BY NoNewSlot
<1>5. OneReservationPerJob'
    BY <1>2 DEF IInv, TypeOK, OneReservationPerJob, Known
<1>6. RetainedIsQuarantined'
    <2>1. ASSUME NEW s \in Known', state'[s] = "retained"
          PROVE  s \in live' /\ Request[s].job \in quarantined'
        <3>1. s # r /\ s \in Known /\ state[s] = "retained"
            BY <1>2, <2>1 DEF IInv, TypeOK, Known
        <3>2. Request[s].job # Request[r].job
            BY <1>2, <3>1 DEF IInv, OneReservationPerJob
        <3> QED BY <3>1, <3>2 DEF IInv, RetainedIsQuarantined
    <2> QED BY <2>1 DEF RetainedIsQuarantined
<1>7. ReceiptsOf(r) # {}
    <2>1. Cardinality({}) = 0
        BY FS_EmptySet
    <2> QED BY <2>1
<1>8. CreatedSound'
    <2>1. Request[r].job \in created
        BY <1>7 DEF IInv, ReceiptsSound, ReceiptsOf
    <2> QED BY <1>2, <2>1
            DEF IInv, TypeOK, CreatedSound, ExpectedCreated, Known
<1>9. ReceiptsSound'
    BY <1>7, UsageType DEF IInv, TypeOK, ReceiptsSound, ReceiptsOf
<1> QED BY <1>1, <1>2, <1>3, <1>4, <1>5, <1>6, <1>8, <1>9, SameKnown DEF IInv

\* A restart, accepted or refused, keeps the inductive invariant.
LEMMA RestartStep ==
    ASSUME IInv, Restart
    PROVE  IInv'
<1> USE DEF Restart
<1>1. live' = live /\ created' = created
    BY DEF Restorable
<1>2. Known' = Known
    BY DEF Known
<1>3. TypeOK' /\ LiveIsActive' /\ OneReservationPerJob' /\ RetainedIsQuarantined'
    BY <1>1, <1>2 DEF IInv, TypeOK, LiveIsActive, ExpectedLive, Known, Active,
                      OneReservationPerJob, RetainedIsQuarantined
<1>4. ConcurrencyBounded'
    BY <1>1, NoNewSlot
<1>5. CreatedSound' /\ ReceiptsSound'
    BY <1>1, <1>2
    DEF IInv, CreatedSound, ExpectedCreated, ReceiptsSound, ReceiptsOf
<1> QED BY <1>2, <1>3, <1>4, <1>5, SameKnown DEF IInv

-----------------------------------------------------------------------------
\* Every step keeps the inductive invariant.
LEMMA NextInv == IInv /\ [Next]_vars => IInv'
<1> SUFFICES ASSUME IInv, [Next]_vars PROVE IInv'
    OBVIOUS
<1>1. CASE Restart
    BY <1>1, RestartStep
<1>2. ASSUME NEW now \in 0 .. MaxTime, NEW r \in Reservation, Reserve(r, now)
      PROVE  IInv'
    BY <1>2, ReserveStep
<1>3. ASSUME NEW now \in 0 .. MaxTime, NEW r \in Reservation,
             NEW p \in Reservation, RetryBeforeCreate(p, r, now)
      PROVE  IInv'
    BY <1>3, RetryBeforeCreateStep
<1>4. ASSUME NEW now \in 0 .. MaxTime, NEW r \in Reservation,
             ObserveCreate(r, now)
      PROVE  IInv'
    BY <1>4, ObserveCreateStep
<1>5. ASSUME NEW now \in 0 .. MaxTime, NEW r \in Reservation, Retain(r, now)
      PROVE  IInv'
    BY <1>5, RetainStep
<1>6. ASSUME NEW now \in 0 .. MaxTime, NEW r \in Reservation, Release(r, now)
      PROVE  IInv'
    BY <1>6, ReleaseStep
<1>7. ASSUME NEW now \in 0 .. MaxTime, NEW r \in Reservation, NEW u \in Receipt,
             SettleCertain(u, r, now)
      PROVE  IInv'
    BY <1>7, SettleCertainStep
<1>8. ASSUME NEW now \in 0 .. MaxTime, NEW r \in Reservation, NEW u \in Receipt,
             SettleUncertain(u, r, now)
      PROVE  IInv'
    BY <1>8, SettleUncertainStep
<1>9. ASSUME NEW now \in 0 .. MaxTime, NEW r \in Reservation,
             NEW resource \in Resource, NEW e \in Evidence,
             NEW t \in 0 .. MaxTime, ReconcileCleanup(r, resource, e, t, now)
      PROVE  IInv'
    BY <1>9, ReconcileCleanupStep
<1>10. CASE UNCHANGED vars
    BY <1>10
    DEF vars, IInv, TypeOK, LiveIsActive, ExpectedLive, ConcurrencyBounded,
        OneReservationPerJob, RetainedIsQuarantined, KnownFinite,
        AttemptsDistinct, RetryHasFirst, CreatedSound, ReceiptsSound,
        ExpectedCreated, Known, Active, ReceiptsOf
<1> QED BY <1>1, <1>2, <1>3, <1>4, <1>5, <1>6, <1>7, <1>8, <1>9, <1>10 DEF Next

\* The inductive invariant holds in every reachable state of the ledger.
THEOREM Inductive == Spec => []IInv
<1>1. Init => IInv
    BY InitInv
<1>2. IInv /\ [Next]_vars => IInv'
    BY NextInv
<1> QED BY <1>1, <1>2, PTL DEF Spec

\* Every record of the ledger passes validateLedgerReservation.
THEOREM TypeCorrect == Spec => []TypeOK
<1>1. IInv => TypeOK
    BY DEF IInv
<1> QED BY <1>1, Inductive, PTL

\* The live index, which restore recomputes, is exactly the reservations that
\* hold money.
THEOREM LiveIndexExact == Spec => []LiveIsActive
<1>1. IInv => LiveIsActive
    BY DEF IInv
<1> QED BY <1>1, Inductive, PTL

\* Never more than GlobalLimit slots, nor two of one tenant or one project,
\* through reservations, retries, settlements and restarts.
THEOREM SlotsBounded == Spec => []ConcurrencyBounded
<1>1. IInv => ConcurrencyBounded
    BY DEF IInv
<1> QED BY <1>1, Inductive, PTL

\* A job never has two reservations that could each pay for a sandbox.
THEOREM OneSandboxPerJob == Spec => []OneReservationPerJob
<1>1. IInv => OneReservationPerJob
    BY DEF IInv
<1> QED BY <1>1, Inductive, PTL

\* Reconciling one job never un-quarantines another, and the uncertainty of
\* the chantier lasts exactly as long as some quarantine.
THEOREM QuarantineKept == Spec => []RetainedIsQuarantined
<1>1. IInv => RetainedIsQuarantined
    BY DEF IInv
<1> QED BY <1>1, Inductive, PTL

\* restore accepts every reachable ledger in which no reservation was retained
\* before its sandbox creation was observed.
THEOREM RestoreAccepts == Spec => []RestorableOnceCreated
<1>1. IInv => RestorableOnceCreated
    <2> SUFFICES ASSUME IInv,
                        \A r \in Known : state[r] = "retained" =>
                            Request[r].job \in created
                 PROVE  Restorable
        BY DEF RestorableOnceCreated
    <2>1. created = ExpectedCreated
        BY DEF IInv, CreatedSound, ReceiptsSound, ExpectedCreated, Known
    <2>2. \A r \in Known : state[r] = "settled" => ReceiptsOf(r) # {}
        BY DEF IInv, ReceiptsSound, Known
    <2> QED BY <2>1, <2>2 DEF IInv, LiveIsActive, ReceiptsSound, Restorable
<1> QED BY <1>1, Inductive, PTL

-----------------------------------------------------------------------------
\* One step neither revives a settled or retired reservation nor frees a slot
\* that is not accounted for.  Only the actions that write the state of a
\* reservation or the live index have to be looked at.
LEMMA StepKeepsFinal ==
    ASSUME IInv, [Next]_vars, NEW q \in Reservation,
           state[q] \in {"settled", "retired"}
    PROVE  state'[q] = state[q]
<1> USE DEF IInv, TypeOK, Bump, MayReplace
<1>1. CASE Restart
    BY <1>1 DEF Restart
<1>2. ASSUME NEW now \in 0 .. MaxTime, NEW r \in Reservation,
             \/ Reserve(r, now)
             \/ Retain(r, now)
             \/ Release(r, now)
             \/ \E p \in Reservation : RetryBeforeCreate(p, r, now)
      PROVE  state'[q] = state[q]
    BY <1>2 DEF Reserve, Retain, Release, RetryBeforeCreate
<1>3. ASSUME NEW now \in 0 .. MaxTime, NEW r \in Reservation,
             ObserveCreate(r, now)
      PROVE  state'[q] = state[q]
    <2>1. state[r] # "settled"
        BY <1>3 DEF ObserveCreate, CreatedSound
    <2> QED BY <1>3, <2>1 DEF ObserveCreate
<1>4. ASSUME NEW now \in 0 .. MaxTime, NEW r \in Reservation, NEW u \in Receipt,
             SettleCertain(u, r, now) \/ SettleUncertain(u, r, now)
      PROVE  state'[q] = state[q]
    BY <1>4 DEF SettleCertain, SettleUncertain, Settleable
<1>5. ASSUME NEW now \in 0 .. MaxTime, NEW r \in Reservation,
             NEW resource \in Resource, NEW e \in Evidence,
             NEW t \in 0 .. MaxTime, ReconcileCleanup(r, resource, e, t, now)
      PROVE  state'[q] = state[q]
    BY <1>5 DEF ReconcileCleanup
<1>6. CASE UNCHANGED vars
    BY <1>6 DEF vars
<1> QED BY <1>1, <1>2, <1>3, <1>4, <1>5, <1>6 DEF Next

\* A step gives a slot up only for a retired or a charged reservation.
LEMMA StepAccountsForSlots ==
    ASSUME IInv, [Next]_vars, NEW q \in live \ live'
    PROVE  \/ state'[q] = "retired" /\ Request[q].job \notin created'
           \/ state'[q] = "settled"
                /\ \E u \in receipts' : Usage[u].reservation = q
<1> USE DEF IInv, TypeOK, Bump, Freed
<1>1. CASE Restart
    BY <1>1 DEF Restart, Restorable
<1>2. ASSUME NEW now \in 0 .. MaxTime, NEW r \in Reservation,
             Reserve(r, now) \/ ObserveCreate(r, now) \/ Retain(r, now)
      PROVE  FALSE
    BY <1>2 DEF Reserve, ObserveCreate, Retain
<1>3. ASSUME NEW now \in 0 .. MaxTime, NEW r \in Reservation,
             NEW p \in Reservation, RetryBeforeCreate(p, r, now)
      PROVE  state'[q] = "retired" /\ Request[q].job \notin created'
    BY <1>3 DEF RetryBeforeCreate
<1>4. ASSUME NEW now \in 0 .. MaxTime, NEW r \in Reservation, Release(r, now)
      PROVE  FALSE
    BY <1>4 DEF Release, Releasable, LiveIsActive, ExpectedLive, Active
<1>5. ASSUME NEW now \in 0 .. MaxTime, NEW r \in Reservation, NEW u \in Receipt,
             SettleCertain(u, r, now) \/ SettleUncertain(u, r, now)
      PROVE  /\ state'[q] = "settled"
             /\ \E v \in receipts' : Usage[v].reservation = q
    BY <1>5 DEF SettleCertain, SettleUncertain, Settleable
<1>6. ASSUME NEW now \in 0 .. MaxTime, NEW r \in Reservation,
             NEW resource \in Resource, NEW e \in Evidence,
             NEW t \in 0 .. MaxTime, ReconcileCleanup(r, resource, e, t, now)
      PROVE  /\ state'[q] = "settled"
             /\ \E v \in receipts' : Usage[v].reservation = q
    <2>1. q = r /\ state'[q] = "settled" /\ receipts' = receipts
        BY <1>6 DEF ReconcileCleanup, ReconciledState
    <2>2. Cardinality({}) = 0
        BY FS_EmptySet
    <2>3. Cardinality(ReceiptsOf(r)) = 1
        BY <1>6 DEF ReconcileCleanup
    <2>4. PICK v \in ReceiptsOf(r) : TRUE
        BY <2>2, <2>3
    <2> QED BY <2>1, <2>4 DEF ReceiptsOf
<1>7. CASE UNCHANGED vars
    BY <1>7 DEF vars
<1> QED BY <1>1, <1>2, <1>3, <1>4, <1>5, <1>6, <1>7 DEF Next

\* settled and retired are final.
THEOREM FinalStates == Spec => NoRevival
<1>1. IInv /\ [Next]_vars =>
        [\A r \in Reservation :
            state[r] \in {"settled", "retired"} => state'[r] = state[r]]_vars
    BY StepKeepsFinal
<1> QED BY <1>1, Inductive, PTL DEF Spec, NoRevival

\* No slot is freed before its money is accounted for.
THEOREM SlotsAccountedFor == Spec => HeldUntilAccounted
<1>1. IInv /\ [Next]_vars =>
        [\A r \in live \ live' :
            \/ state'[r] = "retired" /\ Request[r].job \notin created'
            \/ state'[r] = "settled"
                /\ \E u \in receipts' : Usage[u].reservation = r]_vars
    BY StepAccountsForSlots
<1> QED BY <1>1, Inductive, PTL DEF Spec, HeldUntilAccounted

-----------------------------------------------------------------------------
\* The ledger as one job sees it.  The job's standing reservation is unique,
\* before a step and after it.
LEMMA StatusIs ==
    ASSUME IInv, NEW r \in Known, state[r] # "retired"
    PROVE  JobStatus(Request[r].job) = state[r]
<1> DEFINE S == Standing(Request[r].job)
<1>1. r \in S /\ \A s \in S : s = r
    BY DEF Standing, IInv, OneReservationPerJob
<1>2. (CHOOSE s \in S : TRUE) \in S
    BY <1>1
<1>3. S # {} /\ (CHOOSE s \in S : TRUE) = r
    BY <1>1, <1>2
<1> QED BY <1>3 DEF JobStatus

\* The status a job has after a step, given its standing reservation.
LEMMA NextStatusIs ==
    ASSUME IInv', NEW r \in Known', state'[r] # "retired"
    PROVE  JobStatus(Request[r].job)' = state'[r]
<1> DEFINE S == Standing(Request[r].job)'
<1>1. r \in S /\ \A s \in S : s = r
    BY DEF Standing, IInv, OneReservationPerJob
<1>2. (CHOOSE s \in S : TRUE) \in S
    BY <1>1
<1>3. S # {} /\ (CHOOSE s \in S : TRUE) = r
    BY <1>1, <1>2
<1> QED BY <1>3 DEF JobStatus

\* A step that leaves the reservations and the creation of a job alone does
\* not show in its view.
LEMMA ViewUnchanged ==
    ASSUME IInv, IInv', NEW j \in Job,
           \A s \in Reservation : Request[s].job = j => state'[s] = state[s],
           j \in created' <=> j \in created
    PROVE  UNCHANGED JobView(j)!jvars
<1>1. Standing(j)' = Standing(j)
    BY DEF Standing, Known
<1>2. JobStatus(j)' = JobStatus(j)
    <2>1. CASE Standing(j) = {}
        BY <1>1, <2>1 DEF JobStatus
    <2>2. CASE Standing(j) # {}
        <3>1. PICK r \in Standing(j) : TRUE
            BY <2>2
        <3>2. /\ r \in Known /\ r \in Known' /\ Request[r].job = j
              /\ state[r] # "retired" /\ state'[r] = state[r]
            BY <3>1 DEF Standing, Known
        <3> QED BY <3>2, StatusIs, NextStatusIs
    <2> QED BY <2>1, <2>2
<1> QED BY <1>2 DEF JobView!jvars

\* A step of the ledger is a step or a stutter of each job's reservation.
LEMMA StepServesJob ==
    ASSUME IInv, IInv', [Next]_vars, NEW j \in Job
    PROVE  [JobView(j)!Next]_(JobView(j)!jvars)
<1> DEFINE Served == [JobView(j)!Next]_(JobView(j)!jvars)
<1>1. CASE Restart \/ UNCHANGED vars
    <2>1. state' = state /\ created' = created
        BY <1>1 DEF Restart, Restorable, vars
    <2> QED BY <2>1, ViewUnchanged
<1>2. ASSUME NEW now \in 0 .. MaxTime, NEW r \in Reservation, Reserve(r, now)
      PROVE  Served
    <2>1. /\ state' = [state EXCEPT ![r] = "reserved"] /\ created' = created
          /\ state[r] = "none" /\ AttemptAllowed(r) /\ Concurrency(r)
        BY <1>2 DEF Reserve
    <2>2. CASE Request[r].job # j
        BY <2>1, <2>2, ViewUnchanged
    <2>3. CASE Request[r].job = j
        <3>1. Standing(j) = {}
            BY <2>1, <2>3, ReserveMeetsRetired DEF Standing
        <3>2. JobStatus(j) = "none"
            BY <3>1 DEF JobStatus
        <3>3. JobStatus(j)' = "reserved"
            BY <2>1, <2>3, NextStatusIs DEF IInv, TypeOK, Known
        <3> QED BY <2>1, <3>2, <3>3 DEF JobView!Next, JobView!Reserve
    <2> QED BY <2>2, <2>3
<1>3. ASSUME NEW now \in 0 .. MaxTime, NEW r \in Reservation,
             NEW p \in Reservation, RetryBeforeCreate(p, r, now)
      PROVE  Served
    <2>1. /\ state' = [state EXCEPT ![p] = "retired", ![r] = "reserved"]
          /\ created' = created /\ state[p] = "reserved" /\ state[r] = "none"
          /\ Request[p].job = Request[r].job
        BY <1>3 DEF RetryBeforeCreate, SameLineage
    <2>2. CASE Request[r].job # j
        <3>1. j \in created' <=> j \in created
            BY <2>1
        <3>2. \A s \in Reservation : Request[s].job = j => state'[s] = state[s]
            BY <2>1, <2>2 DEF IInv, TypeOK
        <3> QED BY <3>1, <3>2, ViewUnchanged
    <2>3. CASE Request[r].job = j
        <3>1. JobStatus(j) = "reserved"
            BY <2>1, <2>3, StatusIs DEF Known
        <3>2. JobStatus(j)' = "reserved"
            BY <2>1, <2>3, NextStatusIs DEF IInv, TypeOK, Known
        <3> QED BY <2>1, <3>1, <3>2 DEF JobView!jvars
    <2> QED BY <2>2, <2>3
<1>4. ASSUME NEW now \in 0 .. MaxTime, NEW r \in Reservation,
             ObserveCreate(r, now)
      PROVE  Served
    <2>1. /\ state' = [state EXCEPT ![r] = "partiallyCharged"]
          /\ created' = created \cup {Request[r].job}
          /\ Request[r].job \notin created
          /\ state[r] \notin {"none", "retired"}
        BY <1>4 DEF ObserveCreate, MayReplace
    <2>2. CASE Request[r].job # j
        <3>1. j \in created' <=> j \in created
            BY <2>1, <2>2
        <3>2. \A s \in Reservation : Request[s].job = j => state'[s] = state[s]
            BY <2>1, <2>2 DEF IInv, TypeOK
        <3> QED BY <3>1, <3>2, ViewUnchanged
    <2>3. CASE Request[r].job = j
        <3>1. state[r] \in {"reserved", "retained"}
            BY <2>1 DEF IInv, TypeOK, States, CreatedSound
        <3>2. JobStatus(j) \in {"reserved", "retained"}
            BY <2>3, <3>1, StatusIs DEF Known
        <3>3. JobStatus(j)' = "partiallyCharged"
            BY <2>1, <2>3, NextStatusIs DEF IInv, TypeOK, Known
        <3> QED BY <2>1, <2>3, <3>2, <3>3
                DEF JobView!Next, JobView!ObserveCreate
    <2> QED BY <2>2, <2>3
<1>5. ASSUME NEW now \in 0 .. MaxTime, NEW r \in Reservation, Retain(r, now)
      PROVE  Served
    <2>1. /\ state' = [state EXCEPT ![r] = "retained"] /\ created' = created
          /\ state[r] \in {"reserved", "partiallyCharged", "retained"}
        BY <1>5 DEF Retain
    <2>2. CASE Request[r].job # j
        BY <2>1, <2>2, ViewUnchanged
    <2>3. CASE Request[r].job = j
        <3>1. JobStatus(j) \in JobView(j)!Holding
            BY <2>1, <2>3, StatusIs DEF Known, JobView!Holding
        <3>2. JobStatus(j)' = "retained"
            BY <2>1, <2>3, NextStatusIs DEF IInv, TypeOK, Known
        <3> QED BY <2>1, <3>1, <3>2 DEF JobView!Next, JobView!Retain
    <2> QED BY <2>2, <2>3
<1>6. ASSUME NEW now \in 0 .. MaxTime, NEW r \in Reservation, Release(r, now)
      PROVE  Served
    BY <1>6, ViewUnchanged DEF Release
<1>7. ASSUME NEW now \in 0 .. MaxTime, NEW r \in Reservation, NEW u \in Receipt,
             SettleCertain(u, r, now) \/ SettleUncertain(u, r, now)
      PROVE  Served
    <2> DEFINE next == IF SettleCertain(u, r, now) THEN "settled" ELSE "retained"
    <2>1. /\ state' = [state EXCEPT ![r] = next]
          /\ created' = created \cup {Request[r].job}
          /\ state[r] \notin {"none", "retired", "settled"}
        BY <1>7 DEF SettleCertain, SettleUncertain, Settleable, MayReplace
    <2>2. CASE Request[r].job # j
        BY <2>1, <2>2, ViewUnchanged
    <2>3. CASE Request[r].job = j
        <3>1. state[r] \in {"reserved", "partiallyCharged", "retained"}
            BY <2>1 DEF IInv, TypeOK, States
        <3>2. JobStatus(j) \in JobView(j)!Holding
            BY <2>3, <3>1, StatusIs DEF Known, JobView!Holding
        <3>3. JobStatus(j)' = next
            BY <2>1, <2>3, NextStatusIs DEF IInv, TypeOK, Known
        <3> QED BY <2>1, <2>3, <3>2, <3>3
                DEF JobView!Next, JobView!Settle, JobView!SettleUncertain
    <2> QED BY <2>2, <2>3
<1>8. ASSUME NEW now \in 0 .. MaxTime, NEW r \in Reservation,
             NEW resource \in Resource, NEW e \in Evidence,
             NEW t \in 0 .. MaxTime, ReconcileCleanup(r, resource, e, t, now)
      PROVE  Served
    <2>1. /\ state' = [state EXCEPT ![r] = "settled"] /\ created' = created
          /\ state[r] = "retained" /\ Cardinality(ReceiptsOf(r)) = 1
        BY <1>8 DEF ReconcileCleanup, ReconciledState
    <2>2. CASE Request[r].job # j
        BY <2>1, <2>2, ViewUnchanged
    <2>3. CASE Request[r].job = j
        <3>1. Cardinality({}) = 0
            BY FS_EmptySet
        <3>2. PICK u \in ReceiptsOf(r) : TRUE
            BY <2>1, <3>1
        <3>3. j \in created
            BY <2>3, <3>2 DEF IInv, ReceiptsSound, ReceiptsOf
        <3>4. JobStatus(j) = "retained"
            BY <2>1, <2>3, StatusIs DEF Known
        <3>5. JobStatus(j)' = "settled"
            BY <2>1, <2>3, NextStatusIs DEF IInv, TypeOK, Known
        <3> QED BY <2>1, <3>3, <3>4, <3>5
                DEF JobView!Next, JobView!ReconcileCleanup
    <2> QED BY <2>2, <2>3
<1> QED BY <1>1, <1>2, <1>3, <1>4, <1>5, <1>6, <1>7, <1>8 DEF Next

\* The ledger implements JobReservation for every job at once: the actions that
\* Coordinator uses as its ledger port are all that a job can see of it.
THEOREM RefinesJobReservation == Spec => ServesEveryJob
<1>1. Init => \A j \in Job : JobView(j)!Init
    BY DEF Init, JobView!Init, JobStatus, Standing, Known
<1>2. IInv /\ IInv' /\ [Next]_vars =>
        \A j \in Job : [JobView(j)!Next]_(JobView(j)!jvars)
    BY StepServesJob
<1>3. IInv /\ IInv' /\ [Next]_vars =>
        [\A j \in Job : [JobView(j)!Next]_(JobView(j)!jvars)]_vars
    BY <1>2
<1> QED BY <1>1, <1>3, Inductive, PTL DEF Spec, ServesEveryJob

=============================================================================
