---------------------------- MODULE BudgetLedger ----------------------------
(***************************************************************************)
(* The chantier spend ledger of the Linux compilation workers: the class   *)
(* CompilationBudgetLedger of                                              *)
(* runner/src/studio/compilation/budgetLedger.ts.  One ledger holds every  *)
(* reservation and every provider receipt; each method is a compare-and-   *)
(* set on its revision that either throws and changes nothing or applies   *)
(* one whole transition, bumps the revision and returns a snapshot.        *)
(*                                                                         *)
(* An id determines its record: the code rejects the reuse of a            *)
(* reservation id or a receipt id with other contents, so the contents are *)
(* constant functions of the id.  A call that throws, an exact replay, and *)
(* a call with a revision that is not the current one change nothing; they *)
(* are stuttering steps here.  The time of a call is any value that is not *)
(* before the time of the last transition.                                 *)
(***************************************************************************)
EXTENDS Integers, FiniteSets, FiniteSetsExt

CONSTANTS
    Reservation,    \* reservation ids
    Receipt,        \* provider usage receipt ids
    Job, Tenant, Project,
    Resource,       \* provider resource id digests
    Evidence,       \* cleanup evidence digests
    NoEvidence,     \* the null cleanupEvidenceDigest
    Request,        \* the record a reservation id stands for
    Usage,          \* the record a receipt id stands for
    Ceiling,        \* chantierSpendEurMax
    GlobalLimit,    \* globalLiveConcurrencyMax
    RateMaxAge,     \* how old the ECB rate may be when reserving
    ReceiptMaxAge,  \* how old a receipt or a cleanup observation may be
    MaxTime,        \* bound: the latest time of a call
    MaxRevision     \* bound: the number of transitions explored

\* What a reservation and a receipt carry.  A job's reservations name the
\* tenant and the project of the job.
ASSUME LedgerAssumption ==
    /\ Request \in [Reservation ->
            [job : Job, tenant : Tenant, project : Project, attempt : {0, 1},
             eur : 0 .. Ceiling, rateAt : Nat, createdAt : Nat]]
    /\ Usage \in [Receipt ->
            [reservation : Reservation, job : Job, resource : Resource,
             eur : 0 .. Ceiling, observedAt : Nat]]
    /\ \A r, s \in Reservation : Request[r].job = Request[s].job =>
            /\ Request[r].tenant = Request[s].tenant
            /\ Request[r].project = Request[s].project
    /\ NoEvidence \notin Evidence
    /\ Ceiling \in Nat /\ GlobalLimit \in Nat \ {0}
    /\ RateMaxAge \in Nat /\ ReceiptMaxAge \in Nat
    /\ MaxTime \in Nat /\ MaxRevision \in Nat

VARIABLES
    state,        \* #reservations: the state of each known reservation
    evidence,     \* #reservations: cleanupEvidenceDigest
    receipts,     \* #receipts
    live,         \* #live, the reservations that hold a concurrency slot
    created,      \* #created, jobs whose sandbox creation was observed
    quarantined,  \* #quarantined, jobs whose cleanup is uncertain
    uncertain,    \* #uncertain
    revision,     \* #revision
    updatedAt,    \* #updatedAt
    up            \* FALSE once a restart rejected the stored snapshot

vars == <<state, evidence, receipts, live, created, quarantined, uncertain,
          revision, updatedAt, up>>

States == {"none", "reserved", "partiallyCharged", "settled", "retained",
           "retired"}

Known == {r \in Reservation : state[r] # "none"}
Active(r) == state[r] \in {"reserved", "partiallyCharged", "retained"}
SameJob(r) == {s \in Known : Request[s].job = Request[r].job}
ReceiptsOf(r) == {u \in receipts : Usage[u].reservation = r}

EurReserved(S) == MapThenSumSet(LAMBDA r : Request[r].eur, S)
EurCharged(S) == MapThenSumSet(LAMBDA u : Usage[u].eur, S)
ActiveReserved == EurReserved({r \in Known : Active(r)})
Charged == EurCharged(receipts)

Init ==
    /\ state = [r \in Reservation |-> "none"]
    /\ evidence = [r \in Reservation |-> NoEvidence]
    /\ receipts = {}
    /\ live = {}
    /\ created = {}
    /\ quarantined = {}
    /\ uncertain = FALSE
    /\ revision = 0
    /\ updatedAt = 0
    /\ up = TRUE

\* Every method: the ledger is loaded, the clock does not run backwards, and
\* a transition bumps the revision and the time.
ValidNow(now) == up /\ updatedAt <= now /\ revision < MaxRevision
Bump(now) == revision' = revision + 1 /\ updatedAt' = now

FreshRate(r, now) ==
    /\ Request[r].rateAt <= now
    /\ now - Request[r].rateAt <= RateMaxAge

\* Faulty variants, named Bad..., stand before the definition they vary; no
\* action uses them.
BadConcurrency(r) == Cardinality(live) < GlobalLimit
Concurrency(r) ==
    /\ Cardinality(live) < GlobalLimit
    /\ \A s \in live : /\ Request[s].tenant # Request[r].tenant
                       /\ Request[s].project # Request[r].project

\* An attempt number is used once per job, and attempt 1 stands beside exactly
\* one other reservation of a job whose creation was not observed.
BadAttemptAllowed(r) ==
    /\ \A s \in SameJob(r) : Request[s].attempt # Request[r].attempt
    /\ Request[r].attempt = 1 => Cardinality(SameJob(r)) = 1
AttemptAllowed(r) ==
    /\ \A s \in SameJob(r) : Request[s].attempt # Request[r].attempt
    /\ Request[r].attempt = 1 =>
            /\ Request[r].job \notin created
            /\ Cardinality(SameJob(r)) = 1

FitsCeiling(r) == ActiveReserved + Request[r].eur <= Ceiling

\* A slot given back, and what is left uncertain by the quarantines q.
BadFreed(r) == live
Freed(r) == live \ {r}
BadStillUncertain(q) == FALSE
StillUncertain(q) == q # {}

-----------------------------------------------------------------------------
Reserve(r, now) ==
    /\ ValidNow(now)
    /\ state[r] = "none"
    /\ FreshRate(r, now)
    /\ AttemptAllowed(r)
    /\ Concurrency(r)
    /\ FitsCeiling(r)
    /\ state' = [state EXCEPT ![r] = "reserved"]
    /\ live' = live \cup {r}
    /\ Bump(now)
    /\ UNCHANGED <<evidence, receipts, created, quarantined, uncertain, up>>

SameLineage(p, r) ==
    /\ Request[p].job = Request[r].job
    /\ Request[p].tenant = Request[r].tenant
    /\ Request[p].project = Request[r].project
    /\ Request[p].eur = Request[r].eur
    /\ Request[p].rateAt = Request[r].rateAt

\* retryBeforeCreate: attempt 1 takes over the slot and the money of an
\* attempt 0 whose sandbox was certainly never created.
RetryBeforeCreate(p, r, now) ==
    /\ ValidNow(now)
    /\ Request[p].attempt = 0
    /\ state[p] = "reserved"
    /\ p \in live
    /\ Request[p].job \notin created
    /\ ReceiptsOf(p) = {}
    /\ Request[r].attempt = 1
    /\ state[r] = "none"
    /\ SameLineage(p, r)
    /\ \A s \in SameJob(p) : Request[s].attempt # 1
    /\ state' = [state EXCEPT ![p] = "retired", ![r] = "reserved"]
    /\ live' = (live \ {p}) \cup {r}
    /\ Bump(now)
    /\ UNCHANGED <<evidence, receipts, created, quarantined, uncertain, up>>

\* replaceReservation re-validates the record: a retired reservation keeps
\* its retry evidence, and evidence of cleanup belongs to settled ones only.
BadMayReplace(r, s) == state[r] # "none"
MayReplace(r, s) ==
    /\ state[r] \notin {"none", "retired"}
    /\ evidence[r] # NoEvidence => s = "settled"

ObserveCreate(r, now) ==
    /\ ValidNow(now)
    /\ Request[r].job \notin created
    /\ MayReplace(r, "partiallyCharged")
    /\ state' = [state EXCEPT ![r] = "partiallyCharged"]
    /\ created' = created \cup {Request[r].job}
    /\ Bump(now)
    /\ UNCHANGED <<evidence, receipts, live, quarantined, uncertain, up>>

Retain(r, now) ==
    /\ ValidNow(now)
    /\ r \in live
    /\ state[r] \in {"reserved", "partiallyCharged", "retained"}
    /\ MayReplace(r, "retained")
    /\ state' = [state EXCEPT ![r] = "retained"]
    /\ uncertain' = TRUE
    /\ quarantined' = quarantined \cup {Request[r].job}
    /\ Bump(now)
    /\ UNCHANGED <<evidence, receipts, live, created, up>>

\* What settle asks of a receipt u for the reservation r it names.
Settleable(u, r, now) ==
    /\ u \notin receipts
    /\ r = Usage[u].reservation
    /\ state[r] # "settled"
    /\ ReceiptsOf(r) = {}
    /\ Usage[u].job = Request[r].job
    /\ Request[r].createdAt <= Usage[u].observedAt
    /\ Usage[u].observedAt <= now
    /\ now - Usage[u].observedAt <= ReceiptMaxAge
    /\ Usage[u].eur <= Request[r].eur
    /\ Charged + Usage[u].eur <= Ceiling

\* settle with cleanupCertain: the charge is final and the slot is free.
SettleCertain(u, r, now) ==
    /\ ValidNow(now)
    /\ Settleable(u, r, now)
    /\ MayReplace(r, "settled")
    /\ receipts' = receipts \cup {u}
    /\ created' = created \cup {Usage[u].job}
    /\ state' = [state EXCEPT ![r] = "settled"]
    /\ live' = Freed(r)
    /\ Bump(now)
    /\ UNCHANGED <<evidence, quarantined, uncertain, up>>

\* settle without it: charged, but the slot and the money stay held.
SettleUncertain(u, r, now) ==
    /\ ValidNow(now)
    /\ Settleable(u, r, now)
    /\ MayReplace(r, "retained")
    /\ receipts' = receipts \cup {u}
    /\ created' = created \cup {Usage[u].job}
    /\ state' = [state EXCEPT ![r] = "retained"]
    /\ uncertain' = TRUE
    /\ quarantined' = quarantined \cup {Usage[u].job}
    /\ Bump(now)
    /\ UNCHANGED <<evidence, live, up>>

\* release: refused while any cleanup of the chantier is uncertain.
BadReleasable(r) == state[r] # "none" /\ ~uncertain
Releasable(r) == state[r] = "settled" /\ ~uncertain
Release(r, now) ==
    /\ ValidNow(now)
    /\ Releasable(r)
    /\ live' = Freed(r)
    /\ Bump(now)
    /\ UNCHANGED <<state, evidence, receipts, created, quarantined, uncertain,
                   up>>

\* reconcileCleanup: an operator's observation t of the deleted resource.
ReconciledState == "settled"
ReconcileCleanup(r, resource, e, t, now) ==
    /\ ValidNow(now)
    /\ state[r] = "retained"
    /\ r \in live
    /\ uncertain
    /\ Cardinality(ReceiptsOf(r)) = 1
    /\ \A u \in ReceiptsOf(r) : /\ Usage[u].resource = resource
                                /\ Usage[u].observedAt <= t
    /\ t <= now
    /\ now - t <= ReceiptMaxAge
    /\ state' = [state EXCEPT ![r] = ReconciledState]
    /\ evidence' = [evidence EXCEPT ![r] = e]
    /\ live' = Freed(r)
    /\ quarantined' = quarantined \ {Request[r].job}
    /\ uncertain' = StillUncertain(quarantined')
    /\ Bump(now)
    /\ UNCHANGED <<receipts, created, up>>

-----------------------------------------------------------------------------
\* restore recomputes the hidden indexes from the immutable records and
\* rejects a snapshot whose own indexes differ.
ExpectedLive == {r \in Known : Active(r)}
BadExpectedCreated ==
    {Request[r].job : r \in {s \in Known :
        state[s] \in {"partiallyCharged", "settled"}}}
    \cup {Usage[u].job : u \in receipts}
ExpectedCreated ==
    {Request[r].job : r \in {s \in Known :
        state[s] \in {"partiallyCharged", "retained", "settled"}}}
    \cup {Usage[u].job : u \in receipts}

Restorable ==
    /\ \A u \in receipts : Request[Usage[u].reservation].job = Usage[u].job
    /\ \A u, v \in receipts :
            Usage[u].reservation = Usage[v].reservation => u = v
    /\ \A r \in Known : state[r] = "settled" => ReceiptsOf(r) # {}
    /\ live = ExpectedLive
    /\ created = ExpectedCreated

\* The runner process ends and a new one restores the last snapshot.
Restart ==
    /\ up
    /\ \/ /\ Restorable
          /\ live' = ExpectedLive
          /\ created' = ExpectedCreated
          /\ up' = up
       \/ /\ ~Restorable
          /\ up' = FALSE
          /\ UNCHANGED <<live, created>>
    /\ UNCHANGED <<state, evidence, receipts, quarantined, uncertain, revision,
                   updatedAt>>

Next ==
    \/ Restart
    \/ \E now \in 0 .. MaxTime :
        \/ \E r \in Reservation :
            \/ Reserve(r, now)
            \/ \E p \in Reservation : RetryBeforeCreate(p, r, now)
            \/ ObserveCreate(r, now)
            \/ Retain(r, now)
            \/ Release(r, now)
            \/ \E u \in Receipt : SettleCertain(u, r, now)
            \/ \E u \in Receipt : SettleUncertain(u, r, now)
            \/ \E resource \in Resource, e \in Evidence, t \in 0 .. MaxTime :
                    ReconcileCleanup(r, resource, e, t, now)

Spec == Init /\ [][Next]_vars

-----------------------------------------------------------------------------
\* Types, and what validateLedgerReservation asks of each record: evidence of
\* a cleanup is carried by settled reservations only.
TypeOK ==
    /\ state \in [Reservation -> States]
    /\ evidence \in [Reservation -> Evidence \cup {NoEvidence}]
    /\ receipts \subseteq Receipt
    /\ live \subseteq Reservation
    /\ created \subseteq Job
    /\ quarantined \subseteq Job
    /\ uncertain \in BOOLEAN
    /\ revision \in Nat
    /\ updatedAt \in Nat
    /\ up \in BOOLEAN
    /\ \A r \in Reservation : evidence[r] # NoEvidence => state[r] = "settled"

\* The live index names exactly the reservations that still hold money, so a
\* slot is neither leaked by a settlement nor freed while money is held.
LiveIsActive == live = ExpectedLive

\* Two slots in the whole chantier and one per tenant and per project, also
\* when a retry swaps the reservation that holds the slot.
ConcurrencyBounded ==
    /\ Cardinality(live) <= GlobalLimit
    /\ \A r, s \in live : r # s =>
            /\ Request[r].tenant # Request[s].tenant
            /\ Request[r].project # Request[s].project

\* A job has one reservation that can pay for a sandbox: of any two, one was
\* retired before any creation.  With the created index this is what keeps a
\* job to one sandbox.
OneReservationPerJob ==
    \A r, s \in Known : r # s /\ Request[r].job = Request[s].job =>
        \/ state[r] = "retired"
        \/ state[s] = "retired"

\* snapshot() runs after the transition has been applied and throws when the
\* reserved or the charged total is above the ceiling: it never does.
SnapshotAccepted == ActiveReserved <= Ceiling /\ Charged <= Ceiling

\* A retained reservation keeps its slot, its job is quarantined, and the
\* chantier is uncertain exactly while some job is.
RetainedIsQuarantined ==
    /\ \A r \in Known : state[r] = "retained" =>
            r \in live /\ Request[r].job \in quarantined
    /\ uncertain <=> quarantined # {}

\* The only ledger that restore can reject is one that retained a reservation
\* before the creation of its sandbox was observed.
RestorableOnceCreated ==
    (\A r \in Known : state[r] = "retained" => Request[r].job \in created)
        => Restorable

\* settled and retired are final: no late call revives such a reservation.
NoRevival ==
    [][\A r \in Reservation :
        state[r] \in {"settled", "retired"} => state'[r] = state[r]]_vars

\* A slot is given up only when its reservation is retired with no creation
\* observed, or settled with its receipt on record.
HeldUntilAccounted ==
    [][\A r \in live \ live' :
        \/ state'[r] = "retired" /\ Request[r].job \notin created'
        \/ state'[r] = "settled"
            /\ \E u \in receipts' : Usage[u].reservation = r]_vars

-----------------------------------------------------------------------------
\* The reservation that stands for a job: the one that was not retired.
Standing(j) ==
    {r \in Known : Request[r].job = j /\ state[r] # "retired"}
JobStatus(j) ==
    IF Standing(j) = {} THEN "none" ELSE state[CHOOSE r \in Standing(j) : TRUE]
JobView(j) ==
    INSTANCE JobReservation WITH status <- JobStatus(j), created <- j \in created

\* Seen from one job the ledger is the life of one reservation: the retry
\* transfer, the other jobs and a restart never show.
ServesEveryJob ==
    /\ \A j \in Job : JobView(j)!Init
    /\ [][\A j \in Job : [JobView(j)!Next]_(JobView(j)!jvars)]_vars

-----------------------------------------------------------------------------
\* Statements of the specification document and the tests that the code does
\* not keep: TLC refutes each in the instance of MCBudgetLedger.

\* A restart restores the durable ledger.
SurvivesRestart == up

\* The money the chantier is committed to, charged or still reserved without
\* a receipt, stays within the ceiling of EUR 5.
CommitmentWithinCeiling ==
    Charged + EurReserved({r \in Known : Active(r) /\ ReceiptsOf(r) = {}})
        <= Ceiling

\* When every reservation is settled with certain cleanup or retired, nothing
\* is uncertain and the ledger expires 24 hours after its final receipt.
ExpiresOnceSettled ==
    receipts # {} /\ ~(\E r \in Known : Active(r)) => ~uncertain

=============================================================================
