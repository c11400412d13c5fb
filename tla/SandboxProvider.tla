---------------------------- MODULE SandboxProvider ----------------------------
(***************************************************************************)
(* The managed sandbox provider (studio/providers/vercelSandboxProvider.ts)*)
(* under the admissions that call it (studio/workerProvider.ts): which     *)
(* sandboxes it has, which it must still destroy, and the calls it may     *)
(* make in a window, reserved before a sandbox is created.                 *)
(*                                                                         *)
(* An admission is one admit: its request carries its own expiry, so two   *)
(* admissions never send the same input, but a retry of one compile sends  *)
(* the same key, and the name of the sandbox is made from the key.  One    *)
(* reconciliation runs at a time.  A name nobody asks for is a sandbox     *)
(* left by an earlier process.                                             *)
(*                                                                         *)
(* Every call may fail, before or after it took effect, but takes effect   *)
(* before it is answered.  The ledger of one resource is not counted       *)
(* against its own maximum, only against the window of the provider.       *)
(***************************************************************************)
EXTENDS Integers, FiniteSets, FiniteSetsExt, Functions

CONSTANTS
    Admission, Name,
    NameOf,             \* the key of the request of an admission
    Generation,         \* the admissions of the generation phase
    Nobody, Reconcile,  \* no admission; the reconciliation
    MaxCalls,           \* providerApiRateLimit.maxProviderApiCalls
    MaxAllocations,     \* maxConcurrentAllocations
    ReconcileLimit      \* reconciliationLimit

ASSUME ProviderAssumption ==
    /\ NameOf \in [Admission -> Name] /\ Generation \subseteq Admission
    /\ Nobody \notin Admission /\ Reconcile \notin Admission \cup Name
    /\ Nobody # Reconcile
    /\ {MaxCalls, MaxAllocations, ReconcileLimit} \subseteq Nat \ {0}

VARIABLES
    pc,             \* each admission
    job,            \* the preflight of a name: #pending
    lease,          \* #leases: whose request holds the sandbox of a name
    quarantine,     \* #quarantines
    reserved,       \* #callReservations: what is left of each, -1: none
    recent,         \* calls within the window: #providerCallTimestamps
    pass,           \* the reconciliation that runs
    sandbox,        \* what the provider has
    over            \* the expiry of the sandbox, or of the request, has passed

vars == <<pc, job, lease, quarantine, reserved, recent, pass, sandbox, over>>
world == <<sandbox, over>>

Idle == [by |-> Nobody, at |-> "none"]
NoQuarantine == [by |-> Nobody, res |-> Reconcile, stopped |-> FALSE]
NoPass == [retry |-> FALSE, left |-> {}, at |-> "none", on |-> {}]
Asked == {NameOf[a] : a \in Admission}

Init ==
    /\ pc = [a \in Admission |-> "idle"]
    /\ job = [n \in Name |-> Idle]
    /\ lease = [n \in Name |-> Nobody]
    /\ quarantine = [n \in Name |-> NoQuarantine]
    /\ reserved = [o \in Name \cup {Reconcile} |-> -1] /\ recent = 0
    /\ pass = NoPass
    /\ sandbox = [n \in Name |-> n \notin Asked]
    /\ over = [n \in Name |-> FALSE]

Quarantined(n) == quarantine[n] # NoQuarantine
Pending(n) == job[n] # Idle
Leased(n) == lease[n] # Nobody
Held == {n \in Name : Quarantined(n) \/ Pending(n) \/ Leased(n)}
-----------------------------------------------------------------------------
(***************************************************************************)
(* Calls: a reservation is taken before the first one, and each consumes   *)
(* one of it.                                                              *)
(***************************************************************************)
Reserved(r) == MapThenSumSet(LAMBDA o : IF r[o] > 0 THEN r[o] ELSE 0, DOMAIN r)

Fits(count) == recent + Reserved(reserved) + count <= MaxCalls

\* Calls age out of the window.
Age ==
    /\ \E k \in 0 .. recent - 1 : recent' = k
    /\ UNCHANGED <<pc, job, lease, quarantine, reserved, pass, world>>

Expire(n) ==
    /\ ~over[n] /\ over' = [over EXCEPT ![n] = TRUE]
    /\ UNCHANGED <<pc, job, lease, quarantine, reserved, recent, pass, sandbox>>

\* requiredLifecycleCalls: create, probe, inspect, (update, inspect,) stop, delete.
\* A mutant: the call that deletes is not reserved.
BadLifecycleCalls(a) == IF a \in Generation THEN 6 ELSE 4
LifecycleCalls(a) == IF a \in Generation THEN 7 ELSE 5

Call(o) ==
    /\ reserved[o] > 0
    /\ reserved' = [reserved EXCEPT ![o] = @ - 1] /\ recent' = recent + 1
Return(o) == reserved' = [reserved EXCEPT ![o] = -1] /\ UNCHANGED recent
NoCall == UNCHANGED <<reserved, recent>>

\* ensureCleanupReservation, then the first call of destroy.
CleanupCall(o, stopped) ==
    LET needed == IF stopped THEN 1 ELSE 2
        more == IF reserved[o] >= needed THEN 0 ELSE needed - reserved[o]
    IN  /\ more > 0 => Fits(more)
        /\ reserved' = [reserved EXCEPT ![o] = @ + more - 1] /\ recent' = recent + 1
CleanupDenied(o, stopped) ==
    LET needed == IF stopped THEN 1 ELSE 2
    IN  reserved[o] < needed /\ ~Fits(needed - reserved[o])
\* A call that failed: a deletion may have taken effect.
LostAnswer(n, call) ==
    \/ UNCHANGED sandbox
    \/ call = "delete" /\ sandbox' = [sandbox EXCEPT ![n] = FALSE]
FirstCall(stopped) == IF stopped THEN "delete" ELSE "stop"
-----------------------------------------------------------------------------
(***************************************************************************)
(* preflight                                                               *)
(***************************************************************************)

MayCreate(a) ==
    LET n == NameOf[a]
    IN  /\ ~Quarantined(n) /\ ~Leased(n) /\ ~Pending(n)
        /\ Cardinality(Held) < MaxAllocations
        /\ reserved[n] = -1 /\ Fits(LifecycleCalls(a))

\* The lifecycle is reserved and the first call is sent.
Preflight(a) ==
    LET n == NameOf[a]
    IN  /\ pc[a] = "idle" /\ MayCreate(a)
        /\ pc' = [pc EXCEPT ![a] = "waiting"]
        /\ job' = [job EXCEPT ![n] = [by |-> a, at |-> "create"]]
        /\ reserved' = [reserved EXCEPT ![n] = LifecycleCalls(a) - 1]
        /\ recent' = recent + 1
        /\ over' = [over EXCEPT ![n] = FALSE]
        /\ UNCHANGED <<lease, quarantine, pass, sandbox>>

\* cleanupPending, incompatible or quotaExceeded.  The release that follows finds
\* neither a lease nor a quarantine of this input, and does nothing.
PreflightRefused(a) ==
    /\ pc[a] = "idle" /\ ~MayCreate(a)
    /\ pc' = [pc EXCEPT ![a] = "refused"]
    /\ UNCHANGED <<job, lease, quarantine, reserved, recent, pass, world>>

\* The admission gives up; what it calls release for now is still pending, and
\* the late answer is released when it comes.
TimeOut(a) ==
    /\ pc[a] = "waiting"
    /\ pc' = [pc EXCEPT ![a] = "late"]
    /\ UNCHANGED <<job, lease, quarantine, reserved, recent, pass, world>>

Following(n) ==
    CASE job[n].at = "create" -> "probe"
      [] job[n].at = "probe" -> "inspect"
      [] job[n].at = "inspect" ->
            IF job[n].by \in Generation THEN "update" ELSE "verify"
      [] job[n].at = "update" -> "reinspect"
      [] job[n].at = "reinspect" -> "verify"

Probing(n) == job[n].at \in {"create", "probe", "inspect", "update", "reinspect"}
Effect(n) ==
    sandbox' = IF job[n].at = "create" THEN [sandbox EXCEPT ![n] = TRUE] ELSE sandbox

\* The call in flight is answered: the next is sent.
Answered(n) ==
    /\ Probing(n) /\ Effect(n) /\ sandbox'[n]
    /\ job[n].at \in {"inspect", "reinspect"} => ~over[n]
    /\ job' = [job EXCEPT ![n].at = Following(n)]
    /\ IF Following(n) = "verify" THEN NoCall ELSE Call(n)
    /\ UNCHANGED <<pc, lease, quarantine, pass, over>>

\* It fails, is answered with another record, or the evidence is refused: destroy.
ProbeFails(n) ==
    /\ \/ Probing(n) /\ (Effect(n) \/ UNCHANGED sandbox)
       \/ job[n].at = "verify" /\ UNCHANGED sandbox
    /\ job' = [job EXCEPT ![n].at = "stop"] /\ Call(n)
    /\ UNCHANGED <<pc, lease, quarantine, pass, over>>

\* What becomes of the admission that asked: one that waits is answered; for one
\* that gave up, or is told no, release is called.
Settled(n, answer) ==
    LET a == job[n].by
    IN  pc' = [pc EXCEPT ![a] = IF @ = "late" \/ answer = "release" THEN "release"
                                ELSE answer]

\* The lease is stored; the admission validates the attestation.
Granted(n) ==
    /\ job[n].at = "verify" /\ sandbox[n]
    /\ lease' = [lease EXCEPT ![n] = job[n].by]
    /\ job' = [job EXCEPT ![n] = Idle]
    /\ \E answer \in IF over[n] THEN {"release"} ELSE {"accepted", "release"} :
            Settled(n, answer)
    /\ UNCHANGED <<quarantine, pass, world>> /\ NoCall

ProbeStopped(n) ==
    /\ job[n].at = "stop" /\ sandbox[n]
    /\ job' = [job EXCEPT ![n].at = "delete"] /\ Call(n)
    /\ UNCHANGED <<pc, lease, quarantine, pass, world>>

ProbeDeleted(n) ==
    /\ job[n].at = "delete" /\ sandbox[n]
    /\ sandbox' = [sandbox EXCEPT ![n] = FALSE]
    /\ job' = [job EXCEPT ![n] = Idle] /\ Return(n)
    /\ Settled(n, "release")
    /\ UNCHANGED <<lease, quarantine, pass, over>>

\* A mutant: a sandbox that could not be deleted is forgotten.
BadProbeQuarantined(n) ==
    /\ job[n].at \in {"stop", "delete"}
    /\ job' = [job EXCEPT ![n] = Idle] /\ Return(n) /\ Settled(n, "release")
    /\ UNCHANGED <<lease, quarantine, pass, world>>

\* failedProbe: deletion is uncertain.
ProbeQuarantined(n) ==
    /\ job[n].at \in {"stop", "delete"}
    /\ quarantine' = [quarantine EXCEPT ![n] =
            [by |-> job[n].by, res |-> n, stopped |-> job[n].at = "delete"]]
    /\ job' = [job EXCEPT ![n] = Idle] /\ Settled(n, "release")
    /\ LostAnswer(n, job[n].at)
    /\ UNCHANGED <<lease, pass, over>> /\ NoCall
-----------------------------------------------------------------------------
(***************************************************************************)
(* release, called by the admission.                                       *)
(***************************************************************************)
Stopped(a) == LET n == NameOf[a] IN ~Leased(n) /\ quarantine[n].stopped
Mine(a) ==
    LET n == NameOf[a]
    IN  lease[n] = a \/ (~Leased(n) /\ quarantine[n].by = a)
ResOf(a) == NameOf[a]

Release(a) ==
    /\ pc[a] = "release" /\ Mine(a)
    /\ CleanupCall(ResOf(a), Stopped(a))
    /\ pc' = [pc EXCEPT ![a] = FirstCall(Stopped(a))]
    /\ UNCHANGED <<job, lease, quarantine, pass, world>>

\* Neither a lease nor a quarantine of this input is left.
ReleaseNothing(a) ==
    /\ pc[a] = "release" /\ ~Mine(a)
    /\ pc' = [pc EXCEPT ![a] = "refused"]
    /\ UNCHANGED <<job, lease, quarantine, reserved, recent, pass, world>>

\* The window leaves no call for it: a lease is quarantined, a quarantine stays.
ReleaseUncertain(n, a, stopped) ==
    quarantine' = IF lease[n] = a
                  THEN [quarantine EXCEPT ![n] = [by |-> a, res |-> n, stopped |-> stopped]]
                  ELSE IF quarantine[n].by = a
                       THEN [quarantine EXCEPT ![n].stopped = stopped] ELSE quarantine

ReleaseDenied(a) ==
    /\ pc[a] = "release" /\ Mine(a) /\ CleanupDenied(ResOf(a), Stopped(a))
    /\ ReleaseUncertain(NameOf[a], a, Stopped(a))
    /\ pc' = [pc EXCEPT ![a] = "refused"]
    /\ UNCHANGED <<job, lease, pass, world>> /\ NoCall

ReleaseStopped(a) ==
    /\ pc[a] = "stop" /\ sandbox[NameOf[a]]
    /\ Call(ResOf(a))
    /\ pc' = [pc EXCEPT ![a] = "delete"]
    /\ UNCHANGED <<job, lease, quarantine, pass, world>>

ReleaseDeleted(a) ==
    LET n == NameOf[a]
    IN  /\ pc[a] = "delete" /\ sandbox[n]
        /\ sandbox' = [sandbox EXCEPT ![n] = FALSE]
        /\ lease' = [lease EXCEPT ![n] = Nobody]
        /\ quarantine' = [quarantine EXCEPT ![n] = NoQuarantine]
        /\ Return(ResOf(a))
        /\ pc' = [pc EXCEPT ![a] = "refused"]
        /\ UNCHANGED <<job, pass, over>>

ReleaseFails(a) ==
    LET n == NameOf[a]
    IN  /\ pc[a] \in {"stop", "delete"}
        /\ ReleaseUncertain(n, a, pc[a] = "delete")
        /\ pc' = [pc EXCEPT ![a] = "refused"]
        /\ LostAnswer(n, pc[a])
        /\ UNCHANGED <<job, lease, pass, over>> /\ NoCall
-----------------------------------------------------------------------------
(***************************************************************************)
(* reconcile: what it quarantined before comes first; otherwise a bounded  *)
(* list of expired sandboxes, as they were when the list was answered.     *)
(***************************************************************************)
Own == {n \in Name : quarantine[n].by = Reconcile}
PassEnds == pass' = NoPass
PassQuiet == UNCHANGED <<pc, job, lease, over>>

ReconcileRetries ==
    /\ pass = NoPass /\ Own # {}
    /\ pass' = [NoPass EXCEPT !.retry = TRUE, !.at = "next",
                !.left = {[name |-> n, stopped |-> quarantine[n].stopped] : n \in Own}]
    /\ PassQuiet /\ UNCHANGED <<quarantine, sandbox>> /\ NoCall

ReconcileLists ==
    LET count == 2 + 2 * ReconcileLimit
    IN  /\ pass = NoPass /\ Own = {}
        /\ reserved[Reconcile] = -1 /\ Fits(count)
        /\ reserved' = [reserved EXCEPT ![Reconcile] = count - 1] /\ recent' = recent + 1
        /\ pass' = [NoPass EXCEPT !.at = "list"]
        /\ PassQuiet /\ UNCHANGED <<quarantine, sandbox>>

\* The answer consumes a second call.
ReconcileListed ==
    /\ pass.at = "list" /\ Call(Reconcile)
    /\ LET live == {n \in Name : sandbox[n]}
           all == Cardinality(live) <= ReconcileLimit
       IN  \E found \in IF all THEN {live} ELSE kSubset(ReconcileLimit, live) :
                pass' = [pass EXCEPT !.at = "next",
                    !.left = {[name |-> n, stopped |-> FALSE] : n \in found}]
    /\ PassQuiet /\ UNCHANGED <<quarantine, sandbox>>

ReconcileListFails ==
    /\ pass.at = "list"
    /\ PassEnds /\ Return(Reconcile)
    /\ PassQuiet /\ UNCHANGED <<quarantine, sandbox>>

\* The next of them; of those listed, one that has expired by now.
ReconcileDestroys(r) ==
    /\ pass.at = "next" /\ r \in pass.left /\ (pass.retry \/ over[r.name])
    /\ IF pass.retry THEN CleanupCall(Reconcile, r.stopped) ELSE Call(Reconcile)
    /\ pass' = [pass EXCEPT !.left = @ \ {r}, !.on = {r.name},
                            !.at = FirstCall(r.stopped)]
    /\ PassQuiet /\ UNCHANGED <<quarantine, sandbox>>

ReconcileSkips(r) ==
    /\ pass.at = "next" /\ r \in pass.left /\ ~pass.retry /\ ~over[r.name]
    /\ pass' = [pass EXCEPT !.left = @ \ {r}]
    /\ PassQuiet /\ UNCHANGED <<quarantine, sandbox>> /\ NoCall

ReconcileDenied(r) ==
    /\ pass.at = "next" /\ r \in pass.left /\ pass.retry
    /\ CleanupDenied(Reconcile, r.stopped)
    /\ PassEnds /\ PassQuiet /\ UNCHANGED <<quarantine, sandbox>> /\ NoCall

ReconcileStopped(n) ==
    /\ pass.at = "stop" /\ n \in pass.on /\ sandbox[n]
    /\ pass' = [pass EXCEPT !.at = "delete"] /\ Call(Reconcile)
    /\ quarantine' = IF quarantine[n].by = Reconcile
                     THEN [quarantine EXCEPT ![n].stopped = TRUE] ELSE quarantine
    /\ PassQuiet /\ UNCHANGED sandbox

\* Whatever is quarantined under the name is dropped with it.
ReconcileDeleted(n) ==
    /\ pass.at = "delete" /\ n \in pass.on /\ sandbox[n]
    /\ sandbox' = [sandbox EXCEPT ![n] = FALSE]
    /\ quarantine' = [quarantine EXCEPT ![n] = NoQuarantine]
    /\ pass' = [pass EXCEPT !.on = {}, !.at = "next"]
    /\ IF pass.retry /\ Own \ {n} = {} THEN Return(Reconcile) ELSE NoCall
    /\ PassQuiet

\* The pass ends at the first sandbox that resists.
ReconcileFails(n) ==
    /\ pass.at \in {"stop", "delete"} /\ n \in pass.on
    /\ quarantine' = IF pass.retry THEN quarantine
                     ELSE [quarantine EXCEPT ![n] =
                            [by |-> Reconcile, res |-> Reconcile,
                             stopped |-> pass.at = "delete"]]
    /\ LostAnswer(n, pass.at)
    /\ PassEnds /\ PassQuiet /\ NoCall

ReconcileEnds ==
    /\ pass.at = "next" /\ pass.left = {}
    /\ PassEnds
    /\ IF pass.retry THEN NoCall ELSE Return(Reconcile)
    /\ PassQuiet /\ UNCHANGED <<quarantine, sandbox>>

Preflights(n) ==
    \/ Answered(n) \/ ProbeFails(n) \/ Granted(n)
    \/ ProbeStopped(n) \/ ProbeDeleted(n) \/ ProbeQuarantined(n)
Admissions(a) == Preflight(a) \/ PreflightRefused(a) \/ TimeOut(a)
Releases(a) ==
    \/ Release(a) \/ ReleaseNothing(a) \/ ReleaseDenied(a)
    \/ ReleaseStopped(a) \/ ReleaseDeleted(a) \/ ReleaseFails(a)
Reconciles ==
    \/ ReconcileRetries \/ ReconcileLists \/ ReconcileListed \/ ReconcileListFails
    \/ \E r \in pass.left : ReconcileDestroys(r) \/ ReconcileSkips(r) \/ ReconcileDenied(r)
    \/ \E n \in pass.on : ReconcileStopped(n) \/ ReconcileDeleted(n) \/ ReconcileFails(n)
    \/ ReconcileEnds

Next ==
    \/ Age \/ Reconciles
    \/ \E a \in Admission : Admissions(a) \/ Releases(a)
    \/ \E n \in Name : Expire(n) \/ Preflights(n)

Spec == Init /\ [][Next]_vars
-----------------------------------------------------------------------------
\* Calls made in the window and calls reserved never exceed the limit of the
\* provider, reconciliation included, however preflights, releases and
\* reconciliations interleave and reservations come and go.
RateBound == recent + Reserved(reserved) <= MaxCalls

\* A sandbox of this process that may exist is pending, leased or quarantined: no
\* failure, timeout or race of a release with a reconciliation forgets it.
NoSandboxForgotten == \A n \in Asked : sandbox[n] => n \in Held

\* The calls that stop and delete a sandbox are reserved as long as it is probed or
\* leased, so that a closed window cannot strand it.
CleanupIsPaid ==
    \A n \in Name :
        /\ Probing(n) \/ job[n].at = "verify" => reserved[n] >= 2
        /\ job[n].at = "stop" => reserved[n] >= 1
        /\ Leased(n) /\ sandbox[n] /\ ~Quarantined(n) /\ pc[lease[n]] \notin {"stop", "delete"} =>
            reserved[n] >= 2

\* A name is used for a creation only when what was there is known to be gone.
NameIsFree == \A n \in Asked : job[n].at = "create" => ~sandbox[n]

\* A reconciliation that is over and left no quarantine gave its calls back (the
\* test "retries quarantined reconciliation cleanup and releases its durable
\* reservation"): the next one can be reserved.  It does not hold: the deletion that
\* is tried again keeps the reservation of a pass that failed.
ReconcileReturned == pass = NoPass /\ Own = {} => reserved[Reconcile] = -1
=============================================================================
