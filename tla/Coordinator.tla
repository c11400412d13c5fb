---------------------------- MODULE Coordinator ----------------------------
(***************************************************************************)
(* CompilationCoordinator of runner/src/studio/compilation/coordinator.ts: *)
(* one compilation operation, driven by runner processes that may crash    *)
(* and be replaced, or run side by side when a client retries elsewhere.   *)
(* The operation record is written by compare-and-set on its revision; the *)
(* sandbox, the artifact broker and the ledger are reached through ports   *)
(* whose calls may fail, may take effect with their reply lost, and may    *)
(* time out and take effect later.                                         *)
(*                                                                         *)
(* A boundary call is two steps, the effect at the port and the reply.     *)
(* The ledger port has the actions of JobReservation and, as the ledger    *)
(* does, refuses a call whose anchor is not its current revision.          *)
(***************************************************************************)
EXTENDS Integers, FiniteSets

CONSTANTS
    Proc,           \* runner processes
    NoOne,          \* owner of a call whose process has ended
    MaxFaults,      \* bound: failures, lost replies, timeouts, crashes, and
                    \* ledger transitions of other jobs
    MaxGeneration   \* bound: recoveries of the operation

ASSUME CoordinatorAssumption ==
    /\ NoOne \notin Proc
    /\ MaxFaults \in Nat /\ MaxGeneration \in Nat

VARIABLES
    op,         \* the stored operation
    local,      \* what each process holds: its call and its local variables
    late,       \* calls that timed out or outlived their process
    status, created,    \* the job's reservation in the ledger
    ledgerRevision,     \* the revision of the whole ledger
    freed,      \* whether ledger.release has been applied
    sandbox,    \* "none", "live" or "gone"
    creations,  \* number of sandboxes created
    broker,     \* "none", "held", "released", "revoked", "withdrawn"
    faults

ledgerVars == <<status, created, ledgerRevision, freed>>
portVars == <<ledgerVars, sandbox, creations, broker>>
vars == <<op, local, late, portVars, faults>>

Ledger == INSTANCE JobReservation

-----------------------------------------------------------------------------
Rank == [created |-> 0, reserved |-> 1, allocated |-> 2, observed |-> 3,
         sealed |-> 4, ingressed |-> 5, executed |-> 6, verified |-> 7,
         brokerCopied |-> 8, cleaned |-> 9, ledgerSettled |-> 10,
         egressAuthorized |-> 11, artifactReleased |-> 12,
         ledgerReleased |-> 13]
Phases == DOMAIN Rank

\* The phase that #run saves when a call has returned, and its next call.
SavedAs == [reserve |-> "reserved", retryBeforeCreate |-> "reserved",
            acquire |-> "allocated", observeCreate |-> "observed",
            seal |-> "sealed", ingress |-> "ingressed",
            execute |-> "executed", verify |-> "verified",
            copyVerified |-> "brokerCopied", cleanupOnce |-> "cleaned",
            settle |-> "ledgerSettled", retain |-> "ledgerSettled",
            egress |-> "egressAuthorized", release |-> "artifactReleased"]
FollowedBy == [reserve |-> "acquire", retryBeforeCreate |-> "acquire",
               acquire |-> "observeCreate", observeCreate |-> "seal",
               seal |-> "ingress", ingress |-> "execute",
               execute |-> "verify", verify |-> "copyVerified",
               copyVerified |-> "cleanupOnce", settle |-> "egress",
               retain |-> "revoke", egress |-> "release",
               release |-> "ledgerRelease"]

LedgerCalls == {"reserve", "retryBeforeCreate", "observeCreate", "settle",
                "retain", "ledgerRelease", "reconcileRelease"}
GuestCalls == {"seal", "ingress", "execute", "verify"}
PortCalls == LedgerCalls \cup GuestCalls
             \cup {"acquire", "copyVerified", "cleanupOnce", "release", "revoke"}
Pcs == PortCalls \cup {"idle", "fence", "egress", "converge", "terminal"}

Cleanups == {"none", "certain", "uncertain"}
Outcomes == {"released", "quarantined", "failed"}

\* A reply: pending, failed, or done with the ledger's revision as anchor and
\* whether an acquisition or a cleanup was certain.
NoReply == [is |-> "pending", anchor |-> 0, sure |-> FALSE]
Failed == [is |-> "failed", anchor |-> 0, sure |-> FALSE]

NoOperation ==
    [state |-> "none", phase |-> "created", generation |-> 0, revision |-> 0,
     reservation |-> FALSE, allocation |-> FALSE, cleanup |-> "none",
     anchor |-> 0, resultAnchor |-> 0]

Idle ==
    [pc |-> "idle", mode |-> "run", reply |-> NoReply, phase |-> "created",
     generation |-> 0, revision |-> 0, reservation |-> FALSE,
     allocation |-> FALSE, cleanup |-> "none", broker |-> FALSE,
     intent |-> FALSE, anchor |-> 0, contextAnchor |-> 0, retried |-> FALSE,
     verdict |-> "failed", tries |-> 0]

Init ==
    /\ op = NoOperation
    /\ local = [p \in Proc |-> Idle]
    /\ late = {}
    /\ Ledger!Init
    /\ ledgerRevision = 0
    /\ freed = FALSE
    /\ sandbox = "none"
    /\ creations = 0
    /\ broker = "none"
    /\ faults = 0

\* validateContext and storedResult: what a stored operation must look like,
\* or every later load of it throws.
Readable(o) ==
    LET rank == Rank[o.phase] IN
    /\ o.reservation <=> rank >= 1
    /\ o.allocation <=> rank >= 2
    /\ o.cleanup # "none" => o.allocation
    /\ IF o.state = "running"
       THEN (o.cleanup # "none") <=> rank >= 9
       ELSE rank >= 9 => o.cleanup # "none"
    /\ o.state = "released" => o.phase = "ledgerReleased"
    /\ o.state \in Outcomes => o.resultAnchor = o.anchor

Goto(m, pc) == [m EXCEPT !.pc = pc, !.reply = NoReply]
Continue(p, m) == local' = [local EXCEPT ![p] = m]
Fault == faults < MaxFaults /\ faults' = faults + 1

-----------------------------------------------------------------------------
\* The effect of call c, made with anchor a, at its port.
LedgerStep(c) ==
    CASE c = "reserve" -> Ledger!Reserve
      [] c = "retryBeforeCreate" -> Ledger!RetryBeforeCreate
      [] c = "observeCreate" -> Ledger!ObserveCreate
      [] c = "settle" -> Ledger!Settle
      [] c = "retain" -> Ledger!Retain
      [] c = "ledgerRelease" -> Ledger!Release

LedgerEffect(c, a, sure) ==
    /\ ~sure
    /\ \/ /\ c \in LedgerCalls \ {"reconcileRelease"}
          /\ a = ledgerRevision
          /\ LedgerStep(c)
          /\ ledgerRevision' = ledgerRevision + 1
          /\ freed' = (freed \/ c = "ledgerRelease")
       \/ /\ c = "reconcileRelease"
          /\ freed /\ a < ledgerRevision
          /\ UNCHANGED ledgerVars
       \* An exact replay of the receipt: nothing changes, nothing is refused.
       \/ /\ c = "settle"
          /\ a = ledgerRevision /\ status = "settled"
          /\ UNCHANGED ledgerVars
    /\ UNCHANGED <<sandbox, creations, broker>>

\* acquire creates a sandbox, or answers that it certainly created none.
AcquireEffect(c, sure) ==
    /\ c = "acquire"
    /\ sandbox' = IF sure THEN "live" ELSE sandbox
    /\ creations' = IF sure THEN creations + 1 ELSE creations
    /\ UNCHANGED <<ledgerVars, broker>>

\* cleanupOnce stops and deletes the sandbox, certainly or perhaps.
CleanupEffect(c, sure) ==
    /\ c = "cleanupOnce"
    /\ sandbox' \in IF sure THEN {"gone"} ELSE {sandbox, "gone"}
    /\ UNCHANGED <<ledgerVars, creations, broker>>

BrokerEffect(c, sure) ==
    /\ ~sure
    /\ \/ c = "copyVerified" /\ broker = "none" /\ broker' = "held"
       \/ c = "release" /\ broker = "held" /\ broker' = "released"
       \/ c = "revoke" /\ broker = "held" /\ broker' = "revoked"
       \/ c = "revoke" /\ broker = "released" /\ broker' = "withdrawn"
       \/ c = "revoke" /\ broker \in {"revoked", "withdrawn"}
          /\ UNCHANGED broker
    /\ UNCHANGED <<ledgerVars, sandbox, creations>>

GuestEffect(c, sure) == c \in GuestCalls /\ ~sure /\ UNCHANGED portVars

PortEffect(c, a, sure) ==
    \/ LedgerEffect(c, a, sure)
    \/ AcquireEffect(c, sure)
    \/ CleanupEffect(c, sure)
    \/ BrokerEffect(c, sure)
    \/ GuestEffect(c, sure)

Answer(sure) == [is |-> "done", anchor |-> ledgerRevision', sure |-> sure]

\* The port performs the call that process p waits for.  What a guest call
\* does shows nowhere else: its reply needs no step of its own.
Effect(p) ==
    LET m == local[p] IN
    /\ m.pc \in PortCalls \ GuestCalls /\ m.reply = NoReply
    /\ \E sure \in BOOLEAN :
        /\ PortEffect(m.pc, m.anchor, sure)
        /\ Continue(p, [m EXCEPT !.reply = Answer(sure)])
    /\ UNCHANGED <<op, late, faults>>

\* The ledger refuses a stale anchor, and whatever its rules forbid.
MustRefuse(c, a) ==
    \/ c \in LedgerCalls \ {"reconcileRelease"} /\ a # ledgerRevision
    \/ c = "reserve" /\ status # "none"
    \/ c = "retryBeforeCreate" /\ (status # "reserved" \/ created)
    \/ c = "observeCreate" /\ (status \notin {"reserved", "retained"} \/ created)
    \/ c \in {"settle", "retain"} /\ status \notin Ledger!Holding
    \/ c = "ledgerRelease" /\ status # "settled"
    \/ c = "reconcileRelease" /\ ~(freed /\ a < ledgerRevision)
    \/ c = "copyVerified" /\ broker # "none"
    \/ c = "release" /\ broker # "held"

Refuse(p) ==
    LET m == local[p] IN
    /\ m.pc \in PortCalls /\ m.reply = NoReply
    /\ MustRefuse(m.pc, m.anchor)
    /\ Continue(p, [m EXCEPT !.reply = Failed])
    /\ UNCHANGED <<op, late, portVars, faults>>

\* The call fails with no effect, or its reply is lost or fails validation
\* (for a phase call: its capability is not issued, or not consumed).
Fail(p) ==
    LET m == local[p] IN
    /\ m.pc \in PortCalls \cup {"egress"} /\ m.reply.is # "failed"
    /\ Fault
    /\ Continue(p, [m EXCEPT !.reply = Failed])
    /\ UNCHANGED <<op, late, portVars>>

-----------------------------------------------------------------------------
\* The compare-and-set of the operation store, and what #checkpoint and
\* #terminal write: the process's own view of the operation.
Current(m) == op.revision = m.revision
Bumped(m) == m.revision + 1
Record(m, s) ==
    [state |-> s, phase |-> m.phase, generation |-> m.generation,
     revision |-> Bumped(m), reservation |-> m.reservation,
     allocation |-> m.allocation, cleanup |-> m.cleanup,
     anchor |-> IF s = "released" THEN m.contextAnchor ELSE m.anchor,
     resultAnchor |-> IF s = "running" THEN 0 ELSE m.anchor]

Certainty(sure) == IF sure THEN "certain" ELSE "uncertain"
CleanupAfter(m) ==
    IF m.pc = "cleanupOnce" THEN Certainty(m.reply.sure) ELSE m.cleanup

\* The local variables once the reply of the call has been taken over.
Adopt(m) ==
    [m EXCEPT !.reservation = @ \/ m.pc = "reserve",
              !.allocation = @ \/ m.pc = "acquire",
              !.broker = @ \/ m.pc = "copyVerified",
              !.intent = @ \/ m.pc = "egress",
              !.cleanup = CleanupAfter(m),
              !.anchor = IF m.pc \in LedgerCalls THEN m.reply.anchor ELSE @]

\* A certain cleanup settles the reservation, any other one retains it.
BadAfterCleanup(m) == "settle"
AfterCleanup(m) == IF m.cleanup = "certain" THEN "settle" ELSE "retain"

\* The catch clause of #run.  After the intent to release is stored the error
\* is thrown on and the operation stays running for a recovery; a cleanup or
\* a settlement that timed out is not repeated.
BadThrowsOn(m) == FALSE
ThrowsOn(m) == m.intent
Caught(m, repeat) ==
    IF ThrowsOn(m) THEN Idle
    ELSE [Goto(m, IF m.allocation /\ repeat THEN "cleanupOnce"
                  ELSE IF m.reservation THEN "retain" ELSE "terminal")
          EXCEPT !.mode = "catch", !.tries = 0,
                 !.verdict = IF m.allocation THEN "quarantined" ELSE "failed"]

\* Where #recover resumes an operation that was left at phase m.phase.
Resumed(m) ==
    LET rank == Rank[m.phase] IN
    IF rank = 13
    THEN [Goto(m, "terminal") EXCEPT !.verdict = "released"]
    ELSE IF rank = 12
    THEN [Goto(m, "ledgerRelease") EXCEPT !.verdict = "released"]
    ELSE [Goto(m, IF m.broker THEN "revoke"
                  ELSE IF m.allocation THEN "cleanupOnce"
                  ELSE IF m.reservation THEN "retain" ELSE "terminal")
          EXCEPT !.verdict = IF m.allocation THEN "quarantined" ELSE "failed"]

-----------------------------------------------------------------------------
\* compile and #start of a new operation.
Start(p) ==
    /\ local[p] = Idle
    /\ op = NoOperation
    /\ op' = [op EXCEPT !.state = "running", !.generation = 1]
    /\ Continue(p, [Idle EXCEPT !.pc = "reserve", !.generation = 1])
    /\ UNCHANGED <<late, portVars, faults>>

\* #start of a running operation: its record is read...
Load(p) ==
    /\ local[p] = Idle
    /\ op.state = "running" /\ Readable(op)
    /\ Continue(p, [Idle EXCEPT
            !.pc = "fence", !.mode = "recover", !.phase = op.phase,
            !.generation = op.generation, !.revision = op.revision,
            !.reservation = op.reservation, !.allocation = op.allocation,
            !.cleanup = op.cleanup, !.broker = Rank[op.phase] >= 8,
            !.intent = Rank[op.phase] >= 11,
            !.anchor = op.anchor, !.contextAnchor = op.anchor])
    /\ UNCHANGED <<op, late, portVars, faults>>

\* ... and written back under a new generation, which fences the process that
\* ran it: every later save of that process fails.
Fence(p) ==
    LET m == [local[p] EXCEPT !.generation = @ + 1] IN
    /\ m.pc = "fence"
    /\ m.generation <= MaxGeneration
    /\ IF Current(m)
       THEN /\ op' = Record(m, "running")
            /\ Continue(p, Resumed([m EXCEPT !.revision = @ + 1]))
       ELSE Continue(p, Idle) /\ UNCHANGED op
    /\ UNCHANGED <<late, portVars, faults>>

\* A phase of #run: the reply is taken over and the next phase is saved.
BadAnswered(m) == m.reply.is # "pending" \/ m.pc \in GuestCalls \cup {"egress"}
Answered(m) ==
    \/ m.reply.is = "done"
    \/ m.pc \in GuestCalls \cup {"egress"} /\ m.reply = NoReply
Created(m) == m.pc = "acquire" => m.reply.sure
Save(p) ==
    LET m == Adopt(local[p])
        saved == [m EXCEPT !.phase = SavedAs[m.pc]]
        next == IF m.pc = "cleanupOnce" THEN AfterCleanup(m)
                ELSE FollowedBy[m.pc]
    IN  /\ m.mode = "run" /\ m.pc \in DOMAIN SavedAs
        /\ Answered(m) /\ Created(m)
        /\ \/ /\ Current(m)
              /\ op' = Record(saved, "running")
              /\ Continue(p, Goto([saved EXCEPT !.revision = @ + 1], next))
              /\ UNCHANGED faults
           \/ /\ ~Current(m)
              /\ Continue(p, Caught(m, TRUE))
              /\ UNCHANGED <<op, faults>>
           \* The store throws, with the record written or not.
           \/ /\ Fault
              /\ \/ Current(m) /\ op' = Record(saved, "running")
                 \/ UNCHANGED op
              /\ Continue(p, Caught(m, TRUE))
        /\ UNCHANGED <<late, portVars>>

\* Only an answer that certainly no sandbox was created is tried again, once.
BadMayRetry(m) == ~m.retried
MayRetry(m) == ~m.retried /\ m.reply.is = "done" /\ ~m.reply.sure
RetryAcquire(p) ==
    LET m == local[p] IN
    /\ m.mode = "run" /\ m.pc = "acquire"
    /\ m.reply.is = "failed" \/ ~Created(m)
    /\ m.reply # NoReply
    /\ Continue(p, IF MayRetry(m)
                   THEN Goto([m EXCEPT !.retried = TRUE], "retryBeforeCreate")
                   ELSE Caught(m, TRUE))
    /\ UNCHANGED <<op, late, portVars, faults>>

RunFailed(p) ==
    LET m == local[p] IN
    /\ m.mode = "run" /\ m.pc # "acquire" /\ m.reply.is = "failed"
    /\ Continue(p, Caught(m, TRUE))
    /\ UNCHANGED <<op, late, portVars, faults>>

\* The calls of #run after which nothing is saved: the revocation after an
\* uncertain cleanup, and the last ledger call.
RunEnds(p) ==
    LET m == Adopt(local[p]) IN
    /\ m.mode = "run" /\ m.reply.is = "done"
    /\ \/ /\ m.pc = "revoke"
          /\ Continue(p, [Goto(m, "terminal") EXCEPT !.verdict = "quarantined"])
       \/ /\ m.pc = "ledgerRelease"
          /\ Continue(p, [Goto(m, "converge") EXCEPT !.verdict = "released"])
    /\ UNCHANGED <<op, late, portVars, faults>>

\* A retention that fails within the try block is tried once more.
BadGivesUp(m) == FALSE
GivesUp(m) == m.tries = 0

\* What is left once the reservation is settled or retained.
Held(m) ==
    [Goto(m, IF m.mode = "catch" /\ m.broker THEN "revoke" ELSE "terminal")
     EXCEPT !.tries = 0]

\* The catch clause and #recover after each call, answered or not.
WindDown(p) ==
    LET m == IF local[p].reply.is = "done" THEN Adopt(local[p]) ELSE local[p]
        ok == m.reply.is = "done"
    IN  /\ m.mode \in {"catch", "recover"} /\ m.reply # NoReply
        /\ \/ /\ m.pc = "cleanupOnce"
              /\ Continue(p, IF ok
                             THEN [Goto(m, AfterCleanup(m)) EXCEPT !.tries = 1]
                             ELSE Goto(m, "retain"))
           \/ /\ m.pc = "settle"
              /\ Continue(p, IF ok THEN Held(m)
                             ELSE [Goto(m, "retain") EXCEPT !.tries = 0])
           \/ /\ m.pc = "retain"
              /\ Continue(p, IF ok \/ GivesUp(m)
                             THEN Held(m)
                             ELSE [Goto(m, "retain") EXCEPT !.tries = 0])
           \/ /\ m.pc = "revoke"
              /\ Continue(p, Goto(m, IF m.mode = "catch" THEN "terminal"
                                     ELSE IF m.cleanup # "none" THEN "retain"
                                     ELSE "cleanupOnce"))
           \/ /\ m.pc = "ledgerRelease"
              /\ Continue(p, Goto(m, IF ok THEN "converge"
                                     ELSE "reconcileRelease"))
           \/ /\ m.pc = "reconcileRelease"
              /\ Continue(p, IF ok THEN Goto(m, "converge") ELSE Idle)
        /\ UNCHANGED <<op, late, portVars, faults>>

\* #convergeLedgerReleased: the operation moves to its last phase, whoever
\* brings the ledger's answer a.  A compare-and-set that misses is repeated.
Convergeable ==
    Readable(op) /\ (op.state = "running" => Rank[op.phase] >= 12)
Converge(a) ==
    op' = IF op.state = "running" /\ op.phase = "artifactReleased"
          THEN [op EXCEPT !.phase = "ledgerReleased", !.anchor = a,
                          !.revision = @ + 1]
          ELSE op
ConvergeAndGo(p) ==
    LET m == local[p] IN
    /\ m.pc = "converge"
    /\ IF Convergeable
       THEN /\ Converge(m.anchor)
            /\ Continue(p, [Goto(m, "terminal") EXCEPT
                    !.phase = op'.phase, !.generation = op'.generation,
                    !.revision = op'.revision, !.contextAnchor = op'.anchor])
       ELSE UNCHANGED op /\ Continue(p, Idle)
    /\ UNCHANGED <<late, portVars, faults>>

\* #terminal: the outcome is written, over whatever a running operation holds,
\* unless another process has ended it.  Three attempts.
BadYields == FALSE
Yields == op.state # "running"
Terminal(p) ==
    LET m == local[p] IN
    /\ m.pc = "terminal"
    /\ \/ /\ Current(m)
          /\ op' = Record(m, m.verdict)
          /\ Continue(p, Idle)
          /\ UNCHANGED faults
       \/ /\ ~Current(m)
          /\ Continue(p, IF ~Readable(op) \/ Yields \/ m.tries = 2 THEN Idle
                         ELSE [m EXCEPT !.revision = op.revision,
                                        !.tries = @ + 1])
          /\ UNCHANGED <<op, faults>>
       \/ /\ Fault
          /\ Continue(p, Idle)
          /\ UNCHANGED op
    /\ UNCHANGED <<late, portVars>>

-----------------------------------------------------------------------------
\* withTimeout: the caller goes on as after an error; the call is not undone.
Timed(m) ==
    CASE m.mode = "run" -> PortCalls \ {"revoke"}
      [] m.mode = "catch" -> {"cleanupOnce", "settle"}
      [] m.mode = "recover" -> PortCalls \ {"revoke"}
Pending(p, owner) ==
    [call |-> local[p].pc, mode |-> local[p].mode, owner |-> owner,
     generation |-> local[p].generation, anchor |-> local[p].anchor,
     reply |-> local[p].reply]
Timeout(p) ==
    LET m == local[p] IN
    /\ m.pc \in Timed(m) /\ m.reply.is # "failed"
    /\ Fault
    /\ late' = late \cup {Pending(p, p)}
    /\ Continue(p, IF m.mode = "run"
                   THEN Caught(m, m.pc \notin {"cleanupOnce", "settle"})
                   ELSE [m EXCEPT !.reply = Failed])
    /\ UNCHANGED <<op, portVars>>

\* A late call takes effect; nobody waits for that of an ended process.
LateEffect(l) ==
    /\ l.reply = NoReply
    /\ \E sure \in BOOLEAN :
        /\ PortEffect(l.call, l.anchor, sure)
        /\ late' = (late \ {l})
                \cup (IF l.owner = NoOne THEN {}
                      ELSE {[l EXCEPT !.reply = Answer(sure)]})
    /\ UNCHANGED <<op, local, faults>>

LateDropped(l) ==
    /\ l.reply = NoReply
    /\ late' = late \ {l}
    /\ UNCHANGED <<op, local, portVars, faults>>

\* The onLate callbacks of #run: the effect that nobody waits for is undone.
Undo == [reserve |-> "ledgerRelease", retryBeforeCreate |-> "ledgerRelease",
         acquire |-> "cleanupOnce", observeCreate |-> "retain",
         ingress |-> "cleanupOnce", execute |-> "cleanupOnce",
         verify |-> "cleanupOnce", copyVerified |-> "revoke",
         cleanupOnce |-> "retain", release |-> "revoke"]
\* Its anchor: that of the late answer, or the variable of #run at that time.
UndoAnchors(l) ==
    IF l.call = "cleanupOnce" THEN {l.anchor, ledgerRevision}
    ELSE {l.reply.anchor}
Undone(l) == l.mode = "run" /\ l.call \in DOMAIN Undo
             /\ (l.call = "acquire" => l.reply.sure)

LateUndo(l) ==
    /\ l.reply.is = "done" /\ Undone(l)
    /\ late' = late \ {l}
    /\ \E a \in UndoAnchors(l) :
        \/ /\ \E sure \in BOOLEAN : PortEffect(Undo[l.call], a, sure)
           /\ UNCHANGED faults
        \/ /\ MustRefuse(Undo[l.call], a)
           /\ UNCHANGED <<portVars, faults>>
        \/ Fault /\ UNCHANGED portVars
    /\ UNCHANGED <<op, local>>

\* A late settlement only moves the anchor, a late release of the ledger ends
\* the operation, any other late answer is dropped.
LateAnswer(l) ==
    /\ l.reply.is = "done" /\ ~Undone(l)
    /\ late' = late \ {l}
    /\ IF l.call = "settle" /\ l.mode = "run" /\ local[l.owner].mode = "catch"
            /\ local[l.owner].generation = l.generation
       THEN local' = [local EXCEPT ![l.owner].anchor = l.reply.anchor]
       ELSE UNCHANGED local
    /\ IF l.call = "ledgerRelease" /\ Convergeable
       THEN Converge(l.reply.anchor) ELSE UNCHANGED op
    /\ UNCHANGED <<portVars, faults>>

\* The process ends; its calls are on their way, with nobody to answer.
Orphaned(p) ==
    {l \in late : l.owner # p}
    \cup {[l EXCEPT !.owner = NoOne] : l \in {k \in late :
            k.owner = p /\ k.reply = NoReply}}
Crash(p) ==
    /\ local[p] # Idle
    /\ Fault
    /\ late' = IF local[p].pc \in PortCalls /\ local[p].reply = NoReply
               THEN Orphaned(p) \cup {Pending(p, NoOne)} ELSE Orphaned(p)
    /\ Continue(p, Idle)
    /\ UNCHANGED <<op, portVars>>

\* Another job moves the ledger, which makes the anchors of this one stale.
OtherJob ==
    /\ Fault
    /\ ledgerRevision' = ledgerRevision + 1
    /\ UNCHANGED <<op, local, late, status, created, freed, sandbox, creations,
                   broker>>

\* reconcileCleanup: the operator has deleted the sandbox of a quarantined
\* operation and says so to the ledger and to the operation.
ReconcileCleanup ==
    /\ op.state = "quarantined" /\ Readable(op)
    /\ op.reservation /\ op.allocation
    /\ op.generation < MaxGeneration
    /\ op.anchor = ledgerRevision
    /\ Ledger!ReconcileCleanup
    /\ ledgerRevision' = ledgerRevision + 1
    /\ sandbox' = "gone"
    /\ op' = [op EXCEPT !.generation = @ + 1, !.revision = @ + 1,
                        !.cleanup = "certain", !.anchor = ledgerRevision',
                        !.resultAnchor = ledgerRevision']
    /\ UNCHANGED <<local, late, freed, creations, broker, faults>>

-----------------------------------------------------------------------------
Compile(p) == Start(p) \/ Load(p)
Step(p) ==
    \/ Fence(p)
    \/ Save(p)
    \/ RetryAcquire(p)
    \/ RunFailed(p)
    \/ RunEnds(p)
    \/ WindDown(p)
    \/ ConvergeAndGo(p)
    \/ Terminal(p)
Port(p) == Effect(p) \/ Refuse(p)

Next ==
    \/ \E p \in Proc :
        \/ Compile(p)
        \/ Step(p)
        \/ Port(p)
        \/ Fail(p)
        \/ Timeout(p)
        \/ Crash(p)
    \/ \E l \in late :
        \/ LateEffect(l)
        \/ LateDropped(l)
        \/ LateUndo(l)
        \/ LateAnswer(l)
    \/ OtherJob
    \/ ReconcileCleanup

\* A runner goes on with what it has begun, every port answers a call within
\* its time limit, and a client asks again while no outcome is stored.
Fairness ==
    \A p \in Proc :
        /\ WF_vars(Step(p))
        /\ WF_vars(Port(p))
        /\ WF_vars(Compile(p))

Spec == Init /\ [][Next]_vars
FairSpec == Spec /\ Fairness

-----------------------------------------------------------------------------
\* Types; and no process knows a later revision than the stored one, which is
\* what makes the compare-and-set fence an earlier owner.
TypeOK ==
    /\ op \in [state : {"none", "running"} \cup Outcomes, phase : Phases,
               generation : Nat, revision : Nat, reservation : BOOLEAN,
               allocation : BOOLEAN, cleanup : Cleanups, anchor : Nat,
               resultAnchor : Nat]
    /\ local \in [Proc -> [pc : Pcs, mode : {"run", "catch", "recover"},
            reply : [is : {"pending", "failed", "done"}, anchor : Nat,
                     sure : BOOLEAN],
            phase : Phases, generation : Nat, revision : Nat,
            reservation : BOOLEAN, allocation : BOOLEAN, cleanup : Cleanups,
            broker : BOOLEAN, intent : BOOLEAN, anchor : Nat,
            contextAnchor : Nat, retried : BOOLEAN, verdict : Outcomes,
            tries : 0 .. 2]]
    /\ \A l \in late : l.call \in PortCalls /\ l.owner \in Proc \cup {NoOne}
    /\ status \in Ledger!Statuses /\ created \in BOOLEAN
    /\ ledgerRevision \in Nat /\ freed \in BOOLEAN
    /\ sandbox \in {"none", "live", "gone"} /\ creations \in Nat
    /\ broker \in {"none", "held", "released", "revoked", "withdrawn"}
    /\ faults \in 0 .. MaxFaults
    /\ \A p \in Proc : local[p].revision <= op.revision

\* An artifact leaves the private broker only when its sandbox is certainly
\* deleted and the job has been charged, whatever was retried or came late.
EgressAfterCleanup ==
    broker \in {"released", "withdrawn"} =>
        sandbox = "gone" /\ status = "settled"

\* While a sandbox may be live its reservation holds a slot and its money, also
\* when every process that knew of it is gone.
SlotHeldWhileLive == sandbox = "live" => status \in Ledger!Holding

\* A released operation is the truth: the artifact is out and not withdrawn,
\* the ledger has let the job go, and no sandbox is left.
ReleasedIsTrue ==
    op.state = "released" =>
        /\ broker = "released"
        /\ freed
        /\ sandbox = "gone"

\* One operation creates one sandbox, over retries, recoveries and processes.
OneSandbox == creations <= 1

\* The outcome that a client was told is never another one later.
OutcomeFinal == [][op.state \in Outcomes => op'.state = op.state]_vars

\* Once the release of the artifact is stored, no late error, no catch clause
\* and no overtaken process turns the operation into another outcome.
ReleaseStands ==
    [][op.phase \in {"artifactReleased", "ledgerReleased"} =>
        op'.state \in {"running", "released"}]_vars

\* A recovery is never blocked by the record it has to read.
RunningReadable == op.state = "running" => Readable(op)

\* The coordinator implements CompilationOutcome.
Artifact == CASE broker = "released" -> "published"
              [] broker = "withdrawn" -> "withdrawn"
              [] OTHER -> "private"
Outcome == INSTANCE CompilationOutcome
    WITH outcome <- op.state, guest <- sandbox, paid <- status = "settled",
         artifact <- Artifact
KeepsItsPromise == Outcome!Spec

\* An operation does not stay running for ever, whichever process dies and
\* however two recoveries overtake each other; the one exception is an artifact
\* that is out while another job has made the ledger's anchor stale.
Decided ==
    op.state = "running" ~>
        \/ op.state \in Outcomes
        \/ op.phase = "artifactReleased" /\ ~freed /\ op.anchor # ledgerRevision

-----------------------------------------------------------------------------
\* Statements of the code, its documents and its tests that the code does not
\* keep: TLC refutes each in the instance of MCCoordinator.

\* The coordinator can read back every operation that it stores.
StoredReadable == Readable(op)

\* A sandbox that is left when everything has come to an end is named in its
\* operation, so that reconciliation can begin.
OrphanReconcilable ==
    /\ op.state \in Outcomes /\ sandbox = "live"
    /\ late = {} /\ \A p \in Proc : local[p] = Idle
    => op.allocation

=============================================================================
