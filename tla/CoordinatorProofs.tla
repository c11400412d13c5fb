-------------------------- MODULE CoordinatorProofs --------------------------
(***************************************************************************)
(* Proofs about the coordinator, for any processes, any number of mishaps  *)
(* and any bounds of the constants: types, one sandbox, the final outcome. *)
(*                                                                         *)
(* Two invariants carry them.  OnceInv says where the one acquisition of   *)
(* an operation is; EndInv says that a process whose revision is the       *)
(* stored one works on an operation that has not ended, and that after the *)
(* release was stored every process only ends it as released.              *)
(***************************************************************************)
EXTENDS Coordinator, TLAPS

Modes == {"run", "catch", "recover"}
Reply == [is : {"pending", "failed", "done"}, anchor : Nat, sure : BOOLEAN]
View ==
    [pc : Pcs, mode : Modes, reply : Reply, phase : Phases, generation : Nat,
     revision : Nat, reservation : BOOLEAN, allocation : BOOLEAN,
     cleanup : Cleanups, broker : BOOLEAN, intent : BOOLEAN, anchor : Nat,
     contextAnchor : Nat, retried : BOOLEAN, verdict : Outcomes, tries : 0 .. 2]
States == {"none", "running"} \cup Outcomes
Operation ==
    [state : States, phase : Phases, generation : Nat,
     revision : Nat, reservation : BOOLEAN, allocation : BOOLEAN,
     cleanup : Cleanups, anchor : Nat, resultAnchor : Nat]
Call ==
    [call : PortCalls, mode : Modes, owner : Proc \cup {NoOne}, generation : Nat,
     anchor : Nat, reply : Reply]

LocalTyped == local \in [Proc -> View]
PortsTyped ==
    /\ status \in Ledger!Statuses /\ created \in BOOLEAN
    /\ ledgerRevision \in Nat /\ freed \in BOOLEAN
    /\ sandbox \in {"none", "live", "gone"} /\ creations \in Nat
    /\ broker \in {"none", "held", "released", "revoked", "withdrawn"}

Carries(n, m) ==
    /\ n.mode = m.mode /\ n.phase = m.phase /\ n.revision = m.revision
    /\ n.intent = m.intent /\ n.verdict = m.verdict

\* The two replies that carry no answer.
LEMMA NoReplyIs == NoReply \in Reply /\ Failed \in Reply /\ NoReply # Failed
                   /\ NoReply.is = "pending" /\ Failed.is = "failed"
  BY DEF NoReply, Failed, Reply

\* A process without a call.
LEMMA IdleIs ==
    /\ Idle \in View /\ Idle.pc = "idle" /\ Idle.mode = "run"
    /\ Idle.phase = "created" /\ Idle.verdict = "failed" /\ Idle.revision = 0
  BY NoReplyIs DEF Idle, View, Pcs, Modes, Phases, Rank, Cleanups, Outcomes

\* The next call of a process.
LEMMA GotoIs ==
    ASSUME NEW m \in View, NEW pc \in Pcs
    PROVE  /\ Goto(m, pc) \in View /\ Goto(m, pc).pc = pc /\ Goto(m, pc).reply = NoReply
           /\ Carries(Goto(m, pc), m)
  BY NoReplyIs DEF Goto, View, Carries

\* A process in its catch clause, or done.
CaughtFrom(n, m) ==
    IF m.intent THEN n = Idle
    ELSE /\ n.pc \in {"cleanupOnce", "retain", "terminal"} /\ n.mode = "catch"
         /\ n.reply = NoReply /\ n.phase = m.phase /\ n.revision = m.revision
         /\ n.verdict \in {"quarantined", "failed"}

InCatch(m, v) == [m EXCEPT !.mode = "catch", !.tries = 0, !.verdict = v]

\* A process that an error has sent to the catch clause of #run.
LEMMA InCatchIs ==
    ASSUME NEW m \in View, NEW v \in {"quarantined", "failed"}
    PROVE  /\ InCatch(m, v) \in View /\ InCatch(m, v).pc = m.pc
           /\ InCatch(m, v).mode = "catch" /\ InCatch(m, v).reply = m.reply
           /\ InCatch(m, v).phase = m.phase /\ InCatch(m, v).revision = m.revision
           /\ InCatch(m, v).verdict = v
<1>1. v \in Outcomes /\ 0 \in 0 .. 2 /\ "catch" \in Modes
  BY DEF Modes, Outcomes
<1>2. InCatch(m, v) \in View
  BY <1>1 DEF View, InCatch
<1> QED BY <1>2 DEF View, InCatch

\* The same with what the error says: repeated calls, or the first wind-down call.
LEMMA CaughtIs ==
    ASSUME NEW m \in View, NEW repeat \in BOOLEAN
    PROVE  Caught(m, repeat) \in View /\ CaughtFrom(Caught(m, repeat), m)
<1>1. PICK pc \in {"cleanupOnce", "retain", "terminal"} :
        pc = IF m.allocation /\ repeat THEN "cleanupOnce"
             ELSE IF m.reservation THEN "retain" ELSE "terminal"
  OBVIOUS
<1>2. PICK v \in {"quarantined", "failed"} :
        v = IF m.allocation THEN "quarantined" ELSE "failed"
  OBVIOUS
<1>3. CASE m.intent
  BY <1>3, IdleIs DEF Caught, ThrowsOn, CaughtFrom
<1>4. CASE ~m.intent
  <2>1. Caught(m, repeat) = InCatch(Goto(m, pc), v)
    BY <1>1, <1>2, <1>4 DEF Caught, ThrowsOn, InCatch
  <2>2. Goto(m, pc) \in View /\ Goto(m, pc).pc = pc /\ Goto(m, pc).reply = NoReply
        /\ Carries(Goto(m, pc), m)
    BY <1>1, GotoIs DEF Pcs, PortCalls, LedgerCalls
  <2>3. /\ Caught(m, repeat) \in View /\ Caught(m, repeat).pc = pc
        /\ Caught(m, repeat).mode = "catch" /\ Caught(m, repeat).reply = NoReply
        /\ Caught(m, repeat).phase = m.phase /\ Caught(m, repeat).revision = m.revision
        /\ Caught(m, repeat).verdict = v
    BY <2>1, <2>2, InCatchIs DEF Carries
  <2> QED BY <1>4, <2>3 DEF CaughtFrom
<1> QED BY <1>3, <1>4 DEF View

\* Where #recover goes on, by the phase that it has read.
LEMMA ResumedIs ==
    ASSUME NEW m \in View
    PROVE  /\ Resumed(m) \in View /\ Resumed(m).mode = m.mode /\ Resumed(m).reply = NoReply
           /\ Resumed(m).phase = m.phase /\ Resumed(m).revision = m.revision
           /\ IF m.phase \in {"artifactReleased", "ledgerReleased"}
              THEN /\ Resumed(m).verdict = "released"
                   /\ Resumed(m).pc \in {"terminal", "ledgerRelease"}
              ELSE /\ Resumed(m).verdict # "released"
                   /\ Resumed(m).pc \in {"terminal", "revoke", "cleanupOnce", "retain"}
<1>1. PICK pc \in Pcs : 
        pc = IF Rank[m.phase] = 13 THEN "terminal"
             ELSE IF Rank[m.phase] = 12 THEN "ledgerRelease"
             ELSE IF m.broker THEN "revoke"
             ELSE IF m.allocation THEN "cleanupOnce"
             ELSE IF m.reservation THEN "retain" ELSE "terminal"
  BY DEF Pcs, PortCalls, LedgerCalls
<1>2. PICK v \in Outcomes :
        v = IF Rank[m.phase] \in {12, 13} THEN "released"
            ELSE IF m.allocation THEN "quarantined" ELSE "failed"
  BY DEF Outcomes
<1>3. Resumed(m) = [Goto(m, pc) EXCEPT !.verdict = v]
  BY <1>1, <1>2 DEF Resumed
<1>4. /\ Goto(m, pc) \in View /\ Goto(m, pc).pc = pc /\ Carries(Goto(m, pc), m)
      /\ Goto(m, pc).reply = NoReply
  BY GotoIs
<1>5. /\ Resumed(m) \in View /\ Resumed(m).mode = m.mode /\ Resumed(m).verdict = v
      /\ Resumed(m).phase = m.phase /\ Resumed(m).revision = m.revision
      /\ Resumed(m).pc = pc /\ Resumed(m).reply = NoReply
  BY <1>3, <1>4 DEF View, Carries
<1>6. /\ m.phase \in Phases
      /\ Rank[m.phase] \in {12, 13} <=> m.phase \in {"artifactReleased", "ledgerReleased"}
  BY DEF View, Phases, Rank
<1> QED BY <1>1, <1>2, <1>5, <1>6

\* What #run takes over from an answer.
LEMMA AdoptIs ==
    ASSUME NEW m \in View
    PROVE  /\ Adopt(m) \in View /\ Adopt(m).pc = m.pc /\ Adopt(m).mode = m.mode
           /\ Adopt(m).reply = m.reply /\ Adopt(m).phase = m.phase
           /\ Adopt(m).revision = m.revision /\ Adopt(m).verdict = m.verdict
           /\ Adopt(m).retried = m.retried /\ Adopt(m).tries = m.tries
           /\ Adopt(m).intent = (m.intent \/ m.pc = "egress")
<1>1. PICK c \in Cleanups : c = CleanupAfter(m)
  BY DEF CleanupAfter, Certainty, Cleanups, View
<1>2. PICK a \in Nat : a = IF m.pc \in LedgerCalls THEN m.reply.anchor ELSE m.anchor
  BY DEF View, Reply
<1>3. PICK r \in BOOLEAN, l \in BOOLEAN, b \in BOOLEAN, i \in BOOLEAN :
        /\ r = (m.reservation \/ m.pc = "reserve")
        /\ l = (m.allocation \/ m.pc = "acquire")
        /\ b = (m.broker \/ m.pc = "copyVerified")
        /\ i = (m.intent \/ m.pc = "egress")
  OBVIOUS
<1>4. Adopt(m) = [m EXCEPT !.reservation = r, !.allocation = l, !.broker = b,
                           !.intent = i, !.cleanup = c, !.anchor = a]
  BY <1>1, <1>2, <1>3 DEF Adopt
<1>5. Adopt(m) \in View
  BY <1>4, ZenonT(40) DEF View
<1> QED BY <1>3, <1>4, <1>5 DEF View

\* The operation as a process writes it.
LEMMA RecordIs ==
    ASSUME NEW m \in View, NEW s \in States
    PROVE  /\ Record(m, s) \in Operation /\ Record(m, s).state = s
           /\ Record(m, s).phase = m.phase /\ Record(m, s).revision = m.revision + 1
  BY DEF Record, Bumped, View, Operation

\* The calls of #run and the phases they are saved as.
LEMMA SavedAsIs ==
    /\ DOMAIN SavedAs = {"reserve", "retryBeforeCreate", "acquire", "observeCreate", "seal",
                         "ingress", "execute", "verify", "copyVerified", "cleanupOnce",
                         "settle", "retain", "egress", "release"}
    /\ \A c \in DOMAIN SavedAs :
          /\ SavedAs[c] \in Phases /\ SavedAs[c] # "ledgerReleased"
          /\ SavedAs[c] = "artifactReleased" <=> c = "release"
    /\ \A c \in DOMAIN SavedAs \ {"cleanupOnce"} :
          /\ FollowedBy[c] \in Pcs
          /\ FollowedBy[c] = "acquire" <=> c \in {"reserve", "retryBeforeCreate"}
          /\ FollowedBy[c] \notin {"idle", "fence", "reserve", "retryBeforeCreate", "converge",
                                   "terminal", "reconcileRelease"}
          /\ FollowedBy[c] = "release" <=> c = "egress"
          /\ FollowedBy[c] = "ledgerRelease" <=> c = "release"
  BY DEF SavedAs, FollowedBy, Phases, Rank, Pcs, PortCalls, LedgerCalls, GuestCalls

\* What follows the cleanup: to settle, or to retain when it is uncertain.
LEMMA AfterCleanupIs == \A m : AfterCleanup(m) \in {"settle", "retain"}
  BY DEF AfterCleanup

-----------------------------------------------------------------------------
TypeInv ==
    /\ op \in Operation /\ LocalTyped /\ late \subseteq Call /\ PortsTyped
    /\ faults \in 0 .. MaxFaults
    /\ \A p \in Proc : local[p].revision <= op.revision

\* TypeInv is a form of TypeOK in which functions have their types.
LEMMA TypeInvIs == TypeInv => TypeOK
  BY DEF TypeInv, TypeOK, LocalTyped, PortsTyped, States, Operation, View, Modes,
     Reply, Call

\* One process moves.
Others(p) == LocalTyped' /\ \A q \in Proc \ {p} : local'[q] = local[q]

\* Only the process itself moves.
LEMMA ContinueIs ==
    ASSUME LocalTyped, NEW p \in Proc, NEW n \in View, Continue(p, n)
    PROVE  Others(p) /\ local'[p] = n
  BY DEF Continue, Others, LocalTyped

\* A mishap is one of those allowed.
LEMMA FaultIs == ASSUME faults \in 0 .. MaxFaults, Fault PROVE faults' \in 0 .. MaxFaults
  BY CoordinatorAssumption DEF Fault

\* What a port does: the types stay, and only an acquisition creates.
LEMMA LedgerTyped ==
    ASSUME PortsTyped, NEW c, NEW a, NEW sure \in BOOLEAN, LedgerEffect(c, a, sure)
    PROVE  PortsTyped' /\ UNCHANGED creations
<1>1. UNCHANGED <<sandbox, creations, broker>>
  BY DEF LedgerEffect
<1>2. CASE UNCHANGED ledgerVars
  BY <1>1, <1>2 DEF ledgerVars, PortsTyped
<1>3. CASE /\ c \in LedgerCalls \ {"reconcileRelease"} /\ LedgerStep(c)
           /\ ledgerRevision' = ledgerRevision + 1
           /\ freed' = (freed \/ c = "ledgerRelease")
  <2>1. ledgerRevision' \in Nat /\ freed' \in BOOLEAN
    BY <1>3 DEF PortsTyped
  <2>2. \/ Ledger!Reserve \/ Ledger!RetryBeforeCreate \/ Ledger!ObserveCreate
        \/ Ledger!Settle \/ Ledger!Retain \/ Ledger!Release
    BY <1>3 DEF LedgerStep, LedgerCalls
  <2>3. status' \in Ledger!Statuses /\ created' \in BOOLEAN
    BY <2>2 DEF PortsTyped, Ledger!Reserve, Ledger!RetryBeforeCreate, Ledger!ObserveCreate,
       Ledger!Settle, Ledger!Retain, Ledger!Release, Ledger!jvars, Ledger!Statuses,
       Ledger!Holding
  <2> QED BY <1>1, <2>1, <2>3 DEF PortsTyped
<1> QED BY <1>2, <1>3 DEF LedgerEffect

\* Every port: the types stay, and only an acquisition creates.
LEMMA PortIs ==
    ASSUME PortsTyped, NEW c, NEW a, NEW sure \in BOOLEAN, PortEffect(c, a, sure)
    PROVE  /\ PortsTyped'
           /\ creations' = IF c = "acquire" /\ sure THEN creations + 1 ELSE creations
<1>1. CASE LedgerEffect(c, a, sure)
  <2>1. c # "acquire"
    BY <1>1 DEF LedgerEffect, LedgerCalls
  <2> QED BY <1>1, <2>1, LedgerTyped
<1>2. CASE AcquireEffect(c, sure)
  BY <1>2 DEF AcquireEffect, PortsTyped, ledgerVars
<1>3. CASE CleanupEffect(c, sure)
  BY <1>3 DEF CleanupEffect, PortsTyped, ledgerVars
<1>4. CASE BrokerEffect(c, sure)
  BY <1>4 DEF BrokerEffect, PortsTyped, ledgerVars
<1>5. CASE GuestEffect(c, sure)
  BY <1>5 DEF GuestEffect, GuestCalls, PortsTyped, portVars, ledgerVars
<1> QED BY <1>1, <1>2, <1>3, <1>4, <1>5 DEF PortEffect

\* The answer of a port is a reply.
LEMMA AnswerIs ==
    ASSUME PortsTyped', NEW sure \in BOOLEAN
    PROVE  Answer(sure) \in Reply /\ Answer(sure).is = "done" /\ Answer(sure).sure = sure
  BY DEF Answer, Reply, PortsTyped

\* Ports that are not called keep their types.
LEMMA PortsStay == PortsTyped /\ UNCHANGED portVars => PortsTyped'
  BY DEF PortsTyped, portVars, ledgerVars

-----------------------------------------------------------------------------
\* What each step of a process does to it and to the stored operation.
Past == {"artifactReleased", "ledgerReleased"}

\* What a process holds has its type.
LEMMA LocalIs == ASSUME TypeInv, NEW p \in Proc PROVE local[p] \in View
  BY DEF TypeInv, LocalTyped

\* The operation is written by a process that knew its revision.
Writes(m, s, phase) ==
    /\ m.revision = op.revision
    /\ op' \in Operation /\ op'.state = s /\ op'.phase = phase
    /\ op'.revision = op.revision + 1

\* Start: the operation is new, and its client is at the reservation.
LEMMA StartIs ==
    ASSUME TypeInv, NEW p \in Proc, Start(p)
    PROVE  /\ Others(p) /\ op = NoOperation /\ local[p] = Idle
           /\ op' \in Operation /\ op'.state = "running" /\ op'.phase = "created"
           /\ op'.revision = 0 /\ op.revision = 0 /\ op.state = "none"
           /\ local'[p].pc = "reserve" /\ local'[p].mode = "run"
           /\ local'[p].phase = "created" /\ local'[p].revision = 0
           /\ local'[p].verdict # "released"
<1> DEFINE n == [Idle EXCEPT !.pc = "reserve", !.generation = 1]
<1>1. /\ n \in View /\ n.pc = "reserve" /\ n.mode = "run" /\ n.phase = "created"
      /\ n.revision = 0 /\ n.verdict # "released"
  BY IdleIs DEF Idle, View, Pcs, PortCalls, LedgerCalls
<1>2. Continue(p, n) /\ op = NoOperation /\ local[p] = Idle
      /\ op' = [op EXCEPT !.state = "running", !.generation = 1]
  BY DEF Start
<1>3. Others(p) /\ local'[p] = n
  <2> HIDE DEF n
  <2> QED BY <1>1, <1>2, ContinueIs DEF TypeInv
<1>4. /\ op' \in Operation /\ op'.state = "running" /\ op'.phase = "created"
      /\ op'.revision = 0 /\ op.revision = 0 /\ op.state = "none"
  BY <1>2 DEF NoOperation, States, Operation, TypeInv
<1> HIDE DEF n
<1> QED BY <1>1, <1>2, <1>3, <1>4

\* Load: #recover reads a running operation and changes nothing.
LEMMA LoadIs ==
    ASSUME TypeInv, NEW p \in Proc, Load(p)
    PROVE  /\ Others(p) /\ op.state = "running" /\ UNCHANGED op /\ local[p] = Idle
           /\ local'[p].pc = "fence" /\ local'[p].mode = "recover"
           /\ local'[p].phase = op.phase /\ local'[p].revision = op.revision
           /\ local'[p].verdict # "released"
<1> DEFINE b == Rank[op.phase] >= 8
           i == Rank[op.phase] >= 11
           n == [Idle EXCEPT
            !.pc = "fence", !.mode = "recover", !.phase = op.phase,
            !.generation = op.generation, !.revision = op.revision,
            !.reservation = op.reservation, !.allocation = op.allocation,
            !.cleanup = op.cleanup, !.broker = b,
            !.intent = i,
            !.anchor = op.anchor, !.contextAnchor = op.anchor]
<1>0. op \in Operation /\ op.phase \in Phases /\ Rank[op.phase] \in 0 .. 13
  BY DEF TypeInv, Operation, Phases, Rank
<1>1. b \in BOOLEAN /\ i \in BOOLEAN
  BY <1>0
<1>3. Continue(p, n) /\ op.state = "running" /\ UNCHANGED op /\ local[p] = Idle
  BY DEF Load
<1> HIDE DEF b, i
<1>2. /\ n \in View /\ n.pc = "fence" /\ n.mode = "recover" /\ n.phase = op.phase
      /\ n.revision = op.revision /\ n.verdict # "released"
  <2>1. /\ op.phase \in Phases /\ op.generation \in Nat /\ op.revision \in Nat
        /\ op.reservation \in BOOLEAN /\ op.allocation \in BOOLEAN
        /\ op.cleanup \in Cleanups /\ op.anchor \in Nat
    BY <1>0 DEF Operation
  <2>2. "fence" \in Pcs /\ "recover" \in Modes
    BY DEF Pcs, Modes
  <2>3. n \in View
    BY <1>1, <2>1, <2>2, IdleIs, ZenonT(40) DEF View
  <2>4. /\ n.pc = "fence" /\ n.mode = "recover" /\ n.phase = op.phase
        /\ n.revision = op.revision /\ n.verdict = Idle.verdict
    BY IdleIs DEF View
  <2> QED BY <2>3, <2>4, IdleIs
<1> HIDE DEF n
<1> QED BY <1>2, <1>3, ContinueIs DEF TypeInv

\* Fence: #recover raises the generation, or has been overtaken.
LEMMA FenceIs ==
    ASSUME TypeInv, NEW p \in Proc, Fence(p)
    PROVE  /\ Others(p) /\ local[p].pc = "fence"
           /\ \/ /\ Writes(local[p], "running", local[p].phase)
                 /\ local'[p].mode = local[p].mode /\ local'[p].phase = local[p].phase
                 /\ local'[p].revision = op'.revision /\ local'[p].reply = NoReply
                 /\ IF local[p].phase \in Past
                    THEN /\ local'[p].verdict = "released"
                         /\ local'[p].pc \in {"terminal", "ledgerRelease"}
                    ELSE /\ local'[p].verdict # "released"
                         /\ local'[p].pc \in {"terminal", "revoke", "cleanupOnce", "retain"}
              \/ UNCHANGED op /\ local'[p] = Idle
<1> DEFINE m == [local[p] EXCEPT !.generation = @ + 1]
           k == [m EXCEPT !.revision = @ + 1]
<1>0. local[p] \in View
  BY LocalIs
<1>1. /\ m \in View /\ m.pc = local[p].pc /\ m.mode = local[p].mode
      /\ m.phase = local[p].phase /\ m.revision = local[p].revision
  BY <1>0 DEF View
<1>2. /\ k \in View /\ k.mode = local[p].mode /\ k.phase = local[p].phase
      /\ k.revision = local[p].revision + 1
  <2> HIDE DEF m
  <2> QED BY <1>1 DEF View
<1>3. m.pc = "fence" /\ IF Current(m)
                        THEN op' = Record(m, "running") /\ Continue(p, Resumed(k))
                        ELSE Continue(p, Idle) /\ UNCHANGED op
  BY DEF Fence
<1> HIDE DEF m, k
<1>4. CASE Current(m)
  <2>1. Writes(local[p], "running", local[p].phase)
    BY <1>1, <1>3, <1>4, RecordIs DEF Writes, Current, States
  <2>2. Others(p) /\ local'[p] = Resumed(k)
    BY <1>2, <1>3, <1>4, ResumedIs, ContinueIs DEF TypeInv
  <2> QED BY <1>1, <1>2, <1>3, <2>1, <2>2, ResumedIs DEF Writes, Past
<1>5. CASE ~Current(m)
  BY <1>1, <1>3, <1>5, IdleIs, ContinueIs DEF TypeInv
<1> QED BY <1>4, <1>5

\* Save: the checkpoint of #run is stored, or the process has been overtaken.
LEMMA SaveIs ==
    ASSUME TypeInv, NEW p \in Proc, Save(p)
    PROVE  LET m == local[p]  n == local'[p] IN
           /\ Others(p) /\ m.mode = "run" /\ m.pc \in DOMAIN SavedAs
           /\ m.pc = "acquire" => m.reply.is = "done" /\ m.reply.sure
           /\ faults' \in 0 .. MaxFaults
           /\ \/ /\ Writes(m, "running", SavedAs[m.pc])
                 /\ n.pc = IF m.pc = "cleanupOnce" THEN AfterCleanup(Adopt(m))
                           ELSE FollowedBy[m.pc]
                 /\ n.mode = "run" /\ n.reply = NoReply /\ n.phase = SavedAs[m.pc]
                 /\ n.revision = op'.revision
                 /\ n.intent = (m.intent \/ m.pc = "egress")
                 /\ n.verdict = m.verdict
              \/ /\ CaughtFrom(n, Adopt(m))
                 /\ UNCHANGED op \/ Writes(m, "running", SavedAs[m.pc])
<1> DEFINE a == Adopt(local[p])
           saved == [a EXCEPT !.phase = SavedAs[a.pc]]
           next == IF a.pc = "cleanupOnce" THEN AfterCleanup(a) ELSE FollowedBy[a.pc]
           k == [saved EXCEPT !.revision = @ + 1]
<1>0. local[p] \in View /\ LocalTyped
  BY LocalIs DEF TypeInv
<1>1. /\ a \in View /\ a.pc = local[p].pc /\ a.mode = local[p].mode
      /\ a.reply = local[p].reply /\ a.revision = local[p].revision
      /\ a.phase = local[p].phase /\ a.verdict = local[p].verdict
      /\ a.intent = (local[p].intent \/ local[p].pc = "egress")
  BY <1>0, AdoptIs
<1>2. /\ a.mode = "run" /\ a.pc \in DOMAIN SavedAs /\ Answered(a) /\ Created(a)
      /\ \/ /\ Current(a)
            /\ op' = Record(saved, "running")
            /\ Continue(p, Goto(k, next))
            /\ UNCHANGED faults
         \/ /\ Continue(p, Caught(a, TRUE))
            /\ UNCHANGED faults \/ Fault
            /\ UNCHANGED op \/ (Current(a) /\ op' = Record(saved, "running"))
  BY DEF Save
<1>3. a.pc = "acquire" => a.reply.is = "done" /\ a.reply.sure
  BY <1>2 DEF Answered, Created, GuestCalls
<1> HIDE DEF a
<1>4. /\ SavedAs[a.pc] \in Phases
      /\ next \in Pcs
  BY <1>2, SavedAsIs, AfterCleanupIs DEF Pcs, PortCalls, LedgerCalls
<1>5. /\ saved \in View /\ saved.phase = SavedAs[a.pc] /\ saved.revision = a.revision
      /\ saved.mode = a.mode /\ saved.intent = a.intent
      /\ saved.verdict = a.verdict
  BY <1>1, <1>4 DEF View
<1> HIDE DEF saved, next
<1>6. /\ k \in View /\ k.phase = SavedAs[a.pc] /\ k.revision = a.revision + 1
      /\ k.mode = a.mode /\ k.intent = a.intent /\ k.verdict = a.verdict
  BY <1>5 DEF View
<1> HIDE DEF k
<1>7. Current(a) /\ op' = Record(saved, "running") => Writes(a, "running", SavedAs[a.pc])
  BY <1>5, RecordIs DEF Writes, Current, States
<1>8. faults' \in 0 .. MaxFaults
  BY <1>2, FaultIs DEF TypeInv
<1>9. CASE Current(a) /\ op' = Record(saved, "running") /\ Continue(p, Goto(k, next))
  <2>1. /\ Goto(k, next) \in View /\ Goto(k, next).pc = next
        /\ Goto(k, next).reply = NoReply /\ Carries(Goto(k, next), k)
    BY <1>4, <1>6, GotoIs
  <2>2. Others(p) /\ local'[p] = Goto(k, next)
    BY <1>0, <1>9, <2>1, ContinueIs
  <2>3. Writes(a, "running", SavedAs[a.pc])
    BY <1>7, <1>9
  <2>4. op'.revision = k.revision
    BY <1>6, <2>3 DEF Writes
  <2> QED BY <1>1, <1>2, <1>3, <1>6, <1>8, <2>1, <2>2, <2>3, <2>4 DEF Carries, Writes, next, a
<1>10. CASE /\ Continue(p, Caught(a, TRUE))
            /\ UNCHANGED op \/ (Current(a) /\ op' = Record(saved, "running"))
  <2>1. Others(p) /\ local'[p] = Caught(a, TRUE) /\ CaughtFrom(local'[p], a)
    BY <1>0, <1>1, <1>10, CaughtIs, ContinueIs
  <2>2. UNCHANGED op \/ Writes(a, "running", SavedAs[a.pc])
    BY <1>7, <1>10
  <2> QED BY <1>1, <1>2, <1>3, <1>8, <2>1, <2>2 DEF Writes, a
<1> QED BY <1>2, <1>9, <1>10

\* What a step does to a process that leaves the operation alone.
Same(n, m) ==
    /\ n.pc = m.pc /\ Carries(n, m)
    /\ n.reply = Failed \/ (m.reply = NoReply /\ n.reply.is = "done")

WindsDown(n, m) ==
    /\ m.mode \in {"catch", "recover"} /\ Carries(n, m) /\ n.reply = NoReply
    /\ \/ /\ m.pc \in {"cleanupOnce", "settle", "retain", "revoke"}
          /\ n.pc \in {"cleanupOnce", "settle", "retain", "revoke", "terminal"}
       \/ /\ m.pc \in {"ledgerRelease", "reconcileRelease"}
          /\ n.pc \in {"converge", "reconcileRelease"}

RunEnded(n, m) ==
    /\ m.mode = "run" /\ n.mode = "run" /\ n.phase = m.phase
    /\ n.revision = m.revision /\ n.intent = m.intent /\ n.reply = NoReply
    /\ \/ m.pc = "revoke" /\ n.pc = "terminal" /\ n.verdict = "quarantined"
       \/ m.pc = "ledgerRelease" /\ n.pc = "converge" /\ n.verdict = "released"

Retries(n, m) ==
    /\ m.mode = "run" /\ m.pc = "acquire" /\ m.reply.is = "done" /\ ~m.reply.sure
    /\ n.pc = "retryBeforeCreate" /\ Carries(n, m)

Calling(m) == m.pc \notin {"idle", "fence", "converge", "terminal"}

Follows(n, m) ==
    \/ n = Idle
    \/ m.mode = "run" /\ Calling(m) /\ CaughtFrom(n, m)
    \/ Calling(m) /\ Same(n, m)
    \/ WindsDown(n, m)
    \/ RunEnded(n, m)
    \/ Retries(n, m)

Quiet(p) == Others(p) /\ UNCHANGED op /\ Follows(local'[p], local[p])

\* RetryAcquire leaves the operation alone.
LEMMA RetryAcquireIs ==
    ASSUME TypeInv, NEW p \in Proc, RetryAcquire(p)
    PROVE  Quiet(p)
<1> DEFINE m == local[p]
           k == [m EXCEPT !.retried = TRUE]
<1>1. m \in View /\ LocalTyped
  BY LocalIs DEF TypeInv
<1>2. /\ k \in View /\ k.mode = m.mode /\ Carries(k, m)
  BY <1>1 DEF View, Carries
<1>3. /\ m.mode = "run" /\ m.pc = "acquire" /\ UNCHANGED op
      /\ IF MayRetry(m) THEN Continue(p, Goto(k, "retryBeforeCreate"))
         ELSE Continue(p, Caught(m, TRUE))
  BY DEF RetryAcquire
<1> HIDE DEF k
<1>4. CASE MayRetry(m)
  <2>1. /\ Goto(k, "retryBeforeCreate") \in View
        /\ Goto(k, "retryBeforeCreate").pc = "retryBeforeCreate"
        /\ Carries(Goto(k, "retryBeforeCreate"), k)
    BY <1>2, GotoIs DEF Pcs, PortCalls, LedgerCalls
  <2>2. Others(p) /\ local'[p] = Goto(k, "retryBeforeCreate")
    BY <1>1, <1>3, <1>4, <2>1, ContinueIs
  <2>3. Retries(local'[p], m)
    BY <1>2, <1>3, <1>4, <2>1, <2>2 DEF Retries, MayRetry, Carries
  <2> QED BY <1>3, <2>2, <2>3 DEF Quiet, Follows
<1>5. CASE ~MayRetry(m)
  <2>1. Others(p) /\ local'[p] = Caught(m, TRUE) /\ CaughtFrom(local'[p], m)
    BY <1>1, <1>3, <1>5, CaughtIs, ContinueIs
  <2> QED BY <1>3, <2>1 DEF Quiet, Follows, Calling
<1> QED BY <1>4, <1>5

\* RunFailed leaves the operation alone.
LEMMA RunFailedIs ==
    ASSUME TypeInv, NEW p \in Proc, RunFailed(p), Calling(local[p])
    PROVE  Quiet(p)
<1>1. local[p] \in View /\ LocalTyped
  BY LocalIs DEF TypeInv
<1>2. Others(p) /\ CaughtFrom(local'[p], local[p])
  BY <1>1, CaughtIs, ContinueIs DEF RunFailed
<1> QED BY <1>2 DEF Quiet, Follows, RunFailed

\* RunEnds leaves the operation alone.
LEMMA RunEndsIs ==
    ASSUME TypeInv, NEW p \in Proc, RunEnds(p)
    PROVE  Quiet(p)
<1> DEFINE m == Adopt(local[p])
           r == Goto(m, "terminal")
           c == Goto(m, "converge")
<1>1. LocalTyped /\ m \in View /\ m.pc = local[p].pc /\ m.mode = local[p].mode
      /\ m.phase = local[p].phase /\ m.revision = local[p].revision
      /\ m.intent = (local[p].intent \/ local[p].pc = "egress") /\ local[p].intent \in BOOLEAN
  BY LocalIs, AdoptIs DEF TypeInv, View
<1>2. /\ m.mode = "run" /\ UNCHANGED op
      /\ \/ m.pc = "revoke" /\ Continue(p, [r EXCEPT !.verdict = "quarantined"])
         \/ m.pc = "ledgerRelease" /\ Continue(p, [c EXCEPT !.verdict = "released"])
  BY DEF RunEnds
<1> HIDE DEF m
<1>3. /\ r \in View /\ r.pc = "terminal" /\ Carries(r, m) /\ r.reply = NoReply
      /\ c \in View /\ c.pc = "converge" /\ Carries(c, m) /\ c.reply = NoReply
  BY <1>1, GotoIs DEF Pcs
<1> HIDE DEF r, c
<1>4. CASE m.pc = "revoke" /\ Continue(p, [r EXCEPT !.verdict = "quarantined"])
  <2> DEFINE n == [r EXCEPT !.verdict = "quarantined"]
  <2>1. /\ n \in View /\ n.pc = "terminal" /\ n.mode = r.mode /\ n.phase = r.phase
        /\ n.revision = r.revision /\ n.intent = r.intent /\ n.verdict = "quarantined"
        /\ n.reply = r.reply
    BY <1>3 DEF View, Outcomes
  <2> HIDE DEF n
  <2>2. Others(p) /\ local'[p] = n
    BY <1>1, <1>4, <2>1, ContinueIs DEF n
  <2> QED BY <1>1, <1>2, <1>3, <1>4, <2>1, <2>2 DEF Quiet, Follows, RunEnded, Carries
<1>5. CASE m.pc = "ledgerRelease" /\ Continue(p, [c EXCEPT !.verdict = "released"])
  <2> DEFINE n == [c EXCEPT !.verdict = "released"]
  <2>1. /\ n \in View /\ n.pc = "converge" /\ n.mode = c.mode /\ n.phase = c.phase
        /\ n.revision = c.revision /\ n.intent = c.intent /\ n.verdict = "released"
        /\ n.reply = c.reply
    BY <1>3 DEF View, Outcomes
  <2> HIDE DEF n
  <2>2. Others(p) /\ local'[p] = n
    BY <1>1, <1>5, <2>1, ContinueIs DEF n
  <2> QED BY <1>1, <1>2, <1>3, <1>5, <2>1, <2>2 DEF Quiet, Follows, RunEnded, Carries
<1> QED BY <1>2, <1>4, <1>5

\* A process at one of the calls, with its number of attempts.
Tried(m, pc, t) == [Goto(m, pc) EXCEPT !.tries = t]

\* One attempt more of a call that is repeated.
LEMMA TriedIs ==
    ASSUME NEW m \in View, NEW pc \in Pcs, NEW t \in 0 .. 2
    PROVE  /\ Tried(m, pc, t) \in View /\ Tried(m, pc, t).pc = pc
           /\ Carries(Tried(m, pc, t), m) /\ Tried(m, pc, t).reply = NoReply
<1> DEFINE g == Goto(m, pc)
<1>1. g \in View /\ g.pc = pc /\ Carries(g, m) /\ g.reply = NoReply
  BY GotoIs
<1> HIDE DEF g
<1> DEFINE n == [g EXCEPT !.tries = t]
<1>2. n \in View /\ n.pc = pc /\ Carries(n, m) /\ n.reply = NoReply
  BY <1>1 DEF View, Carries
<1>3. Tried(m, pc, t) = n
  BY DEF Tried, g
<1> HIDE DEF n
<1> QED BY <1>2, <1>3

\* WindDown leaves the operation alone.
LEMMA WindDownIs ==
    ASSUME TypeInv, NEW p \in Proc, WindDown(p)
    PROVE  Quiet(p)
<1> DEFINE m == IF local[p].reply.is = "done" THEN Adopt(local[p]) ELSE local[p]
           ok == m.reply.is = "done"
           Calls == {"cleanupOnce", "settle", "retain", "revoke", "terminal"}
<1>1. /\ m \in View /\ m.pc = local[p].pc /\ m.mode = local[p].mode
      /\ m.phase = local[p].phase /\ m.revision = local[p].revision
      /\ m.verdict = local[p].verdict
      /\ local[p].pc # "egress" => m.intent = local[p].intent
  <2>1. local[p] \in View /\ local[p].intent \in BOOLEAN
    BY LocalIs DEF View
  <2> QED BY <2>1, AdoptIs
<1>2. /\ m.mode \in {"catch", "recover"} /\ UNCHANGED op
      /\ \/ /\ m.pc = "cleanupOnce"
            /\ \/ Continue(p, [Goto(m, AfterCleanup(m)) EXCEPT !.tries = 1])
               \/ Continue(p, Goto(m, "retain"))
         \/ /\ m.pc \in {"settle", "retain"}
            /\ Continue(p, Held(m)) \/ Continue(p, [Goto(m, "retain") EXCEPT !.tries = 0])
         \/ /\ m.pc = "revoke"
            /\ \E c \in {"terminal", "retain", "cleanupOnce"} : Continue(p, Goto(m, c))
         \/ /\ m.pc \in {"ledgerRelease", "reconcileRelease"}
            /\ \/ Continue(p, Goto(m, "converge")) \/ Continue(p, Goto(m, "reconcileRelease"))
               \/ Continue(p, Idle)
  BY DEF WindDown
<1>3. LocalTyped
  BY DEF TypeInv
<1> HIDE DEF m
<1>4. Calls \subseteq Pcs /\ {"converge", "reconcileRelease"} \subseteq Pcs /\ 0 \in 0 .. 2 /\ 1 \in 0 .. 2
  BY DEF Pcs, PortCalls, LedgerCalls
<1>5. ASSUME NEW pc \in Pcs, NEW n \in View, n.pc = pc, Carries(n, m), n.reply = NoReply,
             Continue(p, n),
             \/ m.pc \in Calls \ {"terminal"} /\ pc \in Calls
             \/ m.pc \in {"ledgerRelease", "reconcileRelease"}
                /\ pc \in {"converge", "reconcileRelease"}
      PROVE  Quiet(p)
  <2>1. Others(p) /\ local'[p] = n
    BY <1>3, <1>5, ContinueIs
  <2>2. Carries(n, local[p])
    BY <1>1, <1>5 DEF Carries
  <2> QED BY <1>1, <1>2, <1>5, <2>1, <2>2 DEF Quiet, Follows, WindsDown
<1>6. CASE m.pc = "cleanupOnce" /\ Continue(p, [Goto(m, AfterCleanup(m)) EXCEPT !.tries = 1])
  <2> DEFINE n == Tried(m, AfterCleanup(m), 1)
  <2>0. AfterCleanup(m) \in Pcs
    BY <1>4, AfterCleanupIs
  <2>1. n \in View /\ n.pc = AfterCleanup(m) /\ Carries(n, m) /\ n.reply = NoReply
    BY <1>1, <1>4, <2>0, TriedIs
  <2>2. Continue(p, n)
    BY <1>6 DEF Tried
  <2> HIDE DEF n
  <2> QED BY <1>4, <1>5, <1>6, <2>1, <2>2, AfterCleanupIs
<1>7. CASE m.pc = "cleanupOnce" /\ Continue(p, Goto(m, "retain"))
  BY <1>1, <1>4, <1>5, <1>7, GotoIs
<1>8. CASE m.pc \in {"settle", "retain"} /\ Continue(p, Held(m))
  <2>1. PICK pc \in {"revoke", "terminal"} : Held(m) = [Goto(m, pc) EXCEPT !.tries = 0]
    BY DEF Held
  <2> DEFINE n == Tried(m, pc, 0)
  <2>0. pc \in Pcs
    BY <1>4
  <2>2. n \in View /\ n.pc = pc /\ Carries(n, m) /\ n.reply = NoReply
    BY <1>1, <1>4, <2>0, TriedIs
  <2>3. Continue(p, n)
    BY <1>8, <2>1 DEF Tried
  <2> HIDE DEF n
  <2> QED BY <1>4, <1>5, <1>8, <2>2, <2>3
<1>9. CASE m.pc \in {"settle", "retain"} /\ Continue(p, [Goto(m, "retain") EXCEPT !.tries = 0])
  <2> DEFINE n == Tried(m, "retain", 0)
  <2>1. n \in View /\ n.pc = "retain" /\ Carries(n, m) /\ n.reply = NoReply
    BY <1>1, <1>4, TriedIs
  <2>2. Continue(p, n)
    BY <1>9 DEF Tried
  <2> HIDE DEF n
  <2> QED BY <1>4, <1>5, <1>9, <2>1, <2>2
<1>10. CASE m.pc = "revoke"
            /\ \E c \in {"terminal", "retain", "cleanupOnce"} : Continue(p, Goto(m, c))
  BY <1>1, <1>4, <1>5, <1>10, GotoIs, ZenonT(40)
<1>11. CASE /\ m.pc \in {"ledgerRelease", "reconcileRelease"}
            /\ Continue(p, Goto(m, "converge")) \/ Continue(p, Goto(m, "reconcileRelease"))
  BY <1>1, <1>4, <1>5, <1>11, GotoIs
<1>12. CASE Continue(p, Idle)
  BY <1>2, <1>3, <1>12, IdleIs, ContinueIs DEF Quiet, Follows
<1> QED BY <1>2, <1>6, <1>7, <1>8, <1>9, <1>10, <1>11, <1>12

\* What #convergeLedgerReleased makes of the stored operation.
Converged ==
    /\ op' \in Operation /\ op'.state = op.state
    /\ \/ UNCHANGED op
       \/ /\ op.phase = "artifactReleased" /\ op'.phase = "ledgerReleased"
          /\ op'.revision = op.revision + 1

\* Converge writes the phase or the anchor of the ledger, and no outcome but released.
LEMMA ConvergeIs ==
    ASSUME TypeInv, NEW a \in Nat, Converge(a)
    PROVE  Converged
<1>1. op \in Operation
  BY DEF TypeInv
<1>2. CASE op.state = "running" /\ op.phase = "artifactReleased"
  <2>1. op' = [op EXCEPT !.phase = "ledgerReleased", !.anchor = a, !.revision = @ + 1]
    BY <1>2 DEF Converge
  <2>2. "ledgerReleased" \in Phases
    BY DEF Phases, Rank
  <2>. DEFINE r == op.revision + 1
              q == [op EXCEPT !.phase = "ledgerReleased", !.anchor = a, !.revision = r]
  <2>5. r \in Nat
    BY <1>1 DEF Operation
  <2>. HIDE DEF r
  <2>6. q \in Operation
    BY <1>1, <2>2, <2>5 DEF Operation
  <2>3. op' \in Operation
    BY <2>1, <2>6 DEF r
  <2>4. /\ op'.state = op.state /\ op'.phase = "ledgerReleased"
        /\ op'.revision = op.revision + 1
    BY <1>1, <2>1 DEF Operation
  <2> QED BY <1>2, <2>3, <2>4 DEF Converged
<1>3. CASE ~(op.state = "running" /\ op.phase = "artifactReleased")
  BY <1>1, <1>3 DEF Converge, Converged
<1> QED BY <1>2, <1>3

\* The process that converges goes on to write the outcome, or gives up.
LEMMA ConvergeAndGoIs ==
    ASSUME TypeInv, NEW p \in Proc, ConvergeAndGo(p)
    PROVE  /\ Others(p) /\ local[p].pc = "converge"
           /\ \/ UNCHANGED op /\ local'[p] = Idle
              \/ /\ Converged
                 /\ local'[p].pc = "terminal" /\ local'[p].mode = local[p].mode
                 /\ local'[p].verdict = local[p].verdict
                 /\ local'[p].phase = op'.phase /\ local'[p].revision = op'.revision
                 /\ local'[p].reply = NoReply
<1> DEFINE m == local[p]
           g == Goto(m, "terminal")
           n == [g EXCEPT !.phase = op'.phase, !.generation = op'.generation,
                    !.revision = op'.revision, !.contextAnchor = op'.anchor]
<1>1. m \in View /\ LocalTyped /\ m.anchor \in Nat /\ "terminal" \in Pcs
  BY LocalIs DEF TypeInv, View, Pcs
<1>2. /\ m.pc = "converge"
      /\ \/ Converge(m.anchor) /\ Continue(p, n)
         \/ UNCHANGED op /\ Continue(p, Idle)
  BY DEF ConvergeAndGo
<1>3. g \in View /\ g.pc = "terminal" /\ Carries(g, m) /\ g.reply = NoReply
  BY <1>1, GotoIs
<1> HIDE DEF g
<1>4. CASE Converge(m.anchor) /\ Continue(p, n)
  <2>1. Converged /\ op' \in Operation
    BY <1>1, <1>4, ConvergeIs DEF Converged
  <2>2. /\ n \in View /\ n.pc = g.pc /\ n.mode = g.mode /\ n.verdict = g.verdict
        /\ n.phase = op'.phase /\ n.revision = op'.revision /\ n.reply = g.reply
    BY <1>3, <2>1 DEF View, Operation
  <2> HIDE DEF n
  <2>3. Others(p) /\ local'[p] = n
    BY <1>1, <1>4, <2>2, ContinueIs
  <2> QED BY <1>2, <1>3, <2>1, <2>2, <2>3 DEF Carries
<1>5. CASE UNCHANGED op /\ Continue(p, Idle)
  BY <1>1, <1>2, <1>5, IdleIs, ContinueIs
<1> QED BY <1>2, <1>4, <1>5

\* Terminal: the outcome is written by who knew the revision, or not at all.
LEMMA TerminalIs ==
    ASSUME TypeInv, NEW p \in Proc, Terminal(p)
    PROVE  /\ Others(p) /\ local[p].pc = "terminal" /\ faults' \in 0 .. MaxFaults
           /\ \/ Writes(local[p], local[p].verdict, local[p].phase) /\ local'[p] = Idle
              \/ UNCHANGED op /\ local'[p] = Idle
              \/ /\ UNCHANGED op /\ op.state = "running"
                 /\ local'[p].pc = "terminal" /\ local'[p].mode = local[p].mode
                 /\ local'[p].phase = local[p].phase
                 /\ local'[p].verdict = local[p].verdict
                 /\ local'[p].reply = local[p].reply
                 /\ local'[p].revision = op.revision
<1> DEFINE m == local[p]
           n == [m EXCEPT !.revision = op.revision, !.tries = @ + 1]
<1>1. m \in View /\ LocalTyped /\ op.revision \in Nat /\ m.verdict \in Outcomes
      /\ m.tries \in 0 .. 2
  BY LocalIs DEF TypeInv, View, Operation
<1>2. /\ m.pc = "terminal"
      /\ UNCHANGED faults \/ Fault
      /\ \/ Current(m) /\ op' = Record(m, m.verdict) /\ Continue(p, Idle)
         \/ UNCHANGED op /\ Continue(p, Idle)
         \/ /\ UNCHANGED op /\ Continue(p, n) /\ op.state = "running" /\ m.tries # 2
  BY DEF Terminal, Yields
<1>3. faults' \in 0 .. MaxFaults
  BY <1>2, FaultIs DEF TypeInv
<1>4. CASE Current(m) /\ op' = Record(m, m.verdict) /\ Continue(p, Idle)
  <2>0. m.verdict \in States
    BY <1>1 DEF States
  <2> DEFINE r == Record(m, m.verdict)
  <2>2. /\ r \in Operation /\ r.state = m.verdict /\ r.phase = m.phase
        /\ r.revision = m.revision + 1
    BY <1>1, <2>0, RecordIs
  <2> HIDE DEF r
  <2>3. op' = r /\ op.revision = m.revision
    BY <1>4 DEF r, Current
  <2>1. Writes(m, m.verdict, m.phase)
    BY <2>2, <2>3 DEF Writes
  <2> QED BY <1>1, <1>2, <1>3, <1>4, <2>1, IdleIs, ContinueIs
<1>5. CASE UNCHANGED op /\ Continue(p, Idle)
  BY <1>1, <1>2, <1>3, <1>5, IdleIs, ContinueIs
<1>6. CASE UNCHANGED op /\ Continue(p, n) /\ op.state = "running" /\ m.tries # 2
  <2>1. m.tries + 1 \in 0 .. 2
    BY <1>1, <1>6
  <2>2. /\ n \in View /\ n.pc = m.pc /\ n.mode = m.mode /\ n.phase = m.phase
        /\ n.verdict = m.verdict /\ n.revision = op.revision /\ n.reply = m.reply
    BY <1>1, <2>1 DEF View
  <2> HIDE DEF n
  <2>3. Others(p) /\ local'[p] = n
    BY <1>1, <1>6, <2>2, ContinueIs
  <2> QED BY <1>2, <1>3, <1>6, <2>2, <2>3
<1> QED BY <1>2, <1>4, <1>5, <1>6

\* A call gets its reply, and its process waits no longer.
LEMMA RepliedIs ==
    ASSUME LocalTyped, NEW p \in Proc, NEW r \in Reply,
           Continue(p, [local[p] EXCEPT !.reply = r])
    PROVE  /\ Others(p) /\ local'[p].pc = local[p].pc /\ Carries(local'[p], local[p])
           /\ local'[p].reply = r
<1> DEFINE n == [local[p] EXCEPT !.reply = r]
<1>1. local[p] \in View
  BY DEF LocalTyped
<1>2. n \in View /\ n.pc = local[p].pc /\ Carries(n, local[p]) /\ n.reply = r
  BY <1>1 DEF View, Carries
<1> HIDE DEF n
<1>3. Continue(p, n)
  BY DEF n
<1> QED BY <1>2, <1>3, ContinueIs

\* Effect: a port performs the call of a process.
LEMMA EffectIs ==
    ASSUME TypeInv, NEW p \in Proc, Effect(p)
    PROVE  /\ Quiet(p) /\ PortsTyped' /\ Same(local'[p], local[p])
           /\ local[p].reply = NoReply /\ Calling(local[p])
           /\ creations' = IF local[p].pc = "acquire" /\ local'[p].reply.sure
                           THEN creations + 1 ELSE creations
<1> DEFINE m == local[p]
<1>1. m.pc \in PortCalls \ GuestCalls /\ m.reply = NoReply /\ UNCHANGED op
  BY DEF Effect
<1>2. Calling(m)
  BY <1>1 DEF Calling, PortCalls, LedgerCalls, GuestCalls
<1>3. PICK sure \in BOOLEAN :
        /\ PortEffect(m.pc, m.anchor, sure)
        /\ Continue(p, [m EXCEPT !.reply = Answer(sure)])
  BY DEF Effect
<1>4. /\ PortsTyped'
      /\ creations' = IF m.pc = "acquire" /\ sure THEN creations + 1 ELSE creations
  BY <1>3, PortIs DEF TypeInv
<1>5. Answer(sure) \in Reply /\ Answer(sure).is = "done" /\ Answer(sure).sure = sure
  BY <1>4, AnswerIs
<1>6. /\ Others(p) /\ local'[p].pc = m.pc /\ Carries(local'[p], m)
      /\ local'[p].reply = Answer(sure)
  BY <1>3, <1>5, RepliedIs DEF TypeInv
<1>7. Same(local'[p], m)
  BY <1>1, <1>5, <1>6 DEF Same
<1> QED BY <1>1, <1>2, <1>4, <1>5, <1>6, <1>7 DEF Quiet, Follows

\* A call that is refused or fails leaves the operation alone.
LEMMA RefuseIs ==
    ASSUME TypeInv, NEW p \in Proc, Refuse(p) \/ Fail(p)
    PROVE  Quiet(p) /\ faults' \in 0 .. MaxFaults
<1>1. /\ local[p].pc \in PortCalls \cup {"egress"} /\ UNCHANGED op
      /\ Continue(p, [local[p] EXCEPT !.reply = Failed])
      /\ UNCHANGED faults \/ Fault
  BY DEF Refuse, Fail
<1>2. Calling(local[p])
  BY <1>1 DEF Calling, PortCalls, LedgerCalls, GuestCalls
<1>3. /\ Others(p) /\ local'[p].pc = local[p].pc /\ Carries(local'[p], local[p])
      /\ local'[p].reply = Failed
  BY <1>1, NoReplyIs, RepliedIs DEF TypeInv
<1>4. faults' \in 0 .. MaxFaults
  BY <1>1, FaultIs DEF TypeInv
<1> QED BY <1>1, <1>2, <1>3, <1>4 DEF Quiet, Follows, Same

\* The late call of a process.
LEMMA PendingIs ==
    ASSUME LocalTyped, NEW p \in Proc, NEW o \in Proc \cup {NoOne}, local[p].pc \in PortCalls
    PROVE  /\ Pending(p, o) \in Call /\ Pending(p, o).call = local[p].pc
           /\ Pending(p, o).reply = local[p].reply /\ Pending(p, o).owner = o
  BY DEF Pending, Call, LocalTyped, View

\* Timeout: the process goes on, its call is late.
LEMMA TimeoutIs ==
    ASSUME TypeInv, NEW p \in Proc, Timeout(p)
    PROVE  /\ Quiet(p) /\ faults' \in 0 .. MaxFaults /\ late' \subseteq Call
           /\ local[p].pc \in PortCalls /\ local[p].reply.is # "failed"
           /\ local'[p].mode # "run" \/ local'[p] = Idle
           /\ late' = late \cup {Pending(p, p)}
<1> DEFINE m == local[p]
<1>1. m \in View /\ LocalTyped /\ late \subseteq Call /\ m.mode \in Modes
  BY LocalIs DEF TypeInv, View
<1>2. /\ m.pc \in Timed(m) /\ m.reply.is # "failed" /\ Fault /\ UNCHANGED op
      /\ late' = late \cup {Pending(p, p)}
      /\ IF m.mode = "run"
         THEN Continue(p, Caught(m, m.pc \notin {"cleanupOnce", "settle"}))
         ELSE Continue(p, [m EXCEPT !.reply = Failed])
  BY DEF Timeout
<1>3. m.pc \in PortCalls
  BY <1>1, <1>2 DEF Timed, Modes, PortCalls, LedgerCalls
<1>4. Calling(m)
  BY <1>3 DEF Calling, PortCalls, LedgerCalls, GuestCalls
<1>5. late' \subseteq Call
  BY <1>1, <1>2, <1>3, PendingIs
<1>6. faults' \in 0 .. MaxFaults
  BY <1>2, FaultIs DEF TypeInv
<1>7. CASE m.mode = "run"
  <2> DEFINE b == m.pc \notin {"cleanupOnce", "settle"}
  <2>1. b \in BOOLEAN /\ Continue(p, Caught(m, b))
    BY <1>2, <1>7
  <2> HIDE DEF b
  <2>2. Others(p) /\ CaughtFrom(local'[p], m)
    BY <1>1, <2>1, CaughtIs, ContinueIs
  <2> QED BY <1>2, <1>3, <1>4, <1>5, <1>6, <1>7, <2>2 DEF Quiet, Follows, CaughtFrom
<1>8. CASE m.mode # "run"
  <2>1. /\ Others(p) /\ local'[p].pc = m.pc /\ Carries(local'[p], m)
        /\ local'[p].reply = Failed
    BY <1>1, <1>2, <1>8, NoReplyIs, RepliedIs
  <2> QED BY <1>2, <1>3, <1>4, <1>5, <1>6, <1>8, <2>1 DEF Quiet, Follows, Same, Carries
<1> QED BY <1>7, <1>8

\* The calls after an orphaning: the same calls, perhaps without an owner.
LEMMA CrashIs ==
    ASSUME TypeInv, NEW p \in Proc, Crash(p)
    PROVE  /\ Quiet(p) /\ local'[p] = Idle /\ local[p] # Idle
           /\ faults' \in 0 .. MaxFaults /\ late' \subseteq Call
           /\ \A k \in late' :
                \/ k \in late
                \/ \E l \in late : k = [l EXCEPT !.owner = NoOne] /\ l.owner = p
                \/ /\ k = Pending(p, NoOne)
                   /\ local[p].pc \in PortCalls /\ local[p].reply = NoReply
           /\ \A k \in late' : k.owner # p
<1>1. /\ local[p] # Idle /\ Fault /\ Continue(p, Idle) /\ UNCHANGED op
      /\ \/ late' = Orphaned(p)
         \/ /\ local[p].pc \in PortCalls /\ local[p].reply = NoReply
            /\ late' = Orphaned(p) \cup {Pending(p, NoOne)}
  BY DEF Crash
<1>2. LocalTyped /\ late \subseteq Call
  BY DEF TypeInv
<1>3. \A k \in Orphaned(p) :
        \/ k \in late /\ k.owner # p
        \/ \E l \in late : k = [l EXCEPT !.owner = NoOne] /\ l.owner = p
  BY DEF Orphaned
<1>4. \A k \in Orphaned(p) : k \in Call /\ k.owner # p
  BY <1>2, <1>3, CoordinatorAssumption DEF Call
<1>5. late' \subseteq Call
  BY <1>1, <1>2, <1>4, PendingIs
<1>8. \A k \in late' : k.owner # p
  BY <1>1, <1>2, <1>4, PendingIs, CoordinatorAssumption
<1>6. Quiet(p) /\ local'[p] = Idle
  BY <1>1, <1>2, IdleIs, ContinueIs DEF Quiet, Follows
<1>7. faults' \in 0 .. MaxFaults
  BY <1>1, FaultIs DEF TypeInv
<1> QED BY <1>1, <1>3, <1>5, <1>6, <1>7, <1>8

\* LateEffect: a port performs a late call, and every call is performed once.
LEMMA LateEffectIs ==
    ASSUME TypeInv, NEW l \in late, LateEffect(l)
    PROVE  /\ PortsTyped' /\ UNCHANGED <<op, local, faults>> /\ l.reply = NoReply
           /\ late' \subseteq Call
           /\ \A k \in late' : (k \in late /\ k # l) \/ k.reply # NoReply
           /\ \/ creations' = creations
              \/ creations' = creations + 1 /\ l.call = "acquire"
<1>1. l \in Call /\ l.reply = NoReply /\ late \subseteq Call /\ UNCHANGED <<op, local, faults>>
  BY DEF TypeInv, LateEffect
<1>2. PICK sure \in BOOLEAN :
        /\ PortEffect(l.call, l.anchor, sure)
        /\ late' \subseteq (late \ {l}) \cup {[l EXCEPT !.reply = Answer(sure)]}
  BY DEF LateEffect
<1>3. /\ PortsTyped'
      /\ creations' = IF l.call = "acquire" /\ sure THEN creations + 1 ELSE creations
  BY <1>2, PortIs DEF TypeInv
<1>4. Answer(sure) \in Reply /\ Answer(sure).is = "done"
  BY <1>3, AnswerIs
<1> DEFINE k == [l EXCEPT !.reply = Answer(sure)]
<1>5. k \in Call /\ k.reply = Answer(sure)
  BY <1>1, <1>4 DEF Call
<1>6. k.reply # NoReply
  BY <1>4, <1>5, NoReplyIs
<1> HIDE DEF k
<1>7. late' \subseteq (late \ {l}) \cup {k}
  BY <1>2 DEF k
<1> QED BY <1>1, <1>3, <1>5, <1>6, <1>7

\* What undoes a late call acquires nothing.
LEMMA UndoIs == \A c \in DOMAIN Undo : Undo[c] # "acquire"
  BY DEF Undo

\* LateUndo changes the ports only.
LEMMA LateUndoIs ==
    ASSUME TypeInv, NEW l \in late, LateUndo(l)
    PROVE  /\ PortsTyped' /\ UNCHANGED <<op, local, creations>>
           /\ faults' \in 0 .. MaxFaults /\ late' \subseteq late
<1>1. l.call \in DOMAIN Undo /\ late' \subseteq late /\ UNCHANGED <<op, local>>
  BY DEF LateUndo, Undone
<1>2. PICK a \in UndoAnchors(l) :
        \/ /\ \E sure \in BOOLEAN : PortEffect(Undo[l.call], a, sure)
           /\ UNCHANGED faults
        \/ /\ MustRefuse(Undo[l.call], a)
           /\ UNCHANGED <<portVars, faults>>
        \/ Fault /\ UNCHANGED portVars
  BY DEF LateUndo
<1>3. faults' \in 0 .. MaxFaults
  BY <1>2, FaultIs DEF TypeInv
<1>4. CASE \E sure \in BOOLEAN : PortEffect(Undo[l.call], a, sure)
  BY <1>1, <1>3, <1>4, UndoIs, PortIs DEF TypeInv
<1>5. CASE UNCHANGED portVars
  BY <1>1, <1>3, <1>5, PortsStay DEF TypeInv, portVars
<1> QED BY <1>2, <1>4, <1>5

\* LateAnswer ends the late call; that of the ledger may converge the operation.
LEMMA LateAnswerIs ==
    ASSUME TypeInv, NEW l \in late, LateAnswer(l)
    PROVE  /\ UNCHANGED <<portVars, faults>> /\ late' \subseteq late /\ LocalTyped'
           /\ UNCHANGED op \/ Converged
           /\ \A q \in Proc :
                \/ local'[q] = local[q]
                \/ /\ local[q].mode = "catch" /\ local'[q].pc = local[q].pc
                   /\ local'[q].reply = local[q].reply /\ Carries(local'[q], local[q])
<1>1. /\ UNCHANGED <<portVars, faults>> /\ late' \subseteq late
      /\ l.reply.anchor \in Nat /\ LocalTyped
  BY DEF LateAnswer, TypeInv, Call, Reply
<1>2. UNCHANGED op \/ Converged
  BY <1>1, ConvergeIs DEF LateAnswer
<1> DEFINE a == l.reply.anchor
<1>3. \/ UNCHANGED local
      \/ /\ local[l.owner].mode = "catch"
         /\ local' = [local EXCEPT ![l.owner].anchor = a]
  BY DEF LateAnswer
<1>4. CASE UNCHANGED local
  BY <1>1, <1>2, <1>4 DEF LocalTyped
<1>5. CASE /\ local[l.owner].mode = "catch"
           /\ local' = [local EXCEPT ![l.owner].anchor = a]
  <2> HIDE DEF a
  <2>1. a \in Nat
    BY <1>1 DEF a
  <2>2. ASSUME NEW m \in View
        PROVE  LET n == [m EXCEPT !.anchor = a] IN
               n \in View /\ n.pc = m.pc /\ n.reply = m.reply /\ Carries(n, m)
    BY <2>1 DEF View, Carries
  <2>3. \A q \in Proc : local[q] \in View
    BY <1>1 DEF LocalTyped
  <2>4. \A q \in Proc \ {l.owner} : local'[q] = local[q]
    BY <1>1, <1>5 DEF LocalTyped
  <2>5. l.owner \in Proc => local'[l.owner] = [local[l.owner] EXCEPT !.anchor = a]
    BY <1>1, <1>5 DEF LocalTyped
  <2>6. l.owner \in Proc =>
          /\ local'[l.owner] \in View /\ local'[l.owner].pc = local[l.owner].pc
          /\ local'[l.owner].reply = local[l.owner].reply
          /\ Carries(local'[l.owner], local[l.owner])
    BY <2>2, <2>3, <2>5
  <2>7. LocalTyped'
    <3>1. \A q \in Proc : local'[q] \in View
      BY <2>3, <2>4, <2>6
    <3>2. local' = [q \in Proc |-> local'[q]]
      BY <1>1, <1>5 DEF LocalTyped
    <3> QED BY <3>1, <3>2 DEF LocalTyped
  <2> QED BY <1>1, <1>2, <1>5, <2>4, <2>6, <2>7
<1> QED BY <1>3, <1>4, <1>5

\* ReconcileCleanup: an operator settles a quarantined operation, which stays so.
LEMMA ReconcileIs ==
    ASSUME TypeInv, ReconcileCleanup
    PROVE  /\ UNCHANGED <<local, late, creations, faults>> /\ PortsTyped'
           /\ op.state = "quarantined" /\ op' \in Operation
           /\ op'.state = "quarantined" /\ op'.phase = op.phase
           /\ op'.revision = op.revision + 1
<1> DEFINE g == op.generation + 1
           r == op.revision + 1
           a == ledgerRevision + 1
           o == [op EXCEPT !.generation = g, !.revision = r, !.cleanup = "certain",
                           !.anchor = a, !.resultAnchor = a]
<1>1. op \in Operation /\ PortsTyped
  BY DEF TypeInv
<1>2. g \in Nat /\ r \in Nat /\ a \in Nat /\ "certain" \in Cleanups
  BY <1>1 DEF Operation, PortsTyped, Cleanups
<1>3. /\ UNCHANGED <<local, late, freed, creations, broker, faults>>
      /\ op.state = "quarantined" /\ sandbox' = "gone" /\ ledgerRevision' = a
      /\ Ledger!ReconcileCleanup /\ op' = o
  BY DEF ReconcileCleanup
<1>4. PortsTyped'
  BY <1>1, <1>2, <1>3 DEF PortsTyped, Ledger!ReconcileCleanup, Ledger!Statuses
<1> HIDE DEF g, r, a
<1>5. /\ o \in Operation /\ o.state = op.state /\ o.phase = op.phase
      /\ o.revision = r
  BY <1>1, <1>2 DEF Operation
<1> HIDE DEF o
<1> QED BY <1>3, <1>4, <1>5 DEF r

-----------------------------------------------------------------------------
\* A step of a process, or of nobody, that keeps the types.
LEMMA QuietTyped ==
    ASSUME TypeInv, NEW p \in Proc, Quiet(p)
    PROVE  /\ op' \in Operation /\ LocalTyped'
           /\ \A q \in Proc : local'[q].revision <= op'.revision
<1>1. op.revision \in Nat /\ local[p].revision <= op.revision
  BY DEF TypeInv, Operation
<1>2. local'[p].revision = local[p].revision \/ local'[p] = Idle
  BY DEF Quiet, Follows, CaughtFrom, Same, WindsDown, RunEnded, Retries, Carries
<1>3. local'[p].revision <= op'.revision
  BY <1>1, <1>2, IdleIs DEF Quiet
<1> QED BY <1>3 DEF Quiet, Others, TypeInv

\* No process knows a revision that is not written yet.
LEMMA WritesTyped ==
    ASSUME TypeInv, NEW p \in Proc, Others(p), op' \in Operation,
           op'.revision >= op.revision,
           local'[p].revision = op'.revision \/ local'[p] = Idle
    PROVE  \A q \in Proc : local'[q].revision <= op'.revision
<1>1. /\ op.revision \in Nat /\ op'.revision \in Nat
      /\ \A q \in Proc : local[q].revision \in Nat /\ local[q].revision <= op.revision
  BY LocalIs DEF TypeInv, Operation, View
<1> QED BY <1>1, IdleIs DEF Others

\* Next, as the cases of a proof.
LEMMA NextIs ==
    ASSUME Next
    PROVE  \/ \E p \in Proc :
                \/ Start(p) \/ Load(p) \/ Fence(p) \/ Save(p) \/ RetryAcquire(p)
                \/ RunFailed(p) \/ RunEnds(p) \/ WindDown(p) \/ ConvergeAndGo(p)
                \/ Terminal(p) \/ Effect(p) \/ Refuse(p) \/ Fail(p) \/ Timeout(p)
                \/ Crash(p)
           \/ \E l \in late : LateEffect(l) \/ LateDropped(l) \/ LateUndo(l) \/ LateAnswer(l)
           \/ OtherJob
           \/ ReconcileCleanup
  BY DEF Next, Compile, Step, Port

\* Where a process is says who it is: an acquisition is made by the client that
\* started the operation, a fence belongs to a recovery, a process without a call
\* holds nothing, and no reply is left where none is awaited.
Fits(m) ==
    /\ m.pc \in {"reserve", "retryBeforeCreate", "acquire"} => m.mode = "run"
    /\ m.pc = "fence" => m.mode = "recover"
    /\ m.pc = "idle" => m = Idle
    /\ m.pc \in {"converge", "terminal"} => m.reply = NoReply
AllFit == \A p \in Proc : Fits(local[p])

\* The actions that write neither the calls in flight nor the ports.
StepOf(p) ==
    \/ Start(p) \/ Load(p) \/ Fence(p) \/ Save(p) \/ RetryAcquire(p) \/ RunFailed(p)
    \/ RunEnds(p) \/ WindDown(p) \/ ConvergeAndGo(p) \/ Terminal(p) \/ Refuse(p) \/ Fail(p)

\* The steps of #start, #run, #recover and the catch clause touch no port.
LEMMA StepFrame ==
    ASSUME NEW p \in Proc, StepOf(p)
    PROVE  /\ UNCHANGED <<late, portVars>>
           /\ Save(p) \/ Terminal(p) \/ Refuse(p) \/ Fail(p) \/ UNCHANGED faults
  BY DEF StepOf, Start, Load, Fence, Save, RetryAcquire, RunFailed, RunEnds, WindDown,
     ConvergeAndGo, Terminal, Refuse, Fail

\* Only a process at a call can see its call fail.
LEMMA FailedCalls ==
    ASSUME AllFit, NEW p \in Proc, RunFailed(p)
    PROVE  Calling(local[p])
  BY NoReplyIs, IdleIs DEF AllFit, Fits, RunFailed, Calling, Idle

\* Every step keeps the types.
LEMMA TypeNext ==
    ASSUME TypeInv, AllFit, Next
    PROVE  TypeInv'
<1>1. /\ PortsTyped /\ LocalTyped /\ late \subseteq Call /\ faults \in 0 .. MaxFaults
      /\ op \in Operation /\ \A q \in Proc : local[q].revision <= op.revision
      /\ op.revision \in Nat
  BY DEF TypeInv, Operation
<1>2. ASSUME UNCHANGED <<op, local>>
      PROVE  /\ op' \in Operation /\ LocalTyped'
             /\ \A q \in Proc : local'[q].revision <= op'.revision
  BY <1>1, <1>2 DEF LocalTyped
<1>3. ASSUME NEW p \in Proc, StepOf(p) PROVE TypeInv'
  <2>1. PortsTyped' /\ late' \subseteq Call
    BY <1>1, <1>3, StepFrame, PortsStay
  <2>2. ASSUME Others(p), op' \in Operation, op'.revision >= op.revision,
               local'[p].revision = op'.revision \/ local'[p] = Idle,
               faults' \in 0 .. MaxFaults
        PROVE  TypeInv'
    BY <2>1, <2>2, WritesTyped DEF TypeInv, Others
  <2>3. ASSUME Quiet(p), faults' \in 0 .. MaxFaults PROVE TypeInv'
    BY <2>1, <2>3, QuietTyped DEF TypeInv
  <2>4. CASE Start(p)
    BY <1>1, <1>3, <2>2, <2>4, StartIs DEF Start
  <2>5. CASE Load(p)
    BY <1>1, <1>3, <2>2, <2>5, LoadIs DEF Load
  <2>6. CASE Fence(p)
    <3>1. faults' \in 0 .. MaxFaults
      BY <1>1, <2>6 DEF Fence
    <3>2. /\ Others(p)
          /\ \/ Writes(local[p], "running", local[p].phase) /\ local'[p].revision = op'.revision
             \/ UNCHANGED op /\ local'[p] = Idle
      BY <2>6, FenceIs
    <3> QED BY <1>1, <2>2, <3>1, <3>2 DEF Writes
  <2>7. CASE Save(p)
    <3>1. LET m == local[p]  n == local'[p] IN
          /\ Others(p) /\ faults' \in 0 .. MaxFaults
          /\ \/ Writes(m, "running", SavedAs[m.pc]) /\ n.revision = op'.revision
             \/ /\ CaughtFrom(n, Adopt(m))
                /\ UNCHANGED op \/ Writes(m, "running", SavedAs[m.pc])
      BY <2>7, SaveIs
    <3>2. Adopt(local[p]).revision = local[p].revision /\ local[p].revision \in Nat
          /\ local[p].revision <= op.revision
      BY <1>1, LocalIs, AdoptIs DEF View
    <3>3. CASE local'[p].revision = op'.revision /\ Writes(local[p], "running", SavedAs[local[p].pc])
      BY <1>1, <2>2, <3>1, <3>3 DEF Writes
    <3>4. CASE /\ CaughtFrom(local'[p], Adopt(local[p]))
               /\ UNCHANGED op \/ Writes(local[p], "running", SavedAs[local[p].pc])
      <4>1. local'[p].revision = local[p].revision \/ local'[p] = Idle
        BY <3>2, <3>4 DEF CaughtFrom
      <4>2. op' \in Operation /\ op'.revision \in Nat /\ op'.revision >= op.revision
        BY <1>1, <3>4 DEF Writes, Operation
      <4>3. local'[p].revision <= op'.revision
        BY <1>1, <3>2, <4>1, <4>2, IdleIs
      <4>4. \A q \in Proc : local[q].revision \in Nat /\ local[q].revision <= op.revision
        BY <1>1, LocalIs DEF View
      <4>5. \A q \in Proc : local'[q].revision <= op'.revision
        BY <1>1, <3>1, <4>2, <4>3, <4>4 DEF Others
      <4> QED BY <2>1, <3>1, <4>2, <4>5 DEF TypeInv, Others
    <3> QED BY <3>1, <3>3, <3>4
  <2>8. CASE RetryAcquire(p)
    BY <1>1, <1>3, <2>3, <2>8, RetryAcquireIs DEF RetryAcquire
  <2>9. CASE RunFailed(p)
    <3>1. Calling(local[p])
      BY <2>9, FailedCalls
    <3> QED BY <1>1, <2>3, <2>9, <3>1, RunFailedIs DEF RunFailed
  <2>10. CASE RunEnds(p)
    BY <1>1, <2>3, <2>10, RunEndsIs DEF RunEnds
  <2>11. CASE WindDown(p)
    BY <1>1, <2>3, <2>11, WindDownIs DEF WindDown
  <2>12. CASE ConvergeAndGo(p)
    <3>1. faults' \in 0 .. MaxFaults
      BY <1>1, <2>12 DEF ConvergeAndGo
    <3>2. /\ Others(p)
          /\ \/ UNCHANGED op /\ local'[p] = Idle
             \/ Converged /\ local'[p].revision = op'.revision
      BY <2>12, ConvergeAndGoIs
    <3> QED BY <1>1, <2>2, <3>1, <3>2 DEF Converged
  <2>13. CASE Terminal(p)
    BY <1>1, <2>2, <2>13, TerminalIs DEF Writes
  <2>14. CASE Refuse(p) \/ Fail(p)
    BY <2>3, <2>14, RefuseIs
  <2> QED BY <1>3, <2>4, <2>5, <2>6, <2>7, <2>8, <2>9, <2>10, <2>11, <2>12, <2>13, <2>14
       DEF StepOf
<1>4. ASSUME NEW p \in Proc, Effect(p) PROVE TypeInv'
  BY <1>1, <1>4, EffectIs, QuietTyped DEF TypeInv, Effect
<1>5. ASSUME NEW p \in Proc, Timeout(p) \/ Crash(p) PROVE TypeInv'
  <2>1. UNCHANGED portVars
    BY <1>5 DEF Timeout, Crash
  <2> QED BY <1>1, <1>5, <2>1, TimeoutIs, CrashIs, QuietTyped, PortsStay DEF TypeInv
<1>6. ASSUME NEW l \in late, LateEffect(l) PROVE TypeInv'
  BY <1>1, <1>2, <1>6, LateEffectIs DEF TypeInv
<1>7. ASSUME NEW l \in late, LateDropped(l) PROVE TypeInv'
  BY <1>1, <1>2, <1>7, PortsStay DEF TypeInv, LateDropped
<1>8. ASSUME NEW l \in late, LateUndo(l) PROVE TypeInv'
  BY <1>1, <1>2, <1>8, LateUndoIs DEF TypeInv
<1>9. ASSUME NEW l \in late, LateAnswer(l) PROVE TypeInv'
  <2>1. /\ UNCHANGED <<portVars, faults>> /\ late' \subseteq late /\ LocalTyped'
        /\ UNCHANGED op \/ Converged
        /\ \A q \in Proc : local'[q].revision = local[q].revision
    BY <1>9, LateAnswerIs DEF Carries
  <2>2. op' \in Operation /\ op'.revision \in Nat /\ op'.revision >= op.revision
    BY <1>1, <2>1 DEF Converged, Operation
  <2>3. \A q \in Proc : local[q].revision \in Nat
    BY LocalIs DEF View
  <2>4. \A q \in Proc : local'[q].revision <= op'.revision
    BY <1>1, <2>1, <2>2, <2>3
  <2> QED BY <1>1, <2>1, <2>2, <2>4, PortsStay DEF TypeInv
<1>10. CASE OtherJob
  <2>1. PortsTyped'
    BY <1>1, <1>10 DEF OtherJob, PortsTyped
  <2> QED BY <1>1, <1>2, <1>10, <2>1, FaultIs DEF OtherJob, TypeInv
<1>11. CASE ReconcileCleanup
  <2>1. \A q \in Proc : local[q].revision \in Nat
    BY LocalIs DEF View
  <2>2. \A q \in Proc : local'[q].revision <= op'.revision
    BY <1>1, <1>11, <2>1, ReconcileIs
  <2> QED BY <1>1, <1>11, <2>2, ReconcileIs DEF TypeInv, LocalTyped
<1> QED BY <1>3, <1>4, <1>5, <1>6, <1>7, <1>8, <1>9, <1>10, <1>11, NextIs DEF StepOf

-----------------------------------------------------------------------------
\* One operation creates one sandbox.  The client that starts the operation is
\* the only one that acquires, and its acquisition is in one place: it is still
\* to be made or answered (Early), or it is a late call (Awaits), or it is over.
InRun(m) == m.mode = "run" /\ m.pc # "idle"
Early(m) ==
    /\ m.mode = "run"
    /\ \/ m.pc \in {"reserve", "retryBeforeCreate"}
       \/ /\ m.pc = "acquire"
          /\ m.reply = NoReply \/ (m.reply.is = "done" /\ ~m.reply.sure)
Awaits(l) == l.call = "acquire" /\ l.reply = NoReply
Unborn ==
    op.state = "none" => late = {} /\ creations = 0 /\ \A p \in Proc : local[p] = Idle
OneRun == \A p, q \in Proc : InRun(local[p]) /\ InRun(local[q]) => p = q
CreatesOnce ==
    /\ creations <= 1
    /\ \A p \in Proc : Early(local[p]) => creations = 0 /\ \A l \in late : ~Awaits(l)
    /\ \A l \in late : Awaits(l) => creations = 0 /\ \A k \in late : Awaits(k) => k = l
OnceInv == Unborn /\ OneRun /\ AllFit /\ CreatesOnce

\* A step after which a process acquires only if it was about to before.
Tame(n, m) ==
    /\ Fits(n)
    /\ InRun(n) => InRun(m)
    /\ Early(n) => Early(m)

\* Losing its call makes nobody acquire.
LEMMA IdleTame == \A m : Tame(Idle, m)
  BY IdleIs DEF Tame, Fits, InRun, Early

\* Standing still makes nobody acquire.
LEMMA FitTame == \A m : Fits(m) => Tame(m, m)
  BY DEF Tame

\* An error makes nobody acquire.
LEMMA CaughtTame ==
    ASSUME NEW n, NEW m, NEW k, CaughtFrom(n, k)
    PROVE  Tame(n, m)
  BY IdleTame DEF CaughtFrom, Tame, Fits, InRun, Early

\* A quiet step makes nobody acquire.
LEMMA FollowsTame ==
    ASSUME NEW n, NEW m, Fits(m), Follows(n, m)
    PROVE  Tame(n, m)
<1>1. CASE n = Idle
  BY <1>1, IdleTame
<1>2. CASE CaughtFrom(n, m)
  BY <1>2, CaughtTame
<1>3. CASE Calling(m) /\ Same(n, m)
  BY <1>3, NoReplyIs DEF Calling, Same, Carries, Tame, Fits, InRun, Early
<1>4. CASE WindsDown(n, m)
  BY <1>4 DEF WindsDown, Carries, Tame, Fits, InRun, Early
<1>5. CASE RunEnded(n, m)
  BY <1>5 DEF RunEnded, Tame, Fits, InRun, Early
<1>6. CASE Retries(n, m)
  BY <1>6 DEF Retries, Carries, Tame, Fits, InRun, Early
<1> QED BY <1>1, <1>2, <1>3, <1>4, <1>5, <1>6 DEF Follows

\* Steps that create nothing and let nobody acquire keep OnceInv,
LEMMA OnceStays ==
    ASSUME OnceInv, op'.state # "none", creations' = creations,
           \A q \in Proc : Tame(local'[q], local[q]),
           \A k \in late' : Awaits(k) => k \in late
    PROVE  OnceInv'
<1>1. Unborn'
  BY DEF Unborn
<1>2. OneRun' /\ AllFit'
  BY DEF OnceInv, OneRun, AllFit, Tame
<1>3. CreatesOnce'
  BY DEF OnceInv, CreatesOnce, Tame
<1> QED BY <1>1, <1>2, <1>3 DEF OnceInv

\* and so does such a step of one process.
LEMMA OneStays ==
    ASSUME OnceInv, op'.state # "none", creations' = creations, NEW p \in Proc, Others(p),
           Tame(local'[p], local[p]), \A k \in late' : Awaits(k) => k \in late
    PROVE  OnceInv'
<1>1. \A q \in Proc : Tame(local'[q], local[q])
  BY FitTame DEF Others, OnceInv, AllFit
<1> QED BY <1>1, OnceStays

\* Nothing is under way before an operation is started.
LEMMA Born ==
    ASSUME OnceInv
    PROVE  /\ \A p \in Proc : local[p].pc # "idle" => op.state # "none"
           /\ late # {} => op.state # "none"
  BY IdleIs DEF OnceInv, Unborn

\* The acquisition leaves process p: it has failed, is done or has come late.
LEMMA HandedOver ==
    ASSUME OnceInv, op'.state # "none", NEW p \in Proc, Others(p),
           Early(local[p]), Tame(local'[p], local[p]), ~Early(local'[p])
    PROVE  /\ Unborn' /\ OneRun' /\ AllFit'
           /\ \A q \in Proc : ~Early(local'[q])
           /\ creations = 0 /\ \A l \in late : ~Awaits(l)
<1>1. \A q \in Proc : Tame(local'[q], local[q])
  BY FitTame DEF Others, OnceInv, AllFit
<1>2. Unborn' /\ OneRun' /\ AllFit'
  BY <1>1 DEF OnceInv, Unborn, OneRun, AllFit, Tame
<1>3. \A q \in Proc : Early(local'[q]) => q = p
  BY <1>1 DEF Tame, OnceInv, OneRun, Early, InRun
<1> QED BY <1>2, <1>3 DEF OnceInv, CreatesOnce

\* The steps of a process keep OnceInv.
LEMMA OnceStep ==
    ASSUME TypeInv, OnceInv, NEW p \in Proc, StepOf(p)
    PROVE  OnceInv'
<1>1. UNCHANGED <<late, creations>>
  BY StepFrame DEF portVars
<1>2. Fits(local[p])
  BY DEF OnceInv, AllFit
<1>3. ASSUME Others(p), Tame(local'[p], local[p]), op'.state # "none" PROVE OnceInv'
  BY <1>1, <1>3, OneStays
<1>4. ASSUME Quiet(p), local[p].pc # "idle" PROVE OnceInv'
  BY <1>2, <1>3, <1>4, FollowsTame, Born DEF Quiet
<1>5. CASE Start(p)
  <2>1. /\ Others(p) /\ op.state = "none" /\ op'.state = "running"
        /\ local'[p].pc = "reserve" /\ local'[p].mode = "run"
    BY <1>5, StartIs
  <2>2. late' = {} /\ creations' = 0 /\ \A q \in Proc : local[q] = Idle
    BY <1>1, <2>1 DEF OnceInv, Unborn
  <2>3. Fits(local'[p]) /\ Fits(Idle) /\ ~InRun(Idle)
    BY <2>1, IdleIs DEF Fits, InRun
  <2>4. \A q \in Proc \ {p} : local'[q] = Idle
    BY <2>1, <2>2 DEF Others
  <2> QED BY <2>1, <2>2, <2>3, <2>4 DEF OnceInv, Unborn, OneRun, AllFit, CreatesOnce
<1>6. CASE Load(p)
  BY <1>3, <1>6, LoadIs DEF Tame, Fits, InRun, Early
<1>7. CASE Fence(p)
  <2>1. /\ Others(p) /\ local[p].pc = "fence"
        /\ UNCHANGED op \/ op'.state = "running"
        /\ \/ local'[p] = Idle
           \/ /\ local'[p].mode = local[p].mode /\ local'[p].reply = NoReply
              /\ local'[p].pc \in {"terminal", "revoke", "cleanupOnce", "retain", "ledgerRelease"}
    BY <1>7, FenceIs DEF Writes
  <2>2. Tame(local'[p], local[p])
    BY <1>2, <2>1, IdleTame DEF Tame, Fits, InRun, Early
  <2> QED BY <1>3, <2>1, <2>2, Born
<1>8. CASE Save(p)
  <2> DEFINE m == local[p]
             n == local'[p]
  <2>1. /\ Others(p) /\ m.mode = "run" /\ m.pc \in DOMAIN SavedAs
        /\ UNCHANGED op \/ op'.state = "running"
        /\ \/ /\ n.pc = IF m.pc = "cleanupOnce" THEN AfterCleanup(Adopt(m))
                         ELSE FollowedBy[m.pc]
              /\ n.mode = "run"
           \/ CaughtFrom(n, Adopt(m))
    BY <1>8, SaveIs DEF Writes
  <2>2. m.pc # "idle"
    BY <2>1, SavedAsIs
  <2>3. CASE /\ n.pc = IF m.pc = "cleanupOnce" THEN AfterCleanup(Adopt(m))
                        ELSE FollowedBy[m.pc]
             /\ n.mode = "run"
    <3>1. n.pc \notin {"idle", "fence", "reserve", "retryBeforeCreate", "converge", "terminal"}
      BY <2>1, <2>3, SavedAsIs, AfterCleanupIs
    <3>2. n.pc = "acquire" => m.pc \in {"reserve", "retryBeforeCreate"}
      BY <2>1, <2>3, SavedAsIs, AfterCleanupIs
    <3>3. Tame(n, m)
      BY <2>1, <2>2, <2>3, <3>1, <3>2 DEF Tame, Fits, InRun, Early
    <3> QED BY <1>3, <2>1, <2>2, <3>3, Born
  <2>4. CASE CaughtFrom(n, Adopt(m))
    BY <1>3, <2>1, <2>2, <2>4, CaughtTame, Born
  <2> QED BY <2>1, <2>3, <2>4
<1>9. CASE RetryAcquire(p)
  BY <1>4, <1>9, RetryAcquireIs DEF RetryAcquire
<1>10. CASE RunFailed(p)
  <2>1. Calling(local[p])
    BY <1>10, FailedCalls DEF OnceInv
  <2> QED BY <1>4, <1>10, <2>1, RunFailedIs DEF Calling
<1>11. CASE RunEnds(p)
  <2>1. local[p].pc # "idle"
    BY <1>11, LocalIs, AdoptIs DEF RunEnds
  <2> QED BY <1>4, <1>11, <2>1, RunEndsIs
<1>12. CASE WindDown(p)
  <2>1. local[p].pc # "idle"
    BY <1>12, LocalIs, AdoptIs DEF WindDown
  <2> QED BY <1>4, <1>12, <2>1, WindDownIs
<1>13. CASE ConvergeAndGo(p)
  <2>1. /\ Others(p) /\ local[p].pc = "converge" /\ op'.state = op.state
        /\ \/ local'[p] = Idle
           \/ /\ local'[p].pc = "terminal" /\ local'[p].mode = local[p].mode
              /\ local'[p].reply = NoReply
    BY <1>13, ConvergeAndGoIs DEF Converged
  <2>2. Tame(local'[p], local[p])
    BY <2>1, IdleTame DEF Tame, Fits, InRun, Early
  <2> QED BY <1>3, <2>1, <2>2, Born
<1>14. CASE Terminal(p)
  <2>1. /\ Others(p) /\ local[p].pc = "terminal"
        /\ op'.state = op.state \/ op'.state = local[p].verdict
        /\ \/ local'[p] = Idle
           \/ /\ local'[p].pc = "terminal" /\ local'[p].mode = local[p].mode
              /\ local'[p].reply = local[p].reply
    BY <1>14, TerminalIs DEF Writes
  <2>2. Tame(local'[p], local[p])
    BY <1>2, <2>1, IdleTame DEF Tame, Fits, InRun, Early
  <2>3. local[p].verdict # "none"
    BY LocalIs DEF View, Outcomes
  <2> QED BY <1>3, <2>1, <2>2, <2>3, Born
<1>15. CASE Refuse(p) \/ Fail(p)
  <2>1. local[p].pc # "idle"
    BY <1>15 DEF Refuse, Fail, PortCalls, LedgerCalls, GuestCalls
  <2> QED BY <1>4, <1>15, <2>1, RefuseIs
<1> QED BY <1>5, <1>6, <1>7, <1>8, <1>9, <1>10, <1>11, <1>12, <1>13, <1>14, <1>15 DEF StepOf

\* Every step keeps OnceInv.
LEMMA OnceNext ==
    ASSUME TypeInv, OnceInv, Next
    PROVE  OnceInv'
<1>1. \A q \in Proc : Tame(local[q], local[q])
  BY FitTame DEF OnceInv, AllFit
<1>2. ASSUME NEW p \in Proc, StepOf(p) PROVE OnceInv'
  BY <1>2, OnceStep
<1>3. ASSUME NEW p \in Proc, Effect(p) PROVE OnceInv'
  <2> DEFINE m == local[p]
             n == local'[p]
  <2>1. /\ Others(p) /\ Same(n, m) /\ m.reply = NoReply /\ Calling(m)
        /\ op' = op /\ late' = late /\ Follows(n, m)
        /\ creations' = IF m.pc = "acquire" /\ n.reply.sure THEN creations + 1 ELSE creations
    BY <1>3, EffectIs DEF Quiet, Effect
  <2>2. Tame(n, m)
    BY <2>1, FollowsTame DEF OnceInv, AllFit
  <2>3. op'.state # "none"
    BY <2>1, Born DEF Calling
  <2>4. CASE m.pc = "acquire" /\ n.reply.sure
    <3>1. Early(m)
      BY <2>1, <2>4 DEF OnceInv, AllFit, Fits, Early
    <3>2. ~Early(n)
      BY <2>1, <2>4, NoReplyIs DEF Same, Early
    <3>3. /\ Unborn' /\ OneRun' /\ AllFit' /\ \A q \in Proc : ~Early(local'[q])
          /\ creations = 0 /\ \A l \in late : ~Awaits(l)
      BY <2>1, <2>2, <2>3, <3>1, <3>2, HandedOver
    <3> QED BY <2>1, <2>4, <3>3 DEF OnceInv, CreatesOnce
  <2>5. CASE ~(m.pc = "acquire" /\ n.reply.sure)
    BY <2>1, <2>2, <2>3, <2>5, OneStays
  <2> QED BY <2>4, <2>5
<1>4. ASSUME NEW p \in Proc, Timeout(p) PROVE OnceInv'
  <2> DEFINE m == local[p]
             n == local'[p]
  <2>1. /\ Others(p) /\ Follows(n, m) /\ m.pc \in PortCalls /\ m.reply.is # "failed"
        /\ op' = op /\ creations' = creations /\ late' = late \cup {Pending(p, p)}
        /\ n.mode # "run" \/ n = Idle
    BY <1>4, TimeoutIs DEF Quiet, Timeout, portVars
  <2>2. Tame(n, m)
    BY <2>1, FollowsTame DEF OnceInv, AllFit
  <2>3. op'.state # "none"
    BY <2>1, Born DEF PortCalls, LedgerCalls, GuestCalls
  <2>4. Pending(p, p).call = m.pc /\ Pending(p, p).reply = m.reply
    BY <2>1, PendingIs DEF TypeInv
  <2>5. CASE Awaits(Pending(p, p))
    <3>1. Early(m)
      BY <2>4, <2>5 DEF Awaits, OnceInv, AllFit, Fits, Early
    <3>2. ~Early(n)
      BY <2>1, IdleIs DEF Early
    <3>3. /\ Unborn' /\ OneRun' /\ AllFit' /\ \A q \in Proc : ~Early(local'[q])
          /\ creations = 0 /\ \A l \in late : ~Awaits(l)
      BY <2>1, <2>2, <2>3, <3>1, <3>2, HandedOver
    <3> QED BY <2>1, <3>3 DEF OnceInv, CreatesOnce
  <2>6. CASE ~Awaits(Pending(p, p))
    BY <2>1, <2>2, <2>3, <2>6, OneStays
  <2> QED BY <2>5, <2>6
<1>5. ASSUME NEW p \in Proc, Crash(p) PROVE OnceInv'
  <2> DEFINE m == local[p]
             k0 == Pending(p, NoOne)
             Pends == m.pc = "acquire" /\ m.reply = NoReply
  <2>1. /\ Others(p) /\ local'[p] = Idle /\ m # Idle
        /\ op' = op /\ creations' = creations /\ late' \subseteq Call
        /\ \A k \in late' :
             /\ k.owner # p
             /\ \/ k \in late
                \/ \E l \in late : k = [l EXCEPT !.owner = NoOne] /\ l.owner = p
                \/ k = k0 /\ m.pc \in PortCalls /\ m.reply = NoReply
    BY <1>5, CrashIs DEF Quiet, Crash, portVars
  <2>2. Tame(local'[p], m)
    BY <2>1, IdleTame
  <2>3. op'.state # "none"
    BY <2>1, Born DEF OnceInv, AllFit, Fits
  <2>4. \A l \in late : /\ [l EXCEPT !.owner = NoOne].call = l.call
                         /\ [l EXCEPT !.owner = NoOne].reply = l.reply
    BY DEF TypeInv, Call
  <2>5. m.pc \in PortCalls => k0.call = m.pc /\ k0.reply = m.reply
    BY PendingIs DEF TypeInv
  <2>6. \A k \in late' : Awaits(k) =>
           \/ k \in late
           \/ \E l \in late : k = [l EXCEPT !.owner = NoOne] /\ l.owner = p /\ Awaits(l)
           \/ k = k0 /\ Pends
    <3> SUFFICES ASSUME NEW k \in late', Awaits(k)
                 PROVE  \/ k \in late
                        \/ \E l \in late : k = [l EXCEPT !.owner = NoOne] /\ l.owner = p /\ Awaits(l)
                        \/ k = k0 /\ Pends
      OBVIOUS
    <3>1. CASE k \in late
      BY <3>1
    <3>2. ASSUME NEW l \in late, k = [l EXCEPT !.owner = NoOne], l.owner = p
          PROVE  Awaits(l)
      BY <2>4, <3>2 DEF Awaits
    <3>3. CASE k = k0 /\ m.pc \in PortCalls /\ m.reply = NoReply
      <4>1. Pends
        BY <2>5, <3>3 DEF Awaits
      <4> QED BY <3>3, <4>1
    <3> HIDE DEF k0, Pends
    <3> QED BY <2>1, <3>1, <3>2, <3>3
  <2>7. CASE Pends
    <3>1. Early(m) /\ ~Early(local'[p])
      BY <2>1, <2>7, IdleIs DEF OnceInv, AllFit, Fits, Early
    <3>2. /\ Unborn' /\ OneRun' /\ AllFit' /\ \A q \in Proc : ~Early(local'[q])
          /\ creations = 0 /\ \A l \in late : ~Awaits(l)
      BY <2>1, <2>2, <2>3, <3>1, HandedOver
    <3>3. \A k \in late' : Awaits(k) => k = k0
      BY <2>6, <3>2
    <3> QED BY <2>1, <3>2, <3>3 DEF OnceInv, CreatesOnce
  <2>8. CASE ~Pends
    <3>1. \A q \in Proc : Tame(local'[q], local[q])
      BY <1>1, <2>1, <2>2 DEF Others
    <3>2. Unborn' /\ OneRun' /\ AllFit' /\ creations <= 1
      BY <2>3, <3>1 DEF OnceInv, Unborn, OneRun, AllFit, Tame, CreatesOnce
    <3>3. ASSUME NEW k \in late', Awaits(k)
          PROVE  \E l \in late : /\ Awaits(l) /\ creations = 0
                                 /\ \A j \in late : Awaits(j) => j = l
                                 /\ k = IF l.owner = p THEN [l EXCEPT !.owner = NoOne] ELSE l
      BY <2>1, <2>6, <2>8, <3>3 DEF OnceInv, CreatesOnce
    <3>4. ASSUME NEW k \in late', Awaits(k), NEW j \in late', Awaits(j) PROVE j = k
      BY <3>3, <3>4
    <3>5. ASSUME NEW q \in Proc, Early(local'[q]), NEW k \in late', Awaits(k) PROVE FALSE
      <4>1. Early(local[q])
        BY <3>1, <3>5 DEF Tame
      <4> QED BY <3>3, <3>5, <4>1 DEF OnceInv, CreatesOnce
    <3>6. \A q \in Proc : Early(local'[q]) => creations = 0
      BY <3>1 DEF Tame, OnceInv, CreatesOnce
    <3> QED BY <2>1, <3>2, <3>3, <3>4, <3>5, <3>6 DEF OnceInv, CreatesOnce
  <2> QED BY <2>7, <2>8
<1>6. ASSUME NEW l \in late, LateEffect(l) PROVE OnceInv'
  <2>1. /\ op' = op /\ local' = local /\ l.reply = NoReply
        /\ \A k \in late' : (k \in late /\ k # l) \/ k.reply # NoReply
        /\ creations' = creations \/ (creations' = creations + 1 /\ l.call = "acquire")
    BY <1>6, LateEffectIs
  <2>2. op'.state # "none"
    BY <2>1, Born
  <2>3. CASE creations' = creations
    BY <1>1, <2>1, <2>2, <2>3, OnceStays DEF Awaits
  <2>4. CASE creations' = creations + 1 /\ l.call = "acquire"
    <3>1. /\ creations = 0 /\ \A k \in late : Awaits(k) => k = l
          /\ \A q \in Proc : ~Early(local[q])
      BY <2>1, <2>4 DEF Awaits, OnceInv, CreatesOnce
    <3>2. \A k \in late' : ~Awaits(k)
      BY <2>1, <3>1 DEF Awaits
    <3>3. Unborn' /\ OneRun' /\ AllFit'
      BY <2>1, <2>2 DEF OnceInv, Unborn, OneRun, AllFit
    <3> QED BY <2>1, <2>4, <3>1, <3>2, <3>3 DEF OnceInv, CreatesOnce
  <2> QED BY <2>1, <2>3, <2>4
<1>7. ASSUME NEW l \in late, LateDropped(l) PROVE OnceInv'
  BY <1>1, <1>7, OnceStays, Born DEF LateDropped, portVars
<1>8. ASSUME NEW l \in late, LateUndo(l) PROVE OnceInv'
  BY <1>1, <1>8, OnceStays, Born, LateUndoIs
<1>9. ASSUME NEW l \in late, LateAnswer(l) PROVE OnceInv'
  <2>1. /\ creations' = creations /\ late' \subseteq late
        /\ op' = op \/ Converged
        /\ \A q \in Proc :
                \/ local'[q] = local[q]
                \/ /\ local[q].mode = "catch" /\ local'[q].pc = local[q].pc
                   /\ local'[q].reply = local[q].reply /\ Carries(local'[q], local[q])
    BY <1>9, LateAnswerIs DEF portVars
  <2>2. op'.state # "none"
    BY <2>1, Born DEF Converged
  <2>3. ASSUME NEW q \in Proc PROVE Tame(local'[q], local[q])
    <3>1. Fits(local[q])
      BY DEF OnceInv, AllFit
    <3>2. CASE local'[q] = local[q]
      BY <1>1, <3>2
    <3>3. CASE /\ local[q].mode = "catch" /\ local'[q].pc = local[q].pc
               /\ local'[q].reply = local[q].reply /\ Carries(local'[q], local[q])
      BY <3>1, <3>3, IdleIs DEF Carries, Tame, Fits, InRun, Early
    <3> QED BY <2>1, <3>2, <3>3
  <2> QED BY <2>1, <2>2, <2>3, OnceStays
<1>10. CASE OtherJob
  BY <1>10 DEF OtherJob, OnceInv, Unborn, OneRun, AllFit, CreatesOnce
<1>11. CASE ReconcileCleanup
  BY <1>1, <1>11, ReconcileIs, OnceStays
<1> QED BY <1>2, <1>3, <1>4, <1>5, <1>6, <1>7, <1>8, <1>9, <1>10, <1>11, NextIs DEF StepOf

\* The initial states.
LEMMA InitInv == Init => TypeInv /\ OnceInv
<1> SUFFICES ASSUME Init PROVE TypeInv /\ OnceInv
  OBVIOUS
<1>1. /\ op = NoOperation /\ local = [p \in Proc |-> Idle] /\ late = {}
      /\ status = "none" /\ created = FALSE /\ ledgerRevision = 0 /\ freed = FALSE
      /\ sandbox = "none" /\ creations = 0 /\ broker = "none" /\ faults = 0
  BY DEF Init, Ledger!Init
<1>2. /\ NoOperation \in Operation /\ NoOperation.revision = 0 /\ NoOperation.state = "none"
      /\ NoOperation.phase = "created"
  BY DEF NoOperation, Operation, States, Phases, Rank, Cleanups
<1>3. TypeInv
  <2>1. PortsTyped
    BY <1>1 DEF PortsTyped, Ledger!Statuses
  <2>2. LocalTyped /\ \A p \in Proc : local[p].revision <= op.revision
    BY <1>1, <1>2, IdleIs DEF LocalTyped
  <2>3. faults \in 0 .. MaxFaults
    BY <1>1, CoordinatorAssumption
  <2> QED BY <1>1, <1>2, <2>1, <2>2, <2>3 DEF TypeInv
<1>4. \A p \in Proc : local[p] = Idle
  BY <1>1
<1>5. OnceInv
  BY <1>1, <1>4, IdleIs DEF OnceInv, Unborn, OneRun, AllFit, Fits, InRun, Early, CreatesOnce
<1> QED BY <1>3, <1>5

\* Steps that change nothing.
LEMMA StutterInv == TypeInv /\ OnceInv /\ UNCHANGED vars => TypeInv' /\ OnceInv'
  BY DEF vars, portVars, ledgerVars, TypeInv, LocalTyped, PortsTyped, OnceInv, Unborn, OneRun,
     AllFit, CreatesOnce

\* Both are invariants.
LEMMA TypedOnce == Spec => [](TypeInv /\ OnceInv)
<1>1. Init => TypeInv /\ OnceInv
  BY InitInv
<1>2. TypeInv /\ OnceInv /\ [Next]_vars => TypeInv' /\ OnceInv'
  BY TypeNext, OnceNext, StutterInv DEF OnceInv
<1> QED BY <1>1, <1>2, PTL DEF Spec

\* Type correctness: every record the coordinator stores, whatever every process
\* holds and every port stay in their types, over all crashes, timeouts and late
\* answers; no process knows a later revision than the stored one.
THEOREM CoordinatorTyped == Spec => []TypeOK
  BY TypedOnce, TypeInvIs, PTL

\* One operation creates one sandbox.  #start admits an operation once, #run calls
\* acquire again only when the provider has said that nothing was created, a
\* recovery never acquires, and an acquisition that timed out is performed once.
THEOREM OneSandboxHolds == Spec => []OneSandbox
<1>1. OnceInv => OneSandbox
  BY DEF OnceInv, CreatesOnce, OneSandbox
<1> QED BY <1>1, TypedOnce, PTL

-----------------------------------------------------------------------------
\* The outcome is final and the release stands.  Once the release of the artifact
\* is stored, every process that still works on the operation is one that will
\* end it as released; and a process whose revision is the stored one works on an
\* operation that has not ended, or writes the same end again.
Out(o) == o.phase \in Past
Busy(m) == m.pc \notin {"idle", "fence"}
Saves(m) == m.mode = "run" /\ m.pc \in DOMAIN SavedAs
Releasing(m) ==
    \/ m.verdict = "released" /\ m.pc \in {"ledgerRelease", "reconcileRelease", "converge"}
    \/ m.verdict = "released" /\ m.pc = "terminal" /\ m.phase \in Past
    \/ m.mode = "run" /\ m.pc = "ledgerRelease" /\ m.intent

Ends(m, o) ==
    m.revision = o.revision /\ m.pc \notin {"idle", "converge"} =>
        \/ o.state = "running"
        \/ m.pc = "terminal" /\ m.verdict = "released" /\ o.state = "released"
Knows(m, o) ==
    /\ Out(o) /\ Busy(m) => Releasing(m)
    /\ m.verdict = "released" => Out(o)
    /\ m.phase \in Past => Out(o)
    /\ m.pc \in {"ledgerRelease", "reconcileRelease", "converge"} => Out(o)
    /\ m.pc = "fence" /\ m.revision = o.revision => m.phase = o.phase
Intends(m) ==
    m.mode = "run" =>
        /\ m.pc # "reconcileRelease"
        /\ m.pc \in {"release", "ledgerRelease"} => m.intent
Proper(m, o) == Ends(m, o) /\ Knows(m, o) /\ Intends(m)

OutMeans == Out(op) => op.state \in {"running", "released"}
AllProper == \A p \in Proc : Proper(local[p], op)
SavesAlone ==
    \A p \in Proc : Saves(local[p]) /\ local[p].revision = op.revision =>
        \A q \in Proc \ {p} : ~Busy(local[q])
EndInv == OutMeans /\ AllProper /\ SavesAlone

\* What a step may do to the outcome.
Kept ==
    /\ op.state \in Outcomes => op'.state = op.state
    /\ Out(op) => Out(op')

\* A process without a call is in no one's way.
LEMMA IdleProper == ASSUME NEW o PROVE Proper(Idle, o) /\ ~Busy(Idle) /\ ~Saves(Idle)
<1>1. Idle.pc \notin DOMAIN SavedAs
  BY IdleIs, SavedAsIs
<1> QED BY <1>1, IdleIs DEF Proper, Ends, Knows, Intends, Busy, Saves, Past

\* A quiet step leads to no new claim on the operation.
LEMMA FollowsProper ==
    ASSUME NEW n, NEW m, NEW o, Fits(m), Proper(m, o), Follows(n, m)
    PROVE  /\ Proper(n, o)
           /\ Busy(n) => Busy(m)
           /\ Saves(n) => Saves(m) /\ n.revision = m.revision
<1>1. CASE n = Idle
  BY <1>1, IdleProper
<1>2. CASE m.mode = "run" /\ Calling(m) /\ CaughtFrom(n, m)
  <2>1. CASE m.intent
    BY <1>2, <2>1, IdleProper DEF CaughtFrom
  <2>2. CASE ~m.intent
    <3>1. /\ n.pc \in {"cleanupOnce", "retain", "terminal"} /\ n.mode = "catch"
          /\ n.phase = m.phase /\ n.revision = m.revision
          /\ n.verdict # "released"
      BY <1>2, <2>2 DEF CaughtFrom
    <3>2. ~Out(o)
      BY <1>2, <2>2 DEF Proper, Knows, Intends, Releasing, Busy, Calling
    <3> QED BY <1>2, <3>1, <3>2 DEF Proper, Ends, Knows, Intends, Busy, Saves, Calling
  <2> QED BY <2>1, <2>2
<1>3. CASE Calling(m) /\ Same(n, m)
  BY <1>3 DEF Same, Carries, Proper, Ends, Knows, Intends, Busy, Saves, Calling, Releasing
<1>4. CASE WindsDown(n, m)
  BY <1>4 DEF WindsDown, Carries, Proper, Ends, Knows, Intends, Busy, Saves, Releasing
<1>5. CASE RunEnded(n, m)
  <2>1. n.pc \notin DOMAIN SavedAs
    BY <1>5, SavedAsIs DEF RunEnded
  <2> QED BY <1>5, <2>1 DEF RunEnded, Proper, Ends, Knows, Intends, Busy, Saves, Releasing
<1>6. CASE Retries(n, m)
  <2>1. Saves(m)
    BY <1>6, SavedAsIs DEF Retries, Saves
  <2> QED BY <1>6, <2>1 DEF Retries, Carries, Proper, Ends, Knows, Intends, Busy, Releasing
<1> QED BY <1>1, <1>2, <1>3, <1>4, <1>5, <1>6 DEF Follows

\* The operation stays, one process moves.
LEMMA EndStays ==
    ASSUME EndInv, op' = op, NEW p \in Proc, Others(p), Proper(local'[p], op),
           Busy(local'[p]) => Busy(local[p]),
           Saves(local'[p]) => Saves(local[p]) /\ local'[p].revision = local[p].revision
    PROVE  EndInv' /\ Kept
<1>1. OutMeans' /\ Kept
  BY DEF EndInv, OutMeans, Kept
<1>2. AllProper'
  BY DEF EndInv, AllProper, Others
<1>3. SavesAlone'
  BY DEF EndInv, SavesAlone, Others
<1> QED BY <1>1, <1>2, <1>3 DEF EndInv

\* Quiet steps keep EndInv and the outcome.
LEMMA EndQuiet ==
    ASSUME OnceInv, EndInv, NEW p \in Proc, Quiet(p)
    PROVE  EndInv' /\ Kept
<1>1. Fits(local[p]) /\ Proper(local[p], op)
  BY DEF OnceInv, AllFit, EndInv, AllProper
<1>2. Others(p) /\ op' = op /\ Follows(local'[p], local[p])
  BY DEF Quiet
<1>3. /\ Proper(local'[p], op)
      /\ Busy(local'[p]) => Busy(local[p])
      /\ Saves(local'[p]) => Saves(local[p]) /\ local'[p].revision = local[p].revision
  BY <1>1, <1>2, FollowsProper
<1> QED BY <1>2, <1>3, EndStays

\* The operation is written: nobody but the writer knows its new revision.
LEMMA ProperBehind ==
    ASSUME NEW m, NEW o, NEW w, Proper(m, o), m.revision \in Nat, w.revision \in Nat,
           m.revision < w.revision, Out(o) => Out(w), Out(w) /\ Busy(m) => Releasing(m)
    PROVE  Proper(m, w)
  BY DEF Proper, Ends, Knows

\* So does a write of the operation by a process that stays with it.
LEMMA EndWritten ==
    ASSUME TypeInv, EndInv, op' \in Operation, op'.revision = op.revision + 1,
           NEW p \in Proc, Others(p), Proper(local'[p], op'),
           Out(op) => Out(op'), Out(op') => op'.state \in {"running", "released"},
           \A q \in Proc \ {p} : Out(op') /\ Busy(local[q]) => Releasing(local[q]),
           Saves(local'[p]) => \A q \in Proc \ {p} : ~Busy(local[q])
    PROVE  EndInv'
<1>1. /\ op.revision \in Nat /\ op'.revision \in Nat
      /\ \A q \in Proc : local[q].revision \in Nat /\ local[q].revision <= op.revision
  BY LocalIs DEF TypeInv, Operation, View
<1>2. \A q \in Proc : local[q].revision < op'.revision
  BY <1>1
<1>3. ASSUME NEW q \in Proc \ {p} PROVE Proper(local[q], op')
  BY <1>1, <1>2, ProperBehind DEF EndInv, AllProper
<1>4. AllProper'
  BY <1>3 DEF AllProper, Others
<1>5. SavesAlone'
  BY <1>1, <1>2 DEF SavesAlone, Others
<1> QED BY <1>4, <1>5 DEF EndInv, OutMeans

\* The first write.
LEMMA StartEnds ==
    ASSUME TypeInv, OnceInv, NEW p \in Proc, Start(p)
    PROVE  EndInv' /\ Kept
<1>1. /\ Others(p) /\ op.state = "none" /\ op'.state = "running" /\ op'.phase = "created"
      /\ op.phase = "created"
      /\ local'[p].pc = "reserve" /\ local'[p].mode = "run" /\ local'[p].phase = "created"
      /\ local'[p].verdict # "released"
  BY StartIs DEF NoOperation
<1>2. \A q \in Proc \ {p} : local'[q] = Idle
  BY <1>1 DEF Others, OnceInv, Unborn
<1>3. Proper(local'[p], op')
  BY <1>1 DEF Proper, Ends, Knows, Intends, Out, Past
<1>4. AllProper' /\ OutMeans'
  BY <1>1, <1>2, <1>3, IdleProper DEF AllProper, OutMeans
<1>5. SavesAlone'
  BY <1>2, IdleProper DEF SavesAlone
<1>6. Kept
  BY <1>1 DEF Kept, Out, Outcomes, Past
<1> QED BY <1>4, <1>5, <1>6 DEF EndInv

\* A recovery that starts knows the revision it has read.
LEMMA LoadEnds ==
    ASSUME TypeInv, EndInv, NEW p \in Proc, Load(p)
    PROVE  EndInv' /\ Kept
<1>1. /\ Others(p) /\ op.state = "running" /\ op' = op
      /\ local'[p].pc = "fence" /\ local'[p].mode = "recover"
      /\ local'[p].phase = op.phase /\ local'[p].verdict # "released"
  BY LoadIs
<1>2. Proper(local'[p], op) /\ ~Busy(local'[p]) /\ ~Saves(local'[p])
  BY <1>1 DEF Proper, Ends, Knows, Intends, Out, Busy, Saves
<1> QED BY <1>1, <1>2, EndStays

\* The write of a recovery that takes over.
LEMMA FenceEnds ==
    ASSUME TypeInv, OnceInv, EndInv, NEW p \in Proc, Fence(p)
    PROVE  EndInv' /\ Kept
<1> DEFINE m == local[p]
           n == local'[p]
<1>1. Fits(m) /\ Proper(m, op)
  BY DEF OnceInv, AllFit, EndInv, AllProper
<1>2. /\ Others(p) /\ m.pc = "fence"
      /\ \/ /\ Writes(m, "running", m.phase)
            /\ n.mode = m.mode /\ n.phase = m.phase
            /\ IF m.phase \in Past
               THEN n.verdict = "released" /\ n.pc \in {"terminal", "ledgerRelease"}
               ELSE /\ n.verdict # "released"
                    /\ n.pc \in {"terminal", "revoke", "cleanupOnce", "retain"}
         \/ UNCHANGED op /\ n = Idle
  BY FenceIs
<1>3. CASE UNCHANGED op /\ n = Idle
  BY <1>2, <1>3, EndQuiet DEF Quiet, Follows
<1>4. CASE /\ Writes(m, "running", m.phase)
           /\ n.mode = m.mode /\ n.phase = m.phase
           /\ IF m.phase \in Past
              THEN n.verdict = "released" /\ n.pc \in {"terminal", "ledgerRelease"}
              ELSE /\ n.verdict # "released"
                   /\ n.pc \in {"terminal", "revoke", "cleanupOnce", "retain"}
  <2>1. /\ op.state = "running" /\ m.phase = op.phase /\ m.mode = "recover"
    BY <1>1, <1>2, <1>4 DEF Proper, Ends, Knows, Writes, Fits
  <2>2. /\ op' \in Operation /\ op'.state = "running" /\ op'.phase = op.phase
        /\ op'.revision = op.revision + 1
    BY <1>4, <2>1 DEF Writes
  <2>3. Proper(n, op') /\ ~Saves(n)
    BY <1>4, <2>1, <2>2 DEF Proper, Ends, Knows, Intends, Saves, Out, Releasing
  <2>4. \A q \in Proc \ {p} : Out(op') /\ Busy(local[q]) => Releasing(local[q])
    BY <2>2 DEF Out, EndInv, AllProper, Proper, Knows
  <2>5. Out(op) => Out(op')
    BY <2>2 DEF Out
  <2>6. EndInv'
    BY <1>2, <2>2, <2>3, <2>4, <2>5, EndWritten
  <2> QED BY <2>1, <2>5, <2>6 DEF Kept, Outcomes
<1> QED BY <1>2, <1>3, <1>4

\* The write of a phase: after artifactReleased everyone is overtaken.
LEMMA SaveEnds ==
    ASSUME TypeInv, OnceInv, EndInv, NEW p \in Proc, Save(p)
    PROVE  EndInv' /\ Kept
<1> DEFINE m == local[p]
           n == local'[p]
           a == Adopt(local[p])
           written == Writes(m, "running", SavedAs[m.pc])
<1>1. Fits(m) /\ Proper(m, op) /\ m \in View
  BY LocalIs DEF OnceInv, AllFit, EndInv, AllProper
<1>2. /\ Others(p) /\ m.mode = "run" /\ m.pc \in DOMAIN SavedAs
      /\ \/ /\ written
            /\ n.pc = IF m.pc = "cleanupOnce" THEN AfterCleanup(a) ELSE FollowedBy[m.pc]
            /\ n.mode = "run" /\ n.phase = SavedAs[m.pc]
            /\ n.intent = (m.intent \/ m.pc = "egress") /\ n.verdict = m.verdict
         \/ CaughtFrom(n, a) /\ (UNCHANGED op \/ written)
  BY SaveIs
<1>3. /\ a.phase = m.phase /\ a.revision = m.revision
      /\ a.intent = (m.intent \/ m.pc = "egress") /\ m.intent \in BOOLEAN
  BY <1>1, AdoptIs DEF View
<1>4. Calling(m) /\ m.pc \notin {"ledgerRelease", "reconcileRelease"} /\ Saves(m)
  BY <1>2, SavedAsIs DEF Calling, Saves
<1>5. ~Out(op)
  BY <1>1, <1>4 DEF Proper, Knows, Busy, Releasing, Calling
<1>6. m.verdict # "released" /\ m.phase \notin Past
  BY <1>1, <1>5 DEF Proper, Knows
<1>7. CASE CaughtFrom(n, a) /\ UNCHANGED op
  <2>1. Follows(n, m)
    BY <1>2, <1>3, <1>4, <1>7 DEF CaughtFrom, Follows
  <2> QED BY <1>2, <1>7, <2>1, EndQuiet DEF Quiet
<1>8. CASE written
  <2>1. /\ m.revision = op.revision /\ op' \in Operation /\ op'.state = "running"
        /\ op'.phase = SavedAs[m.pc] /\ op'.revision = op.revision + 1
        /\ m.revision \in Nat
    BY <1>1, <1>8 DEF Writes, View
  <2>2. op.state = "running"
    BY <1>1, <1>4, <2>1 DEF Proper, Ends, Calling
  <2>3. \A q \in Proc \ {p} : ~Busy(local[q])
    BY <1>4, <2>1 DEF EndInv, SavesAlone
  <2>4. Out(op') <=> m.pc = "release"
    BY <1>2, <2>1, SavedAsIs DEF Out, Past
  <2>5. m.pc = "release" => m.intent
    BY <1>1, <1>2 DEF Proper, Intends
  <2>6. Proper(n, op')
    <3>1. CASE CaughtFrom(n, a)
      <4>1. CASE a.intent
        BY <3>1, <4>1, IdleProper DEF CaughtFrom
      <4>2. CASE ~a.intent
        <5>1. ~Out(op')
          BY <1>3, <2>4, <2>5, <4>2
        <5>2. /\ n.pc \in {"cleanupOnce", "retain", "terminal"} /\ n.mode = "catch"
              /\ n.phase = m.phase /\ n.revision = m.revision /\ n.verdict # "released"
          BY <1>3, <3>1, <4>2 DEF CaughtFrom
        <5> QED BY <1>6, <2>1, <5>1, <5>2 DEF Proper, Ends, Knows, Intends
      <4> QED BY <4>1, <4>2
    <3>2. CASE /\ n.pc = IF m.pc = "cleanupOnce" THEN AfterCleanup(a) ELSE FollowedBy[m.pc]
               /\ n.mode = "run" /\ n.phase = SavedAs[m.pc]
               /\ n.intent = (m.intent \/ m.pc = "egress") /\ n.verdict = m.verdict
      <4>1. /\ n.pc \notin {"idle", "fence", "converge", "terminal", "reconcileRelease"}
            /\ n.pc = "release" <=> m.pc = "egress"
            /\ n.pc = "ledgerRelease" <=> m.pc = "release"
        BY <1>2, <3>2, SavedAsIs, AfterCleanupIs
      <4>2. n.pc \in {"release", "ledgerRelease"} => n.intent
        BY <2>5, <3>2, <4>1
      <4>3. Out(op') => Releasing(n)
        BY <2>4, <3>2, <4>1, <4>2 DEF Releasing
      <4>4. n.phase \in Past => Out(op')
        BY <2>1, <3>2 DEF Out
      <4> QED BY <1>6, <2>1, <2>4, <3>2, <4>1, <4>2, <4>3, <4>4 DEF Proper, Ends, Knows, Intends
    <3> QED BY <1>2, <3>1, <3>2
  <2>7. EndInv'
    BY <1>2, <1>5, <2>1, <2>3, <2>6, EndWritten
  <2> QED BY <1>5, <2>2, <2>7 DEF Kept, Outcomes
<1> QED BY <1>2, <1>7, <1>8

\* The write of #convergeLedgerReleased.
LEMMA ConvergeEnds ==
    ASSUME TypeInv, OnceInv, EndInv, NEW p \in Proc, ConvergeAndGo(p)
    PROVE  EndInv' /\ Kept
<1> DEFINE m == local[p]
           n == local'[p]
<1>1. Fits(m) /\ Proper(m, op)
  BY DEF OnceInv, AllFit, EndInv, AllProper
<1>2. /\ Others(p) /\ m.pc = "converge"
      /\ \/ UNCHANGED op /\ n = Idle
         \/ /\ Converged
            /\ n.pc = "terminal" /\ n.mode = m.mode /\ n.verdict = m.verdict
            /\ n.phase = op'.phase /\ n.revision = op'.revision
  BY ConvergeAndGoIs
<1>3. CASE UNCHANGED op /\ n = Idle
  BY <1>2, <1>3, EndQuiet DEF Quiet, Follows
<1>4. CASE /\ Converged
           /\ n.pc = "terminal" /\ n.mode = m.mode /\ n.verdict = m.verdict
           /\ n.phase = op'.phase /\ n.revision = op'.revision
  <2>1. Out(op) /\ m.verdict = "released" /\ Busy(m)
    BY <1>1, <1>2 DEF Proper, Knows, Releasing, Busy
  <2>2. op.state \in {"running", "released"}
    BY <2>1 DEF EndInv, OutMeans
  <2>3. op'.state = op.state /\ op' \in Operation /\ Out(op')
    BY <1>4, <2>1 DEF Converged, Out, Past
  <2>4. Proper(n, op')
    BY <1>4, <2>1, <2>2, <2>3 DEF Proper, Ends, Knows, Intends, Releasing, Out
  <2>5. ~Saves(n)
    BY <1>4, SavedAsIs DEF Saves
  <2>6. CASE op' = op
    BY <1>2, <2>1, <2>4, <2>5, <2>6, EndStays
  <2>7. CASE op'.revision = op.revision + 1
    <3>1. \A q \in Proc \ {p} : Out(op') /\ Busy(local[q]) => Releasing(local[q])
      BY <2>1 DEF EndInv, AllProper, Proper, Knows
    <3>2. EndInv'
      BY <1>2, <2>2, <2>3, <2>4, <2>5, <2>7, <3>1, EndWritten
    <3> QED BY <2>3, <3>2 DEF Kept
  <2> QED BY <1>4, <2>6, <2>7 DEF Converged
<1> QED BY <1>2, <1>3, <1>4

\* The write of the outcome.
LEMMA TerminalEnds ==
    ASSUME TypeInv, OnceInv, EndInv, NEW p \in Proc, Terminal(p)
    PROVE  EndInv' /\ Kept
<1> DEFINE m == local[p]
           n == local'[p]
<1>1. Fits(m) /\ Proper(m, op) /\ m \in View
  BY LocalIs DEF OnceInv, AllFit, EndInv, AllProper
<1>2. /\ Others(p) /\ m.pc = "terminal"
      /\ \/ Writes(m, m.verdict, m.phase) /\ n = Idle
         \/ UNCHANGED op /\ n = Idle
         \/ /\ UNCHANGED op /\ op.state = "running"
            /\ n.pc = "terminal" /\ n.mode = m.mode /\ n.phase = m.phase
            /\ n.verdict = m.verdict /\ n.revision = op.revision
  BY TerminalIs
<1>3. Busy(m)
  BY <1>2 DEF Busy
<1>4. CASE Writes(m, m.verdict, m.phase) /\ n = Idle
  <2>1. /\ m.revision = op.revision /\ op' \in Operation /\ op'.state = m.verdict
        /\ op'.phase = m.phase /\ op'.revision = op.revision + 1
    BY <1>4 DEF Writes
  <2>2. op.state = "running" \/ (op.state = "released" /\ m.verdict = "released")
    BY <1>1, <1>2, <2>1 DEF Proper, Ends
  <2>3. Out(op) => m.verdict = "released" /\ Out(op')
    BY <1>1, <1>2, <1>3, <2>1 DEF Proper, Knows, Releasing, Out
  <2>4. Out(op') => Out(op)
    BY <1>1, <2>1 DEF Proper, Knows, Out
  <2>5. \A q \in Proc \ {p} : Out(op') /\ Busy(local[q]) => Releasing(local[q])
    BY <2>4 DEF EndInv, AllProper, Proper, Knows
  <2>6. Out(op') => op'.state \in {"running", "released"}
    BY <2>1, <2>3, <2>4
  <2>7. Proper(n, op') /\ ~Saves(n)
    BY <1>4, IdleProper
  <2>8. EndInv'
    BY <1>2, <2>1, <2>3, <2>5, <2>6, <2>7, EndWritten
  <2> QED BY <2>1, <2>2, <2>3, <2>8 DEF Kept, Outcomes
<1>5. CASE UNCHANGED op /\ n = Idle
  BY <1>2, <1>5, EndQuiet DEF Quiet, Follows
<1>6. CASE /\ UNCHANGED op /\ op.state = "running"
           /\ n.pc = "terminal" /\ n.mode = m.mode /\ n.phase = m.phase
           /\ n.verdict = m.verdict /\ n.revision = op.revision
  <2>1. Proper(n, op)
    BY <1>1, <1>2, <1>3, <1>6 DEF Proper, Ends, Knows, Intends, Releasing
  <2>2. ~Saves(n)
    BY <1>6, SavedAsIs DEF Saves
  <2> QED BY <1>2, <1>3, <1>6, <2>1, <2>2, EndStays
<1> QED BY <1>2, <1>4, <1>5, <1>6

\* A late answer of the ledger ends the operation behind every process.
LEMMA LateEnds ==
    ASSUME TypeInv, OnceInv, EndInv, NEW l \in late, LateAnswer(l)
    PROVE  EndInv' /\ Kept
<1>1. /\ op' = op \/ Converged
      /\ \A q \in Proc :
            /\ local'[q].pc = local[q].pc
            /\ Carries(local'[q], local[q])
  BY LateAnswerIs DEF Carries
<1>2. \A q \in Proc : /\ Proper(local'[q], op)
                      /\ Busy(local'[q]) <=> Busy(local[q])
                      /\ Saves(local'[q]) <=> Saves(local[q])
                      /\ local'[q].revision = local[q].revision
  BY <1>1 DEF Carries, Busy, Saves, EndInv, AllProper, Proper, Ends, Knows, Intends, Releasing
<1>3. CASE op' = op
  BY <1>2, <1>3 DEF EndInv, OutMeans, AllProper, SavesAlone, Kept
<1>4. CASE Converged /\ op' # op
  <2>1. /\ Out(op) /\ Out(op') /\ op' \in Operation /\ op'.state = op.state
        /\ op'.revision = op.revision + 1
    BY <1>4 DEF Converged, Out, Past
  <2>2. op.state \in {"running", "released"}
    BY <2>1 DEF EndInv, OutMeans
  <2>3. /\ op.revision \in Nat /\ op'.revision \in Nat
        /\ \A q \in Proc : local[q].revision \in Nat /\ local[q].revision <= op.revision
    BY <2>1, LocalIs DEF TypeInv, Operation, View
  <2>4. \A q \in Proc : local'[q].revision \in Nat /\ local'[q].revision < op'.revision
    BY <1>2, <2>1, <2>3
  <2>5. \A q \in Proc : Proper(local'[q], op')
    <3>1. \A q \in Proc : Busy(local'[q]) => Releasing(local'[q])
      BY <1>2, <2>1 DEF Proper, Knows
    <3> QED BY <1>2, <2>1, <2>3, <2>4, <3>1, ProperBehind
  <2>6. AllProper' /\ OutMeans'
    BY <2>1, <2>2, <2>5 DEF AllProper, OutMeans
  <2>7. SavesAlone'
    BY <2>3, <2>4 DEF SavesAlone
  <2> QED BY <2>1, <2>6, <2>7 DEF EndInv, Kept
<1> QED BY <1>1, <1>3, <1>4

\* The write of an operator.
LEMMA ReconcileEnds ==
    ASSUME TypeInv, EndInv, ReconcileCleanup
    PROVE  EndInv' /\ Kept
<1>1. /\ local' = local /\ op.state = "quarantined" /\ op' \in Operation
      /\ op'.state = "quarantined" /\ op'.phase = op.phase /\ op'.revision = op.revision + 1
  BY ReconcileIs
<1>2. ~Out(op) /\ ~Out(op')
  BY <1>1 DEF EndInv, OutMeans, Out
<1>3. /\ op.revision \in Nat /\ op'.revision \in Nat
      /\ \A q \in Proc : local[q].revision \in Nat /\ local[q].revision <= op.revision
  BY <1>1, LocalIs DEF TypeInv, Operation, View
<1>4. \A q \in Proc : local[q].revision < op'.revision
  BY <1>1, <1>3
<1>5. \A q \in Proc : Proper(local[q], op')
  BY <1>2, <1>3, <1>4, ProperBehind DEF EndInv, AllProper
<1>6. AllProper' /\ OutMeans'
  BY <1>1, <1>2, <1>5 DEF AllProper, OutMeans
<1>7. SavesAlone'
  BY <1>1, <1>3, <1>4 DEF SavesAlone
<1> QED BY <1>1, <1>2, <1>6, <1>7 DEF EndInv, Kept

\* Every step keeps EndInv and the outcome.
LEMMA EndNext ==
    ASSUME TypeInv, OnceInv, EndInv, Next
    PROVE  EndInv' /\ Kept
<1>1. ASSUME UNCHANGED <<op, local>> PROVE EndInv' /\ Kept
  BY <1>1 DEF EndInv, OutMeans, AllProper, SavesAlone, Kept
<1>2. ASSUME NEW p \in Proc, StepOf(p) PROVE EndInv' /\ Kept
  <2>1. CASE Start(p) \/ Load(p) \/ Fence(p) \/ Save(p)
    BY <2>1, StartEnds, LoadEnds, FenceEnds, SaveEnds
  <2>2. CASE ConvergeAndGo(p) \/ Terminal(p)
    BY <2>2, ConvergeEnds, TerminalEnds
  <2>3. CASE RunFailed(p)
    BY <2>3, FailedCalls, RunFailedIs, EndQuiet DEF OnceInv
  <2>4. CASE \/ RetryAcquire(p) \/ RunEnds(p) \/ WindDown(p) \/ Refuse(p) \/ Fail(p)
    BY <2>4, RetryAcquireIs, RunEndsIs, WindDownIs, RefuseIs, EndQuiet
  <2> QED BY <1>2, <2>1, <2>2, <2>3, <2>4 DEF StepOf
<1>3. ASSUME NEW p \in Proc, Effect(p) \/ Timeout(p) \/ Crash(p) PROVE EndInv' /\ Kept
  BY <1>3, EffectIs, TimeoutIs, CrashIs, EndQuiet
<1>4. ASSUME NEW l \in late, LateEffect(l) \/ LateDropped(l) \/ LateUndo(l)
      PROVE  EndInv' /\ Kept
  BY <1>1, <1>4, LateEffectIs, LateUndoIs DEF LateDropped
<1>5. ASSUME NEW l \in late, LateAnswer(l) PROVE EndInv' /\ Kept
  BY <1>5, LateEnds
<1>6. CASE OtherJob
  BY <1>1, <1>6 DEF OtherJob
<1>7. CASE ReconcileCleanup
  BY <1>7, ReconcileEnds
<1> QED BY <1>2, <1>3, <1>4, <1>5, <1>6, <1>7, NextIs DEF StepOf

\* The inductive invariant of the coordinator.
CoordinatorInv == TypeInv /\ OnceInv /\ EndInv

\* It holds initially,
LEMMA CoordinatorInit == Init => CoordinatorInv
<1> SUFFICES ASSUME Init PROVE EndInv
  BY InitInv DEF CoordinatorInv
<1>1. op = NoOperation /\ \A p \in Proc : local[p] = Idle
  BY DEF Init
<1>2. NoOperation.phase = "created"
  BY DEF NoOperation
<1>3. OutMeans
  BY <1>1, <1>2 DEF OutMeans, Out, Past
<1> QED BY <1>1, <1>3, IdleProper DEF EndInv, AllProper, SavesAlone

\* every step keeps it,
LEMMA CoordinatorStep == CoordinatorInv /\ [Next]_vars => CoordinatorInv' /\ Kept
<1> SUFFICES ASSUME CoordinatorInv, [Next]_vars PROVE CoordinatorInv' /\ Kept
  OBVIOUS
<1>1. CASE Next
  BY <1>1, TypeNext, OnceNext, EndNext DEF CoordinatorInv, OnceInv
<1>2. CASE UNCHANGED vars
  <2>1. TypeInv' /\ OnceInv'
    BY <1>2, StutterInv DEF CoordinatorInv
  <2>2. op' = op /\ local' = local
    BY <1>2 DEF vars
  <2>3. EndInv' /\ Kept
    BY <2>2 DEF CoordinatorInv, EndInv, OutMeans, AllProper, SavesAlone, Kept
  <2> QED BY <2>1, <2>3 DEF CoordinatorInv
<1> QED BY <1>1, <1>2

\* and it is an invariant.
LEMMA CoordinatorInvariant == Spec => []CoordinatorInv
<1>1. CoordinatorInv /\ [Next]_vars => CoordinatorInv'
  BY CoordinatorStep
<1> QED BY <1>1, CoordinatorInit, PTL DEF Spec

\* The outcome a client was told is final: #terminal and #convergeLedgerReleased
\* write with compareAndSet, so neither a catch clause nor an overtaken recovery nor
\* the answer of a late ledgerRelease replaces one outcome by another.
THEOREM OutcomeFinalHolds == Spec => OutcomeFinal
<1>1. CoordinatorInv /\ [Next]_vars => [op.state \in Outcomes => op'.state = op.state]_vars
  BY CoordinatorStep DEF Kept
<1> QED BY <1>1, CoordinatorInvariant, PTL DEF Spec, OutcomeFinal

\* Once #run has stored artifactReleased the operation can only end as released:
\* the catch clause and #recover look at the phase before they choose an outcome,
\* and a process that chose another one before has been overtaken.
THEOREM ReleaseStandsHolds == Spec => ReleaseStands
<1>1. CoordinatorInv /\ [Next]_vars =>
        [op.phase \in {"artifactReleased", "ledgerReleased"} =>
            op'.state \in {"running", "released"}]_vars
  BY CoordinatorStep DEF Kept, CoordinatorInv, EndInv, OutMeans, Out, Past
<1> QED BY <1>1, CoordinatorInvariant, PTL DEF Spec, ReleaseStands

=============================================================================
