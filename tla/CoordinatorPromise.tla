-------------------------- MODULE CoordinatorPromise --------------------------
(***************************************************************************)
(* What the coordinator promises to its client, for any processes and any  *)
(* number of mishaps: that it implements CompilationOutcome, and that what *)
(* it stores can be read back.                                             *)
(*                                                                         *)
(* The idea of the proof: what a process, a late call or a stored record   *)
(* knows of the ports (the sandbox was created, is gone, is paid for) was  *)
(* true when it learnt it and is never undone, so it may rely on it        *)
(* however late it acts (KnownInv).  RunAlone adds that a process that may *)
(* save has no late call of an earlier process beside it, so nothing it    *)
(* stores is withdrawn behind its back.                                    *)
(***************************************************************************)
EXTENDS CoordinatorProofs

\* What a process at its call, with its reply, knows of the ports.
Sure(r) == r.is = "done" /\ r.sure
Later == {"observeCreate", "seal", "ingress", "execute", "verify", "copyVerified",
          "cleanupOnce", "settle", "egress", "release", "revoke"}
Made(m) ==
    \/ m.allocation \/ m.broker \/ m.pc \in Later
    \/ m.pc = "retain" /\ m.mode = "run"
    \/ m.pc = "acquire" /\ Sure(m.reply)
Gone(m) ==
    \/ m.cleanup = "certain" \/ m.pc = "settle"
    \/ m.pc = "cleanupOnce" /\ Sure(m.reply)
Paid(m) ==
    \/ m.pc \in {"egress", "release"}
    \/ m.pc = "settle" /\ m.reply.is = "done"
Reserved(m) ==
    \/ m.pc \in {"retryBeforeCreate", "acquire"}
    \/ m.pc = "reserve" /\ m.reply.is = "done"
Freed(m) ==
    \/ m.pc = "converge" \/ m.phase = "ledgerReleased"
    \/ m.pc = "terminal" /\ m.verdict = "released"
    \/ m.pc \in {"ledgerRelease", "reconcileRelease"} /\ m.reply.is = "done"

\* The facts that they know of, none of which is ever undone.
Sound(m) ==
    /\ Made(m) => creations = 1
    /\ Gone(m) => sandbox = "gone"
    /\ Paid(m) => status = "settled"
    /\ Reserved(m) => status # "none"
    /\ Freed(m) => freed
LateSound(l) ==
    /\ l.call \in Later => creations = 1
    /\ l.call = "acquire" /\ Sure(l.reply) => creations = 1
    /\ l.call = "settle" => sandbox = "gone"
    /\ l.call = "release" => status = "settled"
    /\ l.call = "acquire" => status # "none"
    /\ l.call = "ledgerRelease" /\ l.reply.is = "done" => freed
OpSound(o) ==
    /\ o.allocation => creations = 1
    /\ o.cleanup = "certain" => sandbox = "gone"
    /\ o.phase = "ledgerReleased" => freed
    /\ o.state = "released" => Out(o) /\ freed

\* The sandbox, the reservation and the artifact.
PortsSound ==
    /\ sandbox = "none" <=> creations = 0
    /\ status = "settled" => sandbox = "gone"
    /\ sandbox = "live" => status # "none"
    /\ broker \in {"released", "withdrawn"} => status = "settled"

LateCalls == {"ledgerRelease", "reconcileRelease"}
RunAlone ==
    \A p \in Proc : Saves(local[p]) /\ local[p].revision = op.revision =>
        /\ late = {}
        /\ local[p].pc = "release" /\ local[p].reply.is = "done" => broker = "released"
OutSound ==
    Out(op) => /\ broker = "released" /\ status = "settled"
               /\ \A l \in late : l.call \in LateCalls

KnownInv ==
    /\ PortsSound /\ OpSound(op)
    /\ \A p \in Proc : Sound(local[p])
    /\ \A l \in late : LateSound(l)
PromiseInv == KnownInv /\ RunAlone /\ OutSound

-----------------------------------------------------------------------------
\* What is known stays true, and the promise is kept, by each step.
Lasts ==
    /\ creations = 1 => creations' = 1
    /\ sandbox = "gone" => sandbox' = "gone"
    /\ status = "settled" => status' = "settled"
    /\ status # "none" => status' # "none"
    /\ freed => freed'

\* A step of the ports is one of the abstract specification.
Moved ==
    \/ sandbox' = sandbox /\ (status' = "settled" <=> status = "settled") /\ Artifact' = Artifact
    \/ /\ sandbox = "none" /\ sandbox' = "live"
       /\ (status' = "settled" <=> status = "settled") /\ Artifact' = Artifact
    \/ /\ sandbox = "live" /\ sandbox' = "gone"
       /\ (status' = "settled" <=> status = "settled") /\ Artifact' = Artifact
    \/ /\ sandbox = "gone" /\ status # "settled" /\ sandbox' = "gone" /\ status' = "settled"
       /\ Artifact' = Artifact
    \/ /\ Artifact = "private" /\ Artifact' = "published"
       /\ sandbox = "gone" /\ status = "settled" /\ sandbox' = "gone" /\ status' = "settled"
    \/ /\ Artifact = "published" /\ Artifact' = "withdrawn" /\ broker = "released"
       /\ sandbox' = sandbox /\ (status' = "settled" <=> status = "settled")

\* The artifact of the abstract specification, by the broker,
LEMMA ArtifactIs ==
    /\ broker = "released" => Artifact = "published"
    /\ broker = "withdrawn" => Artifact = "withdrawn"
    /\ broker \notin {"released", "withdrawn"} => Artifact = "private"
    /\ broker' = "released" => Artifact' = "published"
    /\ broker' = "withdrawn" => Artifact' = "withdrawn"
    /\ broker' \notin {"released", "withdrawn"} => Artifact' = "private"
  BY DEF Artifact

\* which alone it depends on.
LEMMA SameArtifact == broker' = broker => Artifact' = Artifact
  BY DEF Artifact

\* The call c may be performed.
May(c, sure) ==
    /\ c = "acquire" /\ sure => creations = 0 /\ status # "none"
    /\ c = "cleanupOnce" => creations = 1
    /\ c = "settle" => sandbox = "gone"
    /\ c = "release" => status = "settled"

\* What the ledger does when it may.
LEMMA LedgerSound ==
    ASSUME PortsSound, NEW c, NEW a, NEW sure \in BOOLEAN, LedgerEffect(c, a, sure), May(c, sure)
    PROVE  /\ PortsSound' /\ Lasts /\ Moved /\ broker' = broker
           /\ c = "settle" => status' = "settled"
           /\ c = "reserve" => status' # "none"
           /\ c \in LateCalls => freed'
           /\ creations' = creations /\ sandbox' = sandbox
<1>1. sandbox' = sandbox /\ creations' = creations /\ broker' = broker /\ Artifact' = Artifact
  BY SameArtifact DEF LedgerEffect
<1>2. ASSUME UNCHANGED ledgerVars, c = "settle" => status = "settled", c # "reserve",
             c \in LateCalls => freed
      PROVE  /\ PortsSound' /\ Lasts /\ Moved
             /\ c = "settle" => status' = "settled"
             /\ c = "reserve" => status' # "none"
             /\ c \in LateCalls => freed'
  BY <1>1, <1>2 DEF ledgerVars, PortsSound, Lasts, Moved
<1>3. CASE /\ c \in LedgerCalls \ {"reconcileRelease"} /\ LedgerStep(c)
           /\ freed' = (freed \/ c = "ledgerRelease")
  <2>1. /\ freed => freed'
        /\ c \in LateCalls => freed'
    BY <1>3 DEF LateCalls
  <2>2. /\ status = "settled" => status' = "settled"
        /\ status # "none" => status' # "none"
        /\ c # "settle" => (status' = "settled" <=> status = "settled")
        /\ c = "settle" => status' = "settled" /\ status # "settled"
        /\ c = "reserve" => status' # "none"
    BY <1>3 DEF LedgerStep, LedgerCalls, Ledger!Reserve, Ledger!RetryBeforeCreate,
       Ledger!ObserveCreate, Ledger!Settle, Ledger!Retain, Ledger!Release, Ledger!jvars,
       Ledger!Holding
  <2>3. c = "settle" => sandbox = "gone"
    BY DEF May
  <2> QED BY <1>1, <2>1, <2>2, <2>3 DEF PortsSound, Lasts, Moved
<1> QED BY <1>1, <1>2, <1>3 DEF LedgerEffect, LateCalls, LedgerCalls

\* What every port does when it may.
LEMMA PortSound ==
    ASSUME PortsTyped, PortsSound, NEW c, NEW a, NEW sure \in BOOLEAN, PortEffect(c, a, sure),
           May(c, sure)
    PROVE  /\ PortsSound' /\ Lasts /\ Moved
           /\ c = "acquire" /\ sure => creations' = 1
           /\ c = "cleanupOnce" /\ sure => sandbox' = "gone"
           /\ c = "settle" => status' = "settled"
           /\ c = "reserve" => status' # "none"
           /\ c \in LateCalls => freed' /\ broker' = broker
           /\ c = "release" => broker' = "released"
           /\ c # "revoke" /\ broker = "released" => broker' = "released"
<1>1. CASE LedgerEffect(c, a, sure)
  <2>1. c \in LedgerCalls
    BY <1>1 DEF LedgerEffect, LedgerCalls
  <2>2. ~(c \in {"acquire", "cleanupOnce", "release"})
    BY <2>1 DEF LedgerCalls
  <2> QED BY <1>1, <2>2, LedgerSound
<1>2. CASE AcquireEffect(c, sure)
  <2>1. /\ c = "acquire" /\ UNCHANGED ledgerVars /\ broker' = broker /\ Artifact' = Artifact
        /\ sandbox' = IF sure THEN "live" ELSE sandbox
        /\ creations' = IF sure THEN creations + 1 ELSE creations
    BY <1>2, SameArtifact DEF AcquireEffect
  <2>2. sure => creations = 0 /\ sandbox = "none" /\ status # "none" /\ status # "settled"
    BY <2>1 DEF May, PortsSound
  <2>3. CASE sure
    BY <2>1, <2>2, <2>3 DEF ledgerVars, PortsSound, Lasts, Moved, LateCalls
  <2>4. CASE ~sure
    BY <2>1, <2>4 DEF ledgerVars, PortsSound, Lasts, Moved, LateCalls
  <2> QED BY <2>3, <2>4
<1>3. CASE CleanupEffect(c, sure)
  <2>1. /\ c = "cleanupOnce" /\ UNCHANGED ledgerVars /\ creations' = creations
        /\ broker' = broker /\ Artifact' = Artifact
        /\ sandbox' = sandbox \/ sandbox' = "gone"
        /\ sure => sandbox' = "gone"
    BY <1>3, SameArtifact DEF CleanupEffect
  <2>2. creations = 1 /\ sandbox \in {"live", "gone"}
    BY <2>1 DEF May, PortsSound, PortsTyped
  <2> QED BY <2>1, <2>2 DEF ledgerVars, PortsSound, Lasts, Moved, LateCalls
<1>4. CASE BrokerEffect(c, sure)
  <2>1. /\ c \in {"copyVerified", "release", "revoke"}
        /\ UNCHANGED <<ledgerVars, sandbox, creations>>
        /\ \/ broker \notin {"released", "withdrawn"} /\ broker' \notin {"released", "withdrawn"}
              /\ c # "release"
           \/ c = "release" /\ broker = "held" /\ broker' = "released"
           \/ c = "revoke" /\ broker = "released" /\ broker' = "withdrawn"
           \/ c = "revoke" /\ broker = "withdrawn" /\ broker' = broker
    BY <1>4 DEF BrokerEffect
  <2>2. c = "release" => status = "settled" /\ sandbox = "gone"
    BY DEF May, PortsSound
  <2> QED BY <2>1, <2>2, ArtifactIs DEF ledgerVars, PortsSound, Lasts, Moved, LateCalls
<1>5. CASE GuestEffect(c, sure)
  <2>1. c \in GuestCalls /\ UNCHANGED portVars /\ Artifact' = Artifact
    BY <1>5, SameArtifact DEF GuestEffect, portVars
  <2> QED BY <2>1 DEF portVars, ledgerVars, GuestCalls, PortsSound, Lasts, Moved, LateCalls
<1> QED BY <1>1, <1>2, <1>3, <1>4, <1>5 DEF PortEffect

-----------------------------------------------------------------------------
\* What a process knows after a step it knew before.
Claims(n, m) ==
    /\ Made(n) => Made(m)
    /\ Gone(n) => Gone(m)
    /\ Paid(n) => Paid(m)
    /\ Reserved(n) => Reserved(m)
    /\ Freed(n) => Freed(m)
Keeps(n, m) == n.allocation = m.allocation /\ n.broker = m.broker /\ n.cleanup = m.cleanup

\* A process without a call claims nothing.
LEMMA IdleClaims == ASSUME NEW m PROVE Claims(Idle, m)
  BY DEF Claims, Made, Gone, Paid, Reserved, Freed, Idle, Later

\* The next call is made with what is known.
LEMMA GotoKeeps == ASSUME NEW m \in View, NEW pc \in Pcs PROVE Keeps(Goto(m, pc), m)
  BY DEF Goto, View, Keeps

\* A step to another call that is still to be made.
LEMMA CallClaims ==
    ASSUME NEW n, NEW m, Keeps(n, m), n.reply = NoReply, n.phase = m.phase,
           n.pc \in Later \/ (n.pc = "retain" /\ n.mode = "run") => Made(m),
           n.pc = "settle" => Gone(m),
           n.pc \in {"egress", "release"} => Paid(m),
           n.pc \in {"retryBeforeCreate", "acquire"} => Reserved(m),
           n.pc = "converge" \/ (n.pc = "terminal" /\ n.verdict = "released") => Freed(m)
    PROVE  Claims(n, m)
<1>1. ~Sure(n.reply) /\ n.reply.is # "done"
  BY NoReplyIs DEF Sure
<1> QED BY <1>1 DEF Claims, Keeps, Made, Gone, Paid, Reserved, Freed

\* The catch clause claims nothing new.
LEMMA CaughtClaims ==
    ASSUME NEW m \in View, NEW repeat \in BOOLEAN
    PROVE  Claims(Caught(m, repeat), m)
<1>1. PICK pc \in {"cleanupOnce", "retain", "terminal"} :
        pc = IF m.allocation /\ repeat THEN "cleanupOnce"
             ELSE IF m.reservation THEN "retain" ELSE "terminal"
  OBVIOUS
<1>2. PICK v \in {"quarantined", "failed"} :
        v = IF m.allocation THEN "quarantined" ELSE "failed"
  OBVIOUS
<1>3. CASE m.intent
  BY <1>3, IdleClaims DEF Caught, ThrowsOn
<1>4. CASE ~m.intent
  <2> DEFINE g == Goto(m, pc)
             n == InCatch(g, v)
  <2>1. Caught(m, repeat) = n
    BY <1>1, <1>2, <1>4 DEF Caught, ThrowsOn, InCatch
  <2>2. g \in View /\ Keeps(g, m) /\ g.pc = pc /\ g.phase = m.phase /\ g.reply = NoReply
    BY <1>1, GotoIs, GotoKeeps DEF Pcs, PortCalls, LedgerCalls, Carries
  <2> HIDE DEF g
  <2>3. Keeps(n, m)
    BY <2>2 DEF InCatch, View, Keeps
  <2>4. /\ n.pc = pc /\ n.mode = "catch" /\ n.reply = NoReply /\ n.phase = m.phase
        /\ n.verdict = v
    BY <2>2, InCatchIs
  <2> HIDE DEF n
  <2>5. n.pc \in Later => Made(m)
    BY <1>1, <2>4 DEF Later, Made
  <2>6. Claims(n, m)
    BY <1>1, <1>2, <2>3, <2>4, <2>5, CallClaims
  <2> QED BY <2>1, <2>6
<1> QED BY <1>3, <1>4 DEF View

\* The reply of a call is taken over when there is one.
Taken(m) ==
    /\ m.pc = "acquire" => Sure(m.reply)
    /\ m.pc \in {"cleanupOnce", "settle", "reserve", "release"} => m.reply.is = "done"

\* What is taken over from an answer was known from it.
LEMMA AdoptClaims ==
    ASSUME NEW m \in View, Taken(m)
    PROVE  /\ Claims(Adopt(m), m)
           /\ Adopt(m).cleanup = CleanupAfter(m)
<1>1. PICK c \in Cleanups : c = CleanupAfter(m)
  BY DEF CleanupAfter, Certainty, Cleanups, View
<1>2. PICK a \in Nat : a = IF m.pc \in LedgerCalls THEN m.reply.anchor ELSE m.anchor
  BY DEF View, Reply
<1>3. PICK r \in BOOLEAN, l \in BOOLEAN, b \in BOOLEAN, i \in BOOLEAN :
        /\ r = (m.reservation \/ m.pc = "reserve")
        /\ l = (m.allocation \/ m.pc = "acquire")
        /\ b = (m.broker \/ m.pc = "copyVerified")
        /\ i = (m.intent \/ m.pc = "egress")
  OBVIOUS
<1>4. Adopt(m) = [m EXCEPT !.reservation = r, !.allocation = l, !.broker = b,
                           !.intent = i, !.cleanup = c, !.anchor = a]
  BY <1>1, <1>2, <1>3 DEF Adopt
<1>5. /\ Adopt(m).allocation = l /\ Adopt(m).broker = b /\ Adopt(m).cleanup = c
  BY <1>4 DEF View
<1>6. /\ Adopt(m).pc = m.pc /\ Adopt(m).mode = m.mode /\ Adopt(m).reply = m.reply
      /\ Adopt(m).phase = m.phase /\ Adopt(m).verdict = m.verdict
  BY AdoptIs
<1>7. Adopt(m).allocation => Made(m)
  BY <1>3, <1>5 DEF Taken, Made
<1>8. Adopt(m).broker => Made(m)
  BY <1>3, <1>5 DEF Made, Later
<1>9. Adopt(m).cleanup = "certain" => Gone(m)
  BY <1>1, <1>5 DEF CleanupAfter, Certainty, Taken, Gone, Sure
<1>10. Claims(Adopt(m), m)
  BY <1>6, <1>7, <1>8, <1>9 DEF Claims, Made, Gone, Paid, Reserved, Freed
<1> QED BY <1>1, <1>5, <1>10

\* Claims are transitive.
LEMMA ClaimsChain ==
    ASSUME NEW n, NEW k, NEW m, Claims(n, k), Claims(k, m) PROVE Claims(n, m)
  BY DEF Claims

\* What a process writes is what it holds.
LEMMA RecordKeeps ==
    ASSUME NEW m \in View, NEW s
    PROVE  Record(m, s).allocation = m.allocation /\ Record(m, s).cleanup = m.cleanup
           /\ Record(m, s).phase = m.phase /\ Record(m, s).state = s
  BY DEF Record

\* A record written from what a process knows is sound.
LEMMA RecordSound ==
    ASSUME NEW m \in View, NEW s, Sound(m), s = "released" => m.phase \in Past /\ freed
    PROVE  OpSound(Record(m, s))
  BY RecordKeeps DEF OpSound, Sound, Made, Gone, Freed, Out

\* Who claims nothing new stays sound.
LEMMA ClaimsSound == ASSUME NEW n, NEW m, Claims(n, m), Sound(m) PROVE Sound(n)
  BY DEF Claims, Sound

-----------------------------------------------------------------------------
\* #start claims nothing.
LEMMA StartKnown ==
    ASSUME NEW p \in Proc, TypeInv, Start(p)
    PROVE  Claims(local'[p], local[p]) /\ OpSound(op')
<1> DEFINE n == [Idle EXCEPT !.pc = "reserve", !.generation = 1]
<1>1. Claims(n, local[p])
  BY NoReplyIs DEF Claims, Made, Gone, Paid, Reserved, Freed, Idle, Later, Sure
<1>2. Continue(p, n) /\ op = NoOperation /\ op' = [op EXCEPT !.state = "running", !.generation = 1]
  BY DEF Start
<1>3. local'[p] = n
  <2> HIDE DEF n
  <2> QED BY <1>2 DEF Continue, TypeInv, LocalTyped
<1>4. OpSound(op')
  BY <1>2 DEF NoOperation, OpSound
<1> QED BY <1>1, <1>3, <1>4

\* #recover knows what is stored.
LEMMA LoadKnown ==
    ASSUME TypeInv, NEW p \in Proc, Load(p), OpSound(op)
    PROVE  Sound(local'[p])
<1> DEFINE b == Rank[op.phase] >= 8
           i == Rank[op.phase] >= 11
           n == [Idle EXCEPT
            !.pc = "fence", !.mode = "recover", !.phase = op.phase,
            !.generation = op.generation, !.revision = op.revision,
            !.reservation = op.reservation, !.allocation = op.allocation,
            !.cleanup = op.cleanup, !.broker = b,
            !.intent = i,
            !.anchor = op.anchor, !.contextAnchor = op.anchor]
<1>1. Continue(p, n) /\ Readable(op)
  BY DEF Load
<1>2. Rank[op.phase] \in 0 .. 13 /\ (op.allocation <=> Rank[op.phase] >= 2)
  BY <1>1 DEF TypeInv, Operation, Phases, Rank, Readable
<1>3. b => op.allocation
  BY <1>2
<1> HIDE DEF b, i
<1>4. /\ n.pc = "fence" /\ n.allocation = op.allocation /\ n.broker = b
      /\ n.cleanup = op.cleanup /\ n.phase = op.phase
  BY DEF Idle
<1> HIDE DEF n
<1>5. local'[p] = n
  BY <1>1 DEF Continue, TypeInv, LocalTyped
<1> QED BY <1>3, <1>4, <1>5 DEF OpSound, Sound, Made, Gone, Paid, Reserved, Freed, Later

\* What #recover makes of it claims nothing new.
LEMMA ResumedClaims ==
    ASSUME NEW m \in View, m.mode = "recover"
    PROVE  Claims(Resumed(m), m)
<1>1. PICK pc \in Pcs :
        pc = IF Rank[m.phase] = 13 THEN "terminal"
             ELSE IF Rank[m.phase] = 12 THEN "ledgerRelease"
             ELSE IF m.broker THEN "revoke"
             ELSE IF m.allocation THEN "cleanupOnce"
             ELSE IF m.reservation THEN "retain" ELSE "terminal"
  BY DEF Pcs, PortCalls, LedgerCalls
<1>2. PICK v \in Outcomes :
        v = IF Rank[m.phase] \in {12, 13} THEN "released"
            ELSE IF m.allocation THEN "quarantined" ELSE "failed"
  BY DEF Outcomes
<1> DEFINE g == Goto(m, pc)
           n == [g EXCEPT !.verdict = v]
<1>3. Resumed(m) = n
  BY <1>1, <1>2 DEF Resumed
<1>4. g \in View /\ g.pc = pc /\ Carries(g, m) /\ Keeps(g, m) /\ g.reply = NoReply
  BY GotoIs, GotoKeeps
<1> HIDE DEF g
<1>5. /\ n.pc = pc /\ n.mode = m.mode /\ n.phase = m.phase /\ n.reply = NoReply
      /\ Keeps(n, m) /\ n.verdict = v
  BY <1>4 DEF View, Carries, Keeps
<1> HIDE DEF n
<1>6. Rank[m.phase] = 13 => m.phase = "ledgerReleased"
  BY DEF View, Phases, Rank
<1>7. n.pc = "terminal" /\ n.verdict = "released" => Freed(m)
  BY <1>1, <1>2, <1>5, <1>6 DEF Freed
<1>8. n.pc \in Later => Made(m)
  BY <1>1, <1>5 DEF Later, Made
<1>9. n.pc \notin {"settle", "egress", "release", "retryBeforeCreate", "acquire", "converge"}
  BY <1>1, <1>5
<1>10. Claims(n, m)
  BY <1>5, <1>7, <1>8, <1>9, CallClaims
<1> QED BY <1>3, <1>10

\* The write of a recovery that takes over.
LEMMA FenceKnown ==
    ASSUME TypeInv, OnceInv, NEW p \in Proc, Fence(p), Sound(local[p])
    PROVE  /\ Claims(local'[p], local[p])
           /\ op' = op \/ (OpSound(op') /\ op'.state = "running")
<1> DEFINE m == [local[p] EXCEPT !.generation = @ + 1]
           k == [m EXCEPT !.revision = @ + 1]
<1>0. local[p] \in View /\ LocalTyped
  BY LocalIs DEF TypeInv
<1>1. /\ m \in View /\ m.pc = local[p].pc /\ m.mode = local[p].mode
      /\ m.phase = local[p].phase /\ Keeps(m, local[p]) /\ m.reply = local[p].reply
      /\ m.verdict = local[p].verdict
  BY <1>0 DEF View, Keeps
<1>2. /\ k \in View /\ k.pc = m.pc /\ k.mode = m.mode /\ k.phase = m.phase
      /\ Keeps(k, m) /\ k.reply = m.reply /\ k.verdict = m.verdict
  <2> HIDE DEF m
  <2> QED BY <1>1 DEF View, Keeps
<1>3. m.pc = "fence" /\ IF Current(m)
                        THEN op' = Record(m, "running") /\ Continue(p, Resumed(k))
                        ELSE Continue(p, Idle) /\ UNCHANGED op
  BY DEF Fence
<1> HIDE DEF m, k
<1>4. Claims(k, local[p]) /\ Claims(m, local[p])
  BY <1>1, <1>2 DEF Claims, Keeps, Made, Gone, Paid, Reserved, Freed
<1>5. k.mode = "recover"
  BY <1>1, <1>2, <1>3 DEF OnceInv, AllFit, Fits
<1>6. CASE Current(m)
  <2>1. local'[p] = Resumed(k)
    BY <1>0, <1>3, <1>6 DEF Continue, LocalTyped
  <2>2. Claims(local'[p], local[p])
    BY <1>2, <1>4, <1>5, <2>1, ResumedClaims, ClaimsChain
  <2>3. Sound(m)
    BY <1>4, ClaimsSound
  <2>4. OpSound(Record(m, "running")) /\ Record(m, "running").state = "running"
    BY <1>1, <2>3, RecordSound, RecordKeeps
  <2> QED BY <1>3, <1>6, <2>2, <2>4
<1>7. CASE ~Current(m)
  <2>1. local'[p] = Idle /\ op' = op
    BY <1>0, <1>3, <1>7 DEF Continue, LocalTyped
  <2> QED BY <2>1, IdleClaims
<1> QED BY <1>6, <1>7

\* The next call of #run follows from what the answered one has shown.
LEMMA NextCall ==
    ASSUME NEW k, Taken(k), k.mode = "run", k.pc \in DOMAIN SavedAs,
           NEW pc, pc = IF k.pc = "cleanupOnce" THEN AfterCleanup(k) ELSE FollowedBy[k.pc],
           k.pc = "cleanupOnce" => k.cleanup = Certainty(k.reply.sure)
    PROVE  /\ pc \in Later \cup {"retain"} => Made(k)
           /\ pc = "settle" => Gone(k)
           /\ pc \in {"egress", "release"} => Paid(k)
           /\ pc \in {"retryBeforeCreate", "acquire"} => Reserved(k)
           /\ pc \notin {"converge", "terminal"}
<1>1. CASE k.pc = "cleanupOnce"
  <2>1. pc \in {"settle", "retain"} /\ Made(k)
    BY <1>1, AfterCleanupIs DEF Made, Later
  <2>2. pc = "settle" => k.cleanup = "certain"
    BY <1>1 DEF AfterCleanup
  <2> QED BY <2>1, <2>2 DEF Gone
<1>2. CASE k.pc # "cleanupOnce"
  <2>1. pc = FollowedBy[k.pc]
    BY <1>2
  <2>2. pc \in Later \cup {"retain"} => k.pc \in Later \cup {"retain", "acquire"}
    BY <1>2, <2>1, SavedAsIs DEF FollowedBy, Later
  <2>3. pc # "settle" /\ pc \notin {"converge", "terminal"}
    BY <1>2, <2>1, SavedAsIs DEF FollowedBy
  <2>4. /\ pc = "egress" => k.pc = "settle"
        /\ pc = "release" => k.pc = "egress"
        /\ pc # "retryBeforeCreate"
        /\ pc = "acquire" => k.pc \in {"reserve", "retryBeforeCreate"}
    BY <1>2, <2>1, SavedAsIs DEF FollowedBy
  <2>5. pc \in Later \cup {"retain"} => Made(k)
    BY <2>2 DEF Made, Taken
  <2> QED BY <2>3, <2>4, <2>5 DEF Taken, Paid, Reserved
<1> QED BY <1>1, <1>2

\* The write of a phase, and the next call.
LEMMA SaveKnown ==
    ASSUME TypeInv, NEW p \in Proc, Save(p), Sound(local[p])
    PROVE  /\ Claims(local'[p], local[p]) /\ Taken(local[p])
           /\ op' = op \/ (OpSound(op') /\ op'.state = "running")
<1> DEFINE a == Adopt(local[p])
           saved == [a EXCEPT !.phase = SavedAs[a.pc]]
           next == IF a.pc = "cleanupOnce" THEN AfterCleanup(a) ELSE FollowedBy[a.pc]
           k == [saved EXCEPT !.revision = @ + 1]
<1>0. local[p] \in View /\ LocalTyped
  BY LocalIs DEF TypeInv
<1>1. /\ a \in View /\ a.pc = local[p].pc /\ a.mode = local[p].mode
      /\ a.reply = local[p].reply /\ a.phase = local[p].phase
  BY <1>0, AdoptIs
<1>2. /\ a.mode = "run" /\ a.pc \in DOMAIN SavedAs /\ Answered(a) /\ Created(a)
      /\ \/ op' = Record(saved, "running") /\ Continue(p, Goto(k, next))
         \/ /\ Continue(p, Caught(a, TRUE))
            /\ op' = op \/ op' = Record(saved, "running")
  BY DEF Save
<1>3. Taken(local[p])
  BY <1>1, <1>2 DEF Taken, Answered, Created, GuestCalls, Sure
<1>4. Claims(a, local[p]) /\ a.cleanup = CleanupAfter(local[p])
  BY <1>0, <1>3, AdoptClaims
<1>5. Taken(a) /\ (a.pc = "cleanupOnce" => a.cleanup = Certainty(a.reply.sure))
  BY <1>1, <1>3, <1>4 DEF Taken, CleanupAfter
<1> HIDE DEF a
<1>6. SavedAs[a.pc] \in Phases /\ SavedAs[a.pc] # "ledgerReleased"
  BY <1>2, SavedAsIs
<1>7. /\ saved \in View /\ saved.pc = a.pc /\ saved.mode = a.mode /\ saved.reply = a.reply
      /\ saved.phase = SavedAs[a.pc] /\ Keeps(saved, a) /\ saved.verdict = a.verdict
  BY <1>1, <1>6 DEF View, Keeps
<1> HIDE DEF saved
<1>8. /\ k \in View /\ k.pc = a.pc /\ k.mode = a.mode /\ k.reply = a.reply
      /\ k.phase = SavedAs[a.pc] /\ Keeps(k, a) /\ k.verdict = a.verdict
  BY <1>7 DEF View, Keeps
<1> HIDE DEF k
<1>9. Claims(saved, a) /\ Claims(k, a)
  BY <1>6, <1>7, <1>8 DEF Claims, Keeps, Made, Gone, Paid, Reserved, Freed
<1>10. OpSound(Record(saved, "running")) /\ Record(saved, "running").state = "running"
  <2>1. Sound(saved)
    BY <1>4, <1>9, ClaimsChain, ClaimsSound
  <2> QED BY <1>7, <2>1, RecordSound, RecordKeeps
<1>11. CASE op' = Record(saved, "running") /\ Continue(p, Goto(k, next))
  <2>1. next = IF k.pc = "cleanupOnce" THEN AfterCleanup(k) ELSE FollowedBy[k.pc]
    BY <1>8 DEF Keeps, AfterCleanup
  <2>2. Taken(k) /\ (k.pc = "cleanupOnce" => k.cleanup = Certainty(k.reply.sure))
    BY <1>5, <1>8 DEF Taken, Keeps
  <2>3. k.mode = "run" /\ k.pc \in DOMAIN SavedAs
    BY <1>2, <1>8
  <2>4. next \in Pcs
    BY <1>2, SavedAsIs, AfterCleanupIs DEF Pcs, PortCalls, LedgerCalls
  <2> HIDE DEF next
  <2>5. /\ next \in Later \cup {"retain"} => Made(k)
        /\ next = "settle" => Gone(k)
        /\ next \in {"egress", "release"} => Paid(k)
        /\ next \in {"retryBeforeCreate", "acquire"} => Reserved(k)
        /\ next \notin {"converge", "terminal"}
    BY <2>1, <2>2, <2>3, NextCall
  <2> DEFINE n == Goto(k, next)
  <2>6. /\ n \in View /\ n.pc = next /\ n.reply = NoReply /\ n.phase = k.phase /\ Keeps(n, k)
    BY <1>8, <2>4, GotoIs, GotoKeeps DEF Carries
  <2>7. local'[p] = n
    BY <1>0, <1>11 DEF Continue, LocalTyped
  <2> HIDE DEF n
  <2>8. Claims(n, k)
    BY <2>5, <2>6, CallClaims
  <2>9. Claims(n, local[p])
    BY <1>4, <1>9, <2>8, ClaimsChain
  <2> QED BY <1>3, <1>10, <1>11, <2>7, <2>9
<1>12. CASE Continue(p, Caught(a, TRUE)) /\ (op' = op \/ op' = Record(saved, "running"))
  <2>1. local'[p] = Caught(a, TRUE)
    BY <1>0, <1>12 DEF Continue, LocalTyped
  <2>2. Claims(local'[p], local[p])
    BY <1>1, <1>4, <2>1, CaughtClaims, ClaimsChain
  <2> QED BY <1>3, <1>10, <1>12, <2>2
<1> QED BY <1>2, <1>11, <1>12

\* The second acquisition.
LEMMA RetryAcquireKnown ==
    ASSUME TypeInv, NEW p \in Proc, RetryAcquire(p)
    PROVE  Claims(local'[p], local[p])
<1> DEFINE m == local[p]
           k == [m EXCEPT !.retried = TRUE]
<1>1. m \in View /\ LocalTyped
  BY LocalIs DEF TypeInv
<1>2. /\ k \in View /\ k.pc = m.pc /\ k.mode = m.mode /\ k.phase = m.phase /\ k.reply = m.reply
      /\ k.verdict = m.verdict /\ Keeps(k, m)
  BY <1>1 DEF View, Keeps
<1>3. /\ m.pc = "acquire"
      /\ IF MayRetry(m) THEN Continue(p, Goto(k, "retryBeforeCreate"))
         ELSE Continue(p, Caught(m, TRUE))
  BY DEF RetryAcquire
<1> HIDE DEF k
<1>4. CASE Continue(p, Goto(k, "retryBeforeCreate"))
  <2> DEFINE n == Goto(k, "retryBeforeCreate")
  <2>1. /\ n \in View /\ n.pc = "retryBeforeCreate" /\ n.reply = NoReply /\ n.phase = k.phase
        /\ Keeps(n, k)
    BY <1>2, GotoIs, GotoKeeps DEF Carries, Pcs, PortCalls, LedgerCalls
  <2>2. local'[p] = n
    BY <1>1, <1>4 DEF Continue, LocalTyped
  <2> HIDE DEF n
  <2>3. Reserved(k)
    BY <1>2, <1>3 DEF Reserved
  <2>4. n.pc \notin Later
    BY <2>1 DEF Later
  <2>5. Claims(n, k)
    BY <2>1, <2>3, <2>4, CallClaims
  <2>6. Claims(k, m)
    BY <1>2 DEF Claims, Keeps, Made, Gone, Paid, Reserved, Freed
  <2> QED BY <2>2, <2>5, <2>6, ClaimsChain
<1>5. CASE Continue(p, Caught(m, TRUE))
  BY <1>1, <1>5, CaughtClaims DEF Continue, LocalTyped
<1> QED BY <1>3, <1>4, <1>5

\* A failed call of #run.
LEMMA RunFailedKnown ==
    ASSUME TypeInv, NEW p \in Proc, RunFailed(p)
    PROVE  Claims(local'[p], local[p])
<1>1. local[p] \in View /\ LocalTyped
  BY LocalIs DEF TypeInv
<1> QED BY <1>1, CaughtClaims DEF RunFailed, Continue, LocalTyped

\* The end of #run, and of a process that was overtaken.
LEMMA RunEndsKnown ==
    ASSUME TypeInv, NEW p \in Proc, RunEnds(p)
    PROVE  Claims(local'[p], local[p])
<1> DEFINE a == Adopt(local[p])
           t == Goto(a, "terminal")
           c == Goto(a, "converge")
<1>0. local[p] \in View /\ LocalTyped
  BY LocalIs DEF TypeInv
<1>1. /\ a \in View /\ a.pc = local[p].pc /\ a.mode = local[p].mode /\ a.reply = local[p].reply
  BY <1>0, AdoptIs
<1>2. /\ a.mode = "run" /\ a.reply.is = "done"
      /\ \/ a.pc = "revoke" /\ Continue(p, [t EXCEPT !.verdict = "quarantined"])
         \/ a.pc = "ledgerRelease" /\ Continue(p, [c EXCEPT !.verdict = "released"])
  BY DEF RunEnds
<1>3. Taken(local[p])
  BY <1>1, <1>2 DEF Taken
<1>4. Claims(a, local[p])
  BY <1>0, <1>3, AdoptClaims
<1> HIDE DEF a
<1>5. /\ t \in View /\ t.pc = "terminal" /\ t.phase = a.phase /\ t.reply = NoReply /\ Keeps(t, a)
      /\ c \in View /\ c.pc = "converge" /\ c.phase = a.phase /\ c.reply = NoReply /\ Keeps(c, a)
  BY <1>1, GotoIs, GotoKeeps DEF Carries, Pcs
<1> HIDE DEF t, c
<1>6. CASE a.pc = "revoke" /\ Continue(p, [t EXCEPT !.verdict = "quarantined"])
  <2> DEFINE n == [t EXCEPT !.verdict = "quarantined"]
  <2>1. /\ n.pc = "terminal" /\ n.phase = a.phase /\ n.reply = NoReply /\ Keeps(n, a)
        /\ n.verdict = "quarantined"
    BY <1>5 DEF View, Keeps
  <2>2. local'[p] = n
    BY <1>0, <1>6 DEF Continue, LocalTyped
  <2> HIDE DEF n
  <2>3. Claims(n, a)
    BY <2>1, CallClaims DEF Later
  <2> QED BY <1>4, <2>2, <2>3, ClaimsChain
<1>7. CASE a.pc = "ledgerRelease" /\ Continue(p, [c EXCEPT !.verdict = "released"])
  <2> DEFINE n == [c EXCEPT !.verdict = "released"]
  <2>1. /\ n.pc = "converge" /\ n.phase = a.phase /\ n.reply = NoReply /\ Keeps(n, a)
    BY <1>5 DEF View, Keeps
  <2>2. local'[p] = n
    BY <1>0, <1>7 DEF Continue, LocalTyped
  <2> HIDE DEF n
  <2>3. Freed(a)
    BY <1>2, <1>7 DEF Freed
  <2>4. Claims(n, a)
    BY <2>1, <2>3, CallClaims DEF Later
  <2> QED BY <1>4, <2>2, <2>4, ClaimsChain
<1> QED BY <1>2, <1>6, <1>7

\* One attempt more is made with what is known.
LEMMA TriedKeeps ==
    ASSUME NEW m \in View, NEW pc \in Pcs, NEW t \in 0 .. 2
    PROVE  Keeps(Tried(m, pc, t), m)
<1> DEFINE g == Goto(m, pc)
           n == [g EXCEPT !.tries = t]
<1>1. g \in View /\ Keeps(g, m)
  BY GotoIs, GotoKeeps
<1>2. Tried(m, pc, t) = n
  BY DEF Tried
<1> HIDE DEF g
<1> QED BY <1>1, <1>2 DEF View, Keeps

\* The calls of the catch clause and of #recover, one after the other.
LEMMA WindDownKnown ==
    ASSUME TypeInv, EndInv, NEW p \in Proc, WindDown(p)
    PROVE  Claims(local'[p], local[p])
<1> DEFINE m == IF local[p].reply.is = "done" THEN Adopt(local[p]) ELSE local[p]
           ok == m.reply.is = "done"
<1>0. local[p] \in View /\ LocalTyped
  BY LocalIs DEF TypeInv
<1>1. /\ m \in View /\ m.pc = local[p].pc /\ m.mode = local[p].mode
      /\ m.verdict = local[p].verdict /\ m.reply = local[p].reply
  BY <1>0, AdoptIs
<1>2. /\ m.mode # "run"
      /\ \/ /\ m.pc = "cleanupOnce"
            /\ \/ Continue(p, [Goto(m, AfterCleanup(m)) EXCEPT !.tries = 1])
               \/ Continue(p, Goto(m, "retain"))
         \/ /\ m.pc \in {"settle", "retain"}
            /\ Continue(p, Held(m)) \/ Continue(p, [Goto(m, "retain") EXCEPT !.tries = 0])
         \/ /\ m.pc = "revoke"
            /\ \E c \in {"terminal", "retain", "cleanupOnce"} : Continue(p, Goto(m, c))
         \/ /\ m.pc \in {"ledgerRelease", "reconcileRelease"}
            /\ \/ ok /\ Continue(p, Goto(m, "converge"))
               \/ Continue(p, Goto(m, "reconcileRelease"))
               \/ Continue(p, Idle)
  BY DEF WindDown
<1>3. Claims(m, local[p])
  <2>1. CASE local[p].reply.is = "done"
    BY <1>0, <1>1, <1>2, <2>1, AdoptClaims DEF Taken
  <2>2. CASE local[p].reply.is # "done"
    BY <2>2 DEF Claims
  <2> QED BY <2>1, <2>2
<1>4. m.pc \in {"cleanupOnce", "settle", "retain", "revoke"} => m.verdict # "released"
  BY <1>1, <1>2 DEF EndInv, AllProper, Proper, Knows, Busy, Releasing
<1>5. {"cleanupOnce", "settle", "retain", "revoke", "terminal", "converge", "reconcileRelease"}
        \subseteq Pcs /\ 0 \in 0 .. 2 /\ 1 \in 0 .. 2
  BY DEF Pcs, PortCalls, LedgerCalls
<1> HIDE DEF m
<1>6. ASSUME NEW pc \in {"cleanupOnce", "settle", "retain", "revoke", "terminal", "converge",
                         "reconcileRelease"},
             NEW n \in View, n.pc = pc, Carries(n, m), n.reply = NoReply, Keeps(n, m),
             Continue(p, n),
             pc \in {"cleanupOnce", "settle", "revoke"} => Made(m),
             pc = "settle" => Gone(m),
             pc = "converge" => Freed(m),
             pc = "terminal" => m.verdict # "released"
      PROVE  Claims(local'[p], local[p])
  <2>1. /\ n.pc \in Later \/ (n.pc = "retain" /\ n.mode = "run") => Made(m)
        /\ n.pc \notin {"egress", "release", "retryBeforeCreate", "acquire"}
        /\ n.phase = m.phase
    BY <1>2, <1>6 DEF Later, Carries
  <2>2. Claims(n, m)
    BY <1>6, <2>1, CallClaims DEF Carries
  <2>3. local'[p] = n
    BY <1>0, <1>6 DEF Continue, LocalTyped
  <2> QED BY <1>3, <2>2, <2>3, ClaimsChain
<1>7. CASE m.pc = "cleanupOnce" /\ Continue(p, [Goto(m, AfterCleanup(m)) EXCEPT !.tries = 1])
  <2> DEFINE pc == AfterCleanup(m)
             n == Tried(m, pc, 1)
  <2>1. pc \in {"settle", "retain"} /\ (pc = "settle" => Gone(m)) /\ Made(m)
    BY <1>7 DEF AfterCleanup, Gone, Made, Later
  <2> HIDE DEF pc
  <2>4. pc \in Pcs
    BY <1>5, <2>1
  <2>2. /\ n \in View /\ n.pc = pc /\ Carries(n, m) /\ n.reply = NoReply /\ Keeps(n, m)
    BY <1>1, <1>5, <2>4, TriedIs, TriedKeeps
  <2>3. Continue(p, n)
    BY <1>7 DEF Tried, pc
  <2> HIDE DEF n
  <2> QED BY <1>6, <2>1, <2>2, <2>3
<1>8. CASE m.pc = "cleanupOnce" /\ Continue(p, Goto(m, "retain"))
  BY <1>1, <1>5, <1>6, <1>8, GotoIs, GotoKeeps
<1>9. CASE m.pc \in {"settle", "retain"} /\ Continue(p, Held(m))
  <2> DEFINE pc == IF m.mode = "catch" /\ m.broker THEN "revoke" ELSE "terminal"
             n == Tried(m, pc, 0)
  <2>1. pc \in {"revoke", "terminal"} /\ (pc = "revoke" => Made(m)) /\ m.verdict # "released"
    BY <1>4, <1>9 DEF Made
  <2>3. Continue(p, n)
    BY <1>9 DEF Tried, Held
  <2> HIDE DEF pc
  <2>4. pc \in Pcs
    BY <1>5, <2>1
  <2>2. /\ n \in View /\ n.pc = pc /\ Carries(n, m) /\ n.reply = NoReply /\ Keeps(n, m)
    BY <1>1, <1>5, <2>4, TriedIs, TriedKeeps
  <2> HIDE DEF n
  <2> QED BY <1>6, <2>1, <2>2, <2>3
<1>10. CASE m.pc \in {"settle", "retain"} /\ Continue(p, [Goto(m, "retain") EXCEPT !.tries = 0])
  <2> DEFINE n == Tried(m, "retain", 0)
  <2>1. /\ n \in View /\ n.pc = "retain" /\ Carries(n, m) /\ n.reply = NoReply /\ Keeps(n, m)
    BY <1>1, <1>5, TriedIs, TriedKeeps
  <2>2. Continue(p, n)
    BY <1>10 DEF Tried
  <2> HIDE DEF n
  <2> QED BY <1>6, <2>1, <2>2
<1>11. CASE m.pc = "revoke" /\ \E c \in {"terminal", "retain", "cleanupOnce"} : Continue(p, Goto(m, c))
  <2>1. PICK c \in {"terminal", "retain", "cleanupOnce"} : Continue(p, Goto(m, c))
    BY <1>11
  <2>2. Made(m) /\ m.verdict # "released"
    BY <1>4, <1>11 DEF Made, Later
  <2> DEFINE n == Goto(m, c)
  <2>3. c \in Pcs
    BY <1>5
  <2>4. /\ n \in View /\ n.pc = c /\ Carries(n, m) /\ n.reply = NoReply /\ Keeps(n, m)
    BY <1>1, <2>3, GotoIs, GotoKeeps
  <2> HIDE DEF n
  <2> QED BY <1>6, <2>1, <2>2, <2>4 DEF n
<1>12. CASE /\ m.pc \in {"ledgerRelease", "reconcileRelease"}
            /\ ok /\ Continue(p, Goto(m, "converge"))
  <2>1. Freed(m)
    BY <1>12 DEF Freed
  <2> QED BY <1>1, <1>5, <1>6, <1>12, <2>1, GotoIs, GotoKeeps
<1>13. CASE Continue(p, Goto(m, "reconcileRelease"))
  BY <1>1, <1>5, <1>6, <1>13, GotoIs, GotoKeeps
<1>14. CASE Continue(p, Idle)
  BY <1>0, <1>14, IdleClaims DEF Continue, LocalTyped
<1> QED BY <1>2, <1>7, <1>8, <1>9, <1>10, <1>11, <1>12, <1>13, <1>14

\* #convergeLedgerReleased leaves the sandbox and its cleanup as stored.
LEMMA ConvergeFields ==
    ASSUME TypeInv, NEW a, Converge(a)
    PROVE  /\ op'.allocation = op.allocation /\ op'.cleanup = op.cleanup /\ op'.state = op.state
           /\ op'.phase = op.phase \/ op'.phase = "ledgerReleased"
  BY DEF Converge, TypeInv, Operation

\* It writes that the ledger has let the job go when it has.
LEMMA ConvergeSound ==
    ASSUME TypeInv, NEW a, Converge(a), OpSound(op), freed
    PROVE  OpSound(op')
  BY ConvergeFields DEF OpSound, Out, Past

\* The process that converges.
LEMMA ConvergeKnown ==
    ASSUME TypeInv, NEW p \in Proc, ConvergeAndGo(p), Sound(local[p]), OpSound(op)
    PROVE  Claims(local'[p], local[p]) /\ OpSound(op')
<1> DEFINE m == local[p]
           g == Goto(m, "terminal")
           n == [g EXCEPT !.phase = op'.phase, !.generation = op'.generation,
                    !.revision = op'.revision, !.contextAnchor = op'.anchor]
<1>1. m \in View /\ LocalTyped /\ "terminal" \in Pcs
  BY LocalIs DEF TypeInv, Pcs
<1>2. /\ m.pc = "converge"
      /\ \/ Converge(m.anchor) /\ Continue(p, n)
         \/ UNCHANGED op /\ Continue(p, Idle)
  BY DEF ConvergeAndGo
<1>3. Freed(m) /\ freed
  BY <1>2 DEF Freed, Sound
<1>4. g \in View /\ g.pc = "terminal" /\ g.reply = NoReply /\ Keeps(g, m)
  BY <1>1, GotoIs, GotoKeeps
<1> HIDE DEF g
<1>5. CASE Converge(m.anchor) /\ Continue(p, n)
  <2>1. OpSound(op')
    BY <1>3, <1>5, ConvergeSound
  <2>2. n.pc = "terminal" /\ n.reply = NoReply /\ Keeps(n, m)
    BY <1>4 DEF View, Keeps
  <2>3. local'[p] = n
    BY <1>1, <1>5 DEF Continue, LocalTyped
  <2> HIDE DEF n
  <2>4. Claims(n, m)
    BY <1>3, <2>2, NoReplyIs DEF Claims, Keeps, Made, Gone, Paid, Reserved, Later, Sure
  <2> QED BY <2>1, <2>3, <2>4
<1>6. CASE UNCHANGED op /\ Continue(p, Idle)
  BY <1>1, <1>6, IdleClaims DEF Continue, LocalTyped
<1> QED BY <1>2, <1>5, <1>6

\* The write of the outcome: released only when the ledger has let the job go.
LEMMA TerminalKnown ==
    ASSUME TypeInv, OnceInv, EndInv, NEW p \in Proc, Terminal(p), Sound(local[p]), OpSound(op)
    PROVE  Claims(local'[p], local[p]) /\ OpSound(op')
<1> DEFINE m == local[p]
           n == [m EXCEPT !.revision = op.revision, !.tries = @ + 1]
<1>1. m \in View /\ LocalTyped
  BY LocalIs DEF TypeInv
<1>2. /\ m.pc = "terminal"
      /\ \/ op' = Record(m, m.verdict) /\ Continue(p, Idle)
         \/ UNCHANGED op /\ Continue(p, Idle)
         \/ UNCHANGED op /\ Continue(p, n)
  BY DEF Terminal
<1>3. m.verdict = "released" => m.phase \in Past /\ freed
  BY <1>2 DEF EndInv, AllProper, Proper, Knows, Busy, Releasing, Sound, Freed
<1>4. OpSound(op')
  <2>1. CASE op' = Record(m, m.verdict)
    <3>1. OpSound(Record(m, m.verdict))
      BY <1>1, <1>3, RecordSound
    <3> QED BY <2>1, <3>1
  <2> QED BY <1>2, <2>1
<1>5. CASE Continue(p, Idle)
  BY <1>1, <1>4, <1>5, IdleClaims DEF Continue, LocalTyped
<1>6. CASE Continue(p, n)
  <2>1. /\ n.pc = m.pc /\ n.phase = m.phase /\ n.mode = m.mode /\ n.reply = m.reply
        /\ n.verdict = m.verdict /\ Keeps(n, m)
    BY <1>1 DEF View, Keeps
  <2>2. local'[p] = n
    BY <1>1, <1>6 DEF Continue, LocalTyped
  <2> HIDE DEF n
  <2> QED BY <1>4, <2>1, <2>2 DEF Claims, Keeps, Made, Gone, Paid, Reserved, Freed
<1> QED BY <1>2, <1>5, <1>6

-----------------------------------------------------------------------------
\* What is known, once a step of the ports has been made.
SoundThen(m) ==
    /\ Made(m) => creations' = 1
    /\ Gone(m) => sandbox' = "gone"
    /\ Paid(m) => status' = "settled"
    /\ Reserved(m) => status' # "none"
    /\ Freed(m) => freed'
LateThen(l) ==
    /\ l.call \in Later => creations' = 1
    /\ l.call = "acquire" /\ Sure(l.reply) => creations' = 1
    /\ l.call = "settle" => sandbox' = "gone"
    /\ l.call = "release" => status' = "settled"
    /\ l.call = "acquire" => status' # "none"
    /\ l.call = "ledgerRelease" /\ l.reply.is = "done" => freed'
OpThen(o) ==
    /\ o.allocation => creations' = 1
    /\ o.cleanup = "certain" => sandbox' = "gone"
    /\ o.phase = "ledgerReleased" => freed'
    /\ o.state = "released" => Out(o) /\ freed'

\* KnownInv after a step,
LEMMA KnownThen ==
    ASSUME PortsSound', OpThen(op'), \A q \in Proc : SoundThen(local'[q]),
           \A l \in late' : LateThen(l)
    PROVE  KnownInv'
<1>1. OpSound(op)'
  BY DEF OpThen, OpSound
<1>2. \A q \in Proc : Sound(local[q])'
  BY DEF SoundThen, Sound
<1>3. \A l \in late' : LateSound(l)'
  BY DEF LateThen, LateSound
<1> QED BY <1>1, <1>2, <1>3 DEF KnownInv

\* to which everything known before it leads, since it is never undone.
LEMMA SoundLasts ==
    ASSUME Lasts
    PROVE  /\ \A m : Sound(m) => SoundThen(m)
           /\ \A l : LateSound(l) => LateThen(l)
           /\ \A o : OpSound(o) => OpThen(o)
  BY DEF Lasts, Sound, SoundThen, LateSound, LateThen, OpSound, OpThen

\* Ports that are not called keep it.
LEMMA PortsKeep ==
    ASSUME PortsSound, UNCHANGED portVars
    PROVE  PortsSound' /\ Lasts
  BY DEF portVars, ledgerVars, PortsSound, Lasts

\* One process moves, and the ports stay.
LEMMA KnownQuiet ==
    ASSUME KnownInv, UNCHANGED portVars, NEW p \in Proc, Others(p), OpSound(op'),
           Sound(local'[p]), \A l \in late' : l \in late \/ LateSound(l)
    PROVE  KnownInv'
<1>1. PortsSound' /\ Lasts
  BY PortsKeep DEF KnownInv
<1>2. \A q \in Proc : Sound(local'[q])
  BY DEF Others, KnownInv
<1>3. \A l \in late' : LateSound(l)
  BY DEF KnownInv
<1> QED BY <1>1, <1>2, <1>3, SoundLasts, KnownThen

\* A reply changes nothing else.
LEMMA RepliedKeeps ==
    ASSUME LocalTyped, NEW p \in Proc, NEW r \in Reply,
           Continue(p, [local[p] EXCEPT !.reply = r])
    PROVE  Keeps(local'[p], local[p])
  BY DEF LocalTyped, Continue, View, Keeps

\* A failure tells nothing.
LEMMA FailedClaims ==
    ASSUME LocalTyped, NEW p \in Proc, Continue(p, [local[p] EXCEPT !.reply = Failed])
    PROVE  Claims(local'[p], local[p])
<1>1. /\ local'[p].pc = local[p].pc /\ Carries(local'[p], local[p])
      /\ local'[p].reply = Failed /\ Keeps(local'[p], local[p])
  BY NoReplyIs, RepliedIs, RepliedKeeps
<1> QED BY <1>1, NoReplyIs DEF Carries, Claims, Keeps, Made, Gone, Paid, Reserved, Freed, Sure

\* The steps of a process.
LEMMA StepKnown ==
    ASSUME TypeInv, OnceInv, EndInv, KnownInv, NEW p \in Proc, StepOf(p)
    PROVE  KnownInv' /\ Others(p)
<1>1. UNCHANGED <<late, portVars>> /\ late' = late
  BY StepFrame
<1>2. Sound(local[p]) /\ OpSound(op) /\ LocalTyped
  BY DEF KnownInv, TypeInv
<1>3. ASSUME Others(p), OpSound(op'), Sound(local'[p]) PROVE KnownInv' /\ Others(p)
  BY <1>1, <1>3, KnownQuiet
<1>4. ASSUME Others(p), OpSound(op'), Claims(local'[p], local[p]) PROVE KnownInv' /\ Others(p)
  BY <1>2, <1>3, <1>4, ClaimsSound
<1>5. CASE Start(p)
  BY <1>4, <1>5, StartIs, StartKnown
<1>6. CASE Load(p)
  BY <1>2, <1>3, <1>6, LoadIs, LoadKnown
<1>7. CASE Fence(p)
  BY <1>2, <1>4, <1>7, FenceIs, FenceKnown
<1>8. CASE Save(p)
  <2>1. Others(p)
    BY <1>8, SaveIs
  <2> QED BY <1>2, <1>4, <1>8, <2>1, SaveKnown
<1>9. CASE RetryAcquire(p)
  BY <1>2, <1>4, <1>9, RetryAcquireIs, RetryAcquireKnown DEF Quiet
<1>10. CASE RunFailed(p)
  <2>1. Calling(local[p])
    BY <1>10, FailedCalls DEF OnceInv
  <2> QED BY <1>2, <1>4, <1>10, <2>1, RunFailedIs, RunFailedKnown DEF Quiet
<1>11. CASE RunEnds(p)
  BY <1>2, <1>4, <1>11, RunEndsIs, RunEndsKnown DEF Quiet
<1>12. CASE WindDown(p)
  BY <1>2, <1>4, <1>12, WindDownIs, WindDownKnown DEF Quiet
<1>13. CASE ConvergeAndGo(p)
  BY <1>2, <1>4, <1>13, ConvergeAndGoIs, ConvergeKnown
<1>14. CASE Terminal(p)
  BY <1>2, <1>4, <1>14, TerminalIs, TerminalKnown
<1>15. CASE Refuse(p) \/ Fail(p)
  <2>1. Continue(p, [local[p] EXCEPT !.reply = Failed])
    BY <1>15 DEF Refuse, Fail
  <2> QED BY <1>2, <1>4, <1>15, <2>1, RefuseIs, FailedClaims DEF Quiet
<1> QED BY <1>5, <1>6, <1>7, <1>8, <1>9, <1>10, <1>11, <1>12, <1>13, <1>14, <1>15 DEF StepOf

\* A call may be performed by what its maker knew, and the answer tells more.
LEMMA EffectKnown ==
    ASSUME TypeInv, OnceInv, EndInv, KnownInv, NEW p \in Proc, Effect(p)
    PROVE  /\ KnownInv' /\ Moved /\ Lasts /\ op' = op /\ late' = late
           /\ local[p].pc = "release" => broker' = "released"
           /\ local[p].pc # "revoke" /\ broker = "released" => broker' = "released"
<1> DEFINE m == local[p]
           n == local'[p]
<1>1. m.pc \in PortCalls \ GuestCalls /\ m.reply = NoReply /\ UNCHANGED <<op, late, faults>>
  BY DEF Effect
<1>2. PICK sure \in BOOLEAN :
        /\ PortEffect(m.pc, m.anchor, sure)
        /\ Continue(p, [m EXCEPT !.reply = Answer(sure)])
  BY DEF Effect
<1>3. Sound(m) /\ PortsSound /\ OpSound(op) /\ LocalTyped /\ PortsTyped
  BY DEF KnownInv, TypeInv
<1>4. May(m.pc, sure)
  <2>1. m.pc = "acquire" => Early(m) /\ Reserved(m)
    BY <1>1 DEF OnceInv, AllFit, Fits, Early, Reserved
  <2>2. m.pc = "acquire" => creations = 0 /\ status # "none"
    BY <1>3, <2>1 DEF OnceInv, CreatesOnce, Sound
  <2> QED BY <1>3, <2>2 DEF May, Sound, Made, Gone, Paid, Later
<1>5. /\ PortsSound' /\ Lasts /\ Moved
      /\ m.pc = "acquire" /\ sure => creations' = 1
      /\ m.pc = "cleanupOnce" /\ sure => sandbox' = "gone"
      /\ m.pc = "settle" => status' = "settled"
      /\ m.pc = "reserve" => status' # "none"
      /\ m.pc \in LateCalls => freed' /\ broker' = broker
      /\ m.pc = "release" => broker' = "released"
      /\ m.pc # "revoke" /\ broker = "released" => broker' = "released"
  BY <1>2, <1>3, <1>4, PortSound
<1>6. Answer(sure) \in Reply /\ Answer(sure).sure = sure
  <2>1. PortsTyped'
    BY <1>2, <1>3, PortIs
  <2> QED BY <2>1, AnswerIs
<1>7. /\ Others(p) /\ n.pc = m.pc /\ Carries(n, m) /\ n.reply = Answer(sure) /\ Keeps(n, m)
  BY <1>2, <1>3, <1>6, RepliedIs, RepliedKeeps
<1>8. SoundThen(m)
  BY <1>3, <1>5, SoundLasts
<1>9. SoundThen(n)
  <2>1. Made(n) => Made(m) \/ (m.pc = "acquire" /\ sure)
    BY <1>6, <1>7 DEF Made, Carries, Keeps, Sure
  <2>2. Gone(n) => Gone(m) \/ (m.pc = "cleanupOnce" /\ sure)
    BY <1>6, <1>7 DEF Gone, Carries, Keeps, Sure
  <2>3. Paid(n) => Paid(m) \/ m.pc = "settle"
    BY <1>7 DEF Paid
  <2>4. Reserved(n) => Reserved(m) \/ m.pc = "reserve"
    BY <1>7 DEF Reserved
  <2>5. Freed(n) => Freed(m) \/ m.pc \in LateCalls
    BY <1>7 DEF Freed, Carries, LateCalls
  <2> QED BY <1>5, <1>8, <2>1, <2>2, <2>3, <2>4, <2>5 DEF SoundThen
<1>10. \A q \in Proc : SoundThen(local'[q])
  BY <1>5, <1>7, <1>9, SoundLasts DEF Others, KnownInv
<1>11. OpThen(op') /\ \A l \in late' : LateThen(l)
  BY <1>1, <1>5, SoundLasts DEF KnownInv
<1> QED BY <1>1, <1>5, <1>10, <1>11, KnownThen

\* A late call is sound if its maker was.
LEMMA PendingSound ==
    ASSUME LocalTyped, NEW p \in Proc, NEW o \in Proc \cup {NoOne}, local[p].pc \in PortCalls,
           Sound(local[p])
    PROVE  LateSound(Pending(p, o))
<1>1. Pending(p, o).call = local[p].pc /\ Pending(p, o).reply = local[p].reply
  BY PendingIs
<1> QED BY <1>1 DEF LateSound, Sound, Made, Gone, Paid, Reserved, Freed

\* A call that times out.
LEMMA TimeoutKnown ==
    ASSUME TypeInv, KnownInv, NEW p \in Proc, Timeout(p)
    PROVE  KnownInv'
<1> DEFINE m == local[p]
<1>1. /\ Others(p) /\ m.pc \in PortCalls /\ late' = late \cup {Pending(p, p)}
      /\ op' = op /\ UNCHANGED portVars
  BY TimeoutIs DEF Quiet, Timeout
<1>2. LocalTyped /\ m \in View /\ Sound(m) /\ OpSound(op)
  BY LocalIs DEF TypeInv, KnownInv
<1>3. LateSound(Pending(p, p))
  BY <1>1, <1>2, PendingSound
<1> DEFINE b == m.pc \notin {"cleanupOnce", "settle"}
<1>4. b \in BOOLEAN /\ (Continue(p, Caught(m, b)) \/ Continue(p, [m EXCEPT !.reply = Failed]))
  BY DEF Timeout
<1> HIDE DEF b
<1>5. Claims(local'[p], m)
  <2>1. CASE Continue(p, Caught(m, b))
    BY <1>2, <1>4, <2>1, CaughtClaims DEF Continue, LocalTyped
  <2>2. CASE Continue(p, [m EXCEPT !.reply = Failed])
    BY <1>2, <2>2, FailedClaims
  <2> QED BY <1>4, <2>1, <2>2
<1>6. Sound(local'[p])
  BY <1>2, <1>5, ClaimsSound
<1> QED BY <1>1, <1>2, <1>3, <1>6, KnownQuiet

\* A process that dies.
LEMMA CrashKnown ==
    ASSUME TypeInv, KnownInv, NEW p \in Proc, Crash(p)
    PROVE  KnownInv'
<1>1. /\ Others(p) /\ local'[p] = Idle /\ op' = op /\ UNCHANGED portVars
      /\ \A k \in late' :
           \/ k \in late
           \/ \E l \in late : k = [l EXCEPT !.owner = NoOne] /\ l.owner = p
           \/ /\ k = Pending(p, NoOne)
              /\ local[p].pc \in PortCalls /\ local[p].reply = NoReply
  BY CrashIs DEF Quiet, Crash
<1>2. LocalTyped /\ Sound(local[p]) /\ OpSound(op)
  BY DEF TypeInv, KnownInv
<1>3. \A l \in late : LateSound([l EXCEPT !.owner = NoOne])
  BY DEF TypeInv, Call, KnownInv, LateSound
<1>4. local[p].pc \in PortCalls => LateSound(Pending(p, NoOne))
  BY <1>2, PendingSound
<1>5. \A k \in late' : k \in late \/ LateSound(k)
  BY <1>1, <1>3, <1>4
<1>6. Sound(local'[p])
  BY <1>1, <1>2, IdleClaims, ClaimsSound
<1> QED BY <1>1, <1>2, <1>5, <1>6, KnownQuiet

\* A late call that is performed.
LEMMA LateEffectKnown ==
    ASSUME TypeInv, OnceInv, KnownInv, NEW l \in late, LateEffect(l)
    PROVE  /\ KnownInv' /\ Moved /\ Lasts /\ op' = op /\ local' = local
           /\ l.call \in LateCalls => broker' = broker
           /\ \A k \in late' : \E j \in late : k.call = j.call
<1>1. l.reply = NoReply /\ UNCHANGED <<op, local, faults>>
  BY DEF LateEffect
<1>2. PICK sure \in BOOLEAN :
        /\ PortEffect(l.call, l.anchor, sure)
        /\ late' \subseteq (late \ {l}) \cup {[l EXCEPT !.reply = Answer(sure)]}
  BY DEF LateEffect
<1>3. LateSound(l) /\ PortsSound /\ OpSound(op) /\ PortsTyped /\ l \in Call
  BY DEF KnownInv, TypeInv
<1>4. May(l.call, sure)
  <2>1. l.call = "acquire" => creations = 0
    BY <1>1 DEF Awaits, OnceInv, CreatesOnce
  <2> QED BY <1>3, <2>1 DEF May, LateSound, Later
<1>5. /\ PortsSound' /\ Lasts /\ Moved
      /\ l.call = "acquire" /\ sure => creations' = 1
      /\ l.call \in LateCalls => freed' /\ broker' = broker
  BY <1>2, <1>3, <1>4, PortSound
<1>6. Answer(sure) \in Reply /\ Answer(sure).sure = sure
  <2>1. PortsTyped'
    BY <1>2, <1>3, PortIs
  <2> QED BY <2>1, AnswerIs
<1> DEFINE k == [l EXCEPT !.reply = Answer(sure)]
<1>7. k.call = l.call /\ k.reply = Answer(sure)
  BY <1>3 DEF Call
<1>8. late' \subseteq (late \ {l}) \cup {k}
  BY <1>2
<1> HIDE DEF k
<1>9. LateThen(l)
  BY <1>3, <1>5, SoundLasts
<1>10. LateThen(k)
  BY <1>5, <1>6, <1>7, <1>9 DEF LateThen, Sure, LateCalls
<1>11. \A j \in late' : LateThen(j)
  BY <1>5, <1>8, <1>10, SoundLasts DEF KnownInv
<1>12. OpThen(op') /\ \A q \in Proc : SoundThen(local'[q])
  BY <1>1, <1>5, SoundLasts DEF KnownInv
<1>13. KnownInv'
  BY <1>5, <1>11, <1>12, KnownThen
<1> QED BY <1>1, <1>5, <1>7, <1>8, <1>13

\* What undoes a late call may be performed.
LEMMA UndoMay ==
    ASSUME NEW l, NEW sure, LateSound(l), Undone(l), l.reply.is = "done"
    PROVE  May(Undo[l.call], sure) /\ l.call \in DOMAIN Undo
<1>1. l.call \in DOMAIN Undo /\ (l.call = "acquire" => l.reply.sure)
  BY DEF Undone
<1>2. /\ Undo[l.call] \notin {"acquire", "settle", "release"}
      /\ Undo[l.call] = "cleanupOnce" => l.call \in Later \cup {"acquire"}
  BY <1>1 DEF Undo, Later
<1> QED BY <1>1, <1>2 DEF May, LateSound, Sure

\* A late call that is undone.
LEMMA LateUndoKnown ==
    ASSUME TypeInv, KnownInv, NEW l \in late, LateUndo(l)
    PROVE  /\ KnownInv' /\ Moved /\ Lasts /\ op' = op /\ local' = local
           /\ late' \subseteq late /\ l.call \in DOMAIN Undo
<1>1. /\ l.reply.is = "done" /\ Undone(l) /\ late' \subseteq late /\ UNCHANGED <<op, local>>
  BY DEF LateUndo
<1>2. PICK a \in UndoAnchors(l) :
        (\E sure \in BOOLEAN : PortEffect(Undo[l.call], a, sure)) \/ UNCHANGED portVars
  BY DEF LateUndo
<1>3. LateSound(l) /\ PortsSound /\ OpSound(op) /\ PortsTyped
  BY DEF KnownInv, TypeInv
<1>4. l.call \in DOMAIN Undo
  BY <1>1 DEF Undone
<1>5. PortsSound' /\ Lasts /\ Moved
  <2>1. CASE UNCHANGED portVars
    BY <1>3, <2>1, PortsKeep, SameArtifact DEF Moved, portVars, ledgerVars
  <2>2. CASE \E sure \in BOOLEAN : PortEffect(Undo[l.call], a, sure)
    <3>1. PICK sure \in BOOLEAN : PortEffect(Undo[l.call], a, sure)
      BY <2>2
    <3>2. May(Undo[l.call], sure)
      BY <1>1, <1>3, UndoMay
    <3> QED BY <1>3, <3>1, <3>2, PortSound
  <2> QED BY <1>2, <2>1, <2>2
<1>6. OpThen(op') /\ (\A q \in Proc : SoundThen(local'[q])) /\ (\A k \in late' : LateThen(k))
  BY <1>1, <1>5, SoundLasts DEF KnownInv
<1>7. KnownInv'
  BY <1>5, <1>6, KnownThen
<1> QED BY <1>1, <1>4, <1>5, <1>7

\* A late anchor tells its process nothing else.
LEMMA AnchorKeeps ==
    ASSUME LocalTyped, NEW q \in Proc, NEW o, NEW a,
           local' = [local EXCEPT ![o].anchor = a]
    PROVE  Claims(local'[q], local[q])
<1> DEFINE m == local[q]
           n == [m EXCEPT !.anchor = a]
<1>1. m \in View
  BY DEF LocalTyped
<1>2. local'[q] = m \/ local'[q] = n
  BY DEF LocalTyped
<1>3. /\ n.pc = m.pc /\ n.mode = m.mode /\ n.phase = m.phase /\ n.reply = m.reply
      /\ n.verdict = m.verdict /\ Keeps(n, m)
  BY <1>1 DEF View, Keeps
<1>4. Claims(n, m) /\ Claims(m, m)
  <2> HIDE DEF n
  <2> QED BY <1>3 DEF Claims, Keeps, Made, Gone, Paid, Reserved, Freed
<1> QED BY <1>2, <1>4

\* The answer of a late call.
LEMMA LateAnswerKnown ==
    ASSUME TypeInv, KnownInv, NEW l \in late, LateAnswer(l)
    PROVE  KnownInv' /\ late' \subseteq late /\ UNCHANGED portVars
<1>1. /\ UNCHANGED <<portVars, faults>> /\ late' \subseteq late /\ l.reply.is = "done"
      /\ \/ UNCHANGED local
         \/ local' = [local EXCEPT ![l.owner].anchor = l.reply.anchor]
      /\ \/ UNCHANGED op
         \/ l.call = "ledgerRelease" /\ Converge(l.reply.anchor)
  BY DEF LateAnswer
<1>2. LateSound(l) /\ OpSound(op) /\ LocalTyped /\ PortsSound
  BY DEF KnownInv, TypeInv
<1>3. \A q \in Proc : Claims(local'[q], local[q])
  <2>1. CASE UNCHANGED local
    BY <2>1 DEF Claims
  <2>2. CASE local' = [local EXCEPT ![l.owner].anchor = l.reply.anchor]
    BY <1>2, <2>2, AnchorKeeps
  <2> QED BY <1>1, <2>1, <2>2
<1>4. \A q \in Proc : Sound(local'[q])
  BY <1>3, ClaimsSound DEF KnownInv
<1>5. OpSound(op')
  <2>1. CASE l.call = "ledgerRelease" /\ Converge(l.reply.anchor)
    <3>1. freed
      BY <1>1, <1>2, <2>1 DEF LateSound
    <3> QED BY <1>2, <2>1, <3>1, ConvergeSound
  <2> QED BY <1>1, <1>2, <2>1
<1>6. PortsSound' /\ Lasts
  BY <1>1, <1>2, PortsKeep
<1>7. \A k \in late' : LateSound(k)
  BY <1>1 DEF KnownInv
<1> QED BY <1>1, <1>4, <1>5, <1>6, <1>7, SoundLasts, KnownThen

\* The operator has seen to it that the sandbox is gone, and paid.
LEMMA ReconcileKnown ==
    ASSUME TypeInv, KnownInv, ReconcileCleanup
    PROVE  /\ KnownInv' /\ Lasts
           /\ sandbox \in {"live", "gone"} /\ sandbox' = "gone"
           /\ status # "settled" /\ status' = "settled" /\ broker' = broker
<1> DEFINE g == op.generation + 1
           r == op.revision + 1
           a == ledgerRevision + 1
           o == [op EXCEPT !.generation = g, !.revision = r, !.cleanup = "certain",
                           !.anchor = a, !.resultAnchor = a]
<1>1. /\ UNCHANGED <<local, late, freed, creations, broker, faults>>
      /\ op.state = "quarantined" /\ op.allocation /\ sandbox' = "gone"
      /\ status = "retained" /\ status' = "settled" /\ op' = o
  BY DEF ReconcileCleanup, Ledger!ReconcileCleanup
<1>2. op \in Operation /\ PortsTyped /\ PortsSound /\ OpSound(op)
  BY DEF TypeInv, KnownInv
<1>3. creations = 1 /\ sandbox \in {"live", "gone"}
  BY <1>1, <1>2 DEF OpSound, PortsSound, PortsTyped
<1>4. PortsSound' /\ Lasts
  BY <1>1, <1>2, <1>3 DEF PortsSound, Lasts
<1>5. o.state = op.state /\ o.phase = op.phase /\ o.allocation = op.allocation
  <2> HIDE DEF g, r, a
  <2> QED BY <1>2 DEF Operation
<1> HIDE DEF o
<1>6. OpThen(op')
  BY <1>1, <1>2, <1>3, <1>5 DEF OpThen, OpSound
<1>7. (\A q \in Proc : SoundThen(local'[q])) /\ (\A k \in late' : LateThen(k))
  BY <1>1, <1>4, SoundLasts DEF KnownInv
<1>8. KnownInv'
  BY <1>4, <1>6, <1>7, KnownThen
<1> QED BY <1>1, <1>3, <1>4, <1>8

\* Another job moves the anchor of the ledger only.
LEMMA OtherKnown ==
    ASSUME KnownInv, OtherJob
    PROVE  KnownInv' /\ UNCHANGED <<op, local, late, sandbox, status, broker>>
<1>1. UNCHANGED <<op, local, late, status, freed, sandbox, creations, broker>>
  BY DEF OtherJob
<1>2. PortsSound' /\ Lasts
  BY <1>1 DEF KnownInv, PortsSound, Lasts
<1>3. OpThen(op') /\ (\A q \in Proc : SoundThen(local'[q])) /\ (\A k \in late' : LateThen(k))
  BY <1>1, <1>2, SoundLasts DEF KnownInv
<1> QED BY <1>1, <1>2, <1>3, KnownThen

-----------------------------------------------------------------------------
\* While a process that may save is current nobody else works on the operation,
\* and no call of an earlier one is under way.
LEMMA OpMoves ==
    ASSUME TypeInv, OnceInv, EndInv, NEW p \in Proc, StepOf(p)
    PROVE  /\ \/ op' = op \/ op'.revision = op.revision + 1 \/ op.state = "none"
           /\ Out(op') => \/ Out(op)
                          \/ Save(p) /\ local[p].pc = "release" /\ local[p].revision = op.revision
<1> DEFINE m == local[p]
<1>0. Proper(m, op)
  BY DEF EndInv, AllProper
<1>1. CASE Start(p)
  BY <1>1, StartIs DEF Out, Past
<1>2. CASE Load(p)
  BY <1>2, LoadIs
<1>3. CASE Fence(p)
  <2>1. op' = op \/ Writes(m, "running", m.phase)
    BY <1>3, FenceIs
  <2> QED BY <1>0, <2>1 DEF Writes, Proper, Knows, Out
<1>4. CASE Save(p)
  <2>1. /\ m.pc \in DOMAIN SavedAs
        /\ op' = op \/ Writes(m, "running", SavedAs[m.pc])
    BY <1>4, SaveIs
  <2>2. SavedAs[m.pc] \in Past => m.pc = "release"
    BY <2>1, SavedAsIs DEF Past
  <2> QED BY <1>4, <2>1, <2>2 DEF Writes, Out
<1>5. CASE RetryAcquire(p) \/ RunEnds(p) \/ WindDown(p) \/ Refuse(p) \/ Fail(p)
  BY <1>5, RetryAcquireIs, RunEndsIs, WindDownIs, RefuseIs DEF Quiet
<1>6. CASE RunFailed(p)
  BY <1>6, FailedCalls, RunFailedIs DEF Quiet, OnceInv
<1>7. CASE ConvergeAndGo(p)
  BY <1>7, ConvergeAndGoIs DEF Converged, Out, Past
<1>8. CASE Terminal(p)
  <2>1. op' = op \/ Writes(m, m.verdict, m.phase)
    BY <1>8, TerminalIs
  <2> QED BY <1>0, <2>1 DEF Writes, Proper, Knows, Out
<1> QED BY <1>1, <1>2, <1>3, <1>4, <1>5, <1>6, <1>7, <1>8 DEF StepOf

\* A process that may save after its own step was alone before it, and its call
\* has not been answered by that step.
LEMMA SaverMoves ==
    ASSUME TypeInv, OnceInv, EndInv, RunAlone, NEW p \in Proc, StepOf(p),
           Saves(local'[p]), local'[p].revision = op'.revision
    PROVE  late = {} /\ ~(local'[p].pc = "release" /\ local'[p].reply.is = "done")
<1> DEFINE m == local[p]
           n == local'[p]
<1>0. Fits(m) /\ Proper(m, op)
  BY DEF OnceInv, AllFit, EndInv, AllProper
<1>1. ASSUME Quiet(p), ~(m.pc = "release" /\ m.reply = NoReply) \/ n.reply = Failed
      PROVE  late = {} /\ ~(n.pc = "release" /\ n.reply.is = "done")
  <2>1. /\ Saves(m) /\ m.revision = op.revision /\ Follows(n, m)
    BY <1>0, <1>1, FollowsProper DEF Quiet
  <2>2. late = {}
    BY <2>1 DEF RunAlone
  <2>3. ~CaughtFrom(n, m) /\ n # Idle /\ n.mode = "run"
    BY IdleProper DEF CaughtFrom, Saves
  <2>4. n.pc # "release" \/ n.reply.is # "done"
    BY <1>1, <2>1, <2>3, NoReplyIs DEF Follows, Same, WindsDown, RunEnded, Retries, Carries
  <2> QED BY <2>2, <2>4
<1>2. CASE Start(p)
  BY <1>2, StartIs DEF OnceInv, Unborn
<1>3. CASE Load(p)
  BY <1>3, LoadIs DEF Saves
<1>4. CASE Fence(p)
  BY <1>0, <1>4, FenceIs, IdleProper DEF Saves, Fits
<1>5. CASE Save(p)
  <2>1. /\ m.mode = "run" /\ m.pc \in DOMAIN SavedAs
        /\ \/ Writes(m, "running", SavedAs[m.pc]) /\ n.reply = NoReply
           \/ CaughtFrom(n, Adopt(m))
    BY <1>5, SaveIs
  <2>2. ~CaughtFrom(n, Adopt(m))
    BY IdleProper DEF CaughtFrom, Saves
  <2> QED BY <2>1, <2>2, NoReplyIs DEF Writes, RunAlone, Saves
<1>6. CASE RetryAcquire(p)
  BY <1>1, <1>6, RetryAcquireIs DEF RetryAcquire
<1>7. CASE RunFailed(p)
  BY <1>1, <1>7, FailedCalls, RunFailedIs, NoReplyIs DEF OnceInv, RunFailed
<1>8. CASE RunEnds(p)
  <2>1. m.pc # "release"
    BY <1>8, LocalIs, AdoptIs DEF RunEnds
  <2> QED BY <1>1, <1>8, <2>1, RunEndsIs
<1>9. CASE WindDown(p)
  <2>1. m.pc # "release"
    BY <1>9, LocalIs, AdoptIs DEF WindDown
  <2> QED BY <1>1, <1>9, <2>1, WindDownIs
<1>10. CASE ConvergeAndGo(p)
  BY <1>10, ConvergeAndGoIs, IdleProper, SavedAsIs DEF Saves
<1>11. CASE Terminal(p)
  BY <1>11, TerminalIs, IdleProper, SavedAsIs DEF Saves
<1>12. CASE Refuse(p) \/ Fail(p)
  <2>1. LocalTyped /\ Continue(p, [m EXCEPT !.reply = Failed])
    BY <1>12 DEF Refuse, Fail, TypeInv
  <2>2. n.reply = Failed
    BY <2>1, NoReplyIs, RepliedIs
  <2> QED BY <1>1, <1>12, <2>2, RefuseIs
<1> QED BY <1>2, <1>3, <1>4, <1>5, <1>6, <1>7, <1>8, <1>9, <1>10, <1>11, <1>12 DEF StepOf

\* The steps of a process leave a process that may save alone.
LEMMA StepAlone ==
    ASSUME TypeInv, OnceInv, EndInv, PromiseInv, NEW p \in Proc, StepOf(p)
    PROVE  RunAlone' /\ OutSound'
<1>1. UNCHANGED <<late, portVars>> /\ Others(p) /\ late' = late /\ broker' = broker /\ status' = status
  BY StepFrame, StepKnown DEF PromiseInv, portVars, ledgerVars
<1>2. ASSUME NEW q \in Proc, q # p, Saves(local'[q]), local'[q].revision = op'.revision
      PROVE  op' = op /\ local'[q] = local[q]
  <2>1. local'[q] = local[q] /\ local[q].revision \in Nat /\ local[q].revision <= op.revision
        /\ op.revision \in Nat
    BY <1>1, <1>2, LocalIs DEF Others, TypeInv, View, Operation
  <2>2. op.state # "none"
    BY <1>2, <2>1, IdleProper DEF OnceInv, Unborn
  <2> QED BY <1>2, <2>1, <2>2, OpMoves
<1>3. RunAlone'
  BY <1>1, <1>2, SaverMoves DEF RunAlone, PromiseInv
<1>4. OutSound'
  <2>1. CASE Out(op)
    BY <1>1, <2>1 DEF OutSound, PromiseInv
  <2>2. CASE Save(p) /\ local[p].pc = "release" /\ local[p].revision = op.revision
    <3>1. Saves(local[p]) /\ local[p].reply.is = "done" /\ Sound(local[p])
      BY <2>2, SaveIs, SaveKnown DEF Saves, Taken, PromiseInv, KnownInv
    <3>2. late = {} /\ broker = "released"
      BY <2>2, <3>1 DEF PromiseInv, RunAlone
    <3>3. status = "settled"
      BY <2>2, <3>1 DEF Sound, Paid
    <3> QED BY <1>1, <3>2, <3>3 DEF OutSound
  <2> QED BY <2>1, <2>2, OpMoves DEF OutSound
<1> QED BY <1>3, <1>4

\* A process whose release is out calls nothing but the ledger.
LEMMA ReleasingCalls ==
    ASSUME EndInv, NEW p \in Proc, Out(op), local[p].pc \in PortCalls
    PROVE  local[p].pc \in LateCalls
  BY DEF EndInv, AllProper, Proper, Knows, Busy, Releasing, LateCalls, PortCalls, LedgerCalls,
     GuestCalls

\* So does a call that is performed,
LEMMA EffectAlone ==
    ASSUME TypeInv, OnceInv, EndInv, PromiseInv, NEW p \in Proc, Effect(p)
    PROVE  RunAlone' /\ OutSound'
<1> DEFINE m == local[p]
           n == local'[p]
<1>1. /\ Others(p) /\ n.pc = m.pc /\ op' = op /\ late' = late
      /\ Saves(n) => Saves(m)
      /\ n.revision = m.revision
      /\ m.pc \in PortCalls
  <2>1. Quiet(p) /\ Same(n, m)
    BY EffectIs
  <2> QED BY <2>1 DEF Quiet, Same, Carries, Saves, Effect
<1>2. /\ m.pc = "release" => broker' = "released"
      /\ m.pc # "revoke" /\ broker = "released" => broker' = "released"
      /\ status = "settled" => status' = "settled"
  BY EffectKnown DEF PromiseInv, Lasts
<1>3. Busy(m)
  BY <1>1 DEF Busy, PortCalls, LedgerCalls, GuestCalls
<1>4. ASSUME NEW q \in Proc, Saves(local'[q]), local'[q].revision = op'.revision
      PROVE  q = p /\ late = {}
  <2>1. Saves(local[q]) /\ local[q].revision = op.revision
    BY <1>1, <1>4 DEF Others
  <2> QED BY <1>3, <2>1 DEF EndInv, SavesAlone, PromiseInv, RunAlone
<1>5. RunAlone'
  BY <1>1, <1>2, <1>4 DEF RunAlone
<1>6. OutSound'
  <2>1. Out(op) => m.pc \in LateCalls
    BY <1>1, ReleasingCalls
  <2> QED BY <1>1, <1>2, <2>1 DEF OutSound, PromiseInv, LateCalls
<1> QED BY <1>5, <1>6

\* one that times out or whose process dies,
LEMMA GoneAlone ==
    ASSUME TypeInv, OnceInv, EndInv, PromiseInv, NEW p \in Proc, Timeout(p) \/ Crash(p)
    PROVE  RunAlone' /\ OutSound'
<1> DEFINE m == local[p]
           n == local'[p]
<1>1. /\ Others(p) /\ op' = op /\ broker' = broker /\ status' = status
      /\ n = Idle \/ n.mode # "run"
  BY TimeoutIs, CrashIs DEF Quiet, Timeout, Crash, portVars, ledgerVars
<1>2. \A k \in late' :
        \/ k \in late
        \/ \E l \in late : k.call = l.call
        \/ m.pc \in PortCalls /\ k.call = m.pc
  <2>0. late \subseteq Call /\ LocalTyped
    BY DEF TypeInv
  <2>1. CASE Timeout(p)
    <3>1. late' = late \cup {Pending(p, p)} /\ m.pc \in PortCalls
      BY <2>1, TimeoutIs
    <3>2. Pending(p, p).call = m.pc
      BY <2>0, <3>1, PendingIs
    <3> QED BY <3>1, <3>2
  <2>2. CASE Crash(p)
    <3>1. \A k \in late' :
            \/ k \in late
            \/ \E l \in late : k = [l EXCEPT !.owner = NoOne] /\ l.owner = p
            \/ k = Pending(p, NoOne) /\ m.pc \in PortCalls
      BY <2>2, CrashIs
    <3>2. \A l \in late : [l EXCEPT !.owner = NoOne].call = l.call
      BY <2>0 DEF Call
    <3>3. m.pc \in PortCalls => Pending(p, NoOne).call = m.pc
      BY <2>0, PendingIs
    <3> QED BY <3>1, <3>2, <3>3
  <2> QED BY <2>1, <2>2
<1>3. m.pc \in PortCalls => Busy(m)
  BY DEF Busy, PortCalls, LedgerCalls, GuestCalls
<1>4. RunAlone'
  <2> SUFFICES ASSUME NEW q \in Proc, Saves(local'[q]), local'[q].revision = op'.revision
               PROVE  /\ late' = {}
                      /\ local'[q].pc = "release" /\ local'[q].reply.is = "done" => broker' = "released"
    BY DEF RunAlone
  <2>1. q # p
    BY <1>1, IdleProper DEF Saves
  <2>2. local'[q] = local[q] /\ Saves(local[q]) /\ local[q].revision = op.revision
    BY <1>1, <2>1 DEF Others
  <2>3. late = {} /\ ~Busy(m)
    BY <2>1, <2>2 DEF PromiseInv, RunAlone, EndInv, SavesAlone
  <2>4. late' = {}
    BY <1>2, <1>3, <2>3
  <2> QED BY <1>1, <2>2, <2>4 DEF PromiseInv, RunAlone
<1>5. OutSound'
  <2>1. Out(op) /\ m.pc \in PortCalls => m.pc \in LateCalls
    BY ReleasingCalls
  <2> QED BY <1>1, <1>2, <2>1 DEF OutSound, PromiseInv
<1> QED BY <1>4, <1>5

\* and what becomes of a late one.
LEMMA LateAlone ==
    ASSUME TypeInv, OnceInv, EndInv, PromiseInv, NEW l \in late,
           LateEffect(l) \/ LateDropped(l) \/ LateUndo(l) \/ LateAnswer(l)
    PROVE  RunAlone' /\ OutSound'
<1>1. \A q \in Proc : ~(Saves(local[q]) /\ local[q].revision = op.revision)
  BY DEF PromiseInv, RunAlone
<1>2. CASE LateEffect(l)
  <2>1. /\ op' = op /\ local' = local /\ Lasts
        /\ l.call \in LateCalls => broker' = broker
        /\ \A k \in late' : \E j \in late : k.call = j.call
    BY <1>2, LateEffectKnown DEF PromiseInv
  <2> QED BY <1>1, <2>1 DEF RunAlone, OutSound, PromiseInv, Lasts
<1>3. CASE LateDropped(l)
  <2>1. /\ op' = op /\ local' = local /\ status' = status /\ broker' = broker /\ late' \subseteq late
    BY <1>3 DEF LateDropped, portVars, ledgerVars
  <2> QED BY <1>1, <2>1 DEF RunAlone, OutSound, PromiseInv
<1>4. CASE LateUndo(l)
  <2>1. op' = op /\ local' = local /\ l.call \in DOMAIN Undo
    BY <1>4, LateUndoKnown DEF PromiseInv
  <2>2. ~Out(op)
    BY <2>1 DEF OutSound, PromiseInv, LateCalls, Undo
  <2> QED BY <1>1, <2>1, <2>2 DEF RunAlone, OutSound
<1>5. CASE LateAnswer(l)
  <2>1. /\ UNCHANGED portVars /\ late' \subseteq late
        /\ op' = op \/ Converged
        /\ \A q \in Proc : /\ Saves(local'[q]) => Saves(local[q])
                           /\ local'[q].revision = local[q].revision
    BY <1>5, LateAnswerIs DEF Carries, Saves
  <2>2. broker' = broker /\ status' = status
    BY <2>1 DEF portVars, ledgerVars
  <2>3. \A q \in Proc : ~(Saves(local'[q]) /\ local'[q].revision = op'.revision)
    <3>1. /\ op' = op \/ op'.revision = op.revision + 1
          /\ op.revision \in Nat
          /\ \A q \in Proc : local[q].revision \in Nat /\ local[q].revision <= op.revision
      BY <2>1, LocalIs DEF Converged, TypeInv, Operation, View
    <3> QED BY <1>1, <2>1, <3>1
  <2>4. Out(op') => Out(op)
    BY <2>1 DEF Converged, Out, Past
  <2> QED BY <2>1, <2>2, <2>3, <2>4 DEF RunAlone, OutSound, PromiseInv
<1> QED BY <1>2, <1>3, <1>4, <1>5

\* Every step keeps PromiseInv.
LEMMA PromiseNext ==
    ASSUME TypeInv, OnceInv, EndInv, PromiseInv, Next
    PROVE  PromiseInv'
<1>0. KnownInv
  BY DEF PromiseInv
<1>1. ASSUME NEW p \in Proc, StepOf(p) PROVE PromiseInv'
  BY <1>0, <1>1, StepKnown, StepAlone DEF PromiseInv
<1>2. ASSUME NEW p \in Proc, Effect(p) PROVE PromiseInv'
  BY <1>0, <1>2, EffectKnown, EffectAlone DEF PromiseInv
<1>3. ASSUME NEW p \in Proc, Timeout(p) \/ Crash(p) PROVE PromiseInv'
  BY <1>0, <1>3, TimeoutKnown, CrashKnown, GoneAlone DEF PromiseInv
<1>4. ASSUME NEW l \in late, LateEffect(l) \/ LateUndo(l) \/ LateAnswer(l) PROVE PromiseInv'
  BY <1>0, <1>4, LateEffectKnown, LateUndoKnown, LateAnswerKnown, LateAlone DEF PromiseInv
<1>5. ASSUME NEW l \in late, LateDropped(l) PROVE PromiseInv'
  <2>1. UNCHANGED <<op, local, portVars>> /\ late' \subseteq late /\ op' = op /\ local' = local
    BY <1>5 DEF LateDropped
  <2>2. PortsSound' /\ Lasts
    BY <1>0, <2>1, PortsKeep DEF KnownInv
  <2>3. OpThen(op') /\ (\A q \in Proc : SoundThen(local'[q])) /\ (\A k \in late' : LateThen(k))
    BY <1>0, <2>1, <2>2, SoundLasts DEF KnownInv
  <2> QED BY <1>5, <2>2, <2>3, KnownThen, LateAlone DEF PromiseInv
<1>6. CASE OtherJob
  BY <1>0, <1>6, OtherKnown DEF PromiseInv, RunAlone, OutSound
<1>7. CASE ReconcileCleanup
  <2>1. /\ op' \in Operation /\ op'.phase = op.phase /\ op'.revision = op.revision + 1
        /\ op.state = "quarantined" /\ local' = local
    BY <1>7, ReconcileIs
  <2>2. \A q \in Proc : local[q].revision # op'.revision
    BY <2>1, LocalIs DEF TypeInv, Operation, View
  <2>3. ~Out(op')
    BY <2>1 DEF EndInv, OutMeans, Out
  <2> QED BY <1>0, <1>7, <2>1, <2>2, <2>3, ReconcileKnown DEF PromiseInv, RunAlone, OutSound
<1> QED BY <1>1, <1>2, <1>3, <1>4, <1>5, <1>6, <1>7, NextIs DEF StepOf

\* It holds initially,
LEMMA PromiseInit == Init => PromiseInv
<1> SUFFICES ASSUME Init PROVE PromiseInv
  OBVIOUS
<1>1. /\ op = NoOperation /\ late = {} /\ \A p \in Proc : local[p] = Idle
      /\ status = "none" /\ freed = FALSE
      /\ sandbox = "none" /\ creations = 0 /\ broker = "none"
  BY DEF Init, Ledger!Init
<1>2. OpSound(op) /\ ~Out(op)
  BY <1>1 DEF NoOperation, OpSound, Out, Past
<1>3. \A p \in Proc : Sound(local[p]) /\ ~Saves(local[p])
  <2>1. ~Made(Idle) /\ ~Gone(Idle) /\ ~Paid(Idle) /\ ~Reserved(Idle) /\ ~Freed(Idle)
    BY DEF Made, Gone, Paid, Reserved, Freed, Idle, Later
  <2> QED BY <1>1, <2>1, IdleProper DEF Sound
<1> QED BY <1>1, <1>2, <1>3 DEF PromiseInv, KnownInv, PortsSound, RunAlone, OutSound

\* The inductive invariant of what the coordinator promises.
PromiseKept == CoordinatorInv /\ PromiseInv

\* every step keeps it with CoordinatorInv,
LEMMA PromiseStep == PromiseKept /\ [Next]_vars => PromiseKept'
<1> SUFFICES ASSUME PromiseKept, [Next]_vars PROVE PromiseKept'
  OBVIOUS
<1>1. CoordinatorInv'
  BY CoordinatorStep DEF PromiseKept
<1>2. CASE Next
  BY <1>1, <1>2, PromiseNext DEF PromiseKept, CoordinatorInv
<1>3. CASE UNCHANGED vars
  <2>1. PromiseInv'
    BY <1>3 DEF PromiseKept, PromiseInv, KnownInv, PortsSound, OpSound, Sound, LateSound,
       RunAlone, OutSound, vars, portVars, ledgerVars
  <2> QED BY <1>1, <2>1 DEF PromiseKept
<1> QED BY <1>2, <1>3

\* and both are invariants.
LEMMA PromiseInvariant == Spec => []PromiseKept
<1>1. Init => PromiseKept
  BY CoordinatorInit, PromiseInit DEF PromiseKept
<1> QED BY <1>1, PromiseStep, PTL DEF Spec

\* An artifact leaves the private broker only after its sandbox is certainly
\* deleted and the job is charged: #run calls settle only after a cleanup whose
\* proof it has, egress and release only after settle, and a call that comes late was
\* made by a process that knew as much.
THEOREM EgressAfterCleanupHolds == Spec => []EgressAfterCleanup
<1>1. PromiseKept => EgressAfterCleanup
  BY DEF PromiseKept, PromiseInv, KnownInv, PortsSound, EgressAfterCleanup
<1> QED BY <1>1, PromiseInvariant, PTL

\* While a sandbox may be live its reservation is in the ledger, with its slot and
\* its money: acquire follows a reserve that was answered, and the ledger lets no job
\* go that is not settled, so undoing a late reserve frees nothing.
THEOREM SlotHeldHolds == Spec => []SlotHeldWhileLive
<1>1. PromiseKept => SlotHeldWhileLive
  BY DEF PromiseKept, PromiseInv, KnownInv, PortsSound, SlotHeldWhileLive, CoordinatorInv,
     TypeInv, PortsTyped, Ledger!Statuses
<1> QED BY <1>1, PromiseInvariant, PTL

\* A released operation is the truth: the artifact is out and was not withdrawn,
\* the ledger has let the job go and no sandbox is left.  #terminal(released) follows
\* a converged ledger, and the onLate callback of a release (broker.revoke) runs only
\* where the release was never stored: its process had gone to the catch clause.
THEOREM ReleasedIsTrueHolds == Spec => []ReleasedIsTrue
<1>1. PromiseKept => ReleasedIsTrue
  BY DEF PromiseKept, PromiseInv, KnownInv, PortsSound, OpSound, OutSound, ReleasedIsTrue
<1> QED BY <1>1, PromiseInvariant, PTL

-----------------------------------------------------------------------------
\* The coordinator implements CompilationOutcome.
Promised == [Outcome!Next]_(Outcome!ovars)

\* A step of the ports that tells the client nothing.
LEMMA MovedPromised ==
    ASSUME Moved, op'.state = op.state,
           Artifact = "published" /\ Artifact' = "withdrawn" => op.state # "released"
    PROVE  Promised
<1>1. CASE /\ sandbox' = sandbox /\ (status' = "settled" <=> status = "settled")
           /\ Artifact' = Artifact
  BY <1>1 DEF Promised, Outcome!ovars
<1>2. CASE /\ sandbox = "none" /\ sandbox' = "live"
           /\ (status' = "settled" <=> status = "settled") /\ Artifact' = Artifact
  BY <1>2 DEF Promised, Outcome!Next, Outcome!Allocate
<1>3. CASE /\ sandbox = "live" /\ sandbox' = "gone"
           /\ (status' = "settled" <=> status = "settled") /\ Artifact' = Artifact
  BY <1>3 DEF Promised, Outcome!Next, Outcome!Delete
<1>4. CASE /\ sandbox = "gone" /\ status # "settled" /\ sandbox' = "gone"
           /\ status' = "settled" /\ Artifact' = Artifact
  BY <1>4 DEF Promised, Outcome!Next, Outcome!Pay
<1>5. CASE /\ Artifact = "private" /\ Artifact' = "published"
           /\ sandbox = "gone" /\ status = "settled" /\ sandbox' = "gone"
           /\ status' = "settled"
  BY <1>5 DEF Promised, Outcome!Next, Outcome!Publish
<1>6. CASE /\ Artifact = "published" /\ Artifact' = "withdrawn"
           /\ sandbox' = sandbox /\ (status' = "settled" <=> status = "settled")
  BY <1>6 DEF Promised, Outcome!Next, Outcome!Withdraw
<1> QED BY <1>1, <1>2, <1>3, <1>4, <1>5, <1>6 DEF Moved

\* A step that tells the client, and leaves the ports alone.
LEMMA StillPromised ==
    ASSUME UNCHANGED portVars,
           \/ op'.state = op.state
           \/ op.state = "none" /\ op'.state = "running"
           \/ /\ op.state = "running" /\ op'.state \in Outcomes
              /\ op'.state = "released" => broker = "released"
    PROVE  Promised
<1>1. /\ sandbox' = sandbox /\ status' = status /\ Artifact' = Artifact
  BY SameArtifact DEF portVars, ledgerVars
<1>2. CASE op'.state = op.state
  BY <1>1, <1>2 DEF Promised, Outcome!ovars
<1>3. CASE op.state = "none" /\ op'.state = "running"
  BY <1>1, <1>3 DEF Promised, Outcome!Next, Outcome!Begin
<1>4. CASE /\ op.state = "running" /\ op'.state \in Outcomes
           /\ op'.state = "released" => broker = "released"
  <2>1. Outcome!Decide(op'.state)
    BY <1>1, <1>4, ArtifactIs DEF Outcome!Decide
  <2> QED BY <1>4, <2>1 DEF Promised, Outcome!Next, Outcomes
<1> QED BY <1>2, <1>3, <1>4

\* A step of a process tells the client nothing, or a first answer, or the end.
LEMMA StepTells ==
    ASSUME TypeInv, OnceInv, EndInv, PromiseInv, NEW p \in Proc, StepOf(p)
    PROVE  \/ op'.state = op.state
           \/ op.state = "none" /\ op'.state = "running"
           \/ /\ op.state = "running" /\ op'.state \in Outcomes
              /\ op'.state = "released" => broker = "released"
<1> DEFINE m == local[p]
<1>0. Proper(m, op) /\ m \in View
  BY LocalIs DEF EndInv, AllProper
<1>1. CASE Start(p) \/ Load(p)
  BY <1>1, StartIs, LoadIs
<1>2. CASE Fence(p)
  BY <1>0, <1>2, FenceIs DEF Writes, Proper, Ends
<1>3. CASE Save(p)
  <2>1. /\ m.pc \in DOMAIN SavedAs
        /\ op' = op \/ Writes(m, "running", SavedAs[m.pc])
    BY <1>3, SaveIs
  <2> QED BY <1>0, <2>1, SavedAsIs DEF Writes, Proper, Ends
<1>4. CASE RetryAcquire(p) \/ RunEnds(p) \/ WindDown(p) \/ Refuse(p) \/ Fail(p)
  BY <1>4, RetryAcquireIs, RunEndsIs, WindDownIs, RefuseIs DEF Quiet
<1>5. CASE RunFailed(p)
  BY <1>5, FailedCalls, RunFailedIs DEF Quiet, OnceInv
<1>6. CASE ConvergeAndGo(p)
  BY <1>6, ConvergeAndGoIs DEF Converged
<1>7. CASE Terminal(p)
  <2>1. /\ m.pc = "terminal"
        /\ op' = op \/ Writes(m, m.verdict, m.phase)
    BY <1>7, TerminalIs
  <2>2. m.verdict = "released" => broker = "released"
    BY <1>0, <2>1 DEF Proper, Knows, PromiseInv, OutSound
  <2>3. m.verdict \in Outcomes
    BY <1>0 DEF View
  <2> QED BY <1>0, <2>1, <2>2, <2>3 DEF Writes, Proper, Ends
<1> QED BY <1>1, <1>2, <1>3, <1>4, <1>5, <1>6, <1>7 DEF StepOf

\* Every step is one of CompilationOutcome, or changes nothing of it.
LEMMA NextPromised ==
    ASSUME TypeInv, OnceInv, EndInv, PromiseInv, Next
    PROVE  Promised
<1>0. KnownInv /\ (op.state = "released" => Out(op))
  BY DEF PromiseInv, KnownInv, OpSound
<1>1. ASSUME NEW p \in Proc, StepOf(p) PROVE Promised
  BY <1>1, StepFrame, StepTells, StillPromised
<1>2. ASSUME NEW p \in Proc, Effect(p) PROVE Promised
  <2>1. /\ Moved /\ op' = op
        /\ local[p].pc # "revoke" /\ broker = "released" => broker' = "released"
    BY <1>0, <1>2, EffectKnown
  <2>2. Out(op) => broker = "released" /\ broker' = "released"
    BY <1>2, <2>1, ReleasingCalls DEF PromiseInv, OutSound, Effect, LateCalls
  <2> QED BY <1>0, <2>1, <2>2, MovedPromised, ArtifactIs
<1>3. ASSUME NEW p \in Proc, Timeout(p) \/ Crash(p) PROVE Promised
  <2>1. op' = op /\ UNCHANGED portVars
    BY <1>3 DEF Timeout, Crash
  <2> QED BY <2>1, StillPromised
<1>4. ASSUME NEW l \in late, LateEffect(l) PROVE Promised
  <2>1. /\ Moved /\ op' = op
        /\ l.call \in LateCalls => broker' = broker
    BY <1>0, <1>4, LateEffectKnown
  <2>2. Out(op) => broker = "released" /\ broker' = "released"
    BY <2>1 DEF PromiseInv, OutSound
  <2> QED BY <1>0, <2>1, <2>2, MovedPromised, ArtifactIs
<1>5. ASSUME NEW l \in late, LateUndo(l) PROVE Promised
  <2>1. Moved /\ op' = op /\ l.call \in DOMAIN Undo
    BY <1>0, <1>5, LateUndoKnown
  <2>2. ~Out(op)
    BY <2>1 DEF OutSound, PromiseInv, LateCalls, Undo
  <2> QED BY <1>0, <2>1, <2>2, MovedPromised
<1>6. ASSUME NEW l \in late, LateAnswer(l) \/ LateDropped(l) PROVE Promised
  <2>1. UNCHANGED portVars /\ op'.state = op.state
    BY <1>6, LateAnswerIs DEF LateDropped, Converged
  <2> QED BY <2>1, StillPromised
<1>7. CASE OtherJob
  <2>1. op' = op /\ sandbox' = sandbox /\ status' = status /\ Artifact' = Artifact
    BY <1>0, <1>7, OtherKnown, SameArtifact
  <2> QED BY <2>1 DEF Promised, Outcome!ovars
<1>8. CASE ReconcileCleanup
  <2>1. /\ sandbox \in {"live", "gone"} /\ sandbox' = "gone"
        /\ status # "settled" /\ status' = "settled" /\ Artifact' = Artifact
        /\ op'.state = op.state
    BY <1>0, <1>8, ReconcileKnown, ReconcileIs, SameArtifact
  <2> QED BY <2>1 DEF Promised, Outcome!Next, Outcome!Pay
<1> QED BY <1>1, <1>2, <1>3, <1>4, <1>5, <1>6, <1>7, <1>8, NextIs DEF StepOf

\* The coordinator implements CompilationOutcome: to its client, however the
\* processes crash, time out, recover and overtake each other, a compilation
\* allocates once, deletes, pays, publishes and decides in that order, and withdraws
\* nothing that it has called released.
THEOREM KeepsItsPromiseHolds == Spec => KeepsItsPromise
<1>1. Init => Outcome!Init
  BY ArtifactIs DEF Init, Ledger!Init, NoOperation, Outcome!Init
<1>2. PromiseKept /\ [Next]_vars => [Outcome!Next]_(Outcome!ovars)
  <2> SUFFICES ASSUME PromiseKept, [Next]_vars PROVE Promised
    BY DEF Promised
  <2>1. CASE Next
    BY <2>1, NextPromised DEF PromiseKept, CoordinatorInv
  <2>2. CASE UNCHANGED vars
    <3>1. UNCHANGED portVars /\ op' = op
      BY <2>2 DEF vars
    <3> QED BY <3>1, StillPromised
  <2> QED BY <2>1, <2>2
<1> QED BY <1>1, <1>2, PromiseInvariant, PTL DEF Spec, KeepsItsPromise, Outcome!Spec

-----------------------------------------------------------------------------
\* A running operation can be read back: what #run has taken over when it saves
\* a phase is what validateContext asks of that phase.
ReadsAs(m, r) ==
    /\ m.reservation <=> r >= 1
    /\ m.allocation <=> r >= 2
    /\ (m.cleanup # "none") <=> r >= 9
ReadyToSave(m) ==
    /\ m.reservation <=> m.pc # "reserve"
    /\ m.allocation <=> Rank[SavedAs[m.pc]] > 2
    /\ (m.cleanup # "none") <=> Rank[SavedAs[m.pc]] > 9
ReadsBack(m) ==
    /\ Saves(m) => ReadyToSave(m)
    /\ m.pc = "fence" => ReadsAs(m, Rank[m.phase])
ReadInv ==
    /\ op.state = "running" => ReadsAs(op, Rank[op.phase])
    /\ \A p \in Proc : ReadsBack(local[p])
Bears(n, m) ==
    n.reservation = m.reservation /\ n.allocation = m.allocation /\ n.cleanup = m.cleanup

\* A process without a call saves nothing,
LEMMA ReadsBackIdle == ReadsBack(Idle)
  BY IdleProper, IdleIs DEF ReadsBack

\* nor does one at a call that is not saved.
LEMMA ReadsElsewhere ==
    ASSUME NEW n, ~Saves(n), n.pc # "fence" PROVE ReadsBack(n)
  BY DEF ReadsBack

\* It depends on the call and on what is held.
LEMMA ReadsSame ==
    ASSUME NEW n, NEW m, n.pc = m.pc, n.mode = m.mode, n.phase = m.phase, Bears(n, m), ReadsBack(m)
    PROVE  ReadsBack(n)
  BY DEF ReadsBack, ReadyToSave, ReadsAs, Bears, Saves

\* The phases are saved one after the other.
LEMMA NextRank ==
    /\ \A c \in DOMAIN SavedAs :
          /\ Rank[SavedAs[c]] \in 1 .. 12
          /\ c \in {"reserve", "retryBeforeCreate"} <=> Rank[SavedAs[c]] = 1
          /\ c = "acquire" <=> Rank[SavedAs[c]] = 2
          /\ c = "cleanupOnce" <=> Rank[SavedAs[c]] = 9
    /\ \A c \in DOMAIN SavedAs \ {"cleanupOnce"} :
          FollowedBy[c] \in DOMAIN SavedAs =>
             Rank[SavedAs[FollowedBy[c]]] = Rank[SavedAs[c]] + 1
    /\ Rank[SavedAs["settle"]] = 10 /\ Rank[SavedAs["retain"]] = 10
  BY DEF Rank, SavedAs, FollowedBy

\* What #run has taken over is what the phase it saves asks for.
LEMMA AdoptReads ==
    ASSUME NEW m \in View, Saves(m), ReadyToSave(m)
    PROVE  ReadsAs(Adopt(m), Rank[SavedAs[m.pc]])
<1>1. PICK c \in Cleanups : c = CleanupAfter(m)
  BY DEF CleanupAfter, Certainty, Cleanups, View
<1>2. PICK a \in Nat : a = IF m.pc \in LedgerCalls THEN m.reply.anchor ELSE m.anchor
  BY DEF View, Reply
<1>3. PICK r \in BOOLEAN, l \in BOOLEAN, b \in BOOLEAN, i \in BOOLEAN :
        /\ r = (m.reservation \/ m.pc = "reserve")
        /\ l = (m.allocation \/ m.pc = "acquire")
        /\ b = (m.broker \/ m.pc = "copyVerified")
        /\ i = (m.intent \/ m.pc = "egress")
  OBVIOUS
<1>4. Adopt(m) = [m EXCEPT !.reservation = r, !.allocation = l, !.broker = b,
                           !.intent = i, !.cleanup = c, !.anchor = a]
  BY <1>1, <1>2, <1>3 DEF Adopt
<1>5. Adopt(m).reservation = r /\ Adopt(m).allocation = l /\ Adopt(m).cleanup = c
  BY <1>4 DEF View
<1>6. /\ Rank[SavedAs[m.pc]] \in 1 .. 12
      /\ m.pc = "acquire" <=> Rank[SavedAs[m.pc]] = 2
      /\ m.pc = "cleanupOnce" <=> Rank[SavedAs[m.pc]] = 9
  BY NextRank DEF Saves
<1>7. (c # "none") <=> (m.pc = "cleanupOnce" \/ m.cleanup # "none")
  BY <1>1 DEF CleanupAfter, Certainty
<1>8. r /\ (l <=> Rank[SavedAs[m.pc]] >= 2)
  <2> DEFINE R == Rank[SavedAs[m.pc]]
  <2>1. /\ m.reservation <=> m.pc # "reserve"
        /\ m.allocation <=> R > 2
        /\ m.pc = "acquire" <=> R = 2
        /\ R \in 1 .. 12
    BY <1>6 DEF ReadyToSave
  <2> HIDE DEF R
  <2>2. R >= 2 <=> (R > 2 \/ R = 2)
    BY <2>1
  <2>3. r <=> (m.reservation \/ m.pc = "reserve")
    BY <1>3
  <2>4. l <=> (m.allocation \/ m.pc = "acquire")
    BY <1>3
  <2> QED BY <2>1, <2>2, <2>3, <2>4 DEF R
<1>9. (c # "none") <=> Rank[SavedAs[m.pc]] >= 9
  BY <1>6, <1>7 DEF ReadyToSave
<1> QED BY <1>5, <1>6, <1>8, <1>9 DEF ReadsAs

\* The write of a phase leads to the next phase.
LEMMA SaveReads ==
    ASSUME TypeInv, NEW p \in Proc, Save(p), ReadsBack(local[p])
    PROVE  /\ ReadsBack(local'[p])
           /\ op' = op \/ ReadsAs(op', Rank[op'.phase])
<1> DEFINE a == Adopt(local[p])
           saved == [a EXCEPT !.phase = SavedAs[a.pc]]
           next == IF a.pc = "cleanupOnce" THEN AfterCleanup(a) ELSE FollowedBy[a.pc]
           k == [saved EXCEPT !.revision = @ + 1]
           R == Rank[SavedAs[a.pc]]
<1>0. local[p] \in View /\ LocalTyped
  BY LocalIs DEF TypeInv
<1>1. a \in View /\ a.pc = local[p].pc /\ a.mode = local[p].mode
  BY <1>0, AdoptIs
<1>2. /\ a.mode = "run" /\ a.pc \in DOMAIN SavedAs
      /\ \/ op' = Record(saved, "running") /\ Continue(p, Goto(k, next))
         \/ /\ Continue(p, Caught(a, TRUE))
            /\ op' = op \/ op' = Record(saved, "running")
  BY DEF Save
<1>3. ReadsAs(a, R)
  BY <1>0, <1>1, <1>2, AdoptReads DEF ReadsBack, Saves
<1>4. SavedAs[a.pc] \in Phases /\ R \in 1 .. 12
  BY <1>2, SavedAsIs, NextRank
<1> HIDE DEF a
<1>5. saved \in View /\ saved.phase = SavedAs[a.pc] /\ Bears(saved, a) /\ saved.mode = a.mode
  BY <1>1, <1>4 DEF View, Bears
<1> HIDE DEF saved
<1>6. k \in View /\ Bears(k, a) /\ k.mode = a.mode
  BY <1>5 DEF View, Bears
<1> HIDE DEF k
<1>7. ReadsAs(Record(saved, "running"), Rank[Record(saved, "running").phase])
  BY <1>3, <1>5 DEF Record, Bears, ReadsAs
<1>8. CASE op' = Record(saved, "running") /\ Continue(p, Goto(k, next))
  <2>1. next \in Pcs /\ next \notin {"fence", "reserve", "retryBeforeCreate"}
    BY <1>2, SavedAsIs, AfterCleanupIs DEF Pcs, PortCalls, LedgerCalls
  <2>2. next \in DOMAIN SavedAs => Rank[SavedAs[next]] = R + 1
    <3>1. CASE a.pc = "cleanupOnce"
      BY <1>2, <3>1, NextRank, AfterCleanupIs
    <3>2. CASE a.pc # "cleanupOnce"
      BY <1>2, <3>2, NextRank
    <3> QED BY <3>1, <3>2
  <2> HIDE DEF next
  <2> DEFINE n == Goto(k, next)
  <2>3. n.pc = next /\ Bears(n, k) /\ n.mode = k.mode
    BY <1>6 DEF Goto, View, Bears
  <2>4. local'[p] = n
    BY <1>0, <1>8 DEF Continue, LocalTyped
  <2> HIDE DEF n, R
  <2>5. Saves(n) => ReadyToSave(n)
    BY <1>3, <1>4, <1>6, <2>1, <2>2, <2>3 DEF Saves, ReadyToSave, ReadsAs, Bears
  <2>6. ReadsBack(n)
    BY <2>1, <2>3, <2>5 DEF ReadsBack
  <2> QED BY <1>7, <1>8, <2>4, <2>6
<1>9. CASE Continue(p, Caught(a, TRUE)) /\ (op' = op \/ op' = Record(saved, "running"))
  <2>1. local'[p] = Caught(a, TRUE)
    BY <1>0, <1>9 DEF Continue, LocalTyped
  <2>2. CaughtFrom(local'[p], a)
    BY <1>1, <2>1, CaughtIs
  <2>3. ReadsBack(local'[p])
    BY <2>2, ReadsBackIdle DEF CaughtFrom, ReadsBack, Saves
  <2> QED BY <1>7, <1>9, <2>3
<1> QED BY <1>2, <1>8, <1>9

\* A reply changes nothing of it.
LEMMA RepliedReads ==
    ASSUME LocalTyped, NEW p \in Proc, NEW r \in Reply,
           Continue(p, [local[p] EXCEPT !.reply = r]), ReadsBack(local[p])
    PROVE  ReadsBack(local'[p])
<1>1. /\ local'[p].pc = local[p].pc /\ Carries(local'[p], local[p])
  BY RepliedIs
<1>2. Bears(local'[p], local[p])
  BY DEF LocalTyped, Continue, View, Bears
<1> QED BY <1>1, <1>2, ReadsSame DEF Carries

\* The steps of a process keep it.
LEMMA ReadStep ==
    ASSUME TypeInv, OnceInv, EndInv, ReadInv, NEW p \in Proc, StepOf(p)
    PROVE  ReadInv'
<1> DEFINE m == local[p]
           n == local'[p]
<1>0. ReadsBack(m) /\ Fits(m) /\ m \in View /\ LocalTyped
  BY LocalIs DEF ReadInv, OnceInv, AllFit, TypeInv
<1>1. ASSUME Others(p), ReadsBack(n), op'.state = "running" => ReadsAs(op', Rank[op'.phase])
      PROVE  ReadInv'
  <2>1. \A q \in Proc : ReadsBack(local'[q])
    BY <1>1 DEF Others, ReadInv
  <2> QED BY <1>1, <2>1 DEF ReadInv
<1>2. ASSUME Quiet(p), ~Saves(n), n.pc # "fence" PROVE ReadInv'
  BY <1>1, <1>2, ReadsElsewhere DEF Quiet, ReadInv
<1>3. CASE Start(p)
  <2> DEFINE k == [Idle EXCEPT !.pc = "reserve", !.generation = 1]
  <2>1. /\ k.pc = "reserve" /\ k.reservation = FALSE /\ k.allocation = FALSE /\ k.cleanup = "none"
    BY DEF Idle
  <2>2. n = k /\ op' = [NoOperation EXCEPT !.state = "running", !.generation = 1]
    <3>1. Continue(p, k) /\ op' = [op EXCEPT !.state = "running", !.generation = 1] /\ op = NoOperation
      BY <1>3 DEF Start
    <3> HIDE DEF k
    <3> QED BY <1>0, <3>1 DEF Continue, LocalTyped
  <2> HIDE DEF k
  <2>3. Rank[SavedAs["reserve"]] = 1 /\ Rank["created"] = 0
    BY DEF Rank, SavedAs
  <2>4. ReadsBack(n)
    BY <2>1, <2>2, <2>3 DEF ReadsBack, ReadyToSave
  <2>5. ReadsAs(op', Rank[op'.phase])
    BY <2>2, <2>3 DEF NoOperation, ReadsAs
  <2> QED BY <1>1, <1>3, <2>4, <2>5, StartIs
<1>4. CASE Load(p)
  <2> DEFINE b == Rank[op.phase] >= 8
             i == Rank[op.phase] >= 11
             k == [Idle EXCEPT
              !.pc = "fence", !.mode = "recover", !.phase = op.phase,
              !.generation = op.generation, !.revision = op.revision,
              !.reservation = op.reservation, !.allocation = op.allocation,
              !.cleanup = op.cleanup, !.broker = b,
              !.intent = i,
              !.anchor = op.anchor, !.contextAnchor = op.anchor]
  <2>1. Continue(p, k) /\ op' = op /\ ReadsAs(op, Rank[op.phase]) /\ Others(p)
    BY <1>4, LoadIs DEF Load, ReadInv
  <2> HIDE DEF b, i
  <2>2. /\ k.pc = "fence" /\ k.mode = "recover" /\ k.phase = op.phase /\ Bears(k, op)
    BY DEF Idle, Bears
  <2> HIDE DEF k
  <2>3. n = k
    BY <1>0, <2>1 DEF Continue, LocalTyped
  <2>4. ReadsBack(n)
    BY <2>1, <2>2, <2>3 DEF ReadsBack, ReadsAs, Bears, Saves
  <2> QED BY <1>1, <2>1, <2>4 DEF ReadInv
<1>5. CASE Fence(p)
  <2> DEFINE g == [m EXCEPT !.generation = @ + 1]
  <2>1. /\ g.pc = "fence" /\ (op' = op \/ op' = Record(g, "running"))
    BY <1>5 DEF Fence
  <2>2. g.pc = m.pc /\ g.phase = m.phase /\ Bears(g, m)
    BY <1>0 DEF View, Bears
  <2> HIDE DEF g
  <2>3. ReadsAs(Record(g, "running"), Rank[Record(g, "running").phase])
    BY <1>0, <2>1, <2>2 DEF Record, ReadsBack, ReadsAs, Bears
  <2>4. Others(p) /\ ReadsBack(n)
    BY <1>0, <1>5, FenceIs, ReadsBackIdle DEF ReadsBack, Saves, Fits
  <2> QED BY <1>1, <2>1, <2>3, <2>4 DEF ReadInv
<1>6. CASE Save(p)
  BY <1>0, <1>1, <1>6, SaveIs, SaveReads DEF ReadInv
<1>7. CASE RetryAcquire(p)
  <2> DEFINE k == [m EXCEPT !.retried = TRUE]
  <2>0. Quiet(p) /\ m.mode = "run" /\ m.pc = "acquire"
    BY <1>7, RetryAcquireIs DEF RetryAcquire
  <2>1. n = Goto(k, "retryBeforeCreate") \/ n = Caught(m, TRUE)
    BY <1>0, <1>7 DEF RetryAcquire, Continue, LocalTyped
  <2>2. k \in View /\ Bears(k, m)
    BY <1>0 DEF View, Bears
  <2> HIDE DEF k
  <2>3. CASE n = Goto(k, "retryBeforeCreate")
    <3>1. n.pc = "retryBeforeCreate" /\ Bears(n, m)
      BY <2>2, <2>3 DEF Goto, View, Bears
    <3>2. /\ Rank[SavedAs["retryBeforeCreate"]] = 1 /\ Rank[SavedAs["acquire"]] = 2
          /\ "acquire" \in DOMAIN SavedAs
      BY DEF Rank, SavedAs
    <3>3. ReadyToSave(m)
      BY <1>0, <2>0, <3>2 DEF ReadsBack, Saves
    <3>4. ReadsBack(n)
      BY <2>0, <3>1, <3>2, <3>3 DEF ReadsBack, ReadyToSave, Bears
    <3> QED BY <1>1, <2>0, <3>4 DEF Quiet, ReadInv
  <2>4. CASE n = Caught(m, TRUE)
    <3>1. CaughtFrom(n, m)
      BY <1>0, <2>4, CaughtIs
    <3>2. ~Saves(n) /\ n.pc # "fence"
      BY <3>1, IdleProper, IdleIs DEF CaughtFrom, Saves
    <3> QED BY <1>2, <2>0, <3>2
  <2> QED BY <2>1, <2>3, <2>4
<1>8. CASE RunFailed(p)
  <2>1. CaughtFrom(n, m)
    BY <1>0, <1>8, CaughtIs DEF RunFailed, Continue, LocalTyped
  <2>2. ~Saves(n) /\ n.pc # "fence"
    BY <2>1, IdleProper, IdleIs DEF CaughtFrom, Saves
  <2> QED BY <1>2, <1>8, <2>2, FailedCalls, RunFailedIs DEF OnceInv
<1>9. CASE RunEnds(p)
  <2>1. Quiet(p) /\ m.mode = "run" /\ m.pc \in {"revoke", "ledgerRelease"}
    BY <1>0, <1>9, RunEndsIs, AdoptIs DEF RunEnds
  <2>2. {"revoke", "ledgerRelease", "terminal", "converge"} \cap DOMAIN SavedAs = {}
    BY SavedAsIs
  <2>3. ~Saves(n) /\ n.pc # "fence"
    BY <2>1, <2>2, IdleProper, IdleIs DEF Quiet, Follows, CaughtFrom, Same, Carries, WindsDown,
       RunEnded, Retries, Saves
  <2> QED BY <1>2, <2>1, <2>3
<1>10. CASE WindDown(p)
  <2>1. Quiet(p) /\ m.mode \in {"catch", "recover"} /\ m.pc # "fence"
    BY <1>0, <1>10, WindDownIs, AdoptIs DEF WindDown
  <2>2. ~Saves(n) /\ n.pc # "fence"
    BY <2>1, IdleProper, IdleIs DEF Quiet, Follows, CaughtFrom, Same, Carries, WindsDown,
       RunEnded, Retries, Saves
  <2> QED BY <1>2, <2>1, <2>2
<1>11. CASE ConvergeAndGo(p)
  <2>1. /\ Others(p)
        /\ Converged \/ op' = op
        /\ n = Idle \/ n.pc = "terminal"
    BY <1>11, ConvergeAndGoIs
  <2>2. ReadsBack(n)
    BY <2>1, ReadsBackIdle, SavedAsIs DEF ReadsBack, Saves
  <2>3. op'.state = "running" => ReadsAs(op', Rank[op'.phase])
    <3>1. op' = op \/ Converge(m.anchor)
      BY <1>11 DEF ConvergeAndGo
    <3>2. Rank["artifactReleased"] = 12 /\ Rank["ledgerReleased"] = 13
      BY DEF Rank
    <3>3. op \in Operation
      BY DEF TypeInv
    <3>4. Converge(m.anchor) => Bears(op', op) /\ op'.state = op.state
      BY <3>3 DEF Converge, Operation, Bears
    <3>5. Converge(m.anchor) => op' = op \/ (op.phase = "artifactReleased" /\ op'.phase = "ledgerReleased")
      BY <3>3 DEF Converge, Operation
    <3> QED BY <3>1, <3>2, <3>4, <3>5 DEF ReadInv, ReadsAs, Bears
  <2>4. Others(p)
    BY <1>11, ConvergeAndGoIs
  <2> QED BY <1>1, <2>2, <2>3, <2>4
<1>12. CASE Terminal(p)
  <2>1. /\ Others(p)
        /\ op' = op \/ op'.state = m.verdict
        /\ n = Idle \/ n.pc = "terminal"
    BY <1>12, TerminalIs DEF Writes
  <2>2. ReadsBack(n)
    BY <2>1, ReadsBackIdle, SavedAsIs DEF ReadsBack, Saves
  <2>3. m.verdict # "running"
    BY <1>0 DEF View, Outcomes
  <2> QED BY <1>1, <2>1, <2>2, <2>3 DEF ReadInv
<1>13. CASE Refuse(p) \/ Fail(p)
  <2>1. Continue(p, [m EXCEPT !.reply = Failed]) /\ Failed \in Reply
    BY <1>13, NoReplyIs DEF Refuse, Fail
  <2>2. ReadsBack(n)
    BY <1>0, <2>1, RepliedReads
  <2> QED BY <1>1, <1>13, <2>2, RefuseIs DEF Quiet, ReadInv
<1> QED BY <1>3, <1>4, <1>5, <1>6, <1>7, <1>8, <1>9, <1>10, <1>11, <1>12, <1>13 DEF StepOf

\* Every step keeps it.
LEMMA ReadNext ==
    ASSUME TypeInv, OnceInv, EndInv, ReadInv, Next
    PROVE  ReadInv'
<1>1. ASSUME op' = op, local' = local PROVE ReadInv'
  BY <1>1 DEF ReadInv
<1>2. ASSUME NEW p \in Proc, StepOf(p) PROVE ReadInv'
  BY <1>2, ReadStep
<1>3. ASSUME NEW p \in Proc, Quiet(p), ReadsBack(local'[p]) PROVE ReadInv'
  BY <1>3 DEF Quiet, Others, ReadInv
<1>4. ASSUME NEW p \in Proc, Effect(p) PROVE ReadInv'
  <2>1. PICK sure \in BOOLEAN : Continue(p, [local[p] EXCEPT !.reply = Answer(sure)])
    BY <1>4 DEF Effect
  <2>2. Quiet(p) /\ PortsTyped' /\ LocalTyped /\ ReadsBack(local[p])
    BY <1>4, EffectIs DEF TypeInv, ReadInv
  <2>3. Answer(sure) \in Reply
    BY <2>2, AnswerIs
  <2> QED BY <1>3, <2>1, <2>2, <2>3, RepliedReads
<1>5. ASSUME NEW p \in Proc, Timeout(p) PROVE ReadInv'
  <2> DEFINE m == local[p]
             n == local'[p]
  <2>1. Quiet(p) /\ (n.mode # "run" \/ n = Idle) /\ m.pc \in PortCalls
    BY <1>5, TimeoutIs
  <2>2. ~Saves(n) /\ n.pc # "fence"
    BY <2>1, IdleProper, IdleIs DEF Saves, Quiet, Follows, CaughtFrom, Same, Carries, WindsDown,
       RunEnded, Retries, PortCalls, LedgerCalls, GuestCalls
  <2> QED BY <1>3, <2>1, <2>2, ReadsElsewhere
<1>6. ASSUME NEW p \in Proc, Crash(p) PROVE ReadInv'
  BY <1>3, <1>6, CrashIs, ReadsBackIdle
<1>7. ASSUME NEW l \in late, LateEffect(l) \/ LateDropped(l) \/ LateUndo(l) PROVE ReadInv'
  BY <1>1, <1>7, LateEffectIs, LateUndoIs DEF LateDropped
<1>8. ASSUME NEW l \in late, LateAnswer(l) PROVE ReadInv'
  <2>1. op' = op \/ Converge(l.reply.anchor)
    BY <1>8 DEF LateAnswer
  <2>2. op'.state = "running" => ReadsAs(op', Rank[op'.phase])
    <3>1. Rank["artifactReleased"] = 12 /\ Rank["ledgerReleased"] = 13
      BY DEF Rank
    <3>2. op \in Operation
      BY DEF TypeInv
    <3>3. Converge(l.reply.anchor) =>
            /\ Bears(op', op) /\ op'.state = op.state
            /\ op' = op \/ (op.phase = "artifactReleased" /\ op'.phase = "ledgerReleased")
      BY <3>2 DEF Converge, Operation, Bears
    <3> QED BY <2>1, <3>1, <3>3 DEF ReadInv, ReadsAs, Bears
  <2>3. ASSUME NEW q \in Proc PROVE ReadsBack(local'[q])
    <3>1. ReadsBack(local[q]) /\ Fits(local[q])
      BY DEF ReadInv, OnceInv, AllFit
    <3>2. CASE local'[q] = local[q]
      BY <3>1, <3>2
    <3>3. CASE /\ local[q].mode = "catch" /\ local'[q].pc = local[q].pc
               /\ Carries(local'[q], local[q])
      BY <3>1, <3>3 DEF Carries, ReadsBack, Saves, Fits
    <3> QED BY <1>8, <3>2, <3>3, LateAnswerIs
  <2> QED BY <2>2, <2>3 DEF ReadInv
<1>9. CASE OtherJob
  BY <1>1, <1>9 DEF OtherJob
<1>10. CASE ReconcileCleanup
  BY <1>10, ReconcileIs DEF ReadInv
<1> QED BY <1>2, <1>4, <1>5, <1>6, <1>7, <1>8, <1>9, <1>10, NextIs DEF StepOf

\* A recovery is never blocked by the record it has to read: every checkpoint that
\* #run or #recover stores of a running operation holds the reservation, the
\* allocation and the cleanup that storedResult asks of its phase at the next load.
THEOREM RunningReadableHolds == Spec => []RunningReadable
<1>1. Init => ReadInv
  <2> SUFFICES ASSUME Init PROVE ReadInv
    OBVIOUS
  <2>1. op.state = "none" /\ \A p \in Proc : local[p] = Idle
    BY DEF Init, NoOperation
  <2> QED BY <2>1, ReadsBackIdle DEF ReadInv
<1>2. CoordinatorInv /\ ReadInv /\ [Next]_vars => ReadInv'
  <2> SUFFICES ASSUME CoordinatorInv, ReadInv, [Next]_vars PROVE ReadInv'
    OBVIOUS
  <2>1. CASE Next
    BY <2>1, ReadNext DEF CoordinatorInv
  <2>2. CASE UNCHANGED vars
    BY <2>2 DEF vars, ReadInv
  <2> QED BY <2>1, <2>2
<1>3. CoordinatorInv /\ ReadInv => RunningReadable
  <2> SUFFICES ASSUME CoordinatorInv, ReadInv, op.state = "running" PROVE Readable(op)
    BY DEF RunningReadable
  <2>1. ReadsAs(op, Rank[op.phase]) /\ Rank[op.phase] \in 0 .. 13
    BY DEF ReadInv, CoordinatorInv, TypeInv, Operation, Phases, Rank
  <2> QED BY <2>1 DEF Readable, ReadsAs, Outcomes
<1> QED BY <1>1, <1>2, <1>3, CoordinatorInvariant, PTL DEF Spec

=============================================================================
