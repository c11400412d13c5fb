---------------------------- MODULE ServicesProofs ----------------------------
(***************************************************************************)
(* What the services around the compiler promise, for every value of their *)
(* constants: one section for each service, with the inductive invariant   *)
(* its property needs, a lemma for each action, and the theorem.  The      *)
(* services share no state, so each theorem is about the specification of  *)
(* its own module.                                                         *)
(***************************************************************************)
EXTENDS CommandReplay, GitHubSource, Delivery, ProjectCatalog, CompilationRouting,
        AiReadiness, OperatorSessions, ProjectContext, StudioSession, EventStream,
        SequenceTheorems, FiniteSetTheorems, TLAPS

-----------------------------------------------------------------------------
(***************************************************************************)
(* Replayed commands (CommandReplay).  A repeated command has its effect   *)
(* once, however many times the runner crashes.  EffectOnce is not         *)
(* inductive: ReplayInv adds how the effects are accounted for.            *)
(***************************************************************************)
\* The types of the log and of its callbacks.
ReplayTypeOK ==
    /\ command \in Routes
    /\ callback \in [Attempt -> Int]
    /\ effects \in Nat /\ interrupted \in Nat /\ stored \in Nat

\* One callback at a time, and none once an answer is stored.
OneCallback ==
    /\ \A n, o \in Attempt : callback[n] # Never /\ callback[o] # Never => n = o
    /\ \A n \in Attempt : callback[n] # Never => stored = 0

\* Every effect is stored, was cut short, or waits for its answer to be stored.
Accounted ==
    /\ (\A n \in Attempt : callback[n] = Never) =>
          effects = interrupted + (IF stored = 0 THEN 0 ELSE 1)
    /\ \A n \in Attempt :
          /\ callback[n] = Begun => effects = interrupted
          /\ callback[n] \notin {Never, Begun} =>
                effects = interrupted + 1 /\ callback[n] = effects

\* A success is an answer that is stored.
SuccessStored == answer.what = "success" => stored # 0 /\ answer.effect = stored

\* The inductive invariant.
ReplayInv == ReplayTypeOK /\ OneCallback /\ Accounted /\ SuccessStored

\* Nothing has run at the beginning.
LEMMA ReplayInitHolds == ReplayInit => ReplayInv
  BY DEF ReplayInit, ReplayInv, ReplayTypeOK, OneCallback, Accounted, SuccessStored,
         NoAnswer, Heard, Never, Begun, Attempt

\* The accounts bound the effects.
LEMMA ReplayInvImplies == ReplayInv => EffectOnce
<1> SUFFICES ASSUME ReplayInv PROVE EffectOnce
  OBVIOUS
<1>1. effects <= 1 + interrupted
  <2>1. CASE \A n \in Attempt : callback[n] = Never
    BY <2>1 DEF ReplayInv, ReplayTypeOK, Accounted
  <2>2. CASE \E n \in Attempt : callback[n] # Never
    BY <2>2 DEF ReplayInv, ReplayTypeOK, Accounted
  <2> QED
    BY <2>1, <2>2
<1> QED
  BY <1>1 DEF ReplayInv, SuccessStored, EffectOnce

\* At most one effect waits for its answer.
LEMMA OneEffect ==
    ASSUME ReplayInv
    PROVE  \/ {n \in Attempt : HadEffect(n)} = {}
           \/ \E o \in Attempt : /\ HadEffect(o)
                                 /\ {n \in Attempt : HadEffect(n)} = {o}
  BY DEF ReplayInv, ReplayTypeOK, OneCallback, HadEffect, Never, Begun

\* A client tries once more.
LEMMA TryHolds == ASSUME ReplayInv, Try PROVE ReplayInv'
  BY DEF ReplayInv, ReplayTypeOK, OneCallback, Accounted, SuccessStored, Try, NoAnswer, Heard

\* A client that times out hears of nothing.
LEMMA TimeOutHolds == ASSUME ReplayInv, TimeOut PROVE ReplayInv'
  BY DEF ReplayInv, ReplayTypeOK, OneCallback, Accounted, SuccessStored, TimeOut, NotHeard, Heard

\* A refused attempt is told an error.
LEMMA ForbidHolds == ASSUME ReplayInv, NEW n \in Attempt, Forbid(n) PROVE ReplayInv'
  BY DEF ReplayInv, ReplayTypeOK, OneCallback, Accounted, SuccessStored, Forbid, Answer, Error,
         Heard

\* An attempt is answered from the log, joins the running callback or begins its own.
LEMMA ExecuteHolds == ASSUME ReplayInv, NEW n \in Attempt, Execute(n) PROVE ReplayInv'
<1>1. CASE stored # 0 /\ Answer({n}, Effect(stored)) /\ UNCHANGED <<callback, joined>>
  BY <1>1 DEF ReplayInv, ReplayTypeOK, OneCallback, Accounted, SuccessStored, Execute, Answer,
         Effect, Heard
<1>2. CASE stored = 0 /\ Pending # {} /\ joined' = joined \cup {n}
           /\ UNCHANGED <<answer, callback>>
  BY <1>2 DEF ReplayInv, ReplayTypeOK, OneCallback, Accounted, SuccessStored, Execute
<1>3. CASE stored = 0 /\ Pending = {} /\ callback' = [callback EXCEPT ![n] = Begun]
           /\ UNCHANGED <<answer, joined>>
  <2>1. \A o \in Attempt : callback[o] = Never
    BY <1>3 DEF Pending, Running
  <2>2. effects = interrupted
    BY <1>3, <2>1 DEF ReplayInv, ReplayTypeOK, Accounted
  <2>3. \A o \in Attempt : callback'[o] = IF o = n THEN Begun ELSE Never
    BY <1>3, <2>1 DEF ReplayInv, ReplayTypeOK
  <2>4. UNCHANGED <<command, stored, effects, interrupted>>
    BY DEF Execute
  <2>5. ReplayTypeOK'
    BY <1>3, <2>4 DEF ReplayInv, ReplayTypeOK, Begun
  <2>6. OneCallback' /\ Accounted'
    BY <1>3, <2>2, <2>3, <2>4 DEF OneCallback, Accounted, Begun, Never
  <2>7. SuccessStored'
    BY <1>3, <2>4 DEF ReplayInv, SuccessStored
  <2> QED
    BY <2>5, <2>6, <2>7 DEF ReplayInv
<1> QED
  BY <1>1, <1>2, <1>3 DEF Execute

\* The callback of the one attempt that runs has its effect.
LEMMA HaveEffectHolds ==
    ASSUME ReplayInv, NEW n \in Attempt, HaveEffect(n)
    PROVE  ReplayInv'
<1>1. /\ callback[n] = Begun /\ stored = 0 /\ effects = interrupted
      /\ \A o \in Attempt \ {n} : callback[o] = Never
  BY DEF HaveEffect, ReplayInv, OneCallback, Accounted, Begun, Never
<1>2. /\ callback' = [callback EXCEPT ![n] = effects + 1] /\ effects' = effects + 1
      /\ UNCHANGED <<command, answer, stored, interrupted>>
  BY DEF HaveEffect
<1>3. ReplayTypeOK'
  BY <1>2 DEF ReplayInv, ReplayTypeOK
<1>4. \A o \in Attempt : callback'[o] = IF o = n THEN effects' ELSE Never
  BY <1>1, <1>2 DEF ReplayInv, ReplayTypeOK
<1>5. OneCallback' /\ Accounted'
  BY <1>1, <1>2, <1>3, <1>4 DEF OneCallback, Accounted, Begun, Never, ReplayInv, ReplayTypeOK
<1> QED
  BY <1>2, <1>3, <1>5 DEF ReplayInv, SuccessStored

\* The answer of the one callback is stored with its effect.
LEMMA ReplayFinishHolds ==
    ASSUME ReplayInv, NEW n \in Attempt, Finish(n)
    PROVE  ReplayInv'
<1>1. /\ callback[n] = effects /\ effects = interrupted + 1 /\ stored = 0
      /\ answer.what # "success"
  BY DEF Finish, HadEffect, ReplayInv, ReplayTypeOK, Accounted, SuccessStored, Begun, Never
<1>2. \A o \in Attempt \ {n} : callback[o] = Never
  BY DEF Finish, HadEffect, ReplayInv, ReplayTypeOK, OneCallback, Begun, Never
<1>3. /\ callback' = [callback EXCEPT ![n] = Never] /\ stored' = effects
      /\ UNCHANGED <<command, effects, interrupted>>
  BY <1>1 DEF Finish, Ended
<1>4. \A o \in Attempt : callback'[o] = Never
  BY <1>2, <1>3 DEF ReplayInv, ReplayTypeOK
<1>5. ReplayTypeOK'
  BY <1>3 DEF ReplayInv, ReplayTypeOK, Never
<1>6. OneCallback' /\ Accounted'
  BY <1>1, <1>3, <1>4 DEF OneCallback, Accounted, ReplayInv, ReplayTypeOK, Never, Begun
<1>7. SuccessStored'
  <2>1. answer' \in {answer, Effect(effects)}
    BY <1>1 DEF Finish, Answer
  <2> QED
    BY <1>1, <1>3, <2>1 DEF SuccessStored, Effect, Heard, ReplayInv, ReplayTypeOK
<1> QED
  BY <1>5, <1>6, <1>7 DEF ReplayInv

\* A callback that fails after its effect is counted as cut short.
LEMMA FailHolds == ASSUME ReplayInv, NEW n \in Attempt, Fail(n) PROVE ReplayInv'
<1>1. /\ callback[n] # Never /\ stored = 0
      /\ \A o \in Attempt \ {n} : callback[o] = Never
  BY DEF Fail, ReplayInv, OneCallback
<1>2. /\ callback' = [callback EXCEPT ![n] = Never]
      /\ interrupted' = interrupted + (IF HadEffect(n) THEN 1 ELSE 0)
      /\ UNCHANGED <<command, stored, effects>>
  BY DEF Fail, Ended
<1>3. effects = interrupted'
  BY <1>1, <1>2 DEF ReplayInv, ReplayTypeOK, Accounted, HadEffect, Never, Begun
<1>4. \A o \in Attempt : callback'[o] = Never
  BY <1>1, <1>2 DEF ReplayInv, ReplayTypeOK
<1>5. ReplayTypeOK'
  BY <1>2 DEF ReplayInv, ReplayTypeOK, Never
<1>6. OneCallback' /\ Accounted'
  BY <1>1, <1>2, <1>3, <1>4, <1>5 DEF OneCallback, Accounted, ReplayTypeOK, Never, Begun
<1>7. SuccessStored'
  BY <1>1, <1>2 DEF Fail, Answer, Error, Heard, ReplayInv, SuccessStored
<1> QED
  BY <1>5, <1>6, <1>7 DEF ReplayInv

\* A crash cuts short at most the one effect whose answer is not stored.
LEMMA CrashHolds == ASSUME ReplayInv, Crash PROVE ReplayInv'
<1> DEFINE had == {n \in Attempt : HadEffect(n)}
<1>1. /\ interrupted' = interrupted + Cardinality(had)
      /\ callback' = [n \in Attempt |-> Never]
      /\ UNCHANGED <<command, answer, stored, effects>>
  BY DEF Crash
<1>2. Cardinality(had) \in Nat /\ effects = interrupted' + (IF stored = 0 THEN 0 ELSE 1)
  <2>1. CASE had = {}
    <3>1. Cardinality(had) = 0
      BY <2>1, FS_EmptySet
    <3>2. effects = interrupted + (IF stored = 0 THEN 0 ELSE 1)
      BY <2>1 DEF ReplayInv, ReplayTypeOK, OneCallback, Accounted, HadEffect, Never, Begun, Attempt
    <3> QED
      BY <1>1, <3>1, <3>2 DEF ReplayInv, ReplayTypeOK
  <2>2. CASE \E o \in Attempt : HadEffect(o) /\ had = {o}
    <3>1. PICK o \in Attempt : HadEffect(o) /\ had = {o}
      BY <2>2
    <3>2. Cardinality(had) = 1
      BY <3>1, FS_Singleton
    <3>3. effects = interrupted + 1 /\ stored = 0
      BY <3>1 DEF ReplayInv, ReplayTypeOK, OneCallback, Accounted, HadEffect, Never, Begun
    <3> QED
      BY <1>1, <3>2, <3>3 DEF ReplayInv, ReplayTypeOK
  <2> QED
    BY <2>1, <2>2, OneEffect
<1>3. ReplayTypeOK'
  BY <1>1, <1>2 DEF ReplayInv, ReplayTypeOK, Never
<1>4. OneCallback' /\ Accounted'
  BY <1>1, <1>2, <1>3 DEF OneCallback, Accounted, ReplayTypeOK, Never, Begun
<1> QED
  BY <1>1, <1>3, <1>4 DEF ReplayInv, SuccessStored

\* Every step keeps the invariant.
LEMMA ReplayNextHolds == ReplayInv /\ [ReplayNext]_replayVars => ReplayInv'
<1> SUFFICES ASSUME ReplayInv, [ReplayNext]_replayVars PROVE ReplayInv'
  OBVIOUS
<1>1. CASE UNCHANGED replayVars
  BY <1>1 DEF replayVars, ReplayInv, ReplayTypeOK, OneCallback, Accounted, SuccessStored
<1>2. CASE Try
  BY <1>2, TryHolds
<1>3. CASE TimeOut
  BY <1>3, TimeOutHolds
<1>4. CASE Crash
  BY <1>4, CrashHolds
<1>5. ASSUME NEW n \in Attempt,
             Forbid(n) \/ Execute(n) \/ HaveEffect(n) \/ Finish(n) \/ Fail(n)
      PROVE  ReplayInv'
  BY <1>5, ForbidHolds, ExecuteHolds, HaveEffectHolds, ReplayFinishHolds, FailHolds
<1> QED
  BY <1>1, <1>2, <1>3, <1>4, <1>5 DEF ReplayNext

\* Whatever is lost, repeated or cut short, and however often the runner crashes, a
\* command has one effect more than were cut short before their answer was stored, and
\* a client that hears of a success hears of the stored one.
THEOREM CommandsHaveOneEffect == ReplaySpec => []EffectOnce
<1>1. ReplaySpec => []ReplayInv
  BY ReplayInitHolds, ReplayNextHolds, PTL DEF ReplaySpec
<1> QED
  BY <1>1, ReplayInvImplies, PTL

-----------------------------------------------------------------------------
(***************************************************************************)
(* The GitHub source (GitHubSource).  What the catalog shows of GitHub     *)
(* projects, for any installations, calls and setups.  ReadyIsBound is not *)
(* inductive: a late answer makes the projects of its installation readable *)
(* whatever they were, so SourceInv says of which installations an answer  *)
(* can still come.                                                         *)
(***************************************************************************)
\* The calls other than a setup.
SourceOp == {"status", "list", "select"}

\* What a call waits on is an installation.
SourceTypeOK ==
    /\ binding \in Account \cup {Nothing} /\ raced \subseteq Account
    /\ setups \subseteq issued /\ issued \subseteq Setup
    /\ completed \in [Setup -> Nat]
    /\ shown \in [Account -> {"none", "ready", "accessLost", "degraded"}]
    /\ DOMAIN calls = SourceCall
    /\ \A c \in SourceCall :
          \/ calls[c] = Free
          \/ \E i \in Account, s \in Setup : calls[c] = Waiting("setup", i, s)
          \/ \E op \in SourceOp, i \in Account, x \in Repository \cup {Nothing} :
                calls[c] = Waiting(op, i, x)

\* A call other than a setup waits on the installation the runner is bound to, or on
\* one it was waiting on when that was given up.
WaitsOnBound ==
    \A c \in SourceCall : calls[c].op \in SourceOp =>
        calls[c].inst = binding \/ calls[c].inst \in raced

\* The setup of call c has taken the state s.
Uses(c, s) == calls[c].op = "setup" /\ calls[c].about = s

\* A state that is issued is there to be used, or in use by one call, or used once.
StateAccounted ==
    /\ \A s \in Setup : completed[s] # 0 => s \in issued /\ completed[s] = 1 /\ s \notin setups
    /\ \A c \in SourceCall, s \in Setup : Uses(c, s) =>
          /\ s \in issued /\ s \notin setups /\ completed[s] = 0
          /\ \A d \in SourceCall : Uses(d, s) => d = c

\* The inductive invariant.
SourceInv == SourceTypeOK /\ WaitsOnBound /\ ReadyIsBound /\ StateAccounted

\* No call waits at the beginning.
LEMMA SourceInitHolds == SourceInit => SourceInv
  BY SourceAssumption DEF SourceInit, SourceInv, SourceTypeOK, WaitsOnBound, ReadyIsBound,
     StateAccounted, Uses, Free, Waiting, SourceOp

-----------------------------------------------------------------------------
\* What a call holds that waits for an answer.
LEMMA CallHolds ==
    ASSUME SourceInv, NEW c \in SourceCall
    PROVE  /\ calls[c].op \in SourceOp \cup {"setup"} => calls[c].inst \in Account
           /\ calls[c].op = "setup" => calls[c].about \in Setup
           /\ calls[c].op \in SourceOp \cup {"setup", "none"}
  BY DEF SourceInv, SourceTypeOK, Free, Waiting, SourceOp

\* Setup states are accounted for by what becomes of the calls and the states.
LEMMA NoSetupTouched ==
    ASSUME SourceInv, UNCHANGED <<setups, issued, completed>>,
           \A c \in SourceCall : calls'[c].op = "setup" => calls'[c] = calls[c]
    PROVE  StateAccounted'
  BY DEF SourceInv, StateAccounted, Uses

\* A state is issued.
LEMMA BeginSetupHolds ==
    ASSUME SourceInv, NEW s \in Setup, BeginSetup(s)
    PROVE  SourceInv'
<1>1. SourceTypeOK'
  BY DEF SourceInv, SourceTypeOK, BeginSetup
<1>2. WaitsOnBound' /\ ReadyIsBound'
  BY DEF SourceInv, WaitsOnBound, ReadyIsBound, BeginSetup
<1>3. StateAccounted'
  BY DEF SourceInv, StateAccounted, Uses, BeginSetup
<1> QED BY <1>1, <1>2, <1>3 DEF SourceInv

\* A setup takes its state before it waits for GitHub.
LEMMA StartSetupHolds ==
    ASSUME SourceInv, NEW c \in SourceCall, NEW s \in Setup, NEW i \in Account, StartSetup(c, s, i)
    PROVE  SourceInv'
<1> USE DEF StartSetup, Started, Taken
<1>1. calls' = [calls EXCEPT ![c] = Waiting("setup", i, s)] /\ calls[c] = Free
  OBVIOUS
<1>2. SourceTypeOK'
  <2>1. DOMAIN calls' = SourceCall /\ calls'[c] = Waiting("setup", i, s)
        /\ \A d \in SourceCall \ {c} : calls'[d] = calls[d]
    BY <1>1 DEF SourceInv, SourceTypeOK
  <2>2. UNCHANGED <<binding, raced, issued, completed, shown>> /\ setups' \subseteq issued'
    BY DEF SourceInv, SourceTypeOK
  <2> QED BY <2>1, <2>2 DEF SourceInv, SourceTypeOK
<1>3. calls'[c] = Waiting("setup", i, s) /\ \A d \in SourceCall \ {c} : calls'[d] = calls[d]
  BY <1>1 DEF SourceInv, SourceTypeOK
<1>4. WaitsOnBound' /\ ReadyIsBound'
  BY <1>3 DEF SourceInv, WaitsOnBound, ReadyIsBound, Waiting, SourceOp
<1>5. StateAccounted'
  BY <1>1, <1>3 DEF SourceInv, SourceTypeOK, StateAccounted, Uses, Waiting, Free
<1> QED BY <1>2, <1>4, <1>5 DEF SourceInv

\* A call that ends leaves the others as they are.
LEMMA AnsweredCalls ==
    ASSUME SourceInv, NEW c \in SourceCall, calls' = [calls EXCEPT ![c] = Free]
    PROVE  /\ DOMAIN calls' = SourceCall /\ calls'[c] = Free
           /\ \A d \in SourceCall \ {c} : calls'[d] = calls[d]
  BY DEF SourceInv, SourceTypeOK

\* A setup binds its installation, and gives up the one before.
LEMMA FinishSetupHolds ==
    ASSUME SourceInv, NEW c \in SourceCall, FinishSetup(c)
    PROVE  SourceInv'
<1> DEFINE i == calls[c].inst
           s == calls[c].about
<1>1. /\ calls[c].op = "setup" /\ calls' = [calls EXCEPT ![c] = Free]
      /\ binding' = i /\ shown' = Replaced(i)
      /\ raced' = (IF binding = i THEN raced ELSE GivenUp(binding, c)) \ {i}
      /\ completed' = [completed EXCEPT ![s] = @ + 1]
      /\ UNCHANGED <<setups, issued>>
  BY DEF FinishSetup, Answered
<1>2. i \in Account /\ s \in Setup
  BY <1>1, CallHolds
<1>3. /\ DOMAIN calls' = SourceCall /\ calls'[c] = Free
      /\ \A d \in SourceCall \ {c} : calls'[d] = calls[d]
  BY <1>1, AnsweredCalls
<1>4. completed' \in [Setup -> Nat]
  BY <1>1, <1>2 DEF SourceInv, SourceTypeOK
<1>5. /\ raced' \subseteq Account
      /\ shown' \in [Account -> {"none", "ready", "accessLost", "degraded"}]
  BY <1>1, <1>2 DEF SourceInv, SourceTypeOK, Replaced, GivenUp
<1>6. SourceTypeOK'
  BY <1>1, <1>2, <1>3, <1>4, <1>5 DEF SourceInv, SourceTypeOK
<1>7. WaitsOnBound'
  <2> SUFFICES ASSUME NEW d \in SourceCall, calls'[d].op \in SourceOp
               PROVE  calls'[d].inst = binding' \/ calls'[d].inst \in raced'
    BY DEF WaitsOnBound
  <2>1. d # c /\ calls'[d] = calls[d] /\ calls[d].op \in SourceOp
    BY <1>3 DEF Free, Waiting, SourceOp
  <2>2. calls[d].inst \in Account /\ (calls[d].inst = binding \/ calls[d].inst \in raced)
    BY <2>1, CallHolds DEF SourceInv, WaitsOnBound
  <2>3. CASE calls[d].inst = i
    BY <2>1, <2>3, <1>1
  <2>4. CASE calls[d].inst # i
    BY <2>1, <2>2, <2>4, <1>1, SourceAssumption DEF GivenUp, StillWaiting
  <2> QED BY <2>3, <2>4
<1>8. ReadyIsBound'
  <2> SUFFICES ASSUME NEW j \in Account, shown'[j] = "ready", j # i
               PROVE  j \in raced'
    BY <1>1 DEF ReadyIsBound
  <2>1. shown[j] = "ready" /\ j # binding
    BY <1>1 DEF Replaced
  <2> QED BY <2>1, <1>1 DEF SourceInv, ReadyIsBound, GivenUp
<1>9. StateAccounted'
  <2>1. /\ s \in issued /\ s \notin setups /\ completed[s] = 0
        /\ \A d \in SourceCall : Uses(d, s) => d = c
    BY <1>1, <1>2 DEF SourceInv, StateAccounted, Uses
  <2>2. completed'[s] = 1 /\ \A t \in Setup \ {s} : completed'[t] = completed[t]
    BY <1>1, <1>2, <2>1 DEF SourceInv, SourceTypeOK
  <2>3. \A d \in SourceCall, t \in Setup : Uses(d, t)' => Uses(d, t) /\ t # s
    BY <1>3, <2>1 DEF Uses, Free, Waiting
  <2>4. \A t \in Setup : completed'[t] # 0 => t \in issued' /\ completed'[t] = 1 /\ t \notin setups'
    BY <1>1, <2>1, <2>2 DEF SourceInv, StateAccounted
  <2>5. \A d \in SourceCall, t \in Setup : Uses(d, t)' =>
          /\ t \in issued' /\ t \notin setups' /\ completed'[t] = 0
          /\ \A e \in SourceCall : Uses(e, t)' => e = d
    BY <1>1, <2>2, <2>3 DEF SourceInv, StateAccounted
  <2> QED BY <2>4, <2>5 DEF StateAccounted
<1> QED BY <1>6, <1>7, <1>8, <1>9 DEF SourceInv

\* The binding is given up, with the calls that wait on it.
LEMMA DisconnectSourceHolds == ASSUME SourceInv, DisconnectSource PROVE SourceInv'
<1>1. /\ binding # Nothing /\ binding' = Nothing
      /\ shown' = [shown EXCEPT ![binding] = "accessLost"]
      /\ raced' = GivenUp(binding, Nothing)
      /\ UNCHANGED <<setups, issued, completed, calls>>
  BY DEF DisconnectSource, Notified
<1>2. SourceTypeOK'
  BY <1>1 DEF SourceInv, SourceTypeOK, GivenUp
<1>3. WaitsOnBound'
  <2> SUFFICES ASSUME NEW d \in SourceCall, calls[d].op \in SourceOp PROVE calls[d].inst \in raced'
    BY <1>1 DEF WaitsOnBound
  <2>1. calls[d].inst = binding \/ calls[d].inst \in raced
    BY DEF SourceInv, WaitsOnBound
  <2> QED BY <1>1, <2>1, SourceAssumption DEF GivenUp, StillWaiting
<1>4. ReadyIsBound'
  BY <1>1 DEF SourceInv, SourceTypeOK, ReadyIsBound, GivenUp
<1>5. StateAccounted'
  BY <1>1, NoSetupTouched
<1> QED BY <1>2, <1>3, <1>4, <1>5 DEF SourceInv

\* A call waits on the binding.
LEMMA StartHolds == ASSUME SourceInv, NEW c \in SourceCall, Start(c) PROVE SourceInv'
<1>1. PICK op \in SourceOp, x \in Repository \cup {Nothing} :
        /\ binding # Nothing /\ calls[c] = Free
        /\ calls' = [calls EXCEPT ![c] = Waiting(op, binding, x)]
  BY DEF Start, StartOn, StartSelect, Started, SourceOp
<1>2. UNCHANGED <<binding, setups, issued, completed, shown, raced>>
  BY DEF Start, StartOn, StartSelect
<1>3. /\ DOMAIN calls' = SourceCall /\ calls'[c] = Waiting(op, binding, x)
      /\ \A d \in SourceCall \ {c} : calls'[d] = calls[d]
  BY <1>1 DEF SourceInv, SourceTypeOK
<1>4. SourceTypeOK'
  <2>1. binding \in Account
    BY <1>1 DEF SourceInv, SourceTypeOK
  <2> QED BY <1>2, <1>3, <2>1 DEF SourceInv, SourceTypeOK
<1>5. WaitsOnBound' /\ ReadyIsBound'
  BY <1>2, <1>3 DEF SourceInv, WaitsOnBound, ReadyIsBound, Waiting
<1>6. StateAccounted'
  BY <1>2, <1>3, NoSetupTouched DEF Waiting, SourceOp
<1> QED BY <1>4, <1>5, <1>6 DEF SourceInv

\* The end of a call that is no setup, by which the binding may return to its
\* installation.
LEMMA AnswerHolds ==
    ASSUME SourceInv, NEW c \in SourceCall, calls' = [calls EXCEPT ![c] = Free],
           NEW readiness \in {"none", "ready", "accessLost", "degraded"},
           shown' = [shown EXCEPT ![calls[c].inst] = readiness],
           readiness = "ready" => calls[c].op \in SourceOp,
           \/ UNCHANGED <<binding, raced>>
           \/ /\ binding' = calls[c].inst /\ calls[c].op \in SourceOp
              /\ raced' = (raced \cup ({binding} \ {Nothing})) \ {calls[c].inst},
           UNCHANGED <<setups, issued, completed>>
    PROVE  SourceInv'
<1> DEFINE i == calls[c].inst
<1>1. /\ DOMAIN calls' = SourceCall /\ calls'[c] = Free
      /\ \A d \in SourceCall \ {c} : calls'[d] = calls[d]
  BY AnsweredCalls
<1>2. calls[c].op \in SourceOp => i \in Account /\ (i = binding \/ i \in raced)
  BY CallHolds DEF SourceInv, WaitsOnBound
<1>3. SourceTypeOK'
  <2>1. /\ binding' \in Account \cup {Nothing} /\ raced' \subseteq Account
        /\ setups' \subseteq issued' /\ issued' \subseteq Setup /\ completed' \in [Setup -> Nat]
    BY <1>2 DEF SourceInv, SourceTypeOK
  <2>2. shown' \in [Account -> {"none", "ready", "accessLost", "degraded"}]
    BY DEF SourceInv, SourceTypeOK
  <2>3. \A d \in SourceCall : calls'[d] = Free \/ calls'[d] = calls[d]
    BY <1>1
  <2> QED BY <1>1, <2>1, <2>2, <2>3 DEF SourceInv, SourceTypeOK
<1>4. \A j \in Account : j = binding \/ j \in raced => j = binding' \/ j \in raced'
  BY SourceAssumption DEF SourceInv, SourceTypeOK
<1>5. WaitsOnBound'
  <2> SUFFICES ASSUME NEW d \in SourceCall, calls'[d].op \in SourceOp
               PROVE  calls'[d].inst = binding' \/ calls'[d].inst \in raced'
    BY DEF WaitsOnBound
  <2>1. calls'[d] = calls[d] /\ calls[d].op \in SourceOp
    BY <1>1 DEF Free, Waiting, SourceOp
  <2>2. calls[d].inst \in Account /\ (calls[d].inst = binding \/ calls[d].inst \in raced)
    BY <2>1, CallHolds DEF SourceInv, WaitsOnBound
  <2> QED BY <2>1, <2>2, <1>4
<1>6. ReadyIsBound'
  <2> SUFFICES ASSUME NEW j \in Account, shown'[j] = "ready"
               PROVE  j = binding' \/ j \in raced'
    BY DEF ReadyIsBound
  <2>1. j = binding \/ j \in raced
    BY <1>2 DEF SourceInv, SourceTypeOK, ReadyIsBound
  <2> QED BY <2>1, <1>4
<1>7. StateAccounted'
  BY <1>1, NoSetupTouched DEF Free, Waiting
<1> QED BY <1>3, <1>5, <1>6, <1>7 DEF SourceInv

\* A call that is answered makes its installation readable.
LEMMA SourceFinishHolds ==
    ASSUME SourceInv, NEW c \in SourceCall,
           FinishStatus(c) \/ FinishSelect(c) \/ \E rs \in SUBSET Repository : FinishList(c, rs)
    PROVE  SourceInv'
<1>1. /\ calls' = [calls EXCEPT ![c] = Free] /\ calls[c].op \in SourceOp
      /\ shown' = [shown EXCEPT ![calls[c].inst] = "ready"]
      /\ UNCHANGED <<setups, issued, completed>>
  BY DEF FinishStatus, FinishSelect, FinishList, Answered, Notified, SourceOp
<1>2. \/ UNCHANGED <<binding, raced>>
      \/ /\ binding' = calls[c].inst
         /\ raced' = (raced \cup ({binding} \ {Nothing})) \ {calls[c].inst}
  BY DEF FinishStatus, FinishSelect, FinishList
<1> QED BY <1>1, <1>2, AnswerHolds

\* A call that is refused never makes an installation readable.
LEMMA RefuseHolds == ASSUME SourceInv, NEW c \in SourceCall, Refuse(c) PROVE SourceInv'
<1>1. /\ calls' = [calls EXCEPT ![c] = Free]
      /\ UNCHANGED <<binding, raced, setups, issued, completed>>
  BY DEF Refuse, Answered
<1>2. CASE \E readiness \in {"accessLost", "degraded"} :
             shown' = Notified(calls[c].inst, readiness)
  BY <1>1, <1>2, AnswerHolds DEF Notified
<1>3. CASE UNCHANGED shown
  <2>1. /\ DOMAIN calls' = SourceCall /\ calls'[c] = Free
        /\ \A d \in SourceCall \ {c} : calls'[d] = calls[d]
    BY <1>1, AnsweredCalls
  <2>2. SourceTypeOK'
    BY <1>1, <1>3, <2>1 DEF SourceInv, SourceTypeOK
  <2>3. WaitsOnBound' /\ ReadyIsBound'
    BY <1>1, <1>3, <2>1 DEF SourceInv, WaitsOnBound, ReadyIsBound, Free, Waiting, SourceOp
  <2>4. StateAccounted'
    BY <1>1, <2>1, NoSetupTouched DEF Free, Waiting
  <2> QED BY <2>2, <2>3, <2>4 DEF SourceInv
<1> QED BY <1>2, <1>3 DEF Refuse

\* An issued state expires.
LEMMA ExpireHolds == ASSUME SourceInv, Expire PROVE SourceInv'
  BY DEF SourceInv, SourceTypeOK, WaitsOnBound, ReadyIsBound, StateAccounted, Uses, Expire

\* A restart loses the calls and the states.
LEMMA RestartHolds == ASSUME SourceInv, RestartSource PROVE SourceInv'
  BY DEF SourceInv, SourceTypeOK, WaitsOnBound, ReadyIsBound, StateAccounted, Uses, Free,
     Waiting, SourceOp, RestartSource

\* Every step keeps the invariant.
LEMMA SourceNextHolds == SourceInv /\ [SourceNext]_sourceVars => SourceInv'
<1> SUFFICES ASSUME SourceInv, [SourceNext]_sourceVars PROVE SourceInv'
  OBVIOUS
<1>1. CASE UNCHANGED sourceVars
  BY <1>1 DEF sourceVars, SourceInv, SourceTypeOK, WaitsOnBound, ReadyIsBound, StateAccounted, Uses
<1>2. CASE SourceNext
  <2>1. CASE \/ \E s \in Setup : BeginSetup(s)
             \/ DisconnectSource \/ Expire \/ RestartSource
    BY <2>1, BeginSetupHolds, DisconnectSourceHolds, ExpireHolds, RestartHolds
  <2>2. ASSUME NEW c \in SourceCall,
               \/ \E s \in Setup, i \in Account : StartSetup(c, s, i)
               \/ Start(c) \/ Refuse(c)
               \/ FinishSetup(c) \/ FinishStatus(c) \/ FinishSelect(c)
               \/ \E rs \in SUBSET Repository : FinishList(c, rs)
        PROVE  SourceInv'
    BY <2>2, StartSetupHolds, StartHolds, RefuseHolds, FinishSetupHolds, SourceFinishHolds
  <2> QED BY <1>2, <2>1, <2>2 DEF SourceNext
<1> QED BY <1>1, <1>2

\* The invariant holds in every reachable state.
LEMMA SourceInductive == SourceSpec => []SourceInv
  BY SourceInitHolds, SourceNextHolds, PTL DEF SourceSpec

\* Projects are readable only of the installation the runner is bound to, or of one a
\* call was waiting on when it was given up (githubProjectSource.ts: the late answer is
\* told to the catalog).
THEOREM ReadableIsBound == SourceSpec => []ReadyIsBound
<1>1. SourceInv => ReadyIsBound
  BY DEF SourceInv
<1> QED BY <1>1, SourceInductive, PTL

\* A setup state completes one setup: it is taken before the runner waits for GitHub.
THEOREM StateUsedOnce == SourceSpec => []SetupOnce
<1>1. SourceInv => SetupOnce
  BY DEF SourceInv, SourceTypeOK, StateAccounted, SetupOnce
<1> QED BY <1>1, SourceInductive, PTL

-----------------------------------------------------------------------------
(***************************************************************************)
(* Project delivery (Delivery).  A fix delivers onto the branch it was     *)
(* admitted at, however many commits there are and whoever makes them.  The *)
(* property is about one step, the push; what it needs is DeliveryInv: once *)
(* the branch was fetched for the push, the origin is what was fetched,    *)
(* shortened and followed by commits the checkout does not have.           *)
(***************************************************************************)
\* A branch is a sequence of commits.
Branch == Seq(Nat)

\* The commits of b are among the first n that were made.
MadeBy(b, n) == \A k \in 1..Len(b) : b[k] <= n

\* The types of the branches and of the fix.
DeliveryTypeOK ==
  /\ commits \in Nat
  /\ remoteBranch \in Branch /\ tracking \in Branch /\ fix.admitted \in Branch
  /\ checkout \in [head : Branch, clean : BOOLEAN, onBranch : BOOLEAN]
  /\ fix \in [next : {"none", "admitFetch", "compare", "turn", "pushStatus", "pushFetch",
                      "pushCompare", "send"},
              admitted : Branch, outcome : {"none", "refused", "failed", "completed"}]

\* What anybody has is a commit somebody made.
CommitsMade == MadeBy(remoteBranch, commits) /\ MadeBy(checkout.head, commits)

\* The first n commits of branch b are the first of branch t, and head has none of the
\* others.
SharesOnly(b, t, head, n) ==
  /\ n <= Len(t) /\ \A k \in 1..n : b[k] = t[k]
  /\ \A k \in (n + 1)..Len(b), j \in 1..Len(head) : head[j] # b[k]

\* The branch fetched for the push is what the origin shares with the checkout.
Fetched ==
  fix.next \in {"pushCompare", "send"} =>
    \E n \in 0..Len(remoteBranch) : SharesOnly(remoteBranch, tracking, checkout.head, n)

\* What is pushed has been compared with what was admitted.
Compared == fix.next = "send" => tracking = fix.admitted

\* The inductive invariant.
DeliveryInv == DeliveryTypeOK /\ CommitsMade /\ Fetched /\ Compared

\* A prefix, element by element.
LEMMA PrefixAt ==
  ASSUME NEW s \in Branch, NEW t \in Branch
  PROVE  IsPrefix(s, t) <=> Len(s) <= Len(t) /\ \A k \in 1..Len(s) : s[k] = t[k]
  BY DEF IsPrefix, Branch

\* A branch without its last commit.
LEMMA FrontOf ==
  ASSUME NEW s \in Branch, Len(s) > 0
  PROVE  /\ Front(s) \in Branch /\ Len(Front(s)) = Len(s) - 1
         /\ \A k \in 1..(Len(s) - 1) : Front(s)[k] = s[k]
<1>1. Len(s) \in Nat /\ \A k \in 1..(Len(s) - 1) : s[k] \in Nat
  BY DEF Branch
<1>2. /\ Front(s) \in Seq(Nat)
      /\ Len(Front(s)) = IF 1 <= Len(s) - 1 THEN Len(s) - 1 - 1 + 1 ELSE 0
      /\ \A k \in 1..(Len(s) - 1 - 1 + 1) : Front(s)[k] = s[1 + k - 1]
  BY <1>1, SubSeqProperties DEF Front
<1>3. Len(s) - 1 - 1 + 1 = Len(s) - 1 /\ Len(Front(s)) = Len(s) - 1
  <2>1. ASSUME NEW m \in Nat, m > 0
        PROVE  m - 1 - 1 + 1 = m - 1 /\ (IF 1 <= m - 1 THEN m - 1 - 1 + 1 ELSE 0) = m - 1
    BY <2>1
  <2> QED BY <1>1, <1>2, <2>1
<1>4. \A k \in 1..(Len(s) - 1) : Front(s)[k] = s[k]
  <2> SUFFICES ASSUME NEW k \in 1..(Len(s) - 1) PROVE Front(s)[k] = s[k]
    OBVIOUS
  <2>1. 1 + k - 1 = k
    OBVIOUS
  <2> QED BY <1>2, <1>3, <2>1
<1> QED BY <1>2, <1>3, <1>4 DEF Branch

\* A branch with one commit more.
LEMMA Appended ==
  ASSUME NEW s \in Branch, NEW x \in Nat
  PROVE  /\ Append(s, x) \in Branch /\ Len(Append(s, x)) = Len(s) + 1
         /\ \A k \in 1..(Len(s) + 1) : Append(s, x)[k] = IF k <= Len(s) THEN s[k] ELSE x
  BY DEF Branch

\* No fix is at work at the beginning.
LEMMA DeliveryInitHolds == DeliveryInit => DeliveryInv
  BY DEF DeliveryInit, DeliveryInv, DeliveryTypeOK, Branch, CommitsMade, MadeBy, Fetched, Compared

-----------------------------------------------------------------------------
\* Steps of the fix that touch no commit.
Walks == 
  \/ AdmitStatus \/ AdmitFetch \/ AdmitCompare \/ TurnEnds \/ PushStatus \/ PushCompare

\* They keep the invariant.
LEMMA WalksHolds == ASSUME DeliveryInv, Walks PROVE DeliveryInv'
<1> USE DEF Walks, AdmitStatus, AdmitFetch, AdmitCompare, TurnEnds, PushStatus, PushCompare,
        FixUnchanged, Proceeds, Ends
<1>1. DeliveryTypeOK'
  BY DEF DeliveryInv, DeliveryTypeOK
<1>2. CommitsMade'
  BY DEF DeliveryInv, CommitsMade, MadeBy
<1>3. Fetched' /\ Compared'
  BY DEF DeliveryInv, DeliveryTypeOK, Fetched, Compared, Advanced
<1> QED BY <1>1, <1>2, <1>3 DEF DeliveryInv

\* The fetch of the push sees the origin as it is.
LEMMA PushFetchHolds == ASSUME DeliveryInv, PushFetch PROVE DeliveryInv'
<1> USE DEF PushFetch, Proceeds, Ends
<1>1. DeliveryTypeOK'
  BY DEF DeliveryInv, DeliveryTypeOK
<1>2. CommitsMade' /\ Compared'
  BY DEF DeliveryInv, DeliveryTypeOK, CommitsMade, MadeBy, Compared
<1>3. Fetched'
  <2>1. CASE tracking' = remoteBranch
    <3>1. Len(remoteBranch) \in Nat
      BY DEF DeliveryInv, DeliveryTypeOK, Branch
    <3>2. SharesOnly(remoteBranch', tracking', checkout'.head, Len(remoteBranch'))
      BY <2>1, <3>1 DEF SharesOnly
    <3> QED BY <3>1, <3>2 DEF Fetched
  <2>2. CASE fix'.next = "none"
    BY <2>2 DEF Fetched
  <2> QED BY <2>1, <2>2 DEF DeliveryInv, DeliveryTypeOK
<1> QED BY <1>1, <1>2, <1>3 DEF DeliveryInv

\* The push sends what it compared.
LEMMA PushHolds == ASSUME DeliveryInv, Push PROVE DeliveryInv'
<1> USE DEF Push, Ends
<1>1. DeliveryTypeOK'
  BY DEF DeliveryInv, DeliveryTypeOK
<1>2. CommitsMade' /\ Fetched' /\ Compared'
  BY DEF DeliveryInv, DeliveryTypeOK, CommitsMade, MadeBy, Fetched, Compared
<1> QED BY <1>1, <1>2 DEF DeliveryInv

\* The agent commits, resets or dirties the checkout during its turn only.
LEMMA AgentActsHolds == ASSUME DeliveryInv, AgentActs PROVE DeliveryInv'
<1>1. fix.next = "turn" /\ UNCHANGED <<remoteBranch, fix>>
  BY DEF AgentActs
<1>2. Fetched' /\ Compared'
  BY <1>1 DEF Fetched, Compared
<1>3. checkout.head \in Branch /\ remoteBranch \in Branch /\ tracking \in Branch /\ commits \in Nat
  BY DEF DeliveryInv, DeliveryTypeOK
<1>4. /\ commits' \in Nat /\ commits <= commits' /\ tracking' \in Branch
      /\ checkout' \in [head : Branch, clean : BOOLEAN, onBranch : BOOLEAN]
      /\ MadeBy(checkout'.head, commits')
  <2>1. DOMAIN checkout = {"head", "clean", "onBranch"} /\ MadeBy(checkout.head, commits)
        /\ MadeBy(remoteBranch, commits)
        /\ checkout \in [head : Branch, clean : BOOLEAN, onBranch : BOOLEAN]
    BY DEF DeliveryInv, DeliveryTypeOK, CommitsMade
  <2>2. ASSUME NEW head \in Branch, MadeBy(head, commits'), commits' \in {commits, commits + 1},
               tracking' \in Branch,
               \/ checkout' = [checkout EXCEPT !.head = head, !.clean = TRUE]
               \/ checkout' = [checkout EXCEPT !.head = head]
        PROVE  /\ commits' \in Nat /\ commits <= commits' /\ tracking' \in Branch
               /\ checkout' \in [head : Branch, clean : BOOLEAN, onBranch : BOOLEAN]
               /\ MadeBy(checkout'.head, commits')
    <3>1. commits' \in Nat /\ commits <= commits'
      BY <1>3, <2>2
    <3>2. /\ checkout' \in [head : Branch, clean : BOOLEAN, onBranch : BOOLEAN]
          /\ checkout'.head = head
      BY <2>1, <2>2
    <3> QED BY <2>2, <3>1, <3>2
  <2>3. CASE /\ checkout' = [checkout EXCEPT !.head = Append(@, commits + 1), !.clean = TRUE]
             /\ commits' = commits + 1 /\ UNCHANGED tracking
    <3>1. Append(checkout.head, commits + 1) \in Branch
          /\ MadeBy(Append(checkout.head, commits + 1), commits + 1)
      BY <1>3, <2>1, Appended DEF MadeBy, Branch
    <3>2. checkout' = [checkout EXCEPT !.head = Append(checkout.head, commits + 1),
                                       !.clean = TRUE]
      BY <2>3
    <3> QED BY <1>3, <2>2, <2>3, <3>1, <3>2
  <2>4. CASE /\ \/ checkout' = [checkout EXCEPT !.clean = FALSE]
                \/ checkout' = [checkout EXCEPT !.onBranch = ~@]
             /\ UNCHANGED <<tracking, commits>>
    <3>1. /\ checkout' \in [head : Branch, clean : BOOLEAN, onBranch : BOOLEAN]
          /\ checkout'.head = checkout.head
      BY <2>1, <2>4
    <3> QED BY <1>3, <2>1, <2>4, <3>1
  <2>5. CASE tracking' = remoteBranch /\ checkout' = [checkout EXCEPT !.head = remoteBranch]
             /\ UNCHANGED commits
    BY <1>3, <2>1, <2>2, <2>5
  <2>6. CASE /\ checkout.head # <<>> /\ UNCHANGED <<tracking, commits>>
             /\ checkout' = [checkout EXCEPT !.head = Front(@), !.clean = TRUE]
    <3>1. Len(checkout.head) > 0 /\ Len(checkout.head) \in Nat
      BY <1>3, <2>6 DEF Branch
    <3>2. /\ Front(checkout.head) \in Branch
          /\ Len(Front(checkout.head)) = Len(checkout.head) - 1
          /\ \A k \in 1..(Len(checkout.head) - 1) : Front(checkout.head)[k] = checkout.head[k]
      BY <1>3, <3>1, FrontOf
    <3>3. MadeBy(Front(checkout.head), commits)
      BY <2>1, <3>1, <3>2 DEF MadeBy
    <3>4. checkout' = [checkout EXCEPT !.head = Front(checkout.head), !.clean = TRUE]
      BY <2>6
    <3> QED BY <1>3, <2>2, <2>6, <3>2, <3>3, <3>4
  <2> QED BY <2>3, <2>4, <2>5, <2>6 DEF AgentActs
<1>5. CommitsMade'
  BY <1>1, <1>3, <1>4 DEF DeliveryInv, CommitsMade, MadeBy, Branch
<1>6. DeliveryTypeOK'
  BY <1>1, <1>4 DEF DeliveryInv, DeliveryTypeOK
<1> QED BY <1>2, <1>5, <1>6 DEF DeliveryInv

\* What others push, the checkout does not have.
LEMMA OthersPushHolds == ASSUME DeliveryInv, OthersPush PROVE DeliveryInv'
<1>1. /\ commits' = commits + 1 /\ remoteBranch' = Append(remoteBranch, commits + 1)
      /\ UNCHANGED <<tracking, checkout, fix>>
  BY DEF OthersPush
<1>2. remoteBranch \in Branch /\ checkout.head \in Branch /\ commits \in Nat
  BY DEF DeliveryInv, DeliveryTypeOK
<1>3. /\ remoteBranch' \in Branch /\ Len(remoteBranch') = Len(remoteBranch) + 1
      /\ \A k \in 1..(Len(remoteBranch) + 1) :
            remoteBranch'[k] = IF k <= Len(remoteBranch) THEN remoteBranch[k] ELSE commits + 1
  BY <1>1, <1>2, Appended
<1>4. DeliveryTypeOK' /\ Compared'
  BY <1>1, <1>3 DEF DeliveryInv, DeliveryTypeOK, Compared
<1>5. CommitsMade'
  BY <1>1, <1>2, <1>3 DEF DeliveryInv, CommitsMade, MadeBy, Branch
<1>6. Fetched'
  <2> SUFFICES ASSUME fix.next \in {"pushCompare", "send"}
               PROVE  \E n \in 0..Len(remoteBranch') :
                        SharesOnly(remoteBranch', tracking, checkout.head, n)
    BY <1>1 DEF Fetched
  <2>1. PICK n \in 0..Len(remoteBranch) : SharesOnly(remoteBranch, tracking, checkout.head, n)
    BY DEF DeliveryInv, Fetched
  <2>2. SharesOnly(remoteBranch', tracking, checkout.head, n)
    <3>1. Len(remoteBranch) \in Nat /\ Len(checkout.head) \in Nat
      BY <1>2 DEF Branch
    <3>2. \A j \in 1..Len(checkout.head) : checkout.head[j] \in Nat /\ checkout.head[j] <= commits
      BY <1>2, <3>1 DEF DeliveryInv, CommitsMade, MadeBy, Branch
    <3>3. n <= Len(tracking) /\ \A k \in 1..n : remoteBranch'[k] = tracking[k]
      BY <1>3, <2>1, <3>1 DEF SharesOnly
    <3>4. ASSUME NEW k \in (n + 1)..Len(remoteBranch'), NEW j \in 1..Len(checkout.head)
          PROVE  checkout.head[j] # remoteBranch'[k]
      <4>1. CASE k <= Len(remoteBranch)
        BY <1>3, <2>1, <3>1, <4>1 DEF SharesOnly
      <4>2. CASE k = Len(remoteBranch) + 1
        BY <1>2, <1>3, <3>1, <3>2, <4>2
      <4> QED BY <1>3, <3>1, <4>1, <4>2
    <3> QED BY <3>3, <3>4 DEF SharesOnly
  <2> QED BY <1>2, <1>3, <2>2 DEF Branch
<1> QED BY <1>4, <1>5, <1>6 DEF DeliveryInv

\* A rewound branch shares what is left of it.
LEMMA OthersRewindHolds == ASSUME DeliveryInv, OthersRewind PROVE DeliveryInv'
<1>1. /\ Len(remoteBranch) > 1 /\ remoteBranch' = Front(remoteBranch)
      /\ UNCHANGED <<tracking, checkout, fix, commits>>
  BY DEF OthersRewind
<1>2. remoteBranch \in Branch /\ tracking \in Branch /\ Len(remoteBranch) \in Nat
  BY DEF DeliveryInv, DeliveryTypeOK, Branch
<1>3. /\ remoteBranch' \in Branch /\ Len(remoteBranch') = Len(remoteBranch) - 1
      /\ \A k \in 1..(Len(remoteBranch) - 1) : remoteBranch'[k] = remoteBranch[k]
  BY <1>1, <1>2, FrontOf
<1>4. DeliveryTypeOK' /\ Compared'
  BY <1>1, <1>3 DEF DeliveryInv, DeliveryTypeOK, Compared
<1>5. CommitsMade'
  BY <1>1, <1>2, <1>3 DEF DeliveryInv, CommitsMade, MadeBy
<1>6. Fetched'
  <2> SUFFICES ASSUME fix.next \in {"pushCompare", "send"}
               PROVE  \E n \in 0..Len(remoteBranch') :
                        SharesOnly(remoteBranch', tracking, checkout.head, n)
    BY <1>1 DEF Fetched
  <2>1. PICK n \in 0..Len(remoteBranch) : SharesOnly(remoteBranch, tracking, checkout.head, n)
    BY DEF DeliveryInv, Fetched
  <2> DEFINE m == IF n = Len(remoteBranch) THEN n - 1 ELSE n
  <2>2. m \in 0..Len(remoteBranch')
    BY <1>1, <1>2, <1>3
  <2>3. SharesOnly(remoteBranch', tracking, checkout.head, m)
    <3>1. Len(tracking) \in Nat
      BY <1>2 DEF Branch
    <3> QED BY <1>1, <1>2, <1>3, <2>1, <2>2, <3>1 DEF SharesOnly
  <2> QED BY <2>2, <2>3
<1> QED BY <1>4, <1>5, <1>6 DEF DeliveryInv

\* Every step keeps the invariant.
LEMMA DeliveryNextHolds == DeliveryInv /\ [DeliveryNext]_deliveryVars => DeliveryInv'
<1> SUFFICES ASSUME DeliveryInv, [DeliveryNext]_deliveryVars PROVE DeliveryInv'
  OBVIOUS
<1>1. CASE UNCHANGED deliveryVars
  BY <1>1 DEF deliveryVars, DeliveryInv, DeliveryTypeOK, CommitsMade, MadeBy, Fetched, Compared
<1>2. CASE DeliveryNext
  BY <1>2, WalksHolds, PushFetchHolds, PushHolds, AgentActsHolds, OthersPushHolds,
     OthersRewindHolds DEF DeliveryNext, Walks
<1> QED BY <1>1, <1>2

\* A push that the origin accepts is onto what was admitted.
LEMMA PushIsOntoAdmitted ==
  ASSUME DeliveryInv, Push, remoteBranch' # remoteBranch
  PROVE  IsPrefix(remoteBranch, fix.admitted) /\ IsPrefix(remoteBranch, remoteBranch')
<1>1. /\ fix.next = "send" /\ IsPrefix(remoteBranch, checkout.head)
      /\ remoteBranch' = checkout.head
  BY DEF Push, OriginAccepts
<1>2. /\ remoteBranch \in Branch /\ checkout.head \in Branch /\ tracking \in Branch
      /\ Len(remoteBranch) \in Nat /\ Len(checkout.head) \in Nat /\ Len(tracking) \in Nat
  BY DEF DeliveryInv, DeliveryTypeOK, Branch
<1>3. PICK n \in 0..Len(remoteBranch) : SharesOnly(remoteBranch, tracking, checkout.head, n)
  BY <1>1 DEF DeliveryInv, Fetched
<1>4. Len(remoteBranch) <= Len(checkout.head)
      /\ \A k \in 1..Len(remoteBranch) : remoteBranch[k] = checkout.head[k]
  BY <1>1, <1>2, PrefixAt
<1>5. n = Len(remoteBranch)
  <2> SUFFICES ASSUME n < Len(remoteBranch) PROVE FALSE
    BY <1>2
  <2>1. /\ n + 1 \in (n + 1)..Len(remoteBranch) /\ n + 1 \in 1..Len(checkout.head)
        /\ n + 1 \in 1..Len(remoteBranch)
    BY <1>2, <1>4
  <2> QED BY <1>3, <1>4, <2>1 DEF SharesOnly
<1>6. IsPrefix(remoteBranch, tracking)
  BY <1>2, <1>3, <1>5, PrefixAt DEF SharesOnly
<1> QED BY <1>1, <1>6 DEF DeliveryInv, Compared

\* Whenever other people push to the delivery branch or rewind it, and whatever the
\* agent has made of the checkout, a push that changes the origin lands on what was
\* there at admission and keeps all of it.
THEOREM PushesOntoAdmitted == DeliverySpec => DeliversOntoAdmitted
<1> DEFINE Lands == (fix.next = "send" /\ fix'.next # "send" /\ remoteBranch' # remoteBranch)
                    => /\ IsPrefix(remoteBranch, fix.admitted)
                       /\ IsPrefix(remoteBranch, remoteBranch')
<1>1. DeliveryInv /\ [DeliveryNext]_deliveryVars => [Lands]_deliveryVars
  <2> SUFFICES ASSUME DeliveryInv, DeliveryNext, fix.next = "send", fix'.next # "send",
                      remoteBranch' # remoteBranch
               PROVE  Lands
    BY DEF deliveryVars
  <2>1. Push
    BY DEF DeliveryNext, AdmitStatus, AdmitFetch, AdmitCompare, TurnEnds, PushStatus,
       PushFetch, PushCompare, AgentActs, OthersPush, OthersRewind
  <2> QED BY <2>1, PushIsOntoAdmitted
<1> QED BY <1>1, DeliveryInitHolds, DeliveryNextHolds, PTL DEF DeliverySpec, DeliversOntoAdmitted

-----------------------------------------------------------------------------
(***************************************************************************)
(* The project catalog (ProjectCatalog).  What it saves it can load again: *)
(* the list it keeps is good (Good), whatever sources come and go, on a disk *)
(* where no repository is cloned twice and paths have names.               *)
(***************************************************************************)
\* What the theorem supposes of the disk and the code does not enforce: no path is a
\* second clone of a repository,
OneCloneEach == \A p, q \in Path : Origin[p] # None /\ Origin[p] = Origin[q] => p = q

\* and every path without an origin makes a full name, which load asks for.
EveryPathNamed == \A p \in Path : Origin[p] # None \/ p \in WellNamed

\* The identifiers of projects.
ProjectId ==
    {<<"builtin", p>> : p \in Builtin} \cup {<<"local", p>> : p \in Path}
        \cup {<<"github", r>> : r \in Repo}

\* A project of the catalog.
ProjectRecord ==
    [id : ProjectId, path : Path \cup {None}, origin : Repo \cup {None}, named : BOOLEAN,
     github : Repo \cup {None}, state : States, default : BOOLEAN, archived : BOOLEAN,
     builtin : BOOLEAN]

\* A project has a source and a name, its two sources are of one repository, and its
\* identifier tells the source it was first connected from.
GoodProject(q) ==
    /\ q.named /\ (q.path # None \/ q.github # None)
    /\ q.origin = IF q.path = None THEN None ELSE Origin[q.path]
    /\ q.path # None /\ q.github # None => q.origin = q.github
    /\ q.builtin <=> q.id \in {<<"builtin", p>> : p \in Builtin}
    /\ \A p \in Builtin : q.id = <<"builtin", p>> => q.path = p
    /\ \A p \in Path : q.id = <<"local", p>> =>
          q.path = p \/ (q.path = None /\ q.github = Origin[p])
    /\ \A r \in Repo : q.id = <<"github", r>> => Identity(q) = r

\* What load asks of a list: identifiers are not repeated,
UniqueIds(f) == \A m, n \in DOMAIN f : f[m].id = f[n].id => m = n

\* no repository is connected twice,
UniqueIdentities(f) ==
    \A m, n \in DOMAIN f : Identity(f[m]) # None /\ Identity(f[m]) = Identity(f[n]) => m = n

\* and one project, not archived, is the default.
OneDefault(f) ==
    f # <<>> => \E d \in DOMAIN f :
        /\ f[d].default /\ ~f[d].archived
        /\ \A n \in DOMAIN f : f[n].default => n = d

\* A list of such projects.
Good(f) ==
    /\ f \in Seq(ProjectRecord)
    /\ \A n \in DOMAIN f : GoodProject(f[n])
    /\ UniqueIds(f) /\ UniqueIdentities(f) /\ OneDefault(f)

\* The inductive invariant: a good list is what is saved, and what is shown.
CatalogInv ==
    /\ saved \in BOOLEAN /\ running \in {"down", "up"}
    /\ running = "up" => saved /\ Good(projects)
    /\ saved => Good(file)

-----------------------------------------------------------------------------
\* load accepts a good list.
LEMMA GoodIsAccepted == ASSUME NEW f, Good(f) PROVE Accepts(f)
<1>1. \A m, n \in DOMAIN f : f[m].id = f[n].id => m = n
  BY DEF Good, UniqueIds
<1>2. ASSUME f # <<>> PROVE Cardinality({n \in DOMAIN f : f[n].default /\ ~f[n].archived}) = 1
  <2>1. PICK d \in DOMAIN f : /\ f[d].default /\ ~f[d].archived
                              /\ \A n \in DOMAIN f : f[n].default => n = d
    BY <1>2 DEF Good, OneDefault
  <2>2. {n \in DOMAIN f : f[n].default /\ ~f[n].archived} = {d}
    BY <2>1
  <2> QED BY <2>2, FS_Singleton
<1>3. \A n \in DOMAIN f : f[n].named /\ (f[n].path # None \/ f[n].github # None)
  BY DEF Good, GoodProject
<1> QED BY <1>1, <1>2, <1>3 DEF Accepts

\* What is left of a sequence when one element is taken out.
LEMMA RemovedAt ==
    ASSUME NEW S, NEW s \in Seq(S), NEW i \in 1 .. Len(s)
    PROVE  /\ RemoveAt(s, i) \in Seq(S) /\ Len(RemoveAt(s, i)) = Len(s) - 1
           /\ \A k \in 1 .. Len(s) - 1 : RemoveAt(s, i)[k] = IF k < i THEN s[k] ELSE s[k + 1]
<1> DEFINE a == SubSeq(s, 1, i - 1)
           b == SubSeq(s, i + 1, Len(s))
<1>1. a \in Seq(S) /\ Len(a) = i - 1 /\ \A k \in 1 .. i - 1 : a[k] = s[k]
  <2>1. \A k \in 1 .. i - 1 : s[k] \in S
    BY ElementOfSeq
  <2>2. /\ a \in Seq(S)
        /\ Len(a) = IF 1 <= i - 1 THEN i - 1 - 1 + 1 ELSE 0
        /\ \A k \in 1 .. i - 1 - 1 + 1 : a[k] = s[1 + k - 1]
    BY <2>1, SubSeqProperties
  <2> HIDE DEF a
  <2> QED BY <2>2
<1>2. b \in Seq(S) /\ Len(b) = Len(s) - i /\ \A k \in 1 .. Len(s) - i : b[k] = s[i + k]
  <2>1. \A k \in i + 1 .. Len(s) : s[k] \in S
    BY ElementOfSeq
  <2>2. /\ b \in Seq(S)
        /\ Len(b) = IF i + 1 <= Len(s) THEN Len(s) - (i + 1) + 1 ELSE 0
        /\ \A k \in 1 .. Len(s) - (i + 1) + 1 : b[k] = s[i + 1 + k - 1]
    BY <2>1, SubSeqProperties
  <2> HIDE DEF b
  <2> QED BY <2>2
<1> HIDE DEF a, b
<1>3. /\ a \o b \in Seq(S) /\ Len(a \o b) = Len(a) + Len(b)
      /\ \A k \in 1 .. Len(a) + Len(b) : (a \o b)[k] = IF k <= Len(a) THEN a[k] ELSE b[k - Len(a)]
  BY <1>1, <1>2, ConcatProperties
<1>4. RemoveAt(s, i) = a \o b
  BY DEF RemoveAt, a, b
<1>5. Len(a) + Len(b) = Len(s) - 1
  BY <1>1, <1>2
<1>6. ASSUME NEW k \in 1 .. Len(s) - 1 PROVE (a \o b)[k] = IF k < i THEN s[k] ELSE s[k + 1]
  <2>1. CASE k < i
    BY <1>1, <1>3, <1>5, <2>1
  <2>2. CASE ~(k < i)
    <3>1. k - (i - 1) \in 1 .. Len(s) - i /\ i + (k - (i - 1)) = k + 1
      BY <2>2
    <3>2. (a \o b)[k] = b[k - (i - 1)]
      BY <1>1, <1>3, <1>5, <2>2
    <3> QED BY <1>2, <2>2, <3>1, <3>2
  <2> QED BY <2>1, <2>2
<1> QED BY <1>3, <1>4, <1>5, <1>6

\* A save of a good list keeps the invariant, whether or not the file is written.
LEMMA SaveHolds == ASSUME CatalogInv, NEW ps, Good(ps), Save(ps) PROVE CatalogInv'
  BY DEF CatalogInv, Save

-----------------------------------------------------------------------------
\* A list in which a project is replaced by one with its identifier, its identity and
\* its part as the default, and the others are as they were.
LEMMA ReplacedIsGood ==
    ASSUME NEW f, Good(f), NEW n \in DOMAIN f, NEW q \in ProjectRecord, GoodProject(q),
           q.id = f[n].id, Identity(q) = Identity(f[n]), q.default = f[n].default,
           q.archived => f[n].archived \/ ~q.default
    PROVE  Good([f EXCEPT ![n] = q])
<1> DEFINE g == [f EXCEPT ![n] = q]
<1>1. /\ g \in Seq(ProjectRecord) /\ DOMAIN g = DOMAIN f
      /\ g[n] = q /\ \A k \in DOMAIN f : k # n => g[k] = f[k]
  BY DEF Good
<1> HIDE DEF g
<1>2. \A k \in DOMAIN f : g[k].id = f[k].id /\ Identity(g[k]) = Identity(f[k])
                          /\ g[k].default = f[k].default
                          /\ (g[k].archived => f[k].archived \/ ~f[k].default)
  BY <1>1
<1>3. \A k \in DOMAIN g : GoodProject(g[k])
  BY <1>1 DEF Good
<1>4. UniqueIds(g) /\ UniqueIdentities(g)
  BY <1>1, <1>2 DEF Good, UniqueIds, UniqueIdentities
<1>5. OneDefault(g)
  <2>1. g # <<>> => f # <<>>
    BY <1>1 DEF Good
  <2> QED BY <1>1, <1>2, <2>1 DEF Good, OneDefault
<1>6. Good(g)
  BY <1>1, <1>3, <1>4, <1>5 DEF Good
<1> QED BY <1>6 DEF g

\* A project of another source added at the end.
LEMMA AddedIsGood ==
    ASSUME NEW f, Good(f), NEW q \in ProjectRecord, GoodProject(q),
           \A n \in DOMAIN f :
               f[n].id # q.id /\ (Identity(q) # None => Identity(f[n]) # Identity(q)),
           f = <<>> => q.default, f # <<>> => ~q.default, ~q.archived
    PROVE  Good(Append(f, q))
<1> DEFINE g == Append(f, q)
           L == Len(f) + 1
<1>1. f \in Seq(ProjectRecord) /\ Len(f) \in Nat /\ DOMAIN f = 1 .. Len(f)
  BY DEF Good
<1>2. /\ g \in Seq(ProjectRecord) /\ DOMAIN g = 1 .. L /\ g[L] = q
      /\ \A k \in DOMAIN f : g[k] = f[k]
  BY <1>1, AppendProperties
<1> HIDE DEF g
<1>3. \A k \in DOMAIN g : k = L \/ k \in DOMAIN f
  BY <1>1, <1>2
<1>4. \A k \in DOMAIN g : GoodProject(g[k])
  BY <1>2, <1>3 DEF Good
<1>5. UniqueIds(g)
  BY <1>2, <1>3 DEF Good, UniqueIds
<1>6. UniqueIdentities(g)
  BY <1>2, <1>3 DEF Good, UniqueIdentities
<1>7. OneDefault(g)
  <2>1. CASE f = <<>>
    <3>1. L = 1
      BY <1>1, <2>1
    <3>2. DOMAIN g = {L} /\ q.default
      BY <1>2, <2>1, <3>1
    <3> QED BY <1>2, <3>2 DEF OneDefault
  <2>2. CASE f # <<>>
    <3>1. L \notin DOMAIN f
      BY <1>1
    <3>2. PICK d \in DOMAIN f : /\ f[d].default /\ ~f[d].archived
                                /\ \A n \in DOMAIN f : f[n].default => n = d
      BY <2>2 DEF Good, OneDefault
    <3>3. d \in DOMAIN g
      BY <1>1, <1>2
    <3> QED BY <1>2, <1>3, <2>2, <3>1, <3>2, <3>3 DEF OneDefault
  <2> QED BY <2>1, <2>2
<1>8. Good(g)
  BY <1>2, <1>4, <1>5, <1>6, <1>7 DEF Good
<1> QED BY <1>8 DEF g

\* A project other than the default taken out.
LEMMA TakenIsGood ==
    ASSUME NEW f, Good(f), NEW i \in DOMAIN f, ~f[i].default
    PROVE  Good(RemoveAt(f, i))
<1> DEFINE g == RemoveAt(f, i)
           At(k) == IF k < i THEN k ELSE k + 1
<1>1. f \in Seq(ProjectRecord) /\ Len(f) \in Nat /\ DOMAIN f = 1 .. Len(f) /\ i \in 1 .. Len(f)
  BY DEF Good
<1>2. g \in Seq(ProjectRecord) /\ Len(g) = Len(f) - 1
      /\ \A k \in 1 .. Len(f) - 1 : g[k] = IF k < i THEN f[k] ELSE f[k + 1]
  BY <1>1, RemovedAt
<1> HIDE DEF g
<1>3. DOMAIN g = 1 .. Len(f) - 1
  BY <1>1, <1>2
<1>4. \A k \in DOMAIN g : At(k) \in DOMAIN f /\ At(k) # i /\ g[k] = f[At(k)]
  BY <1>1, <1>2, <1>3
<1>5. \A j, k \in DOMAIN g : At(j) = At(k) => j = k
  BY <1>1, <1>3
<1>6. \A m \in DOMAIN f : m # i => \E k \in DOMAIN g : At(k) = m
  <2> TAKE m \in DOMAIN f
  <2>1. CASE m < i
    <3>1. m \in DOMAIN g /\ At(m) = m
      BY <1>1, <1>3, <2>1
    <3> QED BY <3>1
  <2>2. CASE m > i
    <3>1. m - 1 \in DOMAIN g /\ At(m - 1) = m
      BY <1>1, <1>3, <2>2
    <3> QED BY <3>1
  <2> QED BY <1>1, <2>1, <2>2
<1> HIDE DEF At
<1>7. \A k \in DOMAIN g : GoodProject(g[k])
  BY <1>4 DEF Good
<1>8. UniqueIds(g) /\ UniqueIdentities(g)
  BY <1>4, <1>5 DEF Good, UniqueIds, UniqueIdentities
<1>9. OneDefault(g)
  <2>1. PICK d \in DOMAIN f : /\ f[d].default /\ ~f[d].archived
                              /\ \A n \in DOMAIN f : f[n].default => n = d
    BY <1>1 DEF Good, OneDefault
  <2>2. PICK k \in DOMAIN g : At(k) = d
    BY <1>6, <2>1
  <2> QED BY <1>4, <1>5, <2>1, <2>2 DEF OneDefault
<1>10. Good(g)
  BY <1>2, <1>7, <1>8, <1>9 DEF Good
<1> QED BY <1>10 DEF g

-----------------------------------------------------------------------------
\* The first project there is with one property, when there is only one.
LEMMA FirstOfOne ==
    ASSUME NEW S, S \subseteq Nat, S # {}, \A m, n \in S : m = n
    PROVE  (CHOOSE m \in S : \A k \in S : m <= k) \in S
<1>1. PICK n \in S : TRUE
  OBVIOUS
<1>2. \A k \in S : n <= k
  BY <1>1
<1> QED BY <1>1, <1>2

\* A project as it is first connected from disk.
FreshProject(p, id, default) == [LocalProject(p, id) EXCEPT !.default = default]

\* What such a project is like.
FreshIs(q, p, id, default) ==
    /\ q \in ProjectRecord /\ GoodProject(q) /\ q.id = id /\ q.path = p /\ q.origin = Origin[p]
    /\ q.github = None /\ q.default = default /\ q.archived = FALSE

\* A path is connected as such a project.
LEMMA LocalProjectIs ==
    ASSUME NEW p \in Path, EveryPathNamed, NEW id \in ProjectId, NEW default \in BOOLEAN,
           id = <<"local", p>> \/ (id = <<"builtin", p>> /\ p \in Builtin)
    PROVE  FreshIs(FreshProject(p, id, default), p, id, default)
<1> DEFINE q == FreshProject(p, id, default)
<1>1. /\ q.id = id /\ q.path = p /\ q.origin = Origin[p] /\ q.github = None
      /\ q.named = TRUE /\ q.default = default /\ q.archived = FALSE /\ q.state = "ready"
      /\ q.builtin = (id[1] = "builtin")
  BY DEF FreshProject, LocalProject, EveryPathNamed
<1>2. q \in ProjectRecord
  <2>1. Origin[p] \in Repo \cup {None} /\ p # None
    BY CatalogAssumption
  <2>2. (Origin[p] # None \/ p \in WellNamed) \in BOOLEAN /\ (id[1] = "builtin") \in BOOLEAN
    OBVIOUS
  <2> QED BY <2>1, <2>2 DEF FreshProject, LocalProject, ProjectRecord, States
<1> HIDE DEF q
<1>3. p # None
  BY CatalogAssumption
<1>4. q.builtin <=> q.id \in {<<"builtin", b>> : b \in Builtin}
  <2>1. CASE id = <<"local", p>>
    <3>1. id[1] = "local"
      BY <2>1
    <3>2. id \notin {<<"builtin", b>> : b \in Builtin}
      BY <2>1
    <3> QED BY <1>1, <3>1, <3>2
  <2>2. CASE id = <<"builtin", p>> /\ p \in Builtin
    <3>1. id[1] = "builtin"
      BY <2>2
    <3> QED BY <1>1, <2>2, <3>1
  <2> QED BY <2>1, <2>2
<1>5. GoodProject(q)
  BY <1>1, <1>3, <1>4 DEF GoodProject
<1>6. FreshIs(q, p, id, default)
  BY <1>1, <1>2, <1>5 DEF FreshIs
<1> QED BY <1>6 DEF q

\* The list of the first start is good.
LEMMA BuiltinsAreGood == ASSUME OneCloneEach, EveryPathNamed PROVE Good(Builtins)
<1> DEFINE ps == SetToSeq(Builtin)
           N == Cardinality(Builtin)
<1>1. N \in Nat /\ ps \in [1 .. N -> Builtin] /\ IsInjective(ps)
  <2>1. PICK n \in Nat : ExistsBijection(1 .. n, Builtin)
    BY FS_NatBijection, CatalogAssumption
  <2>2. n = N
    BY <2>1, FS_CountingElements
  <2>3. \E f \in [1 .. N -> Builtin] : IsInjective(f)
    BY <2>1, <2>2 DEF ExistsBijection, Bijection, Injection, IsInjective
  <2> QED BY <2>1, <2>2, <2>3 DEF SetToSeq
<1>2. DOMAIN ps = 1 .. N
  BY <1>1
<1>3. /\ DOMAIN Builtins = 1 .. N /\ Builtins = [n \in 1 .. N |-> Builtins[n]]
      /\ \A n \in 1 .. N : Builtins[n] = FreshProject(ps[n], <<"builtin", ps[n]>>, n = 1)
  BY <1>2 DEF Builtins, FreshProject
<1> HIDE DEF ps, N
<1> DEFINE f == Builtins
<1> HIDE DEF f
<1>4. DOMAIN f = 1 .. N
  BY <1>3 DEF f
<1>5. ASSUME NEW n \in 1 .. N
      PROVE  /\ f[n] \in ProjectRecord /\ GoodProject(f[n])
             /\ f[n].id = <<"builtin", ps[n]>> /\ ps[n] \in Path
             /\ Identity(f[n]) = Origin[ps[n]] /\ Origin[ps[n]] # None
             /\ f[n].default = (n = 1) /\ f[n].archived = FALSE
  <2> DEFINE first == n = 1
             id == <<"builtin", ps[n]>>
             q == FreshProject(ps[n], id, first)
  <2>1. ps[n] \in Builtin /\ ps[n] \in Path /\ Origin[ps[n]] # None
    BY <1>1, CatalogAssumption
  <2>2. id \in ProjectId /\ first \in BOOLEAN
    BY <2>1 DEF ProjectId
  <2>3. f[n] = q /\ id = <<"builtin", ps[n]>>
    BY <1>3 DEF f
  <2> HIDE DEF id, first
  <2>4. /\ q \in ProjectRecord /\ GoodProject(q)
        /\ q.id = id /\ q.path = ps[n] /\ q.origin = Origin[ps[n]]
        /\ q.github = None /\ q.default = first /\ q.archived = FALSE
    <3> DEFINE p == ps[n]
    <3>1. p \in Path /\ (id = <<"local", p>> \/ (id = <<"builtin", p>> /\ p \in Builtin))
      BY <2>1, <2>3
    <3> HIDE DEF p
    <3>2. FreshIs(FreshProject(p, id, first), p, id, first)
      BY <2>2, <3>1, LocalProjectIs
    <3> QED BY <3>2 DEF p, FreshIs
  <2> HIDE DEF q
  <2>5. Identity(f[n]) = Origin[ps[n]]
    BY <2>3, <2>4 DEF Identity
  <2>6. f[n].default = (n = 1)
    BY <2>3, <2>4 DEF first
  <2> QED BY <2>1, <2>3, <2>4, <2>5, <2>6
<1>6. f \in Seq(ProjectRecord)
  <2>1. f = [n \in 1 .. N |-> f[n]]
    BY <1>3 DEF f
  <2>2. \A n \in 1 .. N : f[n] \in ProjectRecord
    BY <1>5
  <2> QED BY <1>1, <2>1, <2>2
<1>7. UniqueIds(f)
  <2>1. ASSUME NEW m \in 1 .. N, NEW n \in 1 .. N, f[m].id = f[n].id PROVE m = n
    <3>1. <<"builtin", ps[m]>> = <<"builtin", ps[n]>>
      <4>1. f[m].id = <<"builtin", ps[m]>> /\ f[n].id = <<"builtin", ps[n]>>
        BY <1>5
      <4> QED BY <2>1, <4>1
    <3>2. ps[m] = ps[n]
      BY <3>1
    <3> QED BY <1>2, <3>2, <1>1 DEF IsInjective
  <2> QED BY <1>4, <2>1 DEF UniqueIds
<1>8. UniqueIdentities(f)
  <2>1. ASSUME NEW m \in 1 .. N, NEW n \in 1 .. N, Identity(f[m]) = Identity(f[n]) PROVE m = n
    <3>1. ps[m] = ps[n]
      <4>1. /\ Identity(f[m]) = Origin[ps[m]] /\ Identity(f[n]) = Origin[ps[n]]
            /\ ps[m] \in Path /\ ps[n] \in Path /\ Origin[ps[m]] # None
        BY <1>5
      <4> QED BY <2>1, <4>1 DEF OneCloneEach
    <3> QED BY <1>1, <1>2, <3>1 DEF IsInjective
  <2> QED BY <1>4, <2>1 DEF UniqueIdentities
<1>9. OneDefault(f)
  <2>1. f # <<>> => 1 \in DOMAIN f
    BY <1>1, <1>4, <1>6
  <2> QED BY <1>4, <1>5, <2>1 DEF OneDefault
<1>10. Good(f)
  BY <1>4, <1>5, <1>6, <1>7, <1>8, <1>9 DEF Good
<1> QED BY <1>10 DEF f

\* The catalog starts with a list that it saved, or with its first one.
LEMMA StartCatalogHolds ==
    ASSUME OneCloneEach, EveryPathNamed, CatalogInv, StartCatalog PROVE CatalogInv'
<1>1. CASE ~saved
  BY <1>1, BuiltinsAreGood DEF StartCatalog, CatalogInv
<1>2. CASE saved
  BY <1>2, GoodIsAccepted DEF StartCatalog, CatalogInv
<1> QED BY <1>1, <1>2 DEF CatalogInv

-----------------------------------------------------------------------------
\* A path is connected to the project of its repository, or as a project of its own.
LEMMA ConnectHolds ==
    ASSUME OneCloneEach, EveryPathNamed, CatalogInv, running = "up",
           NEW p \in Path, Connect(p)
    PROVE  CatalogInv'
<1> DEFINE matching == {n \in Position : Origin[p] # None /\ projects[n].github = Origin[p]}
<1>1. /\ Good(projects) /\ ~Connected(p) /\ p # None /\ Origin[p] \in Repo \cup {None}
      /\ DOMAIN projects = Position
      /\ \A n \in Position : projects[n] \in ProjectRecord /\ GoodProject(projects[n])
  BY CatalogAssumption DEF CatalogInv, Connect, Good, Position
<1>2. CASE matching # {}
  <2> DEFINE n == CHOOSE m \in matching : \A k \in matching : m <= k
             q == [projects[n] EXCEPT !.path = p, !.origin = Origin[p]]
  <2>1. n \in matching
    <3>1. \A m, k \in matching : m = k
      BY <1>1, CatalogAssumption DEF Good, UniqueIdentities, Identity
    <3>2. matching \subseteq Nat
      BY DEF Position
    <3> HIDE DEF matching
    <3> QED BY <1>2, <3>1, <3>2, FirstOfOne
  <2>2. Save([projects EXCEPT ![n].path = p, ![n].origin = Origin[p]])
    BY <1>2 DEF Connect
  <2> HIDE DEF n
  <2>3. /\ n \in Position /\ Origin[p] # None /\ projects[n].github = Origin[p]
        /\ projects[n] \in ProjectRecord /\ GoodProject(projects[n]) /\ projects[n].path # p
    BY <1>1, <2>1 DEF Connected
  <2>4. [projects EXCEPT ![n].path = p, ![n].origin = Origin[p]] = [projects EXCEPT ![n] = q]
    BY <1>1, <2>3 DEF ProjectRecord
  <2>5. /\ q \in ProjectRecord /\ q.id = projects[n].id /\ q.path = p /\ q.origin = Origin[p]
        /\ q.github = projects[n].github /\ q.named = projects[n].named
        /\ q.builtin = projects[n].builtin
        /\ q.default = projects[n].default /\ q.archived = projects[n].archived
    BY <1>1, <2>3 DEF ProjectRecord
  <2> HIDE DEF q
  <2>6. projects[n].path # None => FALSE
    BY <1>1, <2>3, CatalogAssumption DEF ProjectRecord, GoodProject, OneCloneEach
  <2>7. GoodProject(q)
    <3>1. \A b \in Builtin : q.id = <<"builtin", b>> => q.path = b
      BY <2>3, <2>5, <2>6, CatalogAssumption DEF GoodProject
    <3>2. \A b \in Path : q.id = <<"local", b>> => q.path = b
      BY <2>3, <2>5, <2>6, CatalogAssumption DEF GoodProject, OneCloneEach
    <3>3. Identity(q) = Identity(projects[n])
      BY <2>3, <2>5 DEF Identity
    <3> QED BY <1>1, <2>3, <2>5, <3>1, <3>2, <3>3 DEF GoodProject
  <2>8. Identity(q) = Identity(projects[n])
    BY <2>3, <2>5 DEF Identity
  <2>9. Good([projects EXCEPT ![n] = q])
    BY <1>1, <2>3, <2>5, <2>7, <2>8, ReplacedIsGood
  <2> QED BY <2>2, <2>4, <2>9, SaveHolds
<1>3. CASE matching = {}
  <2> DEFINE id == <<"local", p>>
             first == projects = <<>>
             q == FreshProject(p, id, first)
  <2>1. Save(Append(projects, q))
    BY <1>3 DEF Connect, First, FreshProject
  <2>2. id \in ProjectId /\ first \in BOOLEAN
    BY DEF ProjectId
  <2> HIDE DEF id, first
  <2>3. FreshIs(q, p, id, first)
    BY <2>2, LocalProjectIs DEF id
  <2> HIDE DEF q
  <2>4. ASSUME NEW n \in DOMAIN projects
        PROVE  /\ projects[n].id # q.id
               /\ Identity(q) # None => Identity(projects[n]) # Identity(q)
    <3>1. /\ projects[n] \in ProjectRecord /\ GoodProject(projects[n]) /\ projects[n].path # p
          /\ Origin[p] # None => projects[n].github # Origin[p]
      BY <1>1, <1>3 DEF Connected
    <3>2. projects[n].id # id
      BY <3>1 DEF id, GoodProject
    <3>3. Origin[p] # None => Identity(projects[n]) # Origin[p]
      BY <3>1, CatalogAssumption DEF Identity, GoodProject, OneCloneEach, ProjectRecord
    <3>4. Identity(q) = Origin[p] /\ q.id = id
      BY <2>3 DEF FreshIs, Identity
    <3> QED BY <3>2, <3>3, <3>4
  <2>5. Good(Append(projects, q))
    BY <1>1, <2>3, <2>4, AddedIsGood DEF FreshIs, first
  <2> QED BY <2>1, <2>5, SaveHolds
<1> QED BY <1>2, <1>3

\* A repository is connected to the project it is known to, or as one of its own.
LEMMA ConnectGitHubHolds ==
    ASSUME CatalogInv, running = "up", NEW r \in Repo, ConnectGitHub(r)
    PROVE  CatalogInv'
<1>1. /\ Good(projects) /\ r # None /\ DOMAIN projects = Position
      /\ \A n \in Position : projects[n] \in ProjectRecord /\ GoodProject(projects[n])
  BY CatalogAssumption DEF CatalogInv, Good, Position
<1>2. CASE Known(r) # {}
  <2> DEFINE n == CHOOSE m \in Known(r) : \A k \in Known(r) : m <= k
             q == [projects[n] EXCEPT !.github = r, !.state = "ready", !.named = TRUE,
                                      !.archived = FALSE]
  <2>1. n \in Known(r)
    <3>1. \A m, k \in Known(r) : m = k
      BY <1>1 DEF Known, Good, UniqueIdentities
    <3>2. Known(r) \subseteq Nat
      BY DEF Known, Position
    <3> QED BY <1>2, <3>1, <3>2, FirstOfOne
  <2>2. Save([projects EXCEPT ![n].github = r, ![n].state = "ready", ![n].named = TRUE,
                              ![n].archived = FALSE])
    BY <1>2 DEF ConnectGitHub
  <2> HIDE DEF n
  <2>3. /\ n \in Position /\ Identity(projects[n]) = r
        /\ projects[n] \in ProjectRecord /\ GoodProject(projects[n])
    BY <1>1, <2>1 DEF Known
  <2>4. [projects EXCEPT ![n].github = r, ![n].state = "ready", ![n].named = TRUE,
                         ![n].archived = FALSE]
          = [projects EXCEPT ![n] = q]
    BY <1>1, <2>3 DEF ProjectRecord
  <2>5. /\ q \in ProjectRecord /\ q.id = projects[n].id /\ q.path = projects[n].path
        /\ q.origin = projects[n].origin /\ q.github = r /\ q.named = TRUE
        /\ q.builtin = projects[n].builtin /\ q.default = projects[n].default
        /\ q.archived = FALSE
    BY <1>1, <2>3 DEF ProjectRecord, States
  <2> HIDE DEF q
  <2>6. Identity(q) = Identity(projects[n])
    BY <1>1, <2>3, <2>5 DEF Identity
  <2>7. GoodProject(q)
    <3>1. \A b \in Path : q.id = <<"local", b>> =>
             q.path = b \/ (q.path = None /\ q.github = Origin[b])
      BY <1>1, <2>3, <2>5, CatalogAssumption DEF GoodProject, Identity
    <3> QED BY <1>1, <2>3, <2>5, <2>6, <3>1 DEF GoodProject, Identity
  <2>8. Good([projects EXCEPT ![n] = q])
    BY <1>1, <2>3, <2>5, <2>6, <2>7, ReplacedIsGood
  <2> QED BY <2>2, <2>4, <2>8, SaveHolds
<1>3. CASE Known(r) = {}
  <2> DEFINE first == projects = <<>>
             q == [GitHubProject(r) EXCEPT !.default = first]
             id == <<"github", r>>
  <2>1. Save(Append(projects, q))
    BY <1>3 DEF ConnectGitHub, First
  <2>2. id \in ProjectId /\ first \in BOOLEAN
    BY DEF ProjectId
  <2>3. /\ q.id = id /\ q.path = None /\ q.origin = None /\ q.named = TRUE /\ q.github = r
        /\ q.default = first /\ q.archived = FALSE /\ q.builtin = FALSE
    BY DEF GitHubProject
  <2>4. q \in ProjectRecord
    <3> HIDE DEF id, first
    <3>1. GitHubProject(r).id = id
      BY DEF GitHubProject, id
    <3> QED BY <2>2, <3>1 DEF GitHubProject, ProjectRecord, States
  <2> HIDE DEF q, first
  <2>5. \A b : id # <<"builtin", b>> /\ id # <<"local", b>>
    OBVIOUS
  <2>6. \A s \in Repo : id = <<"github", s>> => s = r
    OBVIOUS
  <2> HIDE DEF id
  <2>7. GoodProject(q)
    BY <1>1, <2>3, <2>5, <2>6 DEF GoodProject, Identity
  <2>8. ASSUME NEW n \in DOMAIN projects
        PROVE  /\ projects[n].id # q.id
               /\ Identity(q) # None => Identity(projects[n]) # Identity(q)
    <3>1. Identity(projects[n]) # r /\ GoodProject(projects[n])
      BY <1>1, <1>3 DEF Known
    <3> QED BY <1>1, <2>3, <3>1 DEF GoodProject, Identity, id
  <2>9. Good(Append(projects, q))
    BY <1>1, <2>3, <2>4, <2>7, <2>8, AddedIsGood DEF first
  <2> QED BY <2>1, <2>9, SaveHolds
<1> QED BY <1>2, <1>3

\* A clone is disconnected: its project goes, or keeps its repository.
LEMMA DisconnectClone ==
    ASSUME CatalogInv, running = "up", NEW n \in Position, Disconnect(n) PROVE CatalogInv'
<1>1. /\ Good(projects) /\ DOMAIN projects = Position /\ ~projects[n].builtin
      /\ ~projects[n].default /\ projects[n] \in ProjectRecord /\ GoodProject(projects[n])
  BY DEF CatalogInv, Good, Position, Disconnect
<1>2. CASE projects[n].github = None
  <2>1. Save(RemoveAt(projects, n))
    BY <1>2 DEF Disconnect
  <2> QED BY <1>1, <2>1, TakenIsGood, SaveHolds
<1>3. CASE projects[n].github # None
  <2> DEFINE q == [projects[n] EXCEPT !.path = None, !.origin = None]
  <2>1. Save([projects EXCEPT ![n].path = None, ![n].origin = None])
    BY <1>3 DEF Disconnect
  <2>2. [projects EXCEPT ![n].path = None, ![n].origin = None] = [projects EXCEPT ![n] = q]
    BY <1>1 DEF ProjectRecord
  <2>3. /\ q \in ProjectRecord /\ q.id = projects[n].id /\ q.path = None /\ q.origin = None
        /\ q.github = projects[n].github /\ q.named = projects[n].named
        /\ q.builtin = projects[n].builtin /\ q.default = projects[n].default
        /\ q.archived = projects[n].archived
    BY <1>1 DEF ProjectRecord
  <2> HIDE DEF q
  <2>4. Identity(q) = Identity(projects[n])
    BY <1>3, <2>3 DEF Identity
  <2>5. GoodProject(q)
    <3>1. \A b \in Path : q.id = <<"local", b>> => q.github = Origin[b]
      BY <1>1, <1>3, <2>3, CatalogAssumption DEF GoodProject
    <3>2. \A b \in Builtin : q.id # <<"builtin", b>>
      BY <1>1, <2>3 DEF GoodProject
    <3> QED BY <1>1, <1>3, <2>3, <2>4, <3>1, <3>2 DEF GoodProject
  <2>6. Good([projects EXCEPT ![n] = q])
    BY <1>1, <2>3, <2>4, <2>5, ReplacedIsGood
  <2> QED BY <2>1, <2>2, <2>6, SaveHolds
<1> QED BY <1>2, <1>3

\* A repository is disconnected: its project goes, or keeps its clone.
LEMMA DisconnectGitHubHolds ==
    ASSUME CatalogInv, running = "up", NEW n \in Position, DisconnectGitHub(n) PROVE CatalogInv'
<1>1. /\ Good(projects) /\ DOMAIN projects = Position
      /\ projects[n].github # None /\ ~(projects[n].default /\ projects[n].path = None)
      /\ projects[n] \in ProjectRecord /\ GoodProject(projects[n])
  BY DEF CatalogInv, Good, Position, DisconnectGitHub, Removable
<1>2. CASE projects[n].path = None
  <2>1. Save(RemoveAt(projects, n))
    BY <1>2 DEF DisconnectGitHub
  <2> QED BY <1>1, <1>2, <2>1, TakenIsGood, SaveHolds
<1>3. CASE projects[n].path # None
  <2> DEFINE q == [projects[n] EXCEPT !.github = None, !.state = "ready"]
  <2>1. Save([projects EXCEPT ![n].github = None, ![n].state = "ready"])
    BY <1>3 DEF DisconnectGitHub
  <2>2. [projects EXCEPT ![n].github = None, ![n].state = "ready"] = [projects EXCEPT ![n] = q]
    BY <1>1 DEF ProjectRecord
  <2>3. /\ q \in ProjectRecord /\ q.id = projects[n].id /\ q.path = projects[n].path
        /\ q.origin = projects[n].origin /\ q.github = None /\ q.named = projects[n].named
        /\ q.builtin = projects[n].builtin /\ q.default = projects[n].default
        /\ q.archived = projects[n].archived
    BY <1>1 DEF ProjectRecord, States
  <2> HIDE DEF q
  <2>4. Identity(q) = Identity(projects[n])
    BY <1>1, <1>3, <2>3 DEF Identity, GoodProject
  <2>5. GoodProject(q)
    BY <1>1, <1>3, <2>3, <2>4 DEF GoodProject
  <2>6. Good([projects EXCEPT ![n] = q])
    BY <1>1, <2>3, <2>4, <2>5, ReplacedIsGood
  <2> QED BY <2>1, <2>2, <2>6, SaveHolds
<1> QED BY <1>2, <1>3

\* Only a project that is not the default is archived, and any is restored.
LEMMA ArchiveHolds ==
    ASSUME CatalogInv, running = "up", NEW n \in Position, Archive(n) \/ Restore(n)
    PROVE  CatalogInv'
<1>1. /\ Good(projects) /\ DOMAIN projects = Position
      /\ projects[n] \in ProjectRecord /\ GoodProject(projects[n])
  BY DEF CatalogInv, Good, Position
<1>2. PICK a \in BOOLEAN :
        /\ Save([projects EXCEPT ![n].archived = a])
        /\ a => ~projects[n].default
  BY DEF Archive, Restore
<1> DEFINE q == [projects[n] EXCEPT !.archived = a]
<1>3. [projects EXCEPT ![n].archived = a] = [projects EXCEPT ![n] = q]
  BY <1>1 DEF ProjectRecord
<1>4. /\ q \in ProjectRecord /\ q.id = projects[n].id /\ q.path = projects[n].path
      /\ q.origin = projects[n].origin /\ q.github = projects[n].github
      /\ q.named = projects[n].named /\ q.builtin = projects[n].builtin
      /\ q.default = projects[n].default /\ q.archived = a
  BY <1>1 DEF ProjectRecord
<1> HIDE DEF q
<1>5. GoodProject(q) /\ Identity(q) = Identity(projects[n])
  BY <1>1, <1>4 DEF GoodProject, Identity
<1>6. Good([projects EXCEPT ![n] = q])
  BY <1>1, <1>2, <1>4, <1>5, ReplacedIsGood
<1> QED BY <1>2, <1>3, <1>6, SaveHolds

\* A list of the same projects, of whatever state and default.
LEMMA SameProjectsAreGood ==
    ASSUME NEW f, Good(f), NEW g, DOMAIN g = DOMAIN f, g \in Seq(ProjectRecord), OneDefault(g),
           \A k \in DOMAIN f :
              /\ g[k].id = f[k].id /\ g[k].path = f[k].path /\ g[k].origin = f[k].origin
              /\ g[k].github = f[k].github /\ g[k].named = f[k].named
              /\ g[k].builtin = f[k].builtin
    PROVE  Good(g)
<1>1. \A k \in DOMAIN f : GoodProject(g[k]) /\ Identity(g[k]) = Identity(f[k])
  BY DEF Good, GoodProject, Identity
<1>2. UniqueIds(g) /\ UniqueIdentities(g)
  BY <1>1 DEF Good, UniqueIds, UniqueIdentities
<1> QED BY <1>1, <1>2 DEF Good

\* The default moves to another project.
LEMMA MakeDefaultHolds ==
    ASSUME CatalogInv, running = "up", NEW n \in Position, MakeDefault(n) PROVE CatalogInv'
<1> DEFINE g == [k \in Position |->
                   IF k = n THEN [projects[k] EXCEPT !.default = TRUE, !.archived = FALSE]
                   ELSE [projects[k] EXCEPT !.default = FALSE]]
<1>1. Save(g)
  BY DEF MakeDefault
<1> HIDE DEF g
<1>2. /\ Good(projects) /\ DOMAIN projects = Position /\ Save(g)
      /\ \A k \in Position : projects[k] \in ProjectRecord
      /\ Len(projects) \in Nat
  BY <1>1 DEF CatalogInv, Good, Position
<1>3. ASSUME NEW k \in Position
      PROVE  /\ g[k] \in ProjectRecord
             /\ g[k].id = projects[k].id /\ g[k].path = projects[k].path
             /\ g[k].origin = projects[k].origin /\ g[k].github = projects[k].github
             /\ g[k].named = projects[k].named /\ g[k].builtin = projects[k].builtin
             /\ k = n => g[k].default /\ ~g[k].archived
             /\ k # n => ~g[k].default
  <2>1. projects[k] \in ProjectRecord
    BY <1>2
  <2>2. CASE k = n
    BY <2>1, <2>2 DEF g, ProjectRecord
  <2>3. CASE k # n
    BY <2>1, <2>3 DEF g, ProjectRecord
  <2> QED BY <2>2, <2>3
<1>4. DOMAIN g = Position /\ g \in Seq(ProjectRecord)
  <2>1. g = [k \in Position |-> g[k]]
    BY DEF g
  <2>2. g = [k \in 1 .. Len(projects) |-> g[k]]
    BY <2>1 DEF Position
  <2> QED BY <1>2, <1>3, <2>1, <2>2 DEF Position
<1>5. OneDefault(g)
  BY <1>3, <1>4 DEF OneDefault
<1>6. Good(g)
  BY <1>2, <1>3, <1>4, <1>5, SameProjectsAreGood
<1> QED BY <1>2, <1>6, SaveHolds

\* What GitHub says of an installation changes no more than a state.
LEMMA ReadinessHolds ==
    ASSUME CatalogInv, running = "up", NEW i \in Installation, NEW s \in States,
           UpdateGitHubReadiness(i, s)
    PROVE  CatalogInv'
<1> DEFINE Bound(q) == q.github # None /\ InstallationOf[q.github] = i
           g == [n \in Position |-> IF Bound(projects[n]) THEN [projects[n] EXCEPT !.state = s]
                                    ELSE projects[n]]
<1>1. /\ Good(projects) /\ DOMAIN projects = Position /\ Save(g)
      /\ \A k \in Position : projects[k] \in ProjectRecord
      /\ Len(projects) \in Nat
  BY DEF CatalogInv, Good, Position, UpdateGitHubReadiness
<1>2. ASSUME NEW k \in Position
      PROVE  /\ g[k] \in ProjectRecord
             /\ g[k].id = projects[k].id /\ g[k].path = projects[k].path
             /\ g[k].origin = projects[k].origin /\ g[k].github = projects[k].github
             /\ g[k].named = projects[k].named /\ g[k].builtin = projects[k].builtin
             /\ g[k].default = projects[k].default /\ g[k].archived = projects[k].archived
  <2>1. projects[k] \in ProjectRecord
    BY <1>1
  <2>2. CASE Bound(projects[k])
    BY <2>1, <2>2 DEF ProjectRecord
  <2>3. CASE ~Bound(projects[k])
    BY <2>1, <2>3
  <2> QED BY <2>2, <2>3
<1>3. DOMAIN g = Position /\ g \in Seq(ProjectRecord)
  BY <1>1, <1>2 DEF Position
<1> HIDE DEF g
<1>4. OneDefault(g)
  <2>1. g # <<>> => projects # <<>>
    BY <1>1, <1>3 DEF Good
  <2> QED BY <1>1, <1>2, <1>3, <2>1 DEF OneDefault, Good
<1>5. Good(g)
  BY <1>1, <1>2, <1>3, <1>4, SameProjectsAreGood
<1> QED BY <1>1, <1>5, SaveHolds

\* Every step keeps the invariant.
LEMMA CatalogNextHolds ==
    ASSUME OneCloneEach, EveryPathNamed
    PROVE  CatalogInv /\ [CatalogNext]_catalogVars => CatalogInv'
<1> SUFFICES ASSUME CatalogInv, [CatalogNext]_catalogVars PROVE CatalogInv'
  OBVIOUS
<1>1. CASE StartCatalog
  BY <1>1, StartCatalogHolds
<1>2. CASE StopCatalog \/ UNCHANGED catalogVars
  BY <1>2 DEF StopCatalog, catalogVars, CatalogInv
<1>3. ASSUME NEW p \in Path, Connect(p) PROVE CatalogInv'
  <2>1. running = "up"
    BY <1>3 DEF Connect, Save
  <2> QED BY <1>3, <2>1, ConnectHolds
<1>4. ASSUME NEW r \in Repo, ConnectGitHub(r) PROVE CatalogInv'
  <2>1. running = "up"
    BY <1>4 DEF ConnectGitHub, Save
  <2> QED BY <1>4, <2>1, ConnectGitHubHolds
<1>5. ASSUME NEW n \in Position,
             Disconnect(n) \/ DisconnectGitHub(n) \/ Archive(n) \/ Restore(n) \/ MakeDefault(n)
      PROVE CatalogInv'
  <2>1. running = "up"
    BY <1>5 DEF Disconnect, DisconnectGitHub, Archive, Restore, MakeDefault, Save
  <2> QED BY <1>5, <2>1, DisconnectClone, DisconnectGitHubHolds, ArchiveHolds, MakeDefaultHolds
<1>6. ASSUME NEW i \in Installation, NEW s \in States, UpdateGitHubReadiness(i, s)
      PROVE CatalogInv'
  <2>1. running = "up"
    BY <1>6 DEF UpdateGitHubReadiness, Save
  <2> QED BY <1>6, <2>1, ReadinessHolds
<1> QED BY <1>1, <1>2, <1>3, <1>4, <1>5, <1>6 DEF CatalogNext

\* Whatever is connected, disconnected, archived or made the default, the list that is saved
\* is one that the next start accepts: load never refuses what the catalog itself has
\* written, on a disk without second clones and with readable names.
THEOREM SavedCanBeLoaded ==
    ASSUME OneCloneEach, EveryPathNamed PROVE CatalogSpec => []Reloads
<1>1. CatalogInit => CatalogInv
  BY DEF CatalogInit, CatalogInv
<1>2. CatalogInv /\ [CatalogNext]_catalogVars => CatalogInv'
  BY CatalogNextHolds
<1>3. CatalogInv => Reloads
  BY GoodIsAccepted DEF CatalogInv, Reloads
<1> QED BY <1>1, <1>2, <1>3, PTL DEF CatalogSpec

-----------------------------------------------------------------------------
(***************************************************************************)
(* Compilation routing (CompilationRouting).  The detector and the policy  *)
(* agree: what a detection has seen decides kind, targets and artifacts in *)
(* the one way the policy takes.                                           *)
(***************************************************************************)
\* The files every detection reads.
BaseFiles == {SitePackage, SiteLock, Pubspec, PubspecLock}

\* The files that tell the other platforms.
Markers == {Marker[t] : t \in DOMAIN Marker}

\* What a detection may have seen: the markers are read after the Android one is
\* chosen, and no file is called NoMarker.
Readable(r) ==
    /\ r.seen \subseteq BaseFiles \cup Markers \cup {r.marker}
    /\ NoMarker \notin r.seen
    /\ r.marker \in Gradle \cup {NoMarker}
    /\ r.at \in 1 .. 5 => r.seen \subseteq BaseFiles

\* A detection under way.
ReadingOK ==
    /\ DOMAIN reading = DOMAIN NotReading /\ reading.at \in 0 .. 10
    /\ Readable(reading)
    /\ {reading.observed, reading.expires} \subseteq Int
    /\ reading.at # 0 => ValidWindow(reading, reading.observed)

\* The inductive invariant.
RoutingInv == ReadingOK /\ DetectedIsRoutable

\* The files are different ones.
LEMMA MarkerFiles ==
    /\ Markers = {"app/web/index.html", "app/windows/CMakeLists.txt",
                  "app/ios/Runner.xcodeproj/project.pbxproj"}
    /\ DOMAIN Marker = {"flutterWeb", "flutterWindows", "flutterIos"}
    /\ Marker.flutterWeb \in Markers /\ Marker.flutterWindows \in Markers
    /\ Marker.flutterIos \in Markers
    /\ NoMarker \notin Markers \cup BaseFiles \cup Gradle
    /\ {SitePackage, SiteLock} \cap {Pubspec, PubspecLock} = {}
    /\ Markers \cap BaseFiles = {} /\ Gradle \cap BaseFiles = {} /\ Markers \cap Gradle = {}
  BY DEF Marker, Markers, BaseFiles, SitePackage, SiteLock, Pubspec, PubspecLock, Gradle, NoMarker

\* Nothing is detected at the beginning.
LEMMA RoutingInitHolds == RoutingInit => RoutingInv
  BY DEF RoutingInit, RoutingInv, ReadingOK, Readable, DetectedIsRoutable, NotReading, NotDetected

\* A detection starts with an empty list of what it has seen.
LEMMA StartDetectionHolds ==
    ASSUME RoutingInv, NEW observed \in 0 .. LastMinute, NEW expires \in 0 .. LastMinute,
           StartDetection(observed, expires)
    PROVE  RoutingInv'
  BY DEF StartDetection, RoutingInv, ReadingOK, Readable, DetectedIsRoutable, NotReading,
         NotDetected, ValidWindow

\* A read sees the file it reads, if any file more.
LEMMA ReadIs ==
    ASSUME ReadingOK, NEW path, reading.at \in 1 .. 9, Read(path)
    PROVE  /\ DOMAIN reading' = DOMAIN reading
           /\ reading'.at \in {10, reading.at + 1}
           /\ reading'.at = 5 => reading.at = 4
           /\ reading'.seen \in {reading.seen, reading.seen \cup {path}}
           /\ reading'.marker = reading.marker
           /\ reading'.observed = reading.observed /\ reading'.expires = reading.expires
<1>1. PICK r : /\ reading' = After(r) /\ DOMAIN r = DOMAIN reading /\ r.at = reading.at
               /\ r.seen \in {reading.seen, reading.seen \cup {path}}
               /\ r.marker = reading.marker
               /\ r.observed = reading.observed /\ r.expires = reading.expires
  <2>1. CASE reading' = After(reading)
    BY <2>1
  <2>2. CASE reading' = After(Unstable(reading))
    BY <2>2 DEF ReadingOK, Unstable, NotReading
  <2>3. CASE reading' = After([reading EXCEPT !.seen = @ \cup {path}])
    BY <2>3 DEF ReadingOK, NotReading
  <2>4. CASE reading' = After([reading EXCEPT !.seen = @ \cup {path}, !.declares = @ \cup {path}])
    <3> DEFINE r == [reading EXCEPT !.seen = @ \cup {path}, !.declares = @ \cup {path}]
    <3>1. /\ DOMAIN r = DOMAIN reading /\ r.at = reading.at
          /\ r.seen = reading.seen \cup {path} /\ r.marker = reading.marker
          /\ r.observed = reading.observed /\ r.expires = reading.expires
      BY DEF ReadingOK, NotReading
    <3> HIDE DEF r
    <3> QED BY <2>4, <3>1 DEF r
  <2> QED BY <2>1, <2>2, <2>3, <2>4 DEF Read
<1> QED BY <1>1 DEF ReadingOK, After, NotReading

\* A read of a file that is due keeps the invariant.
LEMMA ReadHolds ==
    ASSUME RoutingInv, NEW path, reading.at \in 1 .. 9, Read(path), UNCHANGED detection,
           path \in BaseFiles \cup (IF reading.at > 4 THEN Markers \cup {reading.marker} ELSE {}),
           path # NoMarker
    PROVE  RoutingInv'
<1>1. ReadingOK'
  BY ReadIs DEF RoutingInv, ReadingOK, Readable, ValidWindow
<1> QED BY <1>1 DEF RoutingInv, DetectedIsRoutable, ValidProject, ValidWindow, WellFormed,
                       ArtifactsMatch

\* The next file of the order is due.
LEMMA ReadNextHolds == ASSUME RoutingInv, ReadNext PROVE RoutingInv'
<1>1. reading.at \in 1 .. 4 => ReadOrder[reading.at] \in BaseFiles
  BY DEF ReadOrder, BaseFiles
<1>2. reading.at \in {6, 8, 9} => ReadOrder[reading.at] \in Markers
  BY MarkerFiles DEF ReadOrder
<1> QED BY <1>1, <1>2, ReadHolds, MarkerFiles DEF ReadNext

\* What is seen, without the files of a site, is the rest of it.
LEMMA SplitFiles ==
    ASSUME NEW every, NEW site, NEW own, NEW rest, own \subseteq every, rest \subseteq every,
           every \subseteq site \cup (own \cup rest), site \cap own = {}, rest \cap site = {}
    PROVE  every \ site = own \cup rest
  OBVIOUS

\* What is decided of a reading is what the routing takes.
LEMMA DecideHolds == ASSUME RoutingInv, Decide PROVE RoutingInv'
<1> DEFINE r == reading
<1>1. ReadingOK'
  BY DEF Decide, ReadingOK, Readable, NotReading
<1>2. ASSUME detection'.detected, detection'.targets # {},
             NEW now \in detection'.observed .. detection'.expires - 1
      PROVE  ValidProject(detection', now)
  <2>1. /\ detection' = Detected(r) /\ r.at = 10 /\ Readable(r) /\ ValidWindow(r, r.observed)
        /\ {r.observed, r.expires} \subseteq Int
    BY DEF Decide, RoutingInv, ReadingOK
  <2>2. CASE AstroDetected(r)
    <3>1. detection' = Capability(r, "astro", {"astroWeb"}, {SitePackage, SiteLock})
      BY <1>2, <2>1, <2>2 DEF Detected, NotDetected
    <3>2. ValidWindow(detection', now)
      BY <2>1, <3>1, <1>2 DEF Capability, ValidWindow
    <3> QED BY <3>1, <3>2 DEF Capability, ValidProject, WellFormed, ArtifactsMatch
  <2>3. CASE ~AstroDetected(r)
    <3> DEFINE targets == FlutterTargets(r)
               others == {Marker[t] : t \in targets \ {"flutterAndroid"}}
    <3>1. /\ detection' = Capability(r, "flutter", FlutterTargets(r),
                                     r.seen \ {SitePackage, SiteLock})
          /\ DeclaresFlutter(r)
      BY <1>2, <2>1, <2>3 DEF Detected, NotDetected
    <3>2. {Pubspec, PubspecLock} \subseteq r.seen
      BY <3>1 DEF DeclaresFlutter
    <3>3. others = r.seen \cap Markers
      BY MarkerFiles DEF FlutterTargets, Markers
    <3>4. "flutterAndroid" \in targets <=> r.marker \in r.seen
      BY MarkerFiles DEF FlutterTargets
    <3>5. r.marker \in r.seen => r.marker \in Gradle
      BY <2>1 DEF Readable
    <3>6. r.seen \ {SitePackage, SiteLock}
            = {Pubspec, PubspecLock} \cup others \cup (r.seen \cap {r.marker})
      <4>1. r.seen \subseteq
              {SitePackage, SiteLock, Pubspec, PubspecLock} \cup Markers \cup {r.marker}
        BY <2>1 DEF Readable, BaseFiles
      <4>2. (others \cup (r.seen \cap {r.marker})) \cap {SitePackage, SiteLock} = {}
        BY <3>3, <3>5, MarkerFiles DEF BaseFiles
      <4> HIDE DEF others
      <4> DEFINE rest == others \cup (r.seen \cap {r.marker})
      <4>3. {SitePackage, SiteLock} \cap {Pubspec, PubspecLock} = {}
        BY MarkerFiles
      <4>4. /\ rest \subseteq r.seen /\ rest \cap {SitePackage, SiteLock} = {}
            /\ r.seen \cap (Markers \cup {r.marker}) \subseteq rest
        BY <4>2, <3>3
      <4> HIDE DEF rest
      <4>5. r.seen \subseteq {SitePackage, SiteLock} \cup ({Pubspec, PubspecLock} \cup rest)
        BY <4>1, <4>4
      <4> DEFINE site == {SitePackage, SiteLock}
                 own == {Pubspec, PubspecLock}
      <4>6. /\ own \subseteq r.seen /\ rest \subseteq r.seen /\ rest \cap site = {}
            /\ r.seen \subseteq site \cup (own \cup rest) /\ site \cap own = {}
        BY <4>3, <4>4, <4>5, <3>2
      <4> HIDE DEF site, own
      <4>7. r.seen \ site = own \cup rest
        BY <4>6, SplitFiles
      <4> QED BY <4>7 DEF rest, site, own
    <3>7. ArtifactsMatch(detection')
      <4> HIDE DEF others, targets
      <4>1. /\ detection'.kind = "flutter" /\ detection'.targets = FlutterTargets(r)
            /\ detection'.artifacts = r.seen \ {SitePackage, SiteLock}
        BY <3>1 DEF Capability
      <4>2. CASE r.marker \in r.seen
        BY <4>1, <4>2, <3>4, <3>5, <3>6 DEF ArtifactsMatch, others, targets
      <4>3. CASE r.marker \notin r.seen
        BY <4>1, <4>3, <3>4, <3>6 DEF ArtifactsMatch, others, targets
      <4> QED BY <4>2, <4>3
    <3>8. "astroWeb" \notin FlutterTargets(r)
      BY MarkerFiles DEF FlutterTargets
    <3>9. ValidWindow(detection', now)
      BY <2>1, <3>1, <1>2 DEF Capability, ValidWindow
    <3> QED BY <1>2, <3>1, <3>7, <3>8, <3>9 DEF Capability, ValidProject, WellFormed
  <2> QED BY <2>2, <2>3
<1> QED BY <1>1, <1>2 DEF RoutingInv, DetectedIsRoutable

\* Every step keeps the invariant.
LEMMA RoutingNextHolds == RoutingInv /\ [RoutingNext]_routingVars => RoutingInv'
<1> SUFFICES ASSUME RoutingInv, [RoutingNext]_routingVars PROVE RoutingInv'
  OBVIOUS
<1>1. UNCHANGED <<reading, detection>> => RoutingInv'
  BY DEF RoutingInv, ReadingOK, Readable, DetectedIsRoutable, ValidProject, ValidWindow, WellFormed,
         ArtifactsMatch
<1>2. ASSUME NEW observed \in 0 .. LastMinute, NEW expires \in 0 .. LastMinute,
             StartDetection(observed, expires)
      PROVE RoutingInv'
  BY <1>2, StartDetectionHolds
<1>3. CASE ReadNext
  BY <1>3, ReadNextHolds
<1>4. CASE ChooseMarker
  <2>1. ReadingOK'
    BY <1>4 DEF ChooseMarker, RoutingInv, ReadingOK, Readable, ValidWindow, NotReading
  <2> QED BY <1>4, <2>1 DEF ChooseMarker, RoutingInv, DetectedIsRoutable, ValidProject,
                               ValidWindow, WellFormed, ArtifactsMatch
<1>5. CASE ReadAndroid
  <2>1. CASE reading.marker = NoMarker
    <3>1. reading' = After(reading) /\ Read(Pubspec)
      BY <1>5, <2>1 DEF ReadAndroid, Read
    <3> QED BY <1>5, <3>1, ReadHolds, MarkerFiles DEF ReadAndroid, BaseFiles
  <2>2. CASE reading.marker # NoMarker
    BY <1>5, <2>2, ReadHolds DEF ReadAndroid
  <2> QED BY <2>1, <2>2
<1>6. CASE Decide
  BY <1>6, DecideHolds
<1>7. ASSUME NEW workers \in SUBSET Workers, Probe(workers) PROVE RoutingInv'
  BY <1>1, <1>7 DEF Probe
<1>8. CASE Row
  BY <1>1, <1>8 DEF Row
<1>9. CASE RoutingTick \/ UNCHANGED routingVars
  BY <1>1, <1>9 DEF RoutingTick, routingVars
<1> QED BY <1>2, <1>3, <1>4, <1>5, <1>6, <1>7, <1>8, <1>9 DEF RoutingNext

\* A capability that a detection writes is one the routing accepts as long as it is
\* valid: the detector and the policy agree about kinds, targets and artifacts.
THEOREM EvidenceIsTaken == RoutingSpec => []DetectedIsRoutable
<1>1. RoutingInv => DetectedIsRoutable
  BY DEF RoutingInv
<1> QED BY <1>1, RoutingInitHolds, RoutingNextHolds, PTL DEF RoutingSpec

-----------------------------------------------------------------------------
(***************************************************************************)
(* AI readiness (AiReadiness).  The scanner and the validator agree about  *)
(* the points, the outcomes and the order of the checks.                   *)
(***************************************************************************)
\* The six checks in their order, by name.
LEMMA ChecksInOrder ==
    /\ DOMAIN AI_READINESS_CHECKS = 1 .. 6
    /\ AI_READINESS_CHECKS[1] = "structure" /\ AI_READINESS_CHECKS[2] = "schemas"
    /\ AI_READINESS_CHECKS[3] = "agentGuidance" /\ AI_READINESS_CHECKS[4] = "llmsText"
    /\ AI_READINESS_CHECKS[5] = "sitemap" /\ AI_READINESS_CHECKS[6] = "fastFeedback"
  BY DEF AI_READINESS_CHECKS

\* A check is found at its place.
LEMMA PositionIs ==
    ASSUME NEW n \in 1 .. 6 PROVE CheckPosition(AI_READINESS_CHECKS[n]) = n
<1>1. \A m \in 1 .. 6 : AI_READINESS_CHECKS[m] = AI_READINESS_CHECKS[n] => m = n
  BY ChecksInOrder
<1>2. n \in DOMAIN AI_READINESS_CHECKS
  BY ChecksInOrder
<1> QED BY <1>1, <1>2, ChecksInOrder DEF CheckPosition

\* What a check earns agrees with its outcome.
LEMMA OutcomesMatch ==
    ASSUME NEW facts, NEW id \in {"structure", "schemas", "agentGuidance", "llmsText", "sitemap",
                                  "fastFeedback"}
    PROVE  OutcomeMatchesPoints([id |-> id, outcome |-> Outcome(id, facts),
                                 earned |-> EarnedPoints(facts)[id]])
<1> DEFINE earned == EarnedPoints(facts)[id]
           c == [id |-> id, outcome |-> Outcome(id, facts), earned |-> earned]
<1>1. earned \in Int /\ 0 <= earned /\ earned <= WEIGHTS[id] /\ WEIGHTS[id] \in Nat \ {0}
  BY DEF EarnedPoints, Points, WEIGHTS
<1>2. id = "sitemap" /\ "web" \notin facts => earned = 0
  BY DEF EarnedPoints
<1>3. c.id = id /\ c.outcome = Outcome(id, facts) /\ c.earned = earned
  OBVIOUS
<1> HIDE DEF c
<1>4. CASE id = "sitemap" /\ "web" \notin facts
  <2>1. c.outcome = "notApplicable"
    BY <1>3, <1>4 DEF Outcome
  <2> QED BY <1>2, <1>3, <1>4, <2>1 DEF OutcomeMatchesPoints, c
<1>5. CASE ~(id = "sitemap" /\ "web" \notin facts)
  <2>1. c.outcome = IF earned = WEIGHTS[id] THEN "passed"
                    ELSE IF earned > 0 THEN "warning" ELSE "missing"
    BY <1>3, <1>5 DEF Outcome
  <2> HIDE DEF earned
  <2>2. OutcomeMatchesPoints(c)
    BY <1>1, <1>3, <2>1 DEF OutcomeMatchesPoints
  <2> QED BY <2>2 DEF c, earned
<1> QED BY <1>4, <1>5

\* Checks a scan built, all or the first of them, are in order and match.
LEMMA BuiltAreValid ==
    ASSUME NEW facts, NEW checks, NEW n \in 0 .. 6, Len(checks) = n, DOMAIN checks = 1 .. n,
           \A k \in 1 .. n : checks[k] = BuildChecks(facts)[k]
    PROVE  ValidChecks(checks)
<1>1. ASSUME NEW k \in 1 .. n
      PROVE  /\ checks[k].id = AI_READINESS_CHECKS[k]
             /\ OutcomeMatchesPoints(checks[k])
  <2>1. k \in DOMAIN AI_READINESS_CHECKS
    BY ChecksInOrder
  <2>2. AI_READINESS_CHECKS[k] \in {"structure", "schemas", "agentGuidance", "llmsText",
                                    "sitemap", "fastFeedback"}
    BY ChecksInOrder
  <2>3. BuildChecks(facts)[k] =
          [id |-> AI_READINESS_CHECKS[k], outcome |-> Outcome(AI_READINESS_CHECKS[k], facts),
           earned |-> EarnedPoints(facts)[AI_READINESS_CHECKS[k]]]
    BY <2>1 DEF BuildChecks
  <2> DEFINE id == AI_READINESS_CHECKS[k]
  <2>4. OutcomeMatchesPoints([id |-> id, outcome |-> Outcome(id, facts),
                              earned |-> EarnedPoints(facts)[id]])
    BY <2>2, OutcomesMatch
  <2>5. checks[k] = [id |-> id, outcome |-> Outcome(id, facts), earned |-> EarnedPoints(facts)[id]]
    BY <2>3
  <2> QED BY <2>4, <2>5
<1>2. \A k \in 1 .. n : CheckPosition(checks[k].id) = k
  BY <1>1, PositionIs
<1> QED BY <1>1, <1>2 DEF ValidChecks

\* A full scan makes a valid projection,
LEMMA CompleteIsValid ==
    ASSUME NEW facts PROVE IsValidProjection(Complete(BuildChecks(facts)))
<1> DEFINE checks == BuildChecks(facts)
           p == Complete(checks)
<1>1. Len(checks) = 6 /\ DOMAIN checks = 1 .. 6
  BY ChecksInOrder DEF BuildChecks
<1>2. ValidChecks(checks)
  BY <1>1, BuiltAreValid
<1> HIDE DEF checks
<1>3. /\ p.status = Status(checks) /\ p.score = Score(checks) /\ p.coverage = 6
      /\ p.checks = checks
  BY DEF Complete, Projected
<1>4. Status(checks) \in {"ready", "needsWork"}
  BY DEF Status
<1> HIDE DEF p
<1>5. p.checks = checks /\ ValidChecks(p.checks)
  BY <1>2, <1>3
<1>6. /\ p.status \in {"ready", "needsWork"} /\ p.coverage = 6 /\ Len(p.checks) = 6
      /\ p.score = Score(p.checks) /\ p.status = Status(p.checks)
  BY <1>1, <1>3, <1>4
<1>7. Len(p.checks) <= 6
  BY <1>6
<1>8. IsValidProjection(p)
  BY <1>5, <1>6, <1>7 DEF IsValidProjection
<1> QED BY <1>8 DEF p, checks

\* and so does a partial one, of the first four checks.
LEMMA PartialIsValid ==
    ASSUME NEW facts PROVE IsValidProjection(Partial(Conclusive(BuildChecks(facts))))
<1> DEFINE all == BuildChecks(facts)
           checks == Conclusive(all)
           p == Partial(checks)
<1>1. /\ Len(checks) = 4 /\ DOMAIN checks = 1 .. 4
      /\ \A k \in 1 .. 4 : checks[k] = all[k]
  BY ChecksInOrder DEF BuildChecks, Conclusive
<1>2. ValidChecks(checks)
  BY <1>1, BuiltAreValid
<1> HIDE DEF checks, all
<1>3. p.status = "partial" /\ p.score = -1 /\ p.coverage = 4 /\ p.checks = checks
  BY <1>1 DEF Partial, Projected
<1> HIDE DEF p
<1>4. Len(p.checks) = 4 /\ ValidChecks(p.checks)
  BY <1>1, <1>2, <1>3
<1>5. IsValidProjection(p)
  BY <1>3, <1>4 DEF IsValidProjection
<1> QED BY <1>5 DEF p, checks, all

\* No scan makes a valid projection too.
LEMMA UnavailableIsValid == IsValidProjection(Unavailable)
  BY DEF IsValidProjection, Unavailable, Projected, ValidChecks

\* What is settled is shown.
LEMMA SettledHolds ==
    ASSUME NEW r, NEW p, NEW truncated, Settled(r, p, truncated),
           ~truncated => IsValidProjection(p)
    PROVE  CompleteScansShown'
  BY DEF Settled, CompleteScansShown

\* Every step keeps the property.
LEMMA ReadinessNextHolds ==
    CompleteScansShown /\ [ReadinessNext]_readinessVars => CompleteScansShown'
<1> SUFFICES ASSUME CompleteScansShown, [ReadinessNext]_readinessVars PROVE CompleteScansShown'
  OBVIOUS
<1>1. UNCHANGED projection => CompleteScansShown'
  BY DEF CompleteScansShown
<1>2. ASSUME NEW q \in Request, NEW r \in Root, Evaluate(q, r) PROVE CompleteScansShown'
  BY <1>1, <1>2 DEF Evaluate
<1>3. ASSUME NEW r \in Root, Scan(r) PROVE CompleteScansShown'
  BY <1>1, <1>3 DEF Scan
<1>4. ASSUME NEW r \in Root, ReadManifests(r) PROVE CompleteScansShown'
  <2>1. PICK unread \in SUBSET {"scripts"} :
          Settled(r, Evaluated(inFlight[r].facts \ unread, inFlight[r].truncated),
                  inFlight[r].truncated)
    BY <1>4 DEF ReadManifests
  <2> DEFINE facts == inFlight[r].facts \ unread
  <2>2. ~inFlight[r].truncated => IsValidProjection(Evaluated(facts, inFlight[r].truncated))
    BY CompleteIsValid, PartialIsValid DEF Evaluated
  <2> QED BY <2>1, <2>2, SettledHolds
<1>5. ASSUME NEW r \in Root, EvaluateFails(r) PROVE CompleteScansShown'
  BY <1>5, SettledHolds, UnavailableIsValid DEF EvaluateFails
<1>6. CASE UNCHANGED readinessVars
  BY <1>1, <1>6 DEF readinessVars
<1> QED BY <1>2, <1>3, <1>4, <1>5, <1>6 DEF ReadinessNext

\* A full scan is shown, not refused by the check of the projections it passes through:
\* the scanner and the validator agree about points, outcomes, scores and order.
THEOREM FullScansAreShown == ReadinessSpec => []CompleteScansShown
<1>1. ReadinessInit => CompleteScansShown
  BY DEF ReadinessInit, CompleteScansShown
<1> QED BY <1>1, ReadinessNextHolds, PTL DEF ReadinessSpec

-----------------------------------------------------------------------------
(***************************************************************************)
(* The operator workspace (OperatorSessions).  No terminal outlives its    *)
(* session.                                                                *)
(***************************************************************************)
\* The fields of a session.
SessionFields ==
    {"operator", "surface", "key", "stored", "token", "expires", "attached", "heartbeat",
     "pending", "pty"}

\* The shape of the sessions.
OperatorTypeOK ==
    /\ Len(session) \in Nat /\ DOMAIN session = 1 .. Len(session)
    /\ \A i \in SessionId :
          /\ DOMAIN session[i] = SessionFields
          /\ session[i].operator \in Operator
          /\ session[i].stored \in BOOLEAN

\* One session of an operator, without counting.
OneOwned ==
    \A i, j \in Stored : session[i].operator = session[j].operator => i = j

\* A terminal that lives is one of a stored session.
AliveIsStored == \A i \in SessionId : session[i].pty = "alive" => session[i].stored

\* The inductive invariant.
OperatorInv == OperatorTypeOK /\ OneOwned /\ AliveIsStored

\* No session at the beginning.
LEMMA OperatorInitHolds == OperatorInit => OperatorInv
  BY DEF OperatorInit, OperatorInv, OperatorTypeOK, OneOwned, AliveIsStored, SessionId, Stored

\* At most one session per operator, counted.
LEMMA ReachableFollows == OperatorInv => TerminalsReachable
<1> SUFFICES ASSUME OperatorInv PROVE TerminalsReachable
  OBVIOUS
<1>1. \A i \in SessionId : session[i].pty = "alive" => i \in Stored
  BY DEF OperatorInv, AliveIsStored, Stored
<1>2. ASSUME NEW o \in Operator PROVE Cardinality(Owned(o)) <= 1
  <2>1. CASE Owned(o) = {}
    BY <2>1, FS_EmptySet
  <2>2. CASE Owned(o) # {}
    <3>1. PICK i \in Owned(o) : TRUE
      BY <2>2
    <3>2. Owned(o) = {i}
      BY <3>1 DEF OperatorInv, OneOwned, Owned
    <3> QED BY <3>2, FS_Singleton
  <2> QED BY <2>1, <2>2
<1> QED BY <1>1, <1>2 DEF TerminalsReachable

\* A step that moves one session, which is stored only if it was and lives only if
\* it is stored.
LEMMA OneMoves ==
    ASSUME OperatorInv, NEW i \in SessionId, NEW s,
           session' = [session EXCEPT ![i] = s],
           DOMAIN s = SessionFields, s.operator = session[i].operator,
           s.stored \in BOOLEAN, s.stored => session[i].stored,
           s.pty = "alive" => s.stored
    PROVE  OperatorInv'
  BY DEF OperatorInv, OperatorTypeOK, OneOwned, AliveIsStored, SessionId, Stored

\* A released session is stored no more, and its terminal is killed unless it exited.
LEMMA ReleasedIs ==
    ASSUME OperatorInv, NEW i \in SessionId, NEW kill \in BOOLEAN
    PROVE  LET s == Released(session[i], kill)
           IN  /\ DOMAIN s = SessionFields /\ s.operator = session[i].operator
               /\ s.stored = FALSE
               /\ kill \/ session[i].pty # "alive" => s.pty # "alive"
  BY DEF OperatorInv, OperatorTypeOK, Released, SessionFields

\* A release with a kill keeps the invariant.
LEMMA ReleaseHolds ==
    ASSUME OperatorInv, NEW i \in SessionId, Release(i, TRUE) PROVE OperatorInv'
<1> DEFINE s == Released(session[i], TRUE)
<1>1. session' = [session EXCEPT ![i] = s]
  BY DEF Release
<1>2. DOMAIN s = SessionFields /\ s.operator = session[i].operator /\ s.stored = FALSE
      /\ s.pty # "alive"
  BY ReleasedIs
<1> HIDE DEF s
<1> QED BY <1>1, <1>2, OneMoves

\* The new session is the only one its operator has left.
LEMMA CreateSessionHolds ==
    ASSUME OperatorInv, NEW o \in Operator, NEW f \in Surface, NEW k \in RequestKey,
           CreateSession(o, f, k)
    PROVE  OperatorInv'
<1> DEFINE n == Len(session) + 1
           left == [i \in SessionId |-> IF i \in Outdated(o, f, k) THEN Released(session[i], TRUE)
                                        ELSE session[i]]
           new == NewSession(o, f, k)
<1>1. session' = Append(left, new)
  BY DEF CreateSession
<1>2. Len(session) \in Nat /\ SessionId = 1 .. Len(session)
  BY DEF OperatorInv, OperatorTypeOK, SessionId
<1>3. /\ Len(session') = n /\ DOMAIN session' = 1 .. n /\ session'[n] = new
      /\ \A i \in SessionId : session'[i] = left[i]
  <2> DEFINE S == {left[i] : i \in SessionId} \cup {new}
  <2>1. /\ DOMAIN left = 1 .. Len(session) /\ left = [i \in 1 .. Len(session) |-> left[i]]
        /\ \A i \in 1 .. Len(session) : left[i] \in S
        /\ new \in S
    BY <1>2
  <2> HIDE DEF left, new, S
  <2>2. left \in Seq(S) /\ Len(left) = Len(session)
    BY <1>2, <2>1
  <2> QED BY <1>1, <1>2, <2>1, <2>2, AppendProperties
<1>4. Outdated(o, f, k) = Owned(o)
  BY DEF CreateSession, Outdated
<1>5. \A i \in SessionId :
         IF session[i].stored /\ session[i].operator = o
         THEN /\ DOMAIN session'[i] = SessionFields /\ session'[i].operator = o
              /\ session'[i].stored = FALSE /\ session'[i].pty # "alive"
         ELSE session'[i] = session[i]
  BY <1>3, <1>4, ReleasedIs, ZenonT(40) DEF Owned, Stored, OperatorInv, OperatorTypeOK
<1>6. DOMAIN new = SessionFields /\ new.operator = o /\ new.stored = TRUE
  BY DEF NewSession, SessionFields
<1> HIDE DEF left, new
<1>7. OperatorTypeOK'
  <2>1. Len(session') \in Nat /\ DOMAIN session' = 1 .. Len(session')
    BY <1>2, <1>3
  <2>2. ASSUME NEW i \in 1 .. n
        PROVE  /\ DOMAIN session'[i] = SessionFields
               /\ session'[i].operator \in Operator /\ session'[i].stored \in BOOLEAN
    <3>1. i \in SessionId \/ i = n
      BY <1>2
    <3>2. CASE i \in SessionId
      BY <3>2, <1>5 DEF OperatorInv, OperatorTypeOK
    <3>3. CASE i = n
      BY <3>3, <1>3, <1>6
    <3> QED BY <3>1, <3>2, <3>3
  <2> QED BY <2>1, <2>2, <1>3 DEF OperatorTypeOK, SessionId
<1>8. OneOwned'
  BY <1>2, <1>3, <1>5, <1>6 DEF OperatorInv, OperatorTypeOK, OneOwned, Stored, SessionId
<1>9. AliveIsStored'
  BY <1>2, <1>3, <1>5, <1>6 DEF OperatorInv, OperatorTypeOK, AliveIsStored, SessionId
<1> QED BY <1>7, <1>8, <1>9 DEF OperatorInv

\* Every step keeps the invariant.
LEMMA OperatorNextHolds == OperatorInv /\ [OperatorNext]_operatorVars => OperatorInv'
<1> SUFFICES ASSUME OperatorInv, [OperatorNext]_operatorVars PROVE OperatorInv'
  OBVIOUS
<1>1. ASSUME NEW o \in Operator, Reconcile(o) PROVE OperatorInv'
  BY <1>1 DEF Reconcile, OperatorInv, OperatorTypeOK, OneOwned, AliveIsStored, Stored, SessionId
<1>2. ASSUME NEW o \in Operator, NEW f \in Surface, NEW k \in RequestKey, CreateSession(o, f, k)
      PROVE OperatorInv'
  BY <1>2, CreateSessionHolds
<1>3. ASSUME NEW i \in SessionId,
             CloseSession(i) \/ ExpireSession(i) \/ SocketClose(i) \/ HeartbeatCheck(i)
      PROVE OperatorInv'
  BY <1>3, ReleaseHolds DEF CloseSession, ExpireSession, SocketClose, HeartbeatCheck
<1>4. ASSUME NEW i \in SessionId, Attach(i) PROVE OperatorInv'
  <2>1. CASE Release(i, TRUE)
    BY <2>1, ReleaseHolds
  <2>2. CASE session' = [session EXCEPT ![i].attached = TRUE, ![i].token = FALSE,
                                        ![i].heartbeat = time, ![i].pending = 0]
    BY <2>2 DEF OperatorInv, OperatorTypeOK, OneOwned, AliveIsStored, SessionId, Stored,
                SessionFields
  <2> QED BY <1>4, <2>1, <2>2 DEF Attach
<1>5. ASSUME NEW i \in SessionId, SocketHeartbeat(i) PROVE OperatorInv'
  BY <1>5 DEF SocketHeartbeat, OperatorInv, OperatorTypeOK, OneOwned, AliveIsStored, SessionId,
              Stored, SessionFields
<1>6. ASSUME NEW i \in SessionId, Output(i) PROVE OperatorInv'
  <2>1. CASE Release(i, TRUE)
    BY <2>1, ReleaseHolds
  <2>2. CASE session' = [session EXCEPT ![i].pending = @ + 1]
    BY <2>2 DEF OperatorInv, OperatorTypeOK, OneOwned, AliveIsStored, SessionId, Stored,
                SessionFields
  <2> QED BY <1>6, <2>1, <2>2 DEF Output
<1>7. ASSUME NEW i \in SessionId, PtyExit(i) PROVE OperatorInv'
  <2> DEFINE ended == [session[i] EXCEPT !.pty = "exited"]
             s == IF session[i].attached THEN Released(ended, FALSE) ELSE ended
  <2>1. session' = [session EXCEPT ![i] = s]
    BY <1>7 DEF PtyExit
  <2>2. DOMAIN s = SessionFields /\ s.operator = session[i].operator
        /\ s.stored \in BOOLEAN /\ (s.stored => session[i].stored) /\ s.pty = "exited"
    BY DEF OperatorInv, OperatorTypeOK, Released, SessionFields
  <2> HIDE DEF s
  <2> QED BY <2>1, <2>2, OneMoves
<1>8. CASE OperatorTick
  BY <1>8 DEF OperatorTick, OperatorInv, OperatorTypeOK, OneOwned, AliveIsStored, Stored, SessionId
<1>9. CASE UNCHANGED operatorVars
  BY <1>9 DEF operatorVars, OperatorInv, OperatorTypeOK, OneOwned, AliveIsStored, Stored, SessionId
<1> QED
  BY <1>1, <1>2, <1>3, <1>4, <1>5, <1>6, <1>7, <1>8, <1>9 DEF OperatorNext

\* A terminal that lives can be reached: its session is stored, the only one of its
\* operator, whatever closes, expires, detaches or overflows.
THEOREM NoTerminalIsLost == OperatorSpec => []TerminalsReachable
  BY ReachableFollows, OperatorInitHolds, OperatorNextHolds, PTL DEF OperatorSpec

-----------------------------------------------------------------------------
(***************************************************************************)
(* Project context (ProjectContext).  A refresh sees what was edited before *)
(* it was asked.                                                           *)
(***************************************************************************)
\* Answers as records whose sources are no older than the ask; the files only
\* grow, so an ask is never ahead of them.
ContextTypeOK ==
    /\ worktree.files \in Nat /\ DOMAIN worktree = {"commit", "files"}
    /\ DOMAIN pendingRefresh = DOMAIN NoRefresh
    /\ pendingRefresh.at = "none" => pendingRefresh.asked = {}
    /\ DOMAIN answers = ContextMember
    /\ \A u \in ContextMember :
          /\ answers[u].since \in Nat
          /\ DOMAIN answers[u] = {"status", "bundle", "since"}
          /\ answers[u].bundle.sources \in Nat
          /\ answers[u].since <= worktree.files

\* The inductive invariant.
ContextInv == ContextTypeOK /\ RefreshSeesEdits

\* Nothing is collected at the beginning.
LEMMA ContextInitHolds == ContextInit => ContextInv
  BY DEF ContextInit, ContextInv, ContextTypeOK, RefreshSeesEdits, NoRefresh, NoBundle

\* A refresh is answered by a collection that begins after it.
LEMMA ContextRefreshHolds ==
    ASSUME ContextInv, NEW u \in ContextMember, Refresh(u) PROVE ContextInv'
<1>1. ContextTypeOK'
  BY DEF ContextInv, ContextTypeOK, Refresh, NoRefresh
<1>2. pendingRefresh'.asked = pendingRefresh.asked \cup {u}
  BY DEF ContextInv, ContextTypeOK, Refresh, NoRefresh
<1>3. RefreshSeesEdits'
  BY <1>2 DEF ContextInv, ContextTypeOK, RefreshSeesEdits, Refresh
<1> QED BY <1>1, <1>3 DEF ContextInv

\* The bundle that answers holds the files as they are now.
LEMMA ContextAnswersNow ==
    ASSUME ContextInv, NEW s, NEW b, AnswerAll(s, b), b.sources \in Nat, UNCHANGED worktree,
           s \in {"ready", "stale"} => b.sources = worktree.files
    PROVE  ContextInv'
<1>1. ContextTypeOK'
  BY DEF ContextInv, ContextTypeOK, AnswerAll, NoRefresh
<1>2. RefreshSeesEdits'
  BY DEF ContextInv, ContextTypeOK, RefreshSeesEdits, AnswerAll, NoRefresh
<1> QED BY <1>1, <1>2 DEF ContextInv

\* What is collected is what the files hold.
LEMMA ContextCollectHolds == ASSUME ContextInv, CollectFiles PROVE ContextInv'
<1>1. CASE SameEvidence(pendingRefresh.commit, worktree.files)
  <2>1. LatestBundle.sources = worktree.files /\ AnswerAll(StatusOf(LatestBundle), LatestBundle)
    BY <1>1 DEF CollectFiles, SameEvidence
  <2> QED BY <2>1, ContextAnswersNow DEF CollectFiles, ContextInv, ContextTypeOK
<1>2. CASE ~SameEvidence(pendingRefresh.commit, worktree.files)
  <2> DEFINE b == [commit |-> pendingRefresh.commit, sources |-> worktree.files, created |-> day]
  <2>1. AnswerAll(StatusOf(b), b)
    BY <1>2 DEF CollectFiles
  <2>2. b.sources = worktree.files
    OBVIOUS
  <2> HIDE DEF b
  <2> QED BY <2>1, <2>2, ContextAnswersNow DEF CollectFiles, ContextInv, ContextTypeOK
<1> QED BY <1>1, <1>2

\* Every step keeps the invariant.
LEMMA ContextNextHolds == ContextInv /\ [ContextNext]_contextVars => ContextInv'
<1> SUFFICES ASSUME ContextInv, [ContextNext]_contextVars PROVE ContextInv'
  OBVIOUS
<1>1. ASSUME NEW u \in ContextMember, Refresh(u) PROVE ContextInv'
  BY <1>1, ContextRefreshHolds
<1>2. CASE SourceCommit
  BY <1>2 DEF SourceCommit, ContextInv, ContextTypeOK, RefreshSeesEdits, NoRefresh
<1>3. CASE CollectFiles
  BY <1>3, ContextCollectHolds
<1>4. CASE RefreshFails
  BY <1>4, ContextAnswersNow DEF RefreshFails, NoBundle
<1>5. CASE OwnerWorks
  BY <1>5 DEF OwnerWorks, ContextInv, ContextTypeOK, RefreshSeesEdits
<1>6. CASE NextDay
  BY <1>6 DEF NextDay, ContextInv, ContextTypeOK, RefreshSeesEdits
<1>7. CASE UNCHANGED contextVars
  BY <1>7 DEF contextVars, ContextInv, ContextTypeOK, RefreshSeesEdits
<1> QED BY <1>1, <1>2, <1>3, <1>4, <1>5, <1>6, <1>7 DEF ContextNext

\* Whoever asks for the context to be refreshed is given one read after the question: the
\* part of a collection under way that has passed a file is never taken for an answer.
THEOREM EditsAreSeen == ContextSpec => []RefreshSeesEdits
<1>1. ContextInv => RefreshSeesEdits
  BY DEF ContextInv
<1> QED BY <1>1, ContextInitHolds, ContextNextHolds, PTL DEF ContextSpec

-----------------------------------------------------------------------------
(***************************************************************************)
(* Studio sessions (StudioSession).  One attempt of a session, under every *)
(* interleaving of its commands.                                           *)
(***************************************************************************)
\* Nobody but the creator makes a session, and there is none while it does.
MadeOnce ==
    /\ made \in {0, 1}
    /\ creator # NoClient => made = 0

\* Without a session nothing compiles; a compile that awaits the attestation has
\* no attempt yet, one that awaits the worker has its attempt in preflight, and no
\* other has.
AttemptHeld ==
    /\ made = 0 => intent = NoIntent /\ pc = "free"
    /\ pc \in {"free", "attesting", "admitting"}
    /\ pc = "attesting" => intent = NoIntent
    /\ pc = "admitting" <=> intent.status = "preflight"

\* What was attempted is edited no more.
AttemptFrozen == intent # NoIntent => state \in Frozen \cup {"closed"}

\* An attempt is one by its fields.
IntentOK == DOMAIN intent = DOMAIN NoIntent

\* The inductive invariant.
StudioInv == MadeOnce /\ AttemptHeld /\ AttemptFrozen /\ IntentOK

\* What a step may do to the attempt of a session.
OneAttemptStep ==
    /\ made' <= 1
    /\ intent # NoIntent =>
         /\ [intent' EXCEPT !.status = ""] = [intent EXCEPT !.status = ""]
         /\ intent.status # "preflight" => intent' = intent
         /\ variants' \in {variants, <<>>}

\* No session at the beginning.
LEMMA StudioInitHolds == Init => StudioInv
  BY DEF Init, StudioInv, MadeOnce, AttemptHeld, AttemptFrozen, IntentOK, NoIntent

\* Steps that leave the attempt and the lock of the session alone.
LEMMA AttemptUntouched ==
    ASSUME StudioInv, UNCHANGED <<made, creator, intent, pc>>,
           state' = state \/ intent = NoIntent \/ state' \in {"interrupted", "closed", "conflict"}
    PROVE  StudioInv'
  BY DEF StudioInv, MadeOnce, AttemptHeld, AttemptFrozen, IntentOK, Frozen

\* An attestation waits, fails or succeeds without an attempt.
LEMMA AttestHolds == ASSUME StudioInv, Attest PROVE StudioInv'
  BY AttemptUntouched DEF Attest, AttestHead, AttestStatus, AttestTree, AttestRuntime, AttestThrows,
     Reads, creation

\* An edit finds a session without an attempt.
LEMMA EditFindsNone == ASSUME StudioInv, Edit PROVE intent = NoIntent
  BY DEF StudioInv, AttemptFrozen, Edit, Editable, Active

\* An edit makes no attempt.
LEMMA EditsHold ==
    ASSUME StudioInv, Edits
    PROVE  StudioInv' /\ intent = NoIntent /\ made' <= 1
<1>1. Edit /\ UNCHANGED <<made, creator, intent, pc>>
  BY DEF Edits, ApplyCommand, JournalMove, CreateVariant, SelectVariant, DeleteVariant, Unedited,
         creation, compiling
<1>2. intent = NoIntent
  BY <1>1, EditFindsNone
<1> QED BY <1>1, <1>2, AttemptUntouched DEF StudioInv, MadeOnce

\* One client at a time creates the session.
LEMMA CreatesHold == ASSUME StudioInv, NEW c \in Client, Creates(c) PROVE StudioInv'
<1>1. CASE AskCreate(c)
  BY <1>1, AttemptUntouched DEF AskCreate, compiling
<1>2. CASE TakeCreate(c)
  BY <1>2 DEF TakeCreate, MustCreate, StudioInv, MadeOnce, AttemptHeld, AttemptFrozen, IntentOK
<1>3. CASE Create(c)
  BY <1>3, StudioAssumption DEF Create, StudioInv, MadeOnce, AttemptHeld, AttemptFrozen, IntentOK,
     NoIntent
<1>4. CASE CreateFails(c)
  BY <1>4 DEF CreateFails, StudioInv, MadeOnce, AttemptHeld, AttemptFrozen, IntentOK
<1> QED BY <1>1, <1>2, <1>3, <1>4 DEF Creates

\* An attempt is made once, by the one that holds the lock.
LEMMA CompilesHold == ASSUME StudioInv, Compiles PROVE StudioInv'
<1>1. ASSUME NEW k \in DOMAIN variants, Compile(k) PROVE StudioInv'
  BY <1>1 DEF Compile, MayCompile, LockFree, Active, StudioInv, MadeOnce, AttemptHeld,
     AttemptFrozen, IntentOK, creation, NoIntent
<1>2. CASE CompileRefused
  BY <1>2 DEF CompileRefused, StudioInv, MadeOnce, AttemptHeld, AttemptFrozen, IntentOK, creation,
     NoIntent
<1>3. CASE CompileFreezes
  BY <1>3 DEF CompileFreezes, StudioInv, MadeOnce, AttemptHeld, AttemptFrozen, IntentOK, creation,
     NoIntent, Frozen
<1>4. CASE CompileEnds
  BY <1>4 DEF CompileEnds, StudioInv, MadeOnce, AttemptHeld, AttemptFrozen, IntentOK, creation,
     NoIntent, Frozen
<1> QED BY <1>1, <1>2, <1>3, <1>4 DEF Compiles

\* Every step keeps the invariant.
LEMMA StudioNextHolds == StudioInv /\ [Next]_vars => StudioInv'
<1> SUFFICES ASSUME StudioInv, [Next]_vars PROVE StudioInv'
  OBVIOUS
<1>1. CASE Disturb \/ Later \/ Get \/ Interrupt \/ Close
  BY <1>1, AttemptUntouched DEF Disturb, Later, Get, Interrupt, Close, creation, compiling
<1>2. CASE UNCHANGED vars
  BY <1>2, AttemptUntouched DEF vars, creation, compiling
<1> QED BY <1>1, <1>2, AttestHolds, EditsHold, CreatesHold, CompilesHold DEF Next

\* Every step keeps the attempt.
LEMMA StudioStep == StudioInv /\ StudioInv' /\ [Next]_vars => OneAttemptStep
<1> SUFFICES ASSUME StudioInv, StudioInv', [Next]_vars PROVE OneAttemptStep
  OBVIOUS
<1>1. made' <= 1
  BY DEF StudioInv, MadeOnce
<1>2. ASSUME UNCHANGED intent, variants' \in {variants, <<>>} PROVE OneAttemptStep
  BY <1>1, <1>2 DEF OneAttemptStep
<1>3. CASE Disturb \/ Later \/ Get \/ Attest
  BY <1>2, <1>3 DEF Disturb, Later, Get, Attest, AttestHead, AttestStatus, AttestTree,
     AttestRuntime, AttestThrows, Reads, journal
<1>4. CASE Interrupt \/ Close \/ UNCHANGED vars
  BY <1>2, <1>4 DEF Interrupt, Close, vars, journal
<1>5. ASSUME NEW c \in Client, Creates(c) PROVE OneAttemptStep
  <2>1. CASE Create(c)
    BY <1>1, <2>1, StudioAssumption DEF Create, StudioInv, MadeOnce, AttemptHeld, OneAttemptStep
  <2> QED BY <1>2, <1>5, <2>1 DEF Creates, AskCreate, TakeCreate, CreateFails, journal
<1>6. CASE Edits
  BY <1>1, <1>6, EditsHold DEF OneAttemptStep
<1>7. CASE Compiles
  <2>1. CASE CompileFreezes
    BY <1>1, <2>1 DEF CompileFreezes, StudioInv, AttemptHeld, OneAttemptStep
  <2>2. CASE CompileEnds
    <3>1. /\ intent.status = "preflight" /\ UNCHANGED variants
          /\ \E s : intent' = [intent EXCEPT !.status = s]
      BY <2>2 DEF CompileEnds, StudioInv, AttemptHeld, journal
    <3> QED BY <1>1, <3>1 DEF OneAttemptStep, StudioInv, IntentOK, NoIntent
  <2> QED BY <1>2, <1>7, <2>1, <2>2 DEF Compiles, Compile, CompileRefused, journal
<1> QED BY <1>3, <1>4, <1>5, <1>6, <1>7 DEF Next

\* One session, and one attempt of it: what is compiled is neither edited nor attempted
\* again, in whatever order creations, edits, compiles and closings are interleaved.
THEOREM AttemptsAreKept == Spec => OneAttempt
<1>1. StudioInv /\ StudioInv' /\ [Next]_vars =>
        [/\ made' <= 1
         /\ intent # NoIntent =>
              /\ [intent' EXCEPT !.status = ""] = [intent EXCEPT !.status = ""]
              /\ intent.status # "preflight" => intent' = intent
              /\ variants' \in {variants, <<>>}]_vars
  BY StudioStep DEF OneAttemptStep
<1> QED BY <1>1, StudioInitHolds, StudioNextHolds, PTL DEF Spec, OneAttempt

-----------------------------------------------------------------------------
(***************************************************************************)
(* Reading the events (EventStream).  Upto(m, n) is what follows m up to n; *)
(* the page and the queue of an open stream are together what the reader   *)
(* still misses (Contiguous).                                              *)
(***************************************************************************)
\* Upto counts from beyond m to n.
LEMMA UptoIs ==
    ASSUME NEW m \in Nat, NEW n \in Nat
    PROVE  /\ Upto(m, n) \in Seq(Nat)
           /\ Len(Upto(m, n)) = IF m < n THEN n - m ELSE 0
           /\ \A k \in 1 .. n - m : Upto(m, n)[k] = m + k
<1>1. CASE m < n
  <2>1. n - m \in Nat
    BY <1>1
  <2> QED BY <1>1, <2>1 DEF Upto
<1>2. CASE m >= n
  <2>1. 1 .. n - m = {}
    BY <1>2
  <2>2. Upto(m, n) = [k \in {} |-> m + k]
    BY <2>1 DEF Upto
  <2>3. Upto(m, n) = <<>>
    BY <2>2
  <2> QED BY <1>2, <2>1, <2>3
<1> QED BY <1>1, <1>2

\* Upto is empty when there is nothing beyond m.
LEMMA UptoEmpty ==
    ASSUME NEW m \in Nat, NEW n \in Nat PROVE Upto(m, n) = <<>> <=> n <= m
<1>1. Upto(m, n) \in Seq(Nat) /\ Len(Upto(m, n)) = IF m < n THEN n - m ELSE 0
  BY UptoIs
<1> DEFINE s == Upto(m, n)
<1> HIDE DEF s
<1>2. s = <<>> <=> Len(s) = 0
  BY <1>1 DEF s
<1> QED BY <1>1, <1>2 DEF s

\* Two sequences of one length with equal elements are one.
LEMMA SameSequence ==
    ASSUME NEW s \in Seq(Nat), NEW t \in Seq(Nat), Len(s) = Len(t),
           \A k \in 1 .. Len(s) : s[k] = t[k]
    PROVE  s = t
  OBVIOUS

\* Its first element and the rest of it.
LEMMA UptoNext ==
    ASSUME NEW m \in Nat, NEW n \in Nat, m < n
    PROVE  Head(Upto(m, n)) = m + 1 /\ Tail(Upto(m, n)) = Upto(m + 1, n)
<1> DEFINE s == Upto(m, n)
           t == Upto(m + 1, n)
<1>1. s \in Seq(Nat) /\ Len(s) = n - m /\ \A k \in 1 .. n - m : s[k] = m + k
  BY UptoIs
<1>2. t \in Seq(Nat) /\ Len(t) = n - m - 1 /\ \A k \in 1 .. n - m - 1 : t[k] = m + 1 + k
  <2>1. n - (m + 1) = n - m - 1 /\ m + 1 \in Nat
    OBVIOUS
  <2> QED BY <2>1, UptoIs
<1> HIDE DEF s, t
<1>3. s # <<>> /\ Head(s) = s[1] /\ Tail(s) \in Seq(Nat) /\ Len(Tail(s)) = n - m - 1
      /\ \A k \in 1 .. Len(Tail(s)) : Tail(s)[k] = s[k + 1]
  BY <1>1, HeadTailProperties
<1>4. Head(s) = m + 1
  <2>1. 1 \in 1 .. n - m
    OBVIOUS
  <2> QED BY <1>1, <1>3, <2>1
<1>5. \A k \in 1 .. n - m - 1 : Tail(s)[k] = t[k]
  <2> TAKE k \in 1 .. n - m - 1
  <2>1. k + 1 \in 1 .. n - m /\ k \in 1 .. Len(Tail(s))
    BY <1>3
  <2>2. Tail(s)[k] = s[k + 1]
    BY <1>3, <2>1
  <2>3. s[k + 1] = m + (k + 1)
    BY <1>1, <2>1
  <2>4. t[k] = m + 1 + k
    BY <1>2
  <2>5. m + (k + 1) = m + 1 + k
    OBVIOUS
  <2> QED BY <2>2, <2>3, <2>4, <2>5
<1>6. Tail(s) = t
  BY <1>2, <1>3, <1>5, SameSequence
<1> QED BY <1>4, <1>6 DEF s, t

\* One event more at its end.
LEMMA UptoGrows ==
    ASSUME NEW m \in Nat, NEW n \in Nat, m <= n
    PROVE  Append(Upto(m, n), n + 1) = Upto(m, n + 1)
<1> DEFINE s == Upto(m, n)
           t == Upto(m, n + 1)
           a == Append(s, n + 1)
<1>1. s \in Seq(Nat) /\ Len(s) = n - m /\ \A k \in 1 .. n - m : s[k] = m + k
  BY UptoIs
<1>2. t \in Seq(Nat) /\ Len(t) = n - m + 1 /\ \A k \in 1 .. n - m + 1 : t[k] = m + k
  <2>1. n + 1 - m = n - m + 1 /\ n + 1 \in Nat
    OBVIOUS
  <2> QED BY <2>1, UptoIs
<1> HIDE DEF s, t
<1>3. a \in Seq(Nat) /\ Len(a) = n - m + 1 /\ a[n - m + 1] = n + 1
      /\ \A k \in 1 .. n - m : a[k] = s[k]
  BY <1>1, AppendProperties
<1> HIDE DEF a
<1>4. ASSUME NEW k \in 1 .. n - m + 1 PROVE a[k] = m + k
  <2>1. CASE k \in 1 .. n - m
    BY <1>1, <1>3, <2>1
  <2>2. CASE k = n - m + 1
    BY <1>3, <2>2
  <2> QED BY <2>1, <2>2
<1>5. a = t
  BY <1>2, <1>3, <1>4, SameSequence
<1> QED BY <1>5 DEF a, s, t

\* A page that holds all there is.
LEMMA WholePage ==
    ASSUME NEW s \in Seq(Nat) PROVE SubSeq(s, 1, Len(s)) = s
  BY SubSeqProperties

-----------------------------------------------------------------------------
\* What the reader has been sent, or was told it need not read.
LastRead == IF last < stream.snapshot THEN stream.snapshot ELSE last

\* The types of the events and of their reader.
StreamTypeOK ==
    /\ ends \in Seq(BOOLEAN)
    /\ link \in {"none", "asking", "open", "closing"}
    /\ outrun \in BOOLEAN

\* Short of an outrun page the page and the queue are what the reader still misses,
\* in order; the queue begins behind the page.
Contiguous ==
    /\ last \in 0 .. Len(ends) /\ seen = 1 .. last
    /\ link = "open" =>
         /\ DOMAIN stream = DOMAIN NoStream
         /\ stream.snapshot \in 0 .. Len(ends)
         /\ stream.listed = Upto(last, stream.snapshot)
         /\ stream.live = Upto(LastRead, Len(ends))

\* The inductive invariant.
StreamInv == StreamTypeOK /\ (outrun \/ Contiguous)

\* Nothing is published at the beginning.
LEMMA StreamInitHolds == StreamInit => StreamInv
<1> SUFFICES ASSUME StreamInit PROVE StreamInv
  OBVIOUS
<1>1. StreamTypeOK /\ Len(ends) = 0
  <2>1. ends \in Seq(BOOLEAN) /\ Len(ends) = 0
    BY EmptySeq DEF StreamInit
  <2> QED BY <2>1 DEF StreamInit, StreamTypeOK
<1>2. Contiguous
  BY <1>1 DEF StreamInit, Contiguous
<1> QED BY <1>1, <1>2 DEF StreamInv

\* Steps that only end, ask for or pass over a stream.
LEMMA NothingSent ==
    ASSUME StreamInv, UNCHANGED <<ends, outrun, last, seen>>,
           \/ link' = "none" \/ link' = "asking" \/ link' = "closing"
           \/ link' = link /\ stream' = stream
    PROVE  StreamInv'
  BY DEF StreamInv, StreamTypeOK, Contiguous, LastRead

\* An event is sent or queued when it is the next one.
LEMMA PublishHolds ==
    ASSUME StreamInv, NEW end \in BOOLEAN, Publish(end)
    PROVE  StreamInv'
<1>1. StreamTypeOK' /\ Len(ends') = Len(ends) + 1
  BY DEF Publish, StreamInv, StreamTypeOK
<1>2. CASE outrun
  BY <1>1, <1>2 DEF Publish, StreamInv
<1>3. CASE Contiguous
  <2>1. Len(ends) \in Nat /\ last \in Nat
    BY <1>3 DEF StreamInv, StreamTypeOK, Contiguous
  <2>2. last' \in 0 .. Len(ends') /\ seen' = 1 .. last'
    BY <1>1, <1>3, <2>1 DEF Publish, Contiguous, readerVars
  <2>3. ASSUME link' = "open"
        PROVE  /\ DOMAIN stream' = DOMAIN NoStream
               /\ stream'.snapshot \in 0 .. Len(ends')
               /\ stream'.listed = Upto(last', stream'.snapshot)
               /\ stream'.live = Upto(LastRead', Len(ends'))
    <3>1. link = "open" /\ stream' = [stream EXCEPT !.live = Append(@, Len(ends) + 1)]
      BY <2>3 DEF Publish
    <3>2. /\ stream'.snapshot = stream.snapshot /\ stream'.listed = stream.listed
          /\ stream'.live = Append(stream.live, Len(ends) + 1)
          /\ DOMAIN stream' = DOMAIN stream /\ LastRead' = LastRead
      BY <1>3, <3>1 DEF Contiguous, NoStream, Publish, readerVars, LastRead
    <3>3. LastRead \in 0 .. Len(ends)
      BY <1>3, <2>1, <3>1 DEF LastRead, Contiguous
    <3>4. Append(Upto(LastRead, Len(ends)), Len(ends) + 1) = Upto(LastRead, Len(ends) + 1)
      <4>1. LastRead \in Nat /\ LastRead <= Len(ends)
        BY <2>1, <3>3
      <4> QED BY <2>1, <4>1, UptoGrows
    <3> QED BY <1>1, <1>3, <2>1, <3>1, <3>2, <3>4 DEF Contiguous, Publish, readerVars
  <2> QED BY <1>1, <2>2, <2>3 DEF StreamInv, Contiguous
<1> QED BY <1>2, <1>3 DEF StreamInv

\* A reader that opens the stream is owed what was published since.
LEMMA OpenHolds == ASSUME StreamInv, Open PROVE StreamInv'
<1> DEFINE page == SubSeq(Unread, 1, IF Len(Unread) < Page THEN Len(Unread) ELSE Page)
<1>1. /\ link = "asking" /\ link' = "open"
      /\ stream' = [listed |-> page, beat |-> TRUE, live |-> <<>>,
                    snapshot |-> IF page = <<>> THEN last ELSE page[Len(page)]]
      /\ outrun' = (outrun \/ Len(Unread) > Page)
      /\ UNCHANGED <<last, seen, ends>>
  BY DEF Open, readerVars
<1>2. StreamTypeOK'
  BY <1>1 DEF StreamInv, StreamTypeOK
<1>3. ASSUME ~outrun' PROVE Contiguous'
  <2>1. ~outrun /\ Contiguous /\ ~(Len(Unread) > Page)
    BY <1>1, <1>3 DEF StreamInv, StreamTypeOK
  <2>2. last \in Nat /\ Len(ends) \in Nat /\ last <= Len(ends) /\ seen = 1 .. last
    BY <2>1 DEF Contiguous, StreamInv, StreamTypeOK
  <2>3. /\ Unread \in Seq(Nat) /\ Len(Unread) = Len(ends) - last
        /\ \A k \in 1 .. Len(ends) - last : Unread[k] = last + k
    <3>1. /\ Unread \in Seq(Nat)
          /\ Len(Unread) = IF last < Len(ends) THEN Len(ends) - last ELSE 0
          /\ \A k \in 1 .. Len(ends) - last : Unread[k] = last + k
      BY <2>2, UptoIs DEF Unread
    <3> QED BY <2>2, <3>1
  <2>4. page = Unread
    <3>1. (IF Len(Unread) < Page THEN Len(Unread) ELSE Page) = Len(Unread)
      BY <2>1, <2>2, <2>3, StreamAssumption
    <3> QED BY <2>3, <3>1, WholePage
  <2> HIDE DEF page
  <2>5. stream'.snapshot = Len(ends)
    BY <1>1, <2>2, <2>3, <2>4, SMTT(30)
  <2>6. LastRead' = Len(ends) /\ Upto(Len(ends), Len(ends)) = <<>>
    BY <1>1, <2>2, <2>5, UptoEmpty DEF LastRead
  <2>7. stream'.listed = Upto(last, Len(ends)) /\ stream'.live = <<>>
        /\ DOMAIN stream' = DOMAIN NoStream
    BY <1>1, <2>4 DEF Unread, NoStream
  <2> QED BY <1>1, <2>2, <2>5, <2>6, <2>7 DEF Contiguous
<1> QED BY <1>2, <1>3 DEF StreamInv

\* The listed events are sent in order.
LEMMA SendListedHolds == ASSUME StreamInv, SendListed PROVE StreamInv'
<1>1. UNCHANGED <<ends, outrun, link>> /\ link = "open"
  BY DEF SendListed
<1>2. StreamTypeOK'
  BY <1>1 DEF StreamInv, StreamTypeOK
<1>3. ASSUME Contiguous PROVE Contiguous'
  <2> DEFINE S == stream.snapshot
  <2>1. /\ last \in Nat /\ Len(ends) \in Nat /\ S \in Nat /\ S <= Len(ends)
        /\ stream.listed = Upto(last, S) /\ seen = 1 .. last
        /\ stream.live = Upto(LastRead, Len(ends))
    BY <1>1, <1>3 DEF StreamInv, StreamTypeOK, Contiguous
  <2>2. last < S
    BY <2>1, UptoEmpty DEF SendListed
  <2>3. Head(stream.listed) = last + 1 /\ Tail(stream.listed) = Upto(last + 1, S)
    BY <2>1, <2>2, UptoNext
  <2>4. last' = last + 1 /\ seen' = seen \cup {last + 1}
    BY <2>1, <2>3 DEF SendListed, Accept
  <2>5. /\ stream'.snapshot = S /\ stream'.listed = Upto(last + 1, S)
        /\ stream'.live = stream.live /\ DOMAIN stream' = DOMAIN stream
    BY <1>1, <1>3, <2>3 DEF SendListed, Contiguous, NoStream
  <2>6. LastRead' = LastRead
    BY <2>1, <2>2, <2>4, <2>5 DEF LastRead
  <2>7. seen' = 1 .. last' /\ last' \in 0 .. Len(ends)
    BY <2>1, <2>2, <2>4
  <2> QED BY <1>1, <1>3, <2>1, <2>4, <2>5, <2>6, <2>7 DEF Contiguous
<1> QED BY <1>1, <1>2, <1>3 DEF StreamInv

\* The queued events follow the listed ones.
LEMMA SendLiveHolds == ASSUME StreamInv, SendLive PROVE StreamInv'
<1>1. UNCHANGED <<ends, outrun, link>> /\ link = "open" /\ stream.listed = <<>>
  BY DEF SendLive, Following
<1>2. StreamTypeOK'
  BY <1>1 DEF StreamInv, StreamTypeOK
<1>3. ASSUME Contiguous PROVE Contiguous'
  <2> DEFINE S == stream.snapshot
             N == Len(ends)
  <2>1. /\ last \in Nat /\ N \in Nat /\ S \in Nat /\ last <= N
        /\ stream.listed = Upto(last, S) /\ seen = 1 .. last
        /\ stream.live = Upto(LastRead, N)
    BY <1>1, <1>3 DEF StreamInv, StreamTypeOK, Contiguous
  <2>2. S <= last /\ LastRead = last
    BY <1>1, <2>1, UptoEmpty DEF LastRead
  <2>3. last < N
    BY <2>1, <2>2, UptoEmpty DEF SendLive
  <2>4. Head(stream.live) = last + 1 /\ Tail(stream.live) = Upto(last + 1, N)
    BY <2>1, <2>2, <2>3, UptoNext
  <2>5. last' = last + 1 /\ seen' = seen \cup {last + 1}
    BY <2>1, <2>2, <2>4 DEF SendLive, Accept
  <2>6. /\ stream'.snapshot = S /\ stream'.listed = <<>>
        /\ stream'.live = Upto(last + 1, N) /\ DOMAIN stream' = DOMAIN stream
    BY <1>1, <1>3, <2>4 DEF SendLive, Contiguous, NoStream
  <2>7. LastRead' = last' /\ Upto(last', S) = <<>>
    BY <2>1, <2>2, <2>5, <2>6, UptoEmpty DEF LastRead
  <2>8. seen' = 1 .. last' /\ last' \in 0 .. N
    BY <2>1, <2>3, <2>5
  <2> QED BY <1>1, <1>3, <2>1, <2>5, <2>6, <2>7, <2>8 DEF Contiguous
<1> QED BY <1>1, <1>2, <1>3 DEF StreamInv

\* Every step keeps the invariant.
LEMMA StreamNextHolds == StreamInv /\ [StreamNext]_streamVars => StreamInv'
<1> SUFFICES ASSUME StreamInv, [StreamNext]_streamVars PROVE StreamInv'
  OBVIOUS
<1>1. ASSUME StreamEnds PROVE StreamInv'
  <2>1. UNCHANGED <<ends, outrun, last, seen>> /\ link' = "none"
    BY <1>1 DEF StreamEnds
  <2> QED BY <2>1, NothingSent
<1>2. CASE Heartbeat
  <2>1. ASSUME stream' = [stream EXCEPT !.beat = FALSE],
               UNCHANGED <<readerVars, ends, outrun, link, timer, away, strict>>
        PROVE StreamInv'
    BY <2>1 DEF StreamInv, StreamTypeOK, Contiguous, LastRead, NoStream, readerVars
  <2> QED BY <1>1, <1>2, <2>1 DEF Heartbeat
<1>3. CASE Quiet \/ Lost
  BY <1>1, <1>3 DEF Quiet, Lost
<1>4. CASE Unauthorized \/ UserCommandFails \/ InterruptTurn
  BY <1>4, NothingSent DEF Unauthorized, UserCommandFails, InterruptTurn, runnerVars
<1>5. CASE Reconnect \/ UserCommand \/ ResumeEvents
  <2>1. Listening \in {"asking", link}
    BY DEF Listening
  <2>2. stream' = stream /\ UNCHANGED <<ends, outrun, last, seen>> /\ link' = Listening
    BY <1>5 DEF Reconnect, UserCommand, ResumeEvents, runnerVars, readerVars
  <2> QED BY <2>1, <2>2, NothingSent
<1>6. CASE PauseEvents \/ Paused
  <2>1. UNCHANGED <<ends, outrun, last, seen>> /\ (link' = "none" \/ link' = "closing")
    BY <1>6 DEF PauseEvents, Paused, runnerVars, readerVars
  <2> QED BY <2>1, NothingSent
<1>7. CASE RestoreConversation
  BY <1>7 DEF RestoreConversation, StreamInv, StreamTypeOK, Contiguous
<1>8. CASE UNCHANGED streamVars
  BY <1>8, NothingSent DEF streamVars, runnerVars, readerVars
<1> QED
  BY <1>2, <1>3, <1>4, <1>5, <1>6, <1>7, <1>8, PublishHolds, OpenHolds, SendListedHolds,
     SendLiveHolds DEF StreamNext

\* A reader is sent every event after the last one it has, in order and once, across the
\* hand-over from the page to the live events and however often it is cut off, unless a
\* stream was opened more than a page behind.
THEOREM NothingIsMissed == StreamSpec => []GapFree
<1>1. StreamInv => GapFree
  BY DEF StreamInv, Contiguous, GapFree
<1> QED BY <1>1, StreamInitHolds, StreamNextHolds, PTL DEF StreamSpec
=============================================================================
