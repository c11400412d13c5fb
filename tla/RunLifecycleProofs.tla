------------------------- MODULE RunLifecycleProofs -------------------------
(***************************************************************************)
(* Theorems about RunLifecycle for every set of runs, conversations and    *)
(* projects and every bound.                                               *)
(*                                                                         *)
(* IInv relates the command that serves a run to the rows of the run and   *)
(* of its execution; KInv adds the slots of the quota and the              *)
(* conversations that audits and fixes keep open; TInv adds the turns: who *)
(* reads the events of a session, and what is still queued for it.         *)
(***************************************************************************)
EXTENDS RunLifecycle, FiniteSetTheorems, SequenceTheorems, TLAPS

\* What a run and its execution are while a command serves the run, and after.
ServiceMatches ==
    \A r \in Run :
        /\ service[r] \in {"none", "refused"} =>
              run[r] = "none" /\ execution[r] = "none"
        /\ service[r] = "opening" =>
              run[r] = "queued" /\ execution[r] = "preflightPassed"
        /\ service[r] = "running" =>
              run[r] = "running" /\ execution[r] = "preflightPassed"
        /\ service[r] = "over" =>
              \/ run[r] \in Terminals /\ execution[r] = run[r]
              \/ run[r] = "queued" /\ execution[r] = "interrupted"

\* The values the rows and the service of a run take.
Statuses ==
    /\ run \in [Run -> RunStates]
    /\ execution \in [Run -> {"none", "preflightPassed"} \cup Terminals]
    /\ service \in [Run -> {"none", "refused", "opening", "running", "over"}]

\* The inductive invariant of runs and executions.
IInv == Statuses /\ ServiceMatches /\ CompletedFixPushed

-----------------------------------------------------------------------------
\* The initial state satisfies the inductive invariant.
LEMMA InitInv == Init => IInv
BY DEF Init, IInv, Statuses, ServiceMatches, CompletedFixPushed, RunStates,
       Terminals

\* #finalize and the catch clause bring a run and its execution to one end.
LEMMA SettleStep ==
    ASSUME IInv, NEW r \in Run, NEW s \in Terminals,
           service[r] \in {"opening", "running"},
           service[r] = "opening" => s = "failed",
           Settle(r, s), service' = [service EXCEPT ![r] = "over"],
           pushed \subseteq pushed',
           s = "completed" /\ KindOf[r] = "fix" => r \in pushed'
    PROVE  IInv'
<1>1. MayTransition(run[r], s) /\ execution[r] = "preflightPassed"
    BY DEF IInv, Statuses, ServiceMatches, MayTransition, Terminals
<1>2. /\ run' = [run EXCEPT ![r] = s]
      /\ execution' = [execution EXCEPT ![r] = s]
    BY <1>1 DEF Settle
<1>3. Statuses'
    BY <1>2 DEF IInv, Statuses, RunStates
<1>4. ServiceMatches'
    BY <1>2 DEF IInv, Statuses, ServiceMatches
<1>5. CompletedFixPushed'
    BY <1>2 DEF IInv, Statuses, CompletedFixPushed
<1> QED BY <1>3, <1>4, <1>5 DEF IInv

\* ... and #finalize does so whether or not the run was ended before.
LEMMA FinalizeStep ==
    ASSUME IInv, NEW r \in Run, NEW s \in Terminals, Finalize(r, s),
           pushed \subseteq pushed',
           s = "completed" /\ KindOf[r] = "fix" => r \in pushed'
    PROVE  IInv'
<1>1. CASE Live(r)
    BY <1>1, SettleStep DEF Finalize, Live
<1>2. CASE ~Live(r)
    <2>1. UNCHANGED <<run, execution, service>>
        BY <1>2 DEF Finalize
    <2> QED BY <2>1 DEF IInv, Statuses, ServiceMatches, CompletedFixPushed
<1> QED BY <1>1, <1>2

\* A step that leaves the runs and what serves them alone.
LEMMA OtherStep ==
    ASSUME IInv, UNCHANGED <<run, execution, service>>, pushed \subseteq pushed'
    PROVE  IInv'
BY DEF IInv, Statuses, ServiceMatches, CompletedFixPushed

\* The start of a turn.
LEMMA TurnStartsStep ==
    ASSUME IInv, NEW r \in Run, TurnStarts(r, session), pushed' = pushed
    PROVE  IInv'
<1>1. /\ run' = [run EXCEPT ![r] = "running"]
      /\ execution' = [execution EXCEPT ![r] = "preflightPassed"]
      /\ service' = [service EXCEPT ![r] = "running"]
    BY DEF TurnStarts
<1> QED BY <1>1 DEF IInv, Statuses, ServiceMatches, CompletedFixPushed, RunStates

\* A command that starts an audit or a fix.
LEMMA StartRunStep ==
    ASSUME IInv, NEW r \in Run, StartRun(r)
    PROVE  IInv'
<1>1. CASE ProjectBusy(ConversationOf[r])
    <2>1. /\ service[r] = "none"
          /\ service' = [service EXCEPT ![r] = "refused"]
          /\ UNCHANGED <<run, execution, pushed>>
        BY <1>1 DEF StartRun
    <2> QED BY <2>1 DEF IInv, Statuses, ServiceMatches, CompletedFixPushed
<1>2. CASE ~ProjectBusy(ConversationOf[r])
    <2>1. /\ service' = [service EXCEPT ![r] = "opening"]
          /\ run' = [run EXCEPT ![r] = "queued"]
          /\ execution' = [execution EXCEPT ![r] = "preflightPassed"]
          /\ pushed' = pushed
        BY <1>2 DEF StartRun
    <2> QED BY <2>1 DEF IInv, Statuses, ServiceMatches, CompletedFixPushed, RunStates
<1> QED BY <1>1, <1>2

\* A message, accepted or refused.
LEMMA MessageStep ==
    ASSUME IInv, NEW r \in Run, Message(r)
    PROVE  IInv'
<1>1. CASE Idle(ConversationOf[r])
    BY <1>1, TurnStartsStep DEF Message
<1>2. CASE ~Idle(ConversationOf[r])
    <2>1. /\ run' = [run EXCEPT ![r] = "failed"]
          /\ execution' = [execution EXCEPT ![r] = "failed"]
          /\ service' = [service EXCEPT ![r] = "over"]
          /\ pushed' = pushed
        BY <1>2 DEF Message
    <2> QED BY <2>1 DEF IInv, Statuses, ServiceMatches, CompletedFixPushed,
                        RunStates, Terminals
<1> QED BY <1>1, <1>2

\* One event of a run.  A completed fix goes to its push.
LEMMA ConsumeStep ==
    ASSUME IInv, NEW r \in Run, Consume(r)
    PROVE  IInv'
<1> DEFINE event == Head(Queue(r))
<1>1. pushed' = pushed
    BY DEF Consume
<1>2. CASE UNCHANGED <<run, execution, service>>
    BY <1>1, <1>2, OtherStep
<1>3. CASE event \in Terminals /\ ~Delivers(r, event) /\ Finalize(r, event)
    BY <1>1, <1>3, FinalizeStep DEF Delivers
<1> QED BY <1>2, <1>3 DEF Consume

\* The push of a fix: what is recorded completed has landed.
LEMMA PushedStep ==
    ASSUME IInv, NEW r \in Run, Pushed(r)
    PROVE  IInv'
<1>1. PICK landed \in BOOLEAN, accepted \in BOOLEAN :
        /\ accepted => landed
        /\ pushed' = IF landed THEN pushed \cup {r} ELSE pushed
        /\ Finalize(r, IF accepted THEN "completed" ELSE "failed")
    BY DEF Pushed
<1>2. CASE accepted
    <2>1. Finalize(r, "completed") /\ pushed' = pushed \cup {r}
        BY <1>1, <1>2
    <2> QED BY <2>1, FinalizeStep DEF Terminals
<1>3. CASE ~accepted
    <2>1. Finalize(r, "failed") /\ pushed \subseteq pushed'
        BY <1>1, <1>3
    <2> QED BY <2>1, FinalizeStep DEF Terminals
<1> QED BY <1>2, <1>3

\* A restart interrupts running runs with their executions; of a queued run it
\* interrupts the execution alone.
LEMMA RestartStep ==
    ASSUME IInv, Restart
    PROVE  IInv'
<1>1. /\ run' = [r \in Run |-> RecoveredRun(r)]
      /\ execution' = [r \in Run |-> RecoveredExecution(r)]
      /\ service' = [r \in Run |->
            IF service[r] \in {"opening", "running"} THEN "over" ELSE service[r]]
      /\ pushed \subseteq pushed'
    BY DEF Restart
<1>2. Statuses'
    BY <1>1 DEF IInv, Statuses, RunStates, Terminals, RecoveredRun,
                RecoveredExecution
<1>3. ServiceMatches'
    BY <1>1 DEF IInv, Statuses, ServiceMatches, RunStates, Terminals,
                RecoveredRun, RecoveredExecution, InFlight
<1>4. CompletedFixPushed'
    BY <1>1 DEF IInv, Statuses, CompletedFixPushed, RecoveredRun
<1> QED BY <1>2, <1>3, <1>4 DEF IInv

\* Every step keeps the inductive invariant.
LEMMA NextInv == IInv /\ [Next]_vars => IInv'
<1> SUFFICES ASSUME IInv, [Next]_vars PROVE IInv'
    OBVIOUS
<1>1. ASSUME NEW r \in Run, RunOpened(r) PROVE IInv'
    BY <1>1, TurnStartsStep DEF RunOpened
<1>2. ASSUME NEW r \in Run, RunRefused(r) PROVE IInv'
    BY <1>2, SettleStep DEF RunRefused, Terminals
<1>3. ASSUME NEW r \in Run, StreamFails(r) PROVE IInv'
    <2>1. pushed' = pushed
        BY <1>3 DEF StreamFails
    <2>2. CASE UNCHANGED <<run, execution, service>>
        BY <2>1, <2>2, OtherStep
    <2>3. CASE Finalize(r, "failed")
        BY <2>1, <2>3, FinalizeStep DEF Terminals
    <2> QED BY <1>3, <2>2, <2>3 DEF StreamFails
<1>4. ASSUME NEW r \in Run, StreamStopped(r) PROVE IInv'
    BY <1>4, FinalizeStep DEF StreamStopped, Terminals
<1>5. ASSUME NEW r \in Run, TimerFires(r) PROVE IInv'
    <2>1. pushed' = pushed
        BY <1>5 DEF TimerFires
    <2>2. CASE UNCHANGED <<run, execution, service>>
        BY <2>1, <2>2, OtherStep
    <2>3. CASE Finalize(r, "failed")
        BY <2>1, <2>3, FinalizeStep DEF Terminals
    <2> QED BY <1>5, <2>2, <2>3 DEF TimerFires
<1>6. ASSUME NEW r \in Run, TimerDone(r) PROVE IInv'
    BY <1>6, FinalizeStep DEF TimerDone, Terminals
<1>7. ASSUME NEW r \in Run, ResolveApproval(r) PROVE IInv'
    BY <1>7, OtherStep DEF ResolveApproval
<1>8. ASSUME NEW c \in Conversation,
             Create(c) \/ Created(c) \/ Close(c) \/ UserInterrupt(c) \/ Resume(c)
      PROVE  IInv'
    BY <1>8, OtherStep
       DEF Create, Created, Close, UserInterrupt, Resume, durable, memory
<1>9. ASSUME NEW c \in Conversation,
             AgentAsks(c) \/ AgentEnds(c) \/ Overflow(c) \/ StopEnds(c) \/ Evict(c)
      PROVE  IInv'
    BY <1>9, OtherStep
       DEF AgentAsks, AgentEnds, Overflow, StopEnds, Evict, durable
<1>10. CASE UNCHANGED vars
    BY <1>10, OtherStep DEF vars, durable, memory
<1> QED BY <1>1, <1>2, <1>3, <1>4, <1>5, <1>6, <1>7, <1>8, <1>9, <1>10,
           StartRunStep, MessageStep, ConsumeStep, PushedStep, RestartStep
           DEF Next

\* The inductive invariant holds in every reachable state.
THEOREM Inductive == Spec => []IInv
<1>1. Init => IInv
    BY InitInv
<1>2. IInv /\ [Next]_vars => IInv'
    BY NextInv
<1> QED BY <1>1, <1>2, PTL DEF Spec

\* A run and its execution end together, whoever ends them.
THEOREM RunAndExecutionAgree == Spec => []ExecutionFollowsRun
<1>1. IInv => ExecutionFollowsRun
    BY DEF IInv, Statuses, ServiceMatches, ExecutionFollowsRun, RunStates,
           Terminals
<1> QED BY <1>1, Inductive, PTL

\* A fix that is recorded completed has been pushed.
THEOREM CompletedFixIsPushed == Spec => []CompletedFixPushed
<1>1. IInv => CompletedFixPushed
    BY DEF IInv
<1> QED BY <1>1, Inductive, PTL

-----------------------------------------------------------------------------
(* Slots and projects of the runs under way. *)

\* The counter of the quota covers the runs served.
Slots == active \in Nat /\ SlotsKept

\* The states of a conversation.
Conversations == conversation \in [Conversation -> {"none", "open", "closed"}]

\* The inductive invariant of slots and conversations.
KInv == IInv /\ Conversations /\ Slots /\ ServedIsOpen

\* A set of served runs is a set of runs.
LEMMA HoldingFinite == IsFiniteSet(Holding) /\ Cardinality(Holding) \in Nat
<1>1. Holding \subseteq Run
    BY DEF Holding
<1>2. IsFiniteSet(Holding)
    BY <1>1, LifecycleAssumption, FS_Subset
<1> QED BY <1>2, FS_CardinalityType

\* A run that is admitted takes a slot of its own.
LEMMA TakeSlot ==
    ASSUME Slots, NEW r \in Run, r \notin Holding,
           Holding' = Holding \cup {r}, active' = active + 1
    PROVE  Slots'
<1>1. Cardinality(Holding') = Cardinality(Holding) + 1
    BY HoldingFinite, FS_AddElement
<1> QED BY <1>1, HoldingFinite DEF Slots, SlotsKept

\* A run that was served and is over gives one slot back.
LEMMA GiveSlot ==
    ASSUME Slots, NEW r \in Run, r \in Holding,
           Holding' = Holding \ {r}, active' = Released
    PROVE  Slots'
<1>1. Cardinality(Holding') = Cardinality(Holding) - 1
    BY HoldingFinite, FS_RemoveElement
<1>2. Cardinality(Holding) >= 1
    BY <1>1, HoldingFinite, FS_EmptySet
<1> QED BY <1>1, <1>2, HoldingFinite DEF Slots, SlotsKept, Released

\* A step that changes neither the runs served nor the counter.
LEMMA KeepSlots ==
    ASSUME Slots, Holding' = Holding, active' = active
    PROVE  Slots'
BY DEF Slots, SlotsKept

\* Fewer audits and fixes served, and no conversation closed.
LEMMA StillOpen ==
    ASSUME ServedIsOpen,
           \A r \in Run : KindOf[r] # "conversation" /\ r \in Holding' =>
               r \in Holding
               /\ conversation'[ConversationOf[r]] = conversation[ConversationOf[r]]
    PROVE  ServedIsOpen'
BY DEF ServedIsOpen

\* #finalize gives the slot of a run back once.
LEMMA FinalizeSlot ==
    ASSUME KInv, NEW r \in Run, NEW s \in Terminals, Finalize(r, s),
           conversation' = conversation
    PROVE  Slots' /\ ServedIsOpen'
<1>1. CASE Live(r)
    <2>1. /\ service' = [service EXCEPT ![r] = "over"]
          /\ active' = Released
        BY <1>1 DEF Finalize
    <2>2. r \in Holding /\ Holding' = Holding \ {r}
        BY <1>1, <2>1 DEF Holding, Live, KInv, IInv, Statuses
    <2>3. Slots'
        BY <2>1, <2>2, GiveSlot DEF KInv
    <2>4. ServedIsOpen'
        BY <2>2, StillOpen DEF KInv
    <2> QED BY <2>3, <2>4
<1>2. CASE ~Live(r)
    <2>1. service' = service /\ active' = active
        BY <1>2 DEF Finalize
    <2>2. Holding' = Holding
        BY <2>1 DEF Holding
    <2> QED BY <2>1, <2>2, KeepSlots, StillOpen DEF KInv
<1> QED BY <1>1, <1>2

\* A step that leaves services, counter and conversations alone.
LEMMA OtherSlot ==
    ASSUME KInv, UNCHANGED <<service, active, conversation>>
    PROVE  Slots' /\ ServedIsOpen'
<1>1. Holding' = Holding
    BY DEF Holding
<1> QED BY <1>1, KeepSlots, StillOpen DEF KInv

\* An audit or a fix takes its slot and opens its conversation.
LEMMA StartRunSlot ==
    ASSUME KInv, NEW r \in Run, StartRun(r)
    PROVE  Slots' /\ ServedIsOpen'
<1>1. service[r] = "none" /\ r \notin Holding
    BY DEF StartRun, Holding
<1>2. CASE ProjectBusy(ConversationOf[r])
    <2>1. /\ service' = [service EXCEPT ![r] = "refused"]
          /\ active' = IF KindOf[r] = "fix" THEN active ELSE active + 1
          /\ conversation' = conversation
        BY <1>2 DEF StartRun
    <2>2. Holding' = Holding
        BY <1>1, <2>1 DEF Holding, KInv, IInv, Statuses
    <2>3. Slots'
        BY <2>1, <2>2, HoldingFinite DEF KInv, Slots, SlotsKept
    <2> QED BY <2>1, <2>2, <2>3, StillOpen DEF KInv
<1>3. CASE ~ProjectBusy(ConversationOf[r])
    <2>1. /\ service' = [service EXCEPT ![r] = "opening"]
          /\ active' = active + 1
          /\ conversation' = [conversation EXCEPT ![ConversationOf[r]] = "open"]
        BY <1>3 DEF StartRun
    <2>2. Holding' = Holding \cup {r}
        BY <2>1 DEF Holding, KInv, IInv, Statuses
    <2>3. Slots'
        BY <1>1, <2>1, <2>2, TakeSlot DEF KInv
    <2>4. ServedIsOpen'
        <3>1. ConversationOf[r] \in Conversation
            BY LifecycleAssumption
        <3> QED BY <2>1, <2>2, <3>1 DEF KInv, Conversations, ServedIsOpen
    <2> QED BY <2>3, <2>4
<1> QED BY <1>2, <1>3

\* A turn starts for a run that is served, or that takes a slot now.
LEMMA TurnStartsSlot ==
    ASSUME KInv, NEW r \in Run, TurnStarts(r, session),
           UNCHANGED conversation,
           \/ r \in Holding /\ active' = active
           \/ /\ r \notin Holding /\ active' = active + 1
              /\ KindOf[r] = "conversation"
    PROVE  Slots' /\ ServedIsOpen'
<1>1. service' = [service EXCEPT ![r] = "running"]
    BY DEF TurnStarts
<1>2. Holding' = Holding \cup {r}
    BY <1>1 DEF Holding, KInv, IInv, Statuses
<1>3. CASE r \in Holding /\ active' = active
    BY <1>2, <1>3, KeepSlots, StillOpen DEF KInv
<1>4. CASE r \notin Holding /\ active' = active + 1 /\ KindOf[r] = "conversation"
    <2>1. Slots'
        BY <1>2, <1>4, TakeSlot DEF KInv
    <2>2. ServedIsOpen'
        BY <1>2, <1>4, StillOpen DEF KInv
    <2> QED BY <2>1, <2>2
<1> QED BY <1>3, <1>4

\* A message takes a slot when its turn starts, and none when it is refused.
LEMMA MessageSlot ==
    ASSUME KInv, NEW r \in Run, Message(r)
    PROVE  Slots' /\ ServedIsOpen'
<1>1. /\ service[r] = "none" /\ r \notin Holding
      /\ KindOf[r] = "conversation" /\ UNCHANGED conversation
    BY DEF Message, Holding
<1>2. CASE Idle(ConversationOf[r])
    BY <1>1, <1>2, TurnStartsSlot DEF Message
<1>3. CASE ~Idle(ConversationOf[r])
    <2>1. service' = [service EXCEPT ![r] = "over"] /\ active' = active
        BY <1>3 DEF Message
    <2>2. Holding' = Holding
        BY <1>1, <2>1 DEF Holding, KInv, IInv, Statuses
    <2> QED BY <1>1, <2>1, <2>2, KeepSlots, StillOpen DEF KInv
<1> QED BY <1>2, <1>3

\* createSession fails: the slot is given back; a fix closes the conversation
\* that no other audit or fix is served in.
LEMMA RunRefusedSlot ==
    ASSUME KInv, NEW r \in Run, RunRefused(r)
    PROVE  Slots' /\ ServedIsOpen'
<1>1. /\ service[r] = "opening"
      /\ service' = [service EXCEPT ![r] = "over"]
      /\ active' = Released
      /\ conversation' = IF KindOf[r] = "fix"
                         THEN [conversation EXCEPT ![ConversationOf[r]] = "closed"]
                         ELSE conversation
    BY DEF RunRefused
<1>2. r \in Holding /\ Holding' = Holding \ {r}
    BY <1>1 DEF Holding, KInv, IInv, Statuses
<1>3. Slots'
    BY <1>1, <1>2, GiveSlot DEF KInv
<1>4. ASSUME NEW s \in Run, KindOf[s] # "conversation", s \in Holding'
      PROVE  s \in Holding
             /\ conversation'[ConversationOf[s]] = conversation[ConversationOf[s]]
    <2>1. s \in Holding /\ s # r
        BY <1>2, <1>4
    <2>2. KindOf[r] = "fix" => ConversationOf[s] # ConversationOf[r]
        BY <1>4, <2>1, LifecycleAssumption DEF Owned
    <2> QED BY <1>1, <2>1, <2>2, LifecycleAssumption DEF KInv, Conversations
<1>5. ServedIsOpen'
    BY <1>4, StillOpen DEF KInv
<1> QED BY <1>3, <1>5

\* The close route spares a conversation with an unfinished run.
LEMMA CloseSlot ==
    ASSUME KInv, NEW c \in Conversation, Close(c)
    PROVE  Slots' /\ ServedIsOpen'
<1>1. /\ UNCHANGED <<service, active>> /\ ~Unfinished(c)
      /\ conversation' = [conversation EXCEPT ![c] = "closed"]
    BY DEF Close, memory
<1>2. Holding' = Holding
    BY <1>1 DEF Holding
<1>3. \A s \in Holding : run[s] \in {"queued", "running"}
    BY DEF Holding, KInv, IInv, ServiceMatches
<1>4. \A s \in Holding : ConversationOf[s] # c
    BY <1>1, <1>3 DEF Unfinished, Holding
<1>5. \A s \in Run : s \in Holding' => s \in Holding
          /\ conversation'[ConversationOf[s]] = conversation[ConversationOf[s]]
    BY <1>1, <1>2, <1>4, LifecycleAssumption DEF KInv, Conversations
<1> QED BY <1>1, <1>2, <1>5, KeepSlots, StillOpen DEF KInv

\* create opens a conversation, or closes one that no audit or fix owns.
LEMMA CreateSlot ==
    ASSUME KInv, NEW c \in Conversation, Create(c) \/ Created(c)
    PROVE  Slots' /\ ServedIsOpen'
<1>1. /\ UNCHANGED <<service, active>> /\ Owned(c) = {}
      /\ conversation' \in {conversation, [conversation EXCEPT ![c] = "open"],
                            [conversation EXCEPT ![c] = "closed"]}
    BY DEF Create, Created
<1>2. Holding' = Holding
    BY <1>1 DEF Holding
<1>3. ASSUME NEW s \in Run, KindOf[s] # "conversation", s \in Holding'
      PROVE  s \in Holding
             /\ conversation'[ConversationOf[s]] = conversation[ConversationOf[s]]
    <2>1. ConversationOf[s] # c
        BY <1>1, <1>3 DEF Owned
    <2> QED BY <1>1, <1>2, <1>3, <2>1, LifecycleAssumption
               DEF KInv, Conversations
<1> QED BY <1>1, <1>2, <1>3, KeepSlots, StillOpen DEF KInv

\* A restart counts from nothing and serves nothing.
LEMMA RestartSlot ==
    ASSUME KInv, Restart
    PROVE  Slots' /\ ServedIsOpen'
<1>1. /\ active' = 0
      /\ service' = [r \in Run |->
            IF service[r] \in {"opening", "running"} THEN "over" ELSE service[r]]
    BY DEF Restart
<1>2. Holding' = {}
    BY <1>1 DEF Holding
<1> QED BY <1>1, <1>2, FS_EmptySet DEF Slots, SlotsKept, ServedIsOpen

\* A conversation is absent, open or closed.
LEMMA ConversationsStep ==
    ASSUME KInv,
           \/ conversation' = conversation
           \/ \E c \in Conversation, s \in {"open", "closed"} :
                  conversation' = [conversation EXCEPT ![c] = s]
    PROVE  Conversations'
BY DEF KInv, Conversations

\* Every step keeps slots, conversations and the projects of the runs served.
LEMMA NextSlots == KInv /\ [Next]_vars => KInv'
<1> SUFFICES ASSUME KInv, [Next]_vars
             PROVE  Conversations' /\ Slots' /\ ServedIsOpen'
    BY NextInv DEF KInv
<1> USE ConversationsStep
<1>1. ASSUME NEW r \in Run, StartRun(r)
      PROVE  Conversations' /\ Slots' /\ ServedIsOpen'
    BY <1>1, StartRunSlot, LifecycleAssumption DEF StartRun
<1>2. ASSUME NEW r \in Run, RunRefused(r)
      PROVE  Conversations' /\ Slots' /\ ServedIsOpen'
    BY <1>2, RunRefusedSlot, LifecycleAssumption DEF RunRefused
<1>3. ASSUME NEW c \in Conversation, Create(c) \/ Created(c)
      PROVE  Conversations' /\ Slots' /\ ServedIsOpen'
    BY <1>3, CreateSlot DEF Create, Created
<1>4. ASSUME NEW c \in Conversation, Close(c)
      PROVE  Conversations' /\ Slots' /\ ServedIsOpen'
    BY <1>4, CloseSlot DEF Close
<1>5. ASSUME NEW r \in Run, RunOpened(r)
      PROVE  Conversations' /\ Slots' /\ ServedIsOpen'
    BY <1>5, TurnStartsSlot DEF RunOpened, Holding
<1>6. ASSUME NEW r \in Run, Message(r)
      PROVE  Conversations' /\ Slots' /\ ServedIsOpen'
    BY <1>6, MessageSlot DEF Message
<1>7. ASSUME NEW r \in Run, Consume(r)
      PROVE  Conversations' /\ Slots' /\ ServedIsOpen'
    <2>1. conversation' = conversation
        BY <1>7 DEF Consume
    <2>2. CASE UNCHANGED <<service, active>>
        BY <2>1, <2>2, OtherSlot
    <2>3. CASE Head(Queue(r)) \in Terminals /\ Finalize(r, Head(Queue(r)))
        BY <2>1, <2>3, FinalizeSlot
    <2> QED BY <1>7, <2>2, <2>3 DEF Consume
<1>8. ASSUME NEW r \in Run, StreamFails(r) \/ TimerFires(r)
      PROVE  Conversations' /\ Slots' /\ ServedIsOpen'
    <2>1. conversation' = conversation
        BY <1>8 DEF StreamFails, TimerFires
    <2>2. CASE UNCHANGED <<service, active>>
        BY <2>1, <2>2, OtherSlot
    <2>3. CASE Finalize(r, "failed")
        BY <2>1, <2>3, FinalizeSlot DEF Terminals
    <2> QED BY <1>8, <2>2, <2>3 DEF StreamFails, TimerFires
<1>9. ASSUME NEW r \in Run, StreamStopped(r) \/ TimerDone(r)
      PROVE  Conversations' /\ Slots' /\ ServedIsOpen'
    BY <1>9, FinalizeSlot DEF StreamStopped, TimerDone, Terminals
<1>10. ASSUME NEW r \in Run, Pushed(r)
       PROVE  Conversations' /\ Slots' /\ ServedIsOpen'
    <2>1. conversation' = conversation
        BY <1>10 DEF Pushed
    <2>2. Finalize(r, "completed") \/ Finalize(r, "failed")
        BY <1>10 DEF Pushed
    <2> QED BY <2>1, <2>2, FinalizeSlot DEF Terminals
<1>11. ASSUME NEW r \in Run, ResolveApproval(r)
       PROVE  Conversations' /\ Slots' /\ ServedIsOpen'
    BY <1>11, OtherSlot DEF ResolveApproval
<1>12. ASSUME NEW c \in Conversation,
              \/ UserInterrupt(c) \/ Resume(c) \/ AgentAsks(c) \/ AgentEnds(c)
              \/ Overflow(c) \/ StopEnds(c) \/ Evict(c)
       PROVE  Conversations' /\ Slots' /\ ServedIsOpen'
    <2>1. UNCHANGED <<service, active, conversation>>
        BY <1>12 DEF UserInterrupt, Resume, AgentAsks, AgentEnds, Overflow,
                     StopEnds, Evict, durable
    <2> QED BY <2>1, OtherSlot
<1>13. CASE Restart
    BY <1>13, RestartSlot DEF Restart
<1>14. CASE UNCHANGED vars
    BY <1>14, OtherSlot DEF vars, durable, memory
<1> QED BY <1>1, <1>2, <1>3, <1>4, <1>5, <1>6, <1>7, <1>8, <1>9, <1>10, <1>11,
           <1>12, <1>13, <1>14 DEF Next

\* The invariant of slots and conversations holds in every reachable state.
THEOREM InductiveSlots == Spec => []KInv
<1>1. Init => KInv
    <2>1. Init => Holding = {}
        BY DEF Init, Holding
    <2> QED BY <2>1, InitInv, FS_EmptySet
            DEF Init, KInv, Conversations, Slots, SlotsKept, ServedIsOpen
<1>2. KInv /\ [Next]_vars => KInv'
    BY NextSlots
<1> QED BY <1>1, <1>2, PTL DEF Spec

\* A run that is served keeps its slot, whatever ended the runs before it.
THEOREM ServedRunsKeepSlots == Spec => []SlotsKept
<1>1. KInv => SlotsKept
    BY DEF KInv, Slots
<1> QED BY <1>1, InductiveSlots, PTL

\* The conversation of an audit or a fix that is served stays open.
THEOREM ServedConversationsOpen == Spec => []ServedIsOpen
<1>1. KInv => ServedIsOpen
    BY DEF KInv
<1> QED BY <1>1, InductiveSlots, PTL

-----------------------------------------------------------------------------
(* The turn the agent works on, as long as every event could be persisted. *)

\* The states of a run whose turn may still be stopped.
AtWork == {"active"} \cup Stopping

\* The runs whose loop waits for events of a conversation.
Readers(c) == {r \in Run : ConversationOf[r] = c /\ loop[r] = "waiting"}

\* What is queued during a turn, and after it until its end has been read.
NoEnd(q) == \A i \in 1 .. Len(q) : q[i] \notin Terminals

\* Only the last event of a queue ends the turn.
EndsOnce(q) ==
    /\ q # <<>> /\ q[Len(q)] \in Terminals
    /\ \A i \in 1 .. Len(q) - 1 : q[i] \notin Terminals

\* During a turn only its run reads the events, and no end of a turn is among
\* them; between turns either nobody reads, or one run has the end still to read.
Watched(c) ==
    /\ session[c].phase \in AtWork =>
          /\ session[c].turn \in Run
          /\ Readers(c) = {session[c].turn} /\ NoEnd(session[c].queue)
          /\ session[c].phase = "active" =>
                /\ service[session[c].turn] = "running"
                /\ timer[session[c].turn] = "armed"
    /\ session[c].phase \notin AtWork =>
          \/ Readers(c) = {} /\ session[c].queue = <<>>
          \/ /\ \E r \in Run : Readers(c) = {r}
             /\ EndsOnce(session[c].queue)

\* A conversation that is yet to be created, or that is being created.
Awaited ==
    /\ \A r \in Run : KindOf[r] # "conversation" =>
          /\ service[r] \in {"none", "refused"} =>
                /\ session[ConversationOf[r]].phase = "none"
                /\ ConversationOf[r] \notin bound
    /\ \A r \in Run : service[r] = "opening" =>
          /\ KindOf[r] # "conversation"
          /\ session[ConversationOf[r]].phase = "opening"
    /\ \A c \in Conversation : Owned(c) = {} /\ conversation[c] = "none" =>
          session[c].phase = "none" /\ c \notin bound

\* A session of the agent.
Session == [phase : Phases, turn : Run \cup {NoRun}, asked : BOOLEAN, queue : Seq(Events)]

\* The sessions are sessions, and their queues end at most once.
SessionsOK ==
    /\ session \in [Conversation -> Session]
    /\ DOMAIN loop = Run /\ DOMAIN timer = Run /\ faults \in Nat

\* The inductive invariant of turns.
Turns == SessionsOK /\ (faults = 0 => Awaited /\ \A c \in Conversation : Watched(c))

\* The run at work is the newest run of its conversation.
Newest ==
    /\ DOMAIN latest = Conversation
    /\ \A c \in Conversation : latest[c] # NoRun =>
          latest[c] \in Run /\ ConversationOf[latest[c]] = c

\* The inductive invariant of the turns.
TInv == KInv /\ Newest /\ Turns

\* One event is added to a queue without an end.
LEMMA AddEvent ==
    ASSUME NEW q \in Seq(Events), NoEnd(q), NEW e \in Events
    PROVE  /\ q \o <<e>> \in Seq(Events)
           /\ e \notin Terminals => NoEnd(q \o <<e>>)
           /\ e \in Terminals => EndsOnce(q \o <<e>>)
<1> DEFINE one == <<e>>
<1>1. one \in Seq(Events) /\ Len(one) = 1 /\ one[1] = e
  OBVIOUS
<1> HIDE DEF one
<1> DEFINE all == q \o one
<1>2. /\ all \in Seq(Events) /\ Len(all) = Len(q) + 1 /\ Len(q) \in Nat
      /\ \A i \in 1 .. Len(q) : all[i] = q[i]
      /\ all[Len(q) + 1] = e
  BY <1>1, ConcatProperties
<1> HIDE DEF all
<1>3. all # <<>>
  BY <1>2
<1>4. ASSUME e \notin Terminals, NEW i \in 1 .. Len(all) PROVE all[i] \notin Terminals
  <2>1. i \in 1 .. Len(q) \/ i = Len(q) + 1
    BY <1>2
  <2> QED BY <2>1, <1>2, <1>4 DEF NoEnd
<1>5. ASSUME NEW i \in 1 .. Len(all) - 1 PROVE all[i] \notin Terminals
  <2>1. i \in 1 .. Len(q)
    BY <1>2
  <2> QED BY <2>1, <1>2 DEF NoEnd
<1>6. e \notin Terminals => NoEnd(all)
  BY <1>4 DEF NoEnd
<1>7. e \in Terminals => EndsOnce(all)
  BY <1>2, <1>3, <1>5 DEF EndsOnce
<1> QED BY <1>2, <1>6, <1>7 DEF all, one

\* The end of a turn is added, after the permissions that expire.
LEMMA AddEnd ==
    ASSUME NEW q \in Seq(Events), NoEnd(q), NEW asked \in BOOLEAN, NEW e \in Terminals
    PROVE  /\ EndsOnce(q \o (Expiry(asked) \o <<e>>))
           /\ q \o (Expiry(asked) \o <<e>>) \in Seq(Events)
<1>1. Expiry(asked) \in Seq(Events) /\ <<e>> \in Seq(Events)
  <2>1. "expired" \in Events /\ e \in Events
    BY DEF Events
  <2>2. CASE asked BY <2>1, <2>2 DEF Expiry
  <2>3. CASE ~asked BY <2>1, <2>3 DEF Expiry
  <2> QED BY <2>2, <2>3
<1>2. q \o (Expiry(asked) \o <<e>>) = (q \o Expiry(asked)) \o <<e>>
  BY <1>1, ConcatAssociative
<1>3. (q \o Expiry(asked)) \in Seq(Events) /\ NoEnd(q \o Expiry(asked))
  <2>1. CASE asked
    <3>1. "expired" \in Events /\ "expired" \notin Terminals
      BY DEF Events, Terminals
    <3>2. Expiry(asked) = <<"expired">>
      BY <2>1 DEF Expiry
    <3> QED BY <3>1, <3>2, AddEvent
  <2>2. CASE ~asked
    <3>1. q \o Expiry(asked) = q
      BY <2>2, ConcatEmptySeq DEF Expiry
    <3> QED BY <3>1
  <2> QED BY <2>1, <2>2
<1>4. e \in Events
  BY DEF Events
<1> QED BY <1>2, <1>3, <1>4, AddEvent

\* The first event of a queue is taken.
LEMMA TakeEvent ==
    ASSUME NEW q \in Seq(Events), q # <<>>
    PROVE  /\ Tail(q) \in Seq(Events)
           /\ NoEnd(q) => Head(q) \notin Terminals /\ NoEnd(Tail(q))
           /\ EndsOnce(q) /\ Head(q) \notin Terminals => EndsOnce(Tail(q))
           /\ EndsOnce(q) /\ Head(q) \in Terminals => Tail(q) = <<>>
<1> DEFINE t == Tail(q)
<1>1. /\ t \in Seq(Events) /\ Len(t) = Len(q) - 1 /\ Len(q) \in Nat \ {0}
      /\ \A i \in 1 .. Len(q) - 1 : t[i] = q[i + 1]
      /\ Head(q) = q[1]
  OBVIOUS
<1> HIDE DEF t
<1>2. NoEnd(q) => Head(q) \notin Terminals /\ NoEnd(t)
  BY <1>1 DEF NoEnd
<1>3. ASSUME EndsOnce(q), Head(q) \notin Terminals PROVE EndsOnce(t)
  <2>1. Len(q) > 1
    <3>1. q[Len(q)] \in Terminals /\ q[1] \notin Terminals
      BY <1>1, <1>3 DEF EndsOnce
    <3>2. Len(q) # 1
      BY <3>1
    <3> QED BY <3>2, <1>1
  <2>2. Len(t) \in Nat \ {0}
    BY <2>1, <1>1
  <2>3. t # <<>>
    BY <2>2
  <2>4. t[Len(t)] = q[Len(q)]
    BY <2>2, <1>1
  <2>5. \A i \in 1 .. Len(t) - 1 : t[i] \notin Terminals
    BY <1>1, <1>3 DEF EndsOnce
  <2> QED BY <2>3, <2>4, <2>5, <1>3 DEF EndsOnce
<1>4. ASSUME EndsOnce(q), Head(q) \in Terminals PROVE t = <<>>
  <2>1. Len(q) = 1
    BY <1>1, <1>4 DEF EndsOnce
  <2>2. Len(t) = 0
    BY <2>1, <1>1
  <2> QED BY <2>2, <1>1
<1> QED BY <1>1, <1>2, <1>3, <1>4 DEF t

\* When nothing is left to be read, a conversation between turns has no reader.
LEMMA QuietIsRead ==
    ASSUME SessionsOK, Quiet, NEW c \in Conversation, Watched(c),
           session[c].phase \notin AtWork
    PROVE  Readers(c) = {} /\ session[c].queue = <<>>
BY DEF Quiet, Reads, Queue, Watched, Readers, EndsOnce

\* A conversation that a step does not touch.
LEMMA Untouched ==
    ASSUME SessionsOK, NEW c \in Conversation, Watched(c), session'[c] = session[c],
           \A r \in Run : ConversationOf[r] = c =>
              /\ loop'[r] = "waiting" <=> loop[r] = "waiting"
              /\ session[c].phase = "active" /\ session[c].turn = r
                    /\ loop[r] = "waiting" =>
                    /\ service[r] = "running" => service'[r] = "running"
                    /\ timer[r] = "armed" => timer'[r] = "armed"
    PROVE  Watched(c)'
<1>1. Readers(c)' = Readers(c)
  BY DEF Readers
<1> QED BY <1>1 DEF Watched, Readers
\* A step that changes the session of one conversation and no run.
LEMMA OnlySession ==
    ASSUME TInv, NEW c \in Conversation, NEW s \in Session,
           session' = [session EXCEPT ![c] = s],
           UNCHANGED <<service, loop, timer, faults, bound, conversation>>,
           session[c].phase \in {"none", "opening"} => s.phase = session[c].phase,
           faults = 0 /\ Watched(c) => Watched(c)'
    PROVE  Turns'
<1>1. /\ session'[c] = s /\ session' \in [Conversation -> Session]
      /\ \A d \in Conversation : d # c => session'[d] = session[d]
  BY DEF TInv, Turns, SessionsOK
<1>2. SessionsOK'
  BY <1>1 DEF TInv, Turns, SessionsOK
<1>3. ASSUME faults' = 0 PROVE Awaited' /\ \A d \in Conversation : Watched(d)'
  <2>1. Awaited /\ \A d \in Conversation : Watched(d)
    BY <1>3 DEF TInv, Turns
  <2>2. \A d \in Conversation : session[d].phase \in {"none", "opening"} =>
            session'[d].phase = session[d].phase
    BY <1>1
  <2>3. Awaited'
    BY <2>1, <2>2, LifecycleAssumption DEF Awaited
  <2>4. ASSUME NEW d \in Conversation, d # c PROVE Watched(d)'
    BY <2>1, <2>4, <1>1, Untouched DEF TInv, Turns
  <2> QED BY <1>3, <2>1, <2>3, <2>4
<1> QED BY <1>2, <1>3 DEF Turns

\* The turn is interrupted, or its events overflow.
LEMMA StoppingTurns ==
    ASSUME TInv, NEW c \in Conversation, NEW p \in Stopping, session[c].phase = "active",
           session' = [session EXCEPT ![c].phase = p],
           UNCHANGED <<service, loop, timer, faults, bound, conversation>>
    PROVE  Turns'
<1> DEFINE s == [session[c] EXCEPT !.phase = p]
<1>1. /\ s \in Session /\ s.phase = p /\ s.turn = session[c].turn /\ s.queue = session[c].queue
  BY DEF TInv, Turns, SessionsOK, Session, Phases
<1>2. session' = [session EXCEPT ![c] = s] /\ session'[c] = s
  BY DEF TInv, Turns, SessionsOK
<1> HIDE DEF s
<1>3. ASSUME Watched(c) PROVE Watched(c)'
  <2>1. Readers(c)' = Readers(c)
    BY DEF Readers
  <2> QED BY <1>1, <1>2, <1>3, <2>1 DEF Watched, AtWork, Stopping
<1> QED BY <1>1, <1>2, <1>3, OnlySession

\* An event of the turn that is not its end, and the answer to a permission.
LEMMA AskingTurns ==
    ASSUME TInv, NEW c \in Conversation, session[c].phase = "active",
           NEW asked \in BOOLEAN, NEW q \in Seq(Events),
           \/ q = session[c].queue
           \/ \E e \in {"requested", "expired"} : q = session[c].queue \o <<e>>,
           session' = [session EXCEPT ![c].asked = asked, ![c].queue = q],
           UNCHANGED <<service, loop, timer, faults, bound, conversation>>
    PROVE  Turns'
<1> DEFINE s == [session[c] EXCEPT !.asked = asked, !.queue = q]
<1>1. /\ s \in Session /\ s.phase = session[c].phase /\ s.turn = session[c].turn /\ s.queue = q
  BY DEF TInv, Turns, SessionsOK, Session
<1>2. session' = [session EXCEPT ![c] = s] /\ session'[c] = s
  BY DEF TInv, Turns, SessionsOK
<1> HIDE DEF s
<1>3. ASSUME Watched(c) PROVE Watched(c)'
  <2>1. Readers(c)' = Readers(c)
    BY DEF Readers
  <2>2. session[c].queue \in Seq(Events) /\ NoEnd(session[c].queue)
    BY <1>3 DEF Watched, AtWork, TInv, Turns, SessionsOK, Session
  <2>3. NoEnd(q)
    <3>1. \A e \in {"requested", "expired"} : e \in Events /\ e \notin Terminals
      BY DEF Events, Terminals
    <3> QED BY <2>2, <3>1, AddEvent
  <2> QED BY <1>1, <1>2, <1>3, <2>1, <2>3 DEF Watched, AtWork
<1> QED BY <1>1, <1>2, <1>3, OnlySession

\* The end of a turn is queued, whatever was queued before was kept or dropped.
LEMMA EndingTurns ==
    ASSUME TInv, NEW c \in Conversation, session[c].phase \in AtWork,
           NEW s \in Session, s.phase \in {"none", "resting"},
           NEW q \in {session[c].queue, <<>>}, NEW e \in Terminals,
           s.queue = q \o (Expiry(session[c].asked) \o <<e>>),
           session' = [session EXCEPT ![c] = s],
           UNCHANGED <<service, loop, timer, faults, bound, conversation>>
    PROVE  Turns'
<1>1. session'[c] = s
  BY DEF TInv, Turns, SessionsOK
<1>2. ASSUME Watched(c) PROVE Watched(c)'
  <2>1. Readers(c)' = Readers(c)
    BY DEF Readers
  <2>2. q \in Seq(Events) /\ NoEnd(q) /\ session[c].asked \in BOOLEAN
    <3>1. /\ session[c].queue \in Seq(Events) /\ NoEnd(session[c].queue)
          /\ session[c].asked \in BOOLEAN
      BY <1>2 DEF Watched, TInv, Turns, SessionsOK, Session
    <3>2. <<>> \in Seq(Events) /\ NoEnd(<<>>)
      BY DEF NoEnd
    <3> QED BY <3>1, <3>2
  <2>3. EndsOnce(s.queue)
    BY <2>2, AddEnd
  <2>4. s.phase \notin AtWork
    BY DEF AtWork, Stopping
  <2> QED BY <1>1, <1>2, <2>1, <2>3, <2>4 DEF Watched
<1>3. session[c].phase \notin {"none", "opening"}
  BY DEF AtWork, Stopping
<1> QED BY <1>2, <1>3, OnlySession
\* The steps of the agent and of its runtime that leave the runs alone.
LEMMA AgentTurns ==
    ASSUME TInv, NEW c \in Conversation,
           \/ UserInterrupt(c) \/ Overflow(c) \/ AgentAsks(c)
           \/ AgentEnds(c) \/ StopEnds(c)
    PROVE  Turns'
<1>1. session \in [Conversation -> Session] /\ session[c] \in Session
  BY DEF TInv, Turns, SessionsOK
<1>2. ASSUME UserInterrupt(c) PROVE Turns'
  <2>1. session[c].phase = "active"
    BY <1>2 DEF UserInterrupt, Working, TInv, Newest
  <2> QED BY <1>2, <2>1, StoppingTurns DEF UserInterrupt, Interrupted, durable, Stopping
<1>3. ASSUME Overflow(c) PROVE Turns'
  BY <1>3, StoppingTurns DEF Overflow, durable, Stopping
<1>4. ASSUME AgentAsks(c) PROVE Turns'
  <2> DEFINE q == session[c].queue \o <<"requested">>
  <2>1. /\ session[c].phase = "active"
        /\ session' = [session EXCEPT ![c].asked = TRUE, ![c].queue = q]
        /\ UNCHANGED <<service, loop, timer, faults, bound, conversation>>
    BY <1>4 DEF AgentAsks, durable
  <2>2. q \in Seq(Events)
    BY <1>1 DEF Session, Events
  <2> HIDE DEF q
  <2>3. \E e \in {"requested", "expired"} : q = session[c].queue \o <<e>>
    BY DEF q
  <2> QED BY <2>1, <2>2, <2>3, AskingTurns
<1>5. ASSUME AgentEnds(c) PROVE Turns'
  <2>1. PICK outcome \in Terminals :
            session' = [session EXCEPT ![c] =
                Rested(Emitted(@, Expiry(@.asked) \o <<outcome>>))]
    BY <1>5 DEF AgentEnds
  <2> DEFINE s == Rested(Emitted(session[c], Expiry(session[c].asked) \o <<outcome>>))
             q == session[c].queue \o (Expiry(session[c].asked) \o <<outcome>>)
  <2>2. session' = [session EXCEPT ![c] = s]
    BY <2>1
  <2>3. q \in Seq(Events)
    <3>1. outcome \in Events /\ "expired" \in Events
      BY DEF Events
    <3>2. Expiry(session[c].asked) \in Seq(Events) /\ <<outcome>> \in Seq(Events)
      BY <3>1 DEF Expiry
    <3> QED BY <3>2, <1>1 DEF Session
  <2>4. /\ s.phase = "resting" /\ s.turn = NoRun /\ s.asked = FALSE /\ s.queue = q
        /\ DOMAIN s = {"phase", "turn", "asked", "queue"}
        /\ s = [phase |-> "resting", turn |-> NoRun, asked |-> FALSE, queue |-> q]
    <3> HIDE DEF q
    <3>1. Emitted(session[c], Expiry(session[c].asked) \o <<outcome>>) =
              [session[c] EXCEPT !.queue = q]
      BY DEF Emitted, q
    <3> DEFINE m == [session[c] EXCEPT !.queue = q]
    <3>2. /\ DOMAIN m = {"phase", "turn", "asked", "queue"} /\ m.queue = q
      BY <1>1 DEF Session
    <3> HIDE DEF m
    <3>3. s = [m EXCEPT !.phase = "resting", !.turn = NoRun, !.asked = FALSE]
      BY <3>1 DEF Rested, m
    <3> HIDE DEF s
    <3> QED BY <3>2, <3>3
  <2>5. s \in Session
    BY <2>3, <2>4 DEF Session, Phases
  <2>6. /\ session[c].phase \in AtWork
        /\ UNCHANGED <<service, loop, timer, faults, bound, conversation>>
    BY <1>5 DEF AgentEnds, AtWork, durable
  <2> HIDE DEF s
  <2> QED BY <2>2, <2>4, <2>5, <2>6, EndingTurns DEF q
<1>6. ASSUME StopEnds(c) PROVE Turns'
  <2> DEFINE q == IF session[c].phase = "overflowing" THEN <<>> ELSE session[c].queue
             e == IF session[c].phase = "interrupting" THEN "interrupted" ELSE "failed"
             all == q \o (Expiry(session[c].asked) \o <<e>>)
             s == [NoSession EXCEPT !.queue = all]
  <2>1. StopEvents(session[c]) = Expiry(session[c].asked) \o <<e>>
    BY DEF StopEvents
  <2>2. e \in Terminals /\ Expiry(session[c].asked) \in Seq(Events) /\ <<e>> \in Seq(Events)
    <3>1. e \in Terminals /\ e \in Events /\ "expired" \in Events
      BY DEF Terminals, Events
    <3> HIDE DEF e
    <3> QED BY <3>1 DEF Expiry
  <2> HIDE DEF e
  <2>3. StopEvents(session[c]) \in Seq(Events)
    BY <2>1, <2>2
  <2>4. session' = [session EXCEPT ![c] = s]
    <3>1. CASE session[c].phase = "overflowing"
      <4>1. all = StopEvents(session[c])
        BY <2>1, <2>3, <3>1, ConcatEmptySeq
      <4> QED BY <1>6, <3>1, <4>1 DEF StopEnds
    <3>2. CASE session[c].phase # "overflowing"
      <4>1. all = session[c].queue \o StopEvents(session[c])
        BY <2>1, <3>2
      <4> QED BY <1>6, <3>2, <4>1 DEF StopEnds
    <3> QED BY <3>1, <3>2
  <2>5. q \in {session[c].queue, <<>>} /\ q \in Seq(Events)
    BY <1>1 DEF Session
  <2> HIDE DEF q
  <2>6. all \in Seq(Events)
    BY <2>1, <2>3, <2>5
  <2> HIDE DEF all
  <2>7. s.phase = "none" /\ s.queue = all /\ s \in Session
    BY <2>6 DEF NoSession, Session, Phases
  <2>8. /\ session[c].phase \in AtWork
        /\ UNCHANGED <<service, loop, timer, faults, bound, conversation>>
    BY <1>6 DEF StopEnds, AtWork, durable
  <2> HIDE DEF s
  <2> QED BY <2>2, <2>4, <2>5, <2>7, <2>8, EndingTurns DEF all
<1> QED BY <1>2, <1>3, <1>4, <1>5, <1>6

\* An approval is answered.
LEMMA ResolveTurns == ASSUME TInv, NEW r \in Run, ResolveApproval(r) PROVE Turns'
<1> DEFINE c == ConversationOf[r]
<1>1. session \in [Conversation -> Session] /\ c \in Conversation /\ session[c] \in Session
  BY LifecycleAssumption DEF TInv, Turns, SessionsOK
<1>2. UNCHANGED <<service, loop, timer, faults, bound, conversation>>
  BY DEF ResolveApproval
<1>3. CASE session' = session
  BY <1>2, <1>3 DEF TInv, Turns, SessionsOK, Awaited, Watched, Readers
<1>4. CASE Working(r) /\ session' = [session EXCEPT ![c].asked = FALSE]
  <2>1. session' = [session EXCEPT ![c].asked = FALSE, ![c].queue = session[c].queue]
    BY <1>1, <1>4 DEF Session
  <2>2. session[c].phase = "active" /\ session[c].queue \in Seq(Events)
    BY <1>1, <1>4 DEF Working, Session
  <2> QED BY <1>1, <1>2, <2>1, <2>2, AskingTurns
<1>5. CASE Working(r) /\ session' = [session EXCEPT ![c].asked = FALSE,
                                              ![c].queue = @ \o <<"expired">>]
  <2> DEFINE q == session[c].queue \o <<"expired">>
  <2>1. session[c].phase = "active" /\ q \in Seq(Events)
    BY <1>1, <1>5 DEF Working, Session, Events
  <2>2. session' = [session EXCEPT ![c].asked = FALSE, ![c].queue = q]
    BY <1>5
  <2> HIDE DEF q
  <2>3. \E e \in {"requested", "expired"} : q = session[c].queue \o <<e>>
    BY DEF q
  <2> QED BY <1>1, <1>2, <2>1, <2>2, <2>3, AskingTurns
<1> QED BY <1>3, <1>4, <1>5 DEF ResolveApproval

\* A step that changes one run, and at most the queue and the turn of its session.
LEMMA OneRun ==
    ASSUME TInv, NEW r \in Run,
           session' \in [Conversation -> Session],
           \A d \in Conversation : d # ConversationOf[r] => session'[d] = session[d],
           session[ConversationOf[r]].phase \in {"none", "opening"} =>
               session'[ConversationOf[r]].phase = session[ConversationOf[r]].phase,
           DOMAIN loop' = Run, DOMAIN timer' = Run,
           \A t \in Run : t # r => /\ loop'[t] = loop[t] /\ timer'[t] = timer[t]
                                   /\ service'[t] = service[t],
           service'[r] = service[r] \/ (service[r] = "running" /\ service'[r] = "over"),
           UNCHANGED <<bound, conversation, faults>>,
           faults = 0 /\ Watched(ConversationOf[r]) => Watched(ConversationOf[r])'
    PROVE  Turns'
<1>1. SessionsOK'
  BY DEF TInv, Turns, SessionsOK
<1>2. ASSUME faults' = 0 PROVE Awaited' /\ \A d \in Conversation : Watched(d)'
  <2>1. Awaited /\ \A d \in Conversation : Watched(d)
    BY <1>2 DEF TInv, Turns
  <2>2. \A d \in Conversation : session[d].phase \in {"none", "opening"} =>
            session'[d].phase = session[d].phase
    OBVIOUS
  <2>3. \A t \in Run : service'[t] \in {"none", "refused", "opening"} => service[t] = service'[t]
    OBVIOUS
  <2>4. Awaited'
    BY <2>1, <2>2, <2>3, LifecycleAssumption DEF Awaited
  <2>5. ASSUME NEW d \in Conversation, d # ConversationOf[r] PROVE Watched(d)'
    BY <2>1, <2>5, Untouched DEF TInv, Turns
  <2> QED BY <1>2, <2>1, <2>4, <2>5
<1> QED BY <1>1, <1>2 DEF Turns

\* #finalize and the clearing of the timer change one run.
LEMMA FinalizeOne ==
    ASSUME TInv, NEW r \in Run, NEW s, Finalize(r, s)
    PROVE  /\ \A t \in Run : t # r => service'[t] = service[t]
           /\ service'[r] = service[r] \/ (service[r] = "running" /\ service'[r] = "over")
<1>1. service \in [Run -> {"none", "refused", "opening", "running", "over"}]
  BY DEF TInv, KInv, IInv, Statuses
<1> QED BY <1>1 DEF Finalize, Live

\* A run that the agent does not work on ends.
LEMMA IdleRunTurns ==
    ASSUME TInv, NEW r \in Run, NEW s, Finalize(r, s), session' = session,
           DOMAIN loop' = Run, DOMAIN timer' = Run,
           \A t \in Run : t # r => loop'[t] = loop[t] /\ timer'[t] = timer[t],
           loop[r] = "waiting" <=> loop'[r] = "waiting",
           faults = 0 /\ session[ConversationOf[r]].phase = "active" => Turn(r) # r
              \/ loop[r] # "waiting",
           UNCHANGED <<bound, conversation, faults>>
    PROVE  Turns'
<1>1. /\ DOMAIN loop' = Run /\ DOMAIN timer' = Run
      /\ \A t \in Run : t # r => loop'[t] = loop[t] /\ timer'[t] = timer[t]
      /\ session \in [Conversation -> Session]
  BY DEF TInv, Turns, SessionsOK
<1>2. ASSUME faults = 0, Watched(ConversationOf[r]) PROVE Watched(ConversationOf[r])'
  BY <1>1, <1>2, FinalizeOne, Untouched, LifecycleAssumption DEF Turn, TInv, Turns
<1> QED BY <1>1, <1>2, FinalizeOne, OneRun
\* One event is read: the end of a turn is read by its run alone.
LEMMA ConsumeTurns == ASSUME TInv, NEW r \in Run, Consume(r) PROVE Turns'
<1> DEFINE c == ConversationOf[r]
           q == session[c].queue
           s == [session[c] EXCEPT !.queue = Tail(q)]
<1>1. /\ c \in Conversation /\ session \in [Conversation -> Session]
      /\ session[c] \in Session /\ q \in Seq(Events) /\ q # <<>> /\ r \in Readers(c)
      /\ DOMAIN loop = Run /\ DOMAIN timer = Run
  BY LifecycleAssumption DEF TInv, Turns, SessionsOK, Session, Consume, Reads, Queue, Readers
<1>2. Tail(q) \in Seq(Events)
  BY <1>1, TakeEvent
<1>3. /\ session' = [session EXCEPT ![c] = s] /\ session'[c] = s
      /\ s \in Session /\ s.phase = session[c].phase /\ s.turn = session[c].turn
      /\ s.queue = Tail(q)
  <2>1. session' = [session EXCEPT ![c] = s]
    BY DEF Consume, Taken
  <2>2. s \in Session /\ s.phase = session[c].phase /\ s.turn = session[c].turn
        /\ s.queue = Tail(q)
    BY <1>1, <1>2 DEF Session
  <2> HIDE DEF s
  <2> QED BY <2>1, <2>2, <1>1
<1> HIDE DEF s
<1>4. /\ session' \in [Conversation -> Session]
      /\ \A d \in Conversation : d # c => session'[d] = session[d]
  BY <1>1, <1>3
<1>5. UNCHANGED <<bound, conversation, faults>>
  BY DEF Consume
<1>6. CASE Head(q) \notin Terminals
  <2>1. service' = service /\ loop' = loop /\ timer' = timer
    BY <1>6 DEF Consume, Delivers, Queue, Terminals
  <2>2. ASSUME Watched(c) PROVE Watched(c)'
    <3>1. Readers(c)' = Readers(c)
      BY <2>1 DEF Readers
    <3> QED BY <1>1, <1>3, <1>6, <2>1, <2>2, <3>1, TakeEvent DEF Watched
  <2> QED BY <1>1, <1>3, <1>4, <1>5, <2>1, <2>2, OneRun
<1>7. CASE Head(q) \in Terminals
  <2>1. /\ \A t \in Run : t # r => /\ loop'[t] = loop[t] /\ timer'[t] = timer[t]
                                   /\ service'[t] = service[t]
        /\ service'[r] = service[r] \/ (service[r] = "running" /\ service'[r] = "over")
        /\ DOMAIN loop' = Run /\ DOMAIN timer' = Run
        /\ loop'[r] # "waiting"
    <3>1. CASE Delivers(r, Head(q))
      BY <1>1, <1>7, <3>1 DEF Consume, Queue
    <3>2. CASE ~Delivers(r, Head(q))
      <4>1. /\ loop' = [loop EXCEPT ![r] = "off"] /\ Finalize(r, Head(q))
            /\ timer' = Cleared(r)
        BY <1>7, <3>2 DEF Consume, Queue
      <4> QED BY <4>1, <1>1, FinalizeOne DEF Cleared
    <3> QED BY <3>1, <3>2
  <2>2. ASSUME Watched(c) PROVE Watched(c)'
    <3>1. session[c].phase \notin AtWork /\ Readers(c) = {r} /\ Tail(q) = <<>>
      BY <1>1, <1>7, <2>2, TakeEvent DEF Watched
    <3>2. Readers(c)' = {}
      <4>1. \A t \in Run : ConversationOf[t] = c /\ loop[t] = "waiting" => t = r
        BY <3>1 DEF Readers
      <4> QED BY <4>1, <2>1 DEF Readers
    <3> QED BY <1>3, <3>1, <3>2 DEF Watched
  <2> QED BY <1>1, <1>3, <1>4, <1>5, <2>1, <2>2, OneRun
<1> QED BY <1>6, <1>7

\* A push, an interruption and a timer end a run the agent does not work on.
LEMMA EndedTurns ==
    ASSUME TInv, NEW r \in Run,
           \/ StreamStopped(r) \/ Pushed(r) \/ TimerDone(r)
           \/ (TimerFires(r) /\ ~Working(r))
    PROVE  Turns'
<1>1. DOMAIN loop = Run /\ DOMAIN timer = Run
  BY DEF TInv, Turns, SessionsOK
<1>2. CASE StreamStopped(r)
  BY <1>1, <1>2, IdleRunTurns DEF StreamStopped, Cleared
<1>3. CASE Pushed(r)
  BY <1>1, <1>3, IdleRunTurns DEF Pushed, Cleared
<1>4. CASE TimerDone(r)
  BY <1>1, <1>4, IdleRunTurns DEF TimerDone, StopAwaited
<1>5. CASE TimerFires(r) /\ ~Working(r)
  BY <1>1, <1>5, IdleRunTurns DEF TimerFires, Working, Turn
<1> QED BY <1>2, <1>3, <1>4, <1>5

\* The timer interrupts the turn.
LEMMA TimerTurns == ASSUME TInv, NEW r \in Run, TimerFires(r), Working(r) PROVE Turns'
<1> DEFINE c == ConversationOf[r]
           s == [session[c] EXCEPT !.phase = "interrupting"]
<1>1. /\ c \in Conversation /\ session \in [Conversation -> Session]
      /\ session[c] \in Session /\ session[c].phase = "active" /\ session[c].turn = r
      /\ DOMAIN loop = Run /\ DOMAIN timer = Run
  BY LifecycleAssumption DEF TInv, Turns, SessionsOK, Working, Turn
<1>2. /\ session' = [session EXCEPT ![c] = s] /\ session'[c] = s
      /\ s \in Session /\ s.phase = "interrupting" /\ s.turn = r
      /\ s.queue = session[c].queue
  <2>1. session' = [session EXCEPT ![c] = s]
    BY DEF TimerFires, Interrupted
  <2>2. s \in Session /\ s.phase = "interrupting" /\ s.turn = r /\ s.queue = session[c].queue
    BY <1>1 DEF Session, Phases, Stopping
  <2> HIDE DEF s
  <2> QED BY <2>1, <2>2, <1>1
<1> HIDE DEF s
<1>3. /\ timer' = [timer EXCEPT ![r] = "stopping"] /\ loop' = loop /\ service' = service
      /\ UNCHANGED <<bound, conversation, faults>>
  BY DEF TimerFires
<1>4. ASSUME Watched(c) PROVE Watched(c)'
  <2>1. Readers(c)' = Readers(c)
    BY <1>3 DEF Readers
  <2> QED BY <1>1, <1>2, <1>4, <2>1 DEF Watched, AtWork, Stopping
<1> QED BY <1>1, <1>2, <1>3, <1>4, OneRun

\* An event cannot be persisted: nothing more is said of the turns.
LEMMA StreamFailsTurns == ASSUME TInv, NEW r \in Run, StreamFails(r) PROVE Turns'
<1> DEFINE c == ConversationOf[r]
<1>1. /\ c \in Conversation /\ session \in [Conversation -> Session]
      /\ session[c] \in Session /\ session[c].queue \in Seq(Events)
      /\ DOMAIN loop = Run /\ DOMAIN timer = Run /\ faults \in Nat
  BY LifecycleAssumption DEF TInv, Turns, SessionsOK, Session
<1>2. faults' = faults + 1
  BY DEF StreamFails
<1>3. Queue(r) # <<>> => Taken(r) \in [Conversation -> Session]
  <2>1. Queue(r) # <<>> => Tail(session[c].queue) \in Seq(Events)
    BY <1>1 DEF Queue
  <2>2. ASSUME NEW t \in Seq(Events)
        PROVE  [session EXCEPT ![c].queue = t] \in [Conversation -> Session]
    BY <1>1 DEF Session
  <2> QED BY <2>1, <2>2 DEF Taken
<1>4. ASSUME NEW state \in [Conversation -> Session]
      PROVE  [state EXCEPT ![c].phase = "interrupting"] \in [Conversation -> Session]
  BY <1>1 DEF Session, Phases, Stopping
<1>5. session' \in [Conversation -> Session]
  <2>1. CASE Queue(r) = <<>>
    BY <2>1, <1>1, <1>4 DEF StreamFails
  <2>2. CASE Queue(r) # <<>>
    BY <2>2, <1>3, <1>4 DEF StreamFails
  <2> QED BY <2>1, <2>2
<1>6. DOMAIN loop' = Run /\ DOMAIN timer' = Run
  BY <1>1 DEF StreamFails, Cleared
<1> QED BY <1>1, <1>2, <1>5, <1>6 DEF Turns, SessionsOK
\* A turn starts on a conversation between turns, for the run it is made for or
\* for a message.
LEMMA TurnStartsTurns ==
    ASSUME TInv, NEW r \in Run, Quiet, TurnStarts(r, session),
           session[ConversationOf[r]].phase \in {"opening", "fresh", "resting"}
              \/ faults # 0,
           UNCHANGED <<conversation, faults>>,
           \/ service[r] = "opening" /\ bound' = bound \cup {ConversationOf[r]}
           \/ /\ KindOf[r] = "conversation" /\ Idle(ConversationOf[r])
              /\ bound' = bound
    PROVE  Turns'
<1> DEFINE c == ConversationOf[r]
           s == [session[c] EXCEPT !.phase = "active", !.turn = r]
<1>1. /\ c \in Conversation /\ session \in [Conversation -> Session]
      /\ session[c] \in Session
      /\ DOMAIN loop = Run /\ DOMAIN timer = Run
      /\ service \in [Run -> {"none", "refused", "opening", "running", "over"}]
  BY LifecycleAssumption DEF TInv, Turns, SessionsOK, KInv, IInv, Statuses
<1>2. /\ session' = [session EXCEPT ![c] = s] /\ session'[c] = s
      /\ s \in Session /\ s.phase = "active" /\ s.turn = r /\ s.queue = session[c].queue
  <2>1. session' = [session EXCEPT ![c] = s]
    BY <1>1 DEF TurnStarts
  <2>2. s \in Session /\ s.phase = "active" /\ s.turn = r /\ s.queue = session[c].queue
    BY <1>1 DEF Session, Phases
  <2> HIDE DEF s
  <2> QED BY <2>1, <2>2, <1>1
<1> HIDE DEF s
<1>3. /\ service' = [service EXCEPT ![r] = "running"]
      /\ loop' = [loop EXCEPT ![r] = "waiting"]
      /\ timer' = [timer EXCEPT ![r] = "armed"]
  BY DEF TurnStarts, Armed
<1>4. SessionsOK'
  BY <1>1, <1>2, <1>3 DEF TInv, Turns, SessionsOK
<1>5. ASSUME faults' = 0 PROVE Awaited' /\ \A d \in Conversation : Watched(d)'
  <2>1. Awaited /\ \A d \in Conversation : Watched(d)
    BY <1>5 DEF TInv, Turns
  <2>2. /\ session[c].phase \in {"opening", "fresh", "resting"}
        /\ session[c].phase \notin AtWork
    BY <1>5 DEF AtWork, Stopping
  <2>3. Readers(c) = {} /\ session[c].queue = <<>>
    BY <2>1, <2>2, <1>1, QuietIsRead DEF TInv, Turns
  <2>4. Watched(c)'
    <3>1. Readers(c)' = {r}
      BY <2>3, <1>1, <1>3 DEF Readers
    <3> QED BY <3>1, <2>3, <1>1, <1>2, <1>3 DEF Watched, NoEnd, AtWork
  <2>5. ASSUME NEW d \in Conversation, d # c PROVE Watched(d)'
    BY <2>1, <2>5, <1>1, <1>2, <1>3, Untouched DEF TInv, Turns
  <2>6. ASSUME NEW t \in Run, KindOf[t] # "conversation", service'[t] \in {"none", "refused"}
        PROVE  session'[ConversationOf[t]].phase = "none" /\ ConversationOf[t] \notin bound'
    <3>1. t # r /\ service[t] = service'[t] /\ ConversationOf[t] \in Conversation
      BY <2>6, <1>1, <1>3, LifecycleAssumption
    <3>2. session[ConversationOf[t]].phase = "none" /\ ConversationOf[t] \notin bound
      BY <2>1, <2>6, <3>1 DEF Awaited
    <3>3. ConversationOf[t] # c
      BY <2>2, <3>2
    <3> QED BY <3>1, <3>2, <3>3, <1>1, <1>2
  <2>7. ASSUME NEW t \in Run, service'[t] = "opening"
        PROVE  KindOf[t] # "conversation" /\ session'[ConversationOf[t]].phase = "opening"
    <3>1. t # r /\ service[t] = "opening" /\ ConversationOf[t] \in Conversation
      BY <2>7, <1>1, <1>3, LifecycleAssumption
    <3>2. KindOf[t] # "conversation" /\ session[ConversationOf[t]].phase = "opening"
      BY <2>1, <3>1 DEF Awaited
    <3>3. ConversationOf[t] # c
      <4>1. CASE service[r] = "opening"
        BY <4>1, <2>1, <3>1, <3>2, LifecycleAssumption DEF Awaited, Owned
      <4>2. CASE Idle(c)
        BY <4>2, <3>2 DEF Idle
      <4> QED BY <4>1, <4>2
    <3> QED BY <3>1, <3>2, <3>3, <1>1, <1>2
  <2>8. ASSUME NEW d \in Conversation, Owned(d) = {}, conversation'[d] = "none"
        PROVE  session'[d].phase = "none" /\ d \notin bound'
    <3>1. session[d].phase = "none" /\ d \notin bound
      BY <2>1, <2>8 DEF Awaited
    <3>2. d # c
      BY <2>2, <3>1
    <3> QED BY <3>1, <3>2, <1>1, <1>2
  <2>9. Awaited'
    BY <2>6, <2>7, <2>8 DEF Awaited, Owned
  <2> QED BY <2>4, <2>5, <2>9
<1> QED BY <1>4, <1>5 DEF Turns

\* A run that is opened has its own, newly begun turn.
LEMMA RunOpenedTurns == ASSUME TInv, NEW r \in Run, RunOpened(r) PROVE Turns'
<1>1. faults = 0 => session[ConversationOf[r]].phase = "opening"
  BY DEF RunOpened, TInv, Turns, Awaited
<1> QED BY <1>1, TurnStartsTurns DEF RunOpened

\* A step that leaves every session alone.
LEMMA SessionsKept ==
    ASSUME TInv, session' = session, UNCHANGED <<loop, timer, faults, bound>>,
           \A t \in Run : \/ service'[t] = service[t]
                          \/ service[t] = "none" /\ service'[t] \in {"refused", "over"},
           \A d \in Conversation : conversation'[d] = "none" => conversation[d] = "none"
    PROVE  Turns'
<1>1. SessionsOK'
  BY DEF TInv, Turns, SessionsOK
<1>2. ASSUME faults' = 0 PROVE Awaited' /\ \A d \in Conversation : Watched(d)'
  <2>1. Awaited /\ \A d \in Conversation : Watched(d)
    BY <1>2 DEF TInv, Turns
  <2>2. Awaited'
    BY <2>1 DEF Awaited, Owned
  <2>3. ASSUME NEW d \in Conversation PROVE Watched(d)'
    BY <2>1, <2>3, Untouched DEF TInv, Turns
  <2> QED BY <2>2, <2>3
<1> QED BY <1>1, <1>2 DEF Turns

\* A message waits for its turn.
LEMMA MessageTurns == ASSUME TInv, NEW r \in Run, Message(r) PROVE Turns'
<1>1. CASE Idle(ConversationOf[r])
  BY <1>1, TurnStartsTurns DEF Message, Idle
<1>2. CASE ~Idle(ConversationOf[r])
  <2>1. /\ service[r] = "none" /\ service' = [service EXCEPT ![r] = "over"]
        /\ UNCHANGED <<loop, timer, session, conversation, bound, faults>>
    BY <1>2 DEF Message
  <2> QED BY <2>1, SessionsKept DEF TInv, KInv, IInv, Statuses
<1> QED BY <1>1, <1>2

\* A conversation that is closed keeps its turn.
LEMMA CloseTurns == ASSUME TInv, NEW c \in Conversation, Close(c) PROVE Turns'
BY SessionsKept DEF Close, memory, TInv, KInv, Conversations

\* A conversation is made, or removed, between its turns.
LEMMA BetweenTurns ==
    ASSUME TInv, NEW c \in Conversation, NEW s \in Session, s.phase \notin AtWork,
           session' = [session EXCEPT ![c] = s],
           DOMAIN loop' = Run, UNCHANGED <<timer, faults>>,
           \A t \in Run : ConversationOf[t] # c =>
               loop'[t] = loop[t] /\ service'[t] = service[t],
           faults = 0 => /\ s.queue = <<>> /\ Readers(c)' = {}
                         /\ Awaited'
    PROVE  Turns'
<1>1. /\ session'[c] = s /\ session' \in [Conversation -> Session]
      /\ \A d \in Conversation : d # c => session'[d] = session[d]
  BY DEF TInv, Turns, SessionsOK
<1>2. SessionsOK'
  BY <1>1 DEF TInv, Turns, SessionsOK
<1>3. ASSUME faults' = 0 PROVE \A d \in Conversation : Watched(d)'
  <2>1. ASSUME NEW d \in Conversation, d # c PROVE Watched(d)'
    BY <1>3, <2>1, <1>1, Untouched DEF TInv, Turns
  <2>2. Watched(c)'
    BY <1>1, <1>3 DEF Watched
  <2> QED BY <2>1, <2>2
<1> QED BY <1>2, <1>3 DEF Turns

\* The conversation of an audit or a fix that is started, or refused, has no turn.
LEMMA StartRunTurns == ASSUME TInv, NEW r \in Run, StartRun(r) PROVE Turns'
<1> DEFINE c == ConversationOf[r]
           s == [session[c] EXCEPT !.phase = "opening"]
<1>1. /\ c \in Conversation /\ session \in [Conversation -> Session]
      /\ session[c] \in Session
      /\ service \in [Run -> {"none", "refused", "opening", "running", "over"}]
      /\ conversation \in [Conversation -> {"none", "open", "closed"}]
  BY LifecycleAssumption DEF TInv, Turns, SessionsOK, KInv, IInv, Statuses, Conversations
<1>2. /\ service[r] = "none" /\ KindOf[r] # "conversation" /\ Quiet
      /\ UNCHANGED <<bound, loop, timer, faults>>
  BY DEF StartRun
<1>3. CASE ProjectBusy(c)
  <2>1. service' = [service EXCEPT ![r] = "refused"] /\ UNCHANGED <<conversation, session>>
    BY <1>3 DEF StartRun
  <2> QED BY <2>1, <1>1, <1>2, SessionsKept
<1>4. CASE ~ProjectBusy(c)
  <2>1. /\ service' = [service EXCEPT ![r] = "opening"]
        /\ conversation' = [conversation EXCEPT ![c] = "open"]
        /\ session' = [session EXCEPT ![c] = s]
    BY <1>4 DEF StartRun
  <2>2. s \in Session /\ s.phase = "opening" /\ s.queue = session[c].queue
    BY <1>1 DEF Session, Phases
  <2> HIDE DEF s
  <2>3. ASSUME faults = 0
        PROVE  s.queue = <<>> /\ Readers(c)' = {} /\ Awaited'
    <3>1. Awaited /\ \A d \in Conversation : Watched(d)
      BY <2>3 DEF TInv, Turns
    <3>2. session[c].phase = "none"
      BY <1>2, <3>1 DEF Awaited
    <3>3. Readers(c) = {} /\ session[c].queue = <<>>
      BY <3>1, <3>2, <1>1, <1>2, QuietIsRead DEF TInv, Turns, AtWork, Stopping
    <3>4. Readers(c)' = {}
      BY <3>3, <1>2 DEF Readers
    <3>5. \A t \in Owned(c) : t = r
      BY <1>2, LifecycleAssumption DEF Owned
    <3>6. r \in Owned(c)
      BY <1>2 DEF Owned
    <3>7. \A d \in Conversation : d # c => session'[d] = session[d]
      BY <1>1, <2>1
    <3>8. \A t \in Run : t # r => service'[t] = service[t]
      BY <1>1, <2>1
    <3>9. service'[r] = "opening" /\ session'[c].phase = "opening"
      BY <1>1, <2>1, <2>2
    <3>10. \A t \in Run : service[t] = "opening" => ConversationOf[t] # c
      BY <3>1, <3>2 DEF Awaited
    <3>11. Awaited'
      <4>1. ASSUME NEW t \in Run, KindOf[t] # "conversation", service'[t] \in {"none", "refused"}
            PROVE  session'[ConversationOf[t]].phase = "none" /\ ConversationOf[t] \notin bound'
        <5>1. t # r BY <4>1, <3>9
        <5>2. ConversationOf[t] # c BY <5>1, <3>5, <4>1 DEF Owned
        <5> QED BY <4>1, <5>1, <5>2, <3>1, <3>7, <3>8, <1>2, LifecycleAssumption DEF Awaited
      <4>2. ASSUME NEW t \in Run, service'[t] = "opening"
            PROVE  KindOf[t] # "conversation" /\ session'[ConversationOf[t]].phase = "opening"
        <5>1. CASE t = r BY <5>1, <3>9, <1>2
        <5>2. CASE t # r
          BY <4>2, <5>2, <3>1, <3>7, <3>8, <3>10, LifecycleAssumption DEF Awaited
        <5> QED BY <5>1, <5>2
      <4>3. ASSUME NEW d \in Conversation, Owned(d) = {}, conversation'[d] = "none"
            PROVE  session'[d].phase = "none" /\ d \notin bound'
        <5>1. d # c /\ conversation[d] = "none" BY <4>3, <3>6, <2>1, <1>1
        <5> QED BY <4>3, <5>1, <3>1, <3>7, <1>2 DEF Awaited
      <4> QED BY <4>1, <4>2, <4>3 DEF Awaited, Owned
    <3> QED BY <2>2, <3>3, <3>4, <3>11
  <2>4. s.phase \notin AtWork
    BY <2>2 DEF AtWork, Stopping
  <2>5. \A t \in Run : ConversationOf[t] # c => loop'[t] = loop[t] /\ service'[t] = service[t]
    BY <2>1, <1>1, <1>2
  <2> QED BY <2>1, <2>2, <2>3, <2>4, <2>5, <1>1, <1>2, BetweenTurns DEF TInv, Turns, SessionsOK
<1> QED BY <1>3, <1>4

\* A run that is refused has no turn.
LEMMA RunRefusedTurns == ASSUME TInv, NEW r \in Run, RunRefused(r) PROVE Turns'
<1> DEFINE c == ConversationOf[r]
<1>1. /\ c \in Conversation /\ session \in [Conversation -> Session]
      /\ session[c] \in Session
      /\ service \in [Run -> {"none", "refused", "opening", "running", "over"}]
      /\ conversation \in [Conversation -> {"none", "open", "closed"}]
  BY LifecycleAssumption DEF TInv, Turns, SessionsOK, KInv, IInv, Statuses, Conversations
<1>2. /\ service[r] = "opening" /\ Quiet
      /\ service' = [service EXCEPT ![r] = "over"]
      /\ session' = [session EXCEPT ![c] = NoSession]
      /\ \A d \in Conversation : conversation'[d] = "none" => conversation[d] = "none"
      /\ UNCHANGED <<bound, loop, timer, faults>>
  BY <1>1 DEF RunRefused
<1>3. /\ NoSession \in Session /\ NoSession.phase = "none" /\ NoSession.queue = <<>>
      /\ NoSession.phase \notin AtWork
  BY DEF NoSession, Session, Phases, AtWork, Stopping
<1>4. ASSUME faults = 0 PROVE Readers(c)' = {} /\ Awaited'
  <2>1. Awaited /\ \A d \in Conversation : Watched(d)
    BY <1>4 DEF TInv, Turns
  <2>2. session[c].phase = "opening" /\ KindOf[r] # "conversation"
    BY <1>2, <2>1 DEF Awaited
  <2>3. Readers(c) = {}
    BY <2>1, <2>2, <1>1, <1>2, QuietIsRead DEF TInv, Turns, AtWork, Stopping
  <2>4. Readers(c)' = {}
    BY <2>3, <1>2 DEF Readers
  <2>5. \A t \in Run : service'[t] = "opening" => ConversationOf[t] # c
    <3>1. ASSUME NEW t \in Run, service'[t] = "opening", ConversationOf[t] = c PROVE FALSE
      <4>1. t # r /\ service[t] = "opening" BY <3>1, <1>1, <1>2
      <4> QED BY <3>1, <4>1, <2>1, <2>2, LifecycleAssumption DEF Awaited, Owned
    <3> QED BY <3>1
  <2>6. \A d \in Conversation : session'[d] = IF d = c THEN NoSession ELSE session[d]
    BY <1>1, <1>2
  <2>7. \A t \in Run : service'[t] \in {"none", "refused", "opening"} => service[t] = service'[t]
    BY <1>1, <1>2
  <2>8. Awaited'
    BY <2>1, <2>5, <2>6, <2>7, <1>2, <1>3, LifecycleAssumption DEF Awaited, Owned
  <2> QED BY <2>4, <2>8
<1>5. \A t \in Run : ConversationOf[t] # c => loop'[t] = loop[t] /\ service'[t] = service[t]
  BY <1>1, <1>2
<1> QED BY <1>1, <1>2, <1>3, <1>4, <1>5, BetweenTurns DEF TInv, Turns, SessionsOK

\* A session made again from its descriptor.
LEMMA FreshSession ==
    ASSUME NEW s, s = [NoSession EXCEPT !.phase = "fresh"]
    PROVE  s \in Session /\ s.phase = "fresh" /\ s.queue = <<>>
<1>1. NoSession \in Session /\ NoSession.queue = <<>>
  BY DEF NoSession, Session, Phases
<1> QED BY <1>1 DEF Session, Phases

\* A plain conversation is created, made again or evicted.
LEMMA ConversationTurns ==
    ASSUME TInv, NEW c \in Conversation,
           Create(c) \/ Created(c) \/ Resume(c) \/ Evict(c)
    PROVE  Turns'
<1>1. /\ session \in [Conversation -> Session] /\ session[c] \in Session
      /\ conversation \in [Conversation -> {"none", "open", "closed"}]
      /\ DOMAIN loop = Run
  BY DEF TInv, Turns, SessionsOK, KInv, Conversations
<1>2. /\ UNCHANGED <<service, timer, faults>> /\ Quiet
      /\ \A d \in Conversation : conversation'[d] = "none" => conversation[d] = "none"
      /\ DOMAIN loop' = Run
      /\ \A t \in Run : ConversationOf[t] # c => loop'[t] = loop[t]
  BY <1>1 DEF Create, Created, Resume, Evict, durable
<1>3. PICK s \in Session :
        /\ session' = [session EXCEPT ![c] = s]
        /\ s.phase \in {"opening", "fresh", "none"}
        /\ s.queue = session[c].queue \/ s.queue = <<>>
        /\ s.phase = "opening" => session[c].phase = "none" \/ faults # 0
        /\ s.phase = "opening" => conversation'[c] # "none" /\ Owned(c) = {}
  <2>1. /\ NoSession \in Session /\ NoSession.phase = "none" /\ NoSession.queue = <<>>
    BY DEF NoSession, Session, Phases
  <2>2. CASE Create(c)
    <3> DEFINE s == [session[c] EXCEPT !.phase = "opening"]
    <3>1. s \in Session /\ s.phase = "opening" /\ s.queue = session[c].queue
      BY <1>1 DEF Session, Phases
    <3>2. /\ session' = [session EXCEPT ![c] = s]
          /\ conversation' = [conversation EXCEPT ![c] = "open"]
          /\ Owned(c) = {} /\ conversation[c] = "none"
      BY <2>2 DEF Create
    <3>3. faults = 0 => session[c].phase = "none"
      BY <3>2 DEF TInv, Turns, Awaited
    <3> HIDE DEF s
    <3> QED BY <3>1, <3>2, <3>3, <1>1
  <2>3. CASE Created(c) /\ session' = [session EXCEPT ![c].phase = "fresh"]
    <3> DEFINE s == [session[c] EXCEPT !.phase = "fresh"]
    <3>1. s \in Session /\ s.phase = "fresh" /\ s.queue = session[c].queue
      BY <1>1 DEF Session, Phases
    <3>2. session' = [session EXCEPT ![c] = s]
      BY <2>3
    <3> HIDE DEF s
    <3> QED BY <3>1, <3>2
  <2>4. CASE session' = [session EXCEPT ![c] = NoSession]
    BY <2>1, <2>4
  <2>5. CASE Resume(c)
    <3> DEFINE s == [NoSession EXCEPT !.phase = "fresh"]
    <3>1. s \in Session /\ s.phase = "fresh" /\ s.queue = <<>>
      BY FreshSession
    <3>2. session' = [session EXCEPT ![c] = s]
      BY <2>5 DEF Resume
    <3> HIDE DEF s
    <3> QED BY <3>1, <3>2
  <2> QED BY <2>2, <2>3, <2>4, <2>5 DEF Created, Evict
<1>4. s.phase \notin AtWork
  BY <1>3 DEF AtWork, Stopping
<1>5. ASSUME faults = 0 PROVE s.queue = <<>> /\ Readers(c)' = {} /\ Awaited'
  <2>1. Awaited /\ \A d \in Conversation : Watched(d)
    BY <1>5 DEF TInv, Turns
  <2>2. session[c].phase \in {"none", "opening", "resting"}
    BY <2>1 DEF Create, Created, Resume, Evict, Awaited
  <2>3. Readers(c) = {} /\ session[c].queue = <<>>
    BY <2>1, <2>2, <1>1, <1>2, QuietIsRead DEF TInv, Turns, AtWork, Stopping
  <2>4. \A t \in Run : loop'[t] = "waiting" => loop[t] = "waiting"
    BY <1>1 DEF Create, Created, Resume, Evict
  <2>5. Readers(c)' = {}
    BY <2>3, <2>4 DEF Readers
  <2>6. \A d \in Conversation : session'[d] = IF d = c THEN s ELSE session[d]
    BY <1>1, <1>3
  <2>7. \A d \in Conversation : d # c => (d \in bound' <=> d \in bound)
    BY DEF Create, Created, Resume, Evict, durable
  <2>8. ASSUME NEW t \in Run, ConversationOf[t] = c PROVE service[t] # "opening"
    BY <2>8, <2>1 DEF Create, Created, Resume, Evict, Awaited, Owned
  <2>9. ASSUME NEW t \in Run, ConversationOf[t] = c, KindOf[t] # "conversation",
               service[t] \in {"none", "refused"}
        PROVE  s.phase = "none" /\ c \notin bound'
    <3>1. Owned(c) # {} /\ session[c].phase = "none" /\ c \notin bound
      BY <2>9, <2>1 DEF Awaited, Owned
    <3> QED BY <3>1 DEF Create, Created, Resume, Evict
  <2>10. ASSUME Owned(c) = {}, conversation'[c] = "none" PROVE s.phase = "none" /\ c \notin bound'
    <3>1. conversation[c] = "none" /\ session[c].phase = "none" /\ c \notin bound
      BY <2>10, <2>1, <1>2 DEF Awaited
    <3> QED BY <3>1, <2>10, <1>1 DEF Create, Created, Resume, Evict
  <2>11. Awaited'
    <3>1. ASSUME NEW t \in Run, KindOf[t] # "conversation", service'[t] \in {"none", "refused"}
          PROVE  session'[ConversationOf[t]].phase = "none" /\ ConversationOf[t] \notin bound'
      BY <3>1, <2>1, <2>6, <2>7, <2>9, <1>2, LifecycleAssumption DEF Awaited
    <3>2. ASSUME NEW t \in Run, service'[t] = "opening"
          PROVE  KindOf[t] # "conversation" /\ session'[ConversationOf[t]].phase = "opening"
      BY <3>2, <2>1, <2>6, <2>8, <1>2, LifecycleAssumption DEF Awaited
    <3>3. ASSUME NEW d \in Conversation, Owned(d) = {}, conversation'[d] = "none"
          PROVE  session'[d].phase = "none" /\ d \notin bound'
      BY <3>3, <2>1, <2>6, <2>7, <2>10, <1>2 DEF Awaited
    <3> QED BY <3>1, <3>2, <3>3 DEF Awaited, Owned
  <2> QED BY <2>3, <2>5, <2>11, <1>3
<1> QED BY <1>2, <1>3, <1>4, <1>5, BetweenTurns

\* A restart ends the runs and the sessions together.
LEMMA RestartTurns == ASSUME TInv, Restart PROVE Turns'
<1>1. /\ session' = [c \in Conversation |-> NoSession]
      /\ loop' = [r \in Run |-> "off"] /\ timer' = [r \in Run |-> "off"]
      /\ service' = [r \in Run |->
            IF service[r] \in {"opening", "running"} THEN "over" ELSE service[r]]
      /\ UNCHANGED <<conversation, bound, faults>>
  BY DEF Restart
<1>2. /\ NoSession \in Session /\ NoSession.phase = "none" /\ NoSession.queue = <<>>
      /\ NoSession.phase \notin AtWork
  BY DEF NoSession, Session, Phases, AtWork, Stopping
<1>3. SessionsOK'
  BY <1>1, <1>2 DEF TInv, Turns, SessionsOK
<1>4. ASSUME faults' = 0 PROVE Awaited' /\ \A c \in Conversation : Watched(c)'
  <2>1. Awaited
    BY <1>1, <1>4 DEF TInv, Turns
  <2>2. Awaited'
    BY <2>1, <1>1, <1>2, LifecycleAssumption DEF Awaited, Owned
  <2>3. ASSUME NEW c \in Conversation PROVE Watched(c)'
    BY <1>1, <1>2 DEF Watched, Readers
  <2> QED BY <2>2, <2>3
<1> QED BY <1>3, <1>4 DEF Turns

\* The newest run of a conversation is a run of it.
LEMMA NewestNext == ASSUME TInv, [Next]_vars PROVE Newest'
<1>1. CASE UNCHANGED latest
  BY <1>1 DEF TInv, Newest
<1>2. ASSUME NEW r \in Run, StartRun(r) \/ Message(r) PROVE Newest'
  <2>1. latest' = latest \/ latest' = [latest EXCEPT ![ConversationOf[r]] = r]
    BY <1>2 DEF StartRun, Message
  <2> QED BY <2>1, LifecycleAssumption DEF TInv, Newest
<1>3. ASSUME NEW r \in Run, ~(StartRun(r) \/ Message(r)),
             \/ RunOpened(r) \/ RunRefused(r) \/ ResolveApproval(r)
             \/ Consume(r) \/ StreamFails(r) \/ StreamStopped(r)
             \/ Pushed(r) \/ TimerFires(r) \/ TimerDone(r)
      PROVE  UNCHANGED latest
  BY <1>3 DEF RunOpened, RunRefused, ResolveApproval, Consume, StreamFails, StreamStopped,
              Pushed, TimerFires, TimerDone
<1>4. ASSUME NEW c \in Conversation,
             \/ Create(c) \/ Created(c) \/ UserInterrupt(c) \/ Close(c) \/ Resume(c)
             \/ AgentAsks(c) \/ AgentEnds(c) \/ Overflow(c) \/ StopEnds(c) \/ Evict(c)
      PROVE  UNCHANGED latest
  BY <1>4 DEF Create, Created, UserInterrupt, Close, Resume, AgentAsks, AgentEnds, Overflow,
              StopEnds, Evict, durable
<1>5. CASE Restart BY <1>1, <1>5 DEF Restart
<1>6. CASE UNCHANGED vars BY <1>1, <1>6 DEF vars, durable
<1> QED BY <1>1, <1>2, <1>3, <1>4, <1>5, <1>6 DEF Next

\* Every step keeps the invariant of turns.
LEMMA NextTurns == TInv /\ [Next]_vars => TInv'
<1> SUFFICES ASSUME TInv, [Next]_vars PROVE Turns'
  BY NextSlots, NewestNext DEF TInv
<1>1. ASSUME NEW r \in Run,
             \/ StartRun(r) \/ RunOpened(r) \/ RunRefused(r) \/ Message(r)
             \/ ResolveApproval(r) \/ Consume(r) \/ StreamFails(r)
      PROVE  Turns'
  BY <1>1, StartRunTurns, RunOpenedTurns, RunRefusedTurns, MessageTurns, ResolveTurns,
     ConsumeTurns, StreamFailsTurns
<1>2. ASSUME NEW r \in Run,
             StreamStopped(r) \/ Pushed(r) \/ TimerFires(r) \/ TimerDone(r)
      PROVE  Turns'
  BY <1>2, EndedTurns, TimerTurns
<1>3. ASSUME NEW c \in Conversation,
             \/ Create(c) \/ Created(c) \/ UserInterrupt(c) \/ Close(c) \/ Resume(c)
             \/ AgentAsks(c) \/ AgentEnds(c) \/ Overflow(c) \/ StopEnds(c) \/ Evict(c)
      PROVE  Turns'
  BY <1>3, ConversationTurns, AgentTurns, CloseTurns
<1>4. CASE UNCHANGED vars
  <2>1. UNCHANGED <<session, loop, timer, faults, bound, service, conversation>>
    BY <1>4 DEF vars, durable, memory
  <2> QED BY <2>1, SessionsKept
<1> QED BY <1>1, <1>2, <1>3, <1>4, RestartTurns DEF Next

\* The invariant of turns holds in every reachable state.
THEOREM InductiveTurns == Spec => []TInv
<1>1. Init => Turns /\ Newest
  <2> SUFFICES ASSUME Init PROVE Turns /\ Newest
    OBVIOUS
  <2>1. /\ NoSession \in Session /\ NoSession.phase = "none" /\ NoSession.queue = <<>>
        /\ NoSession.phase \notin AtWork
    BY DEF NoSession, Session, Phases, AtWork, Stopping
  <2>2. SessionsOK
    BY <2>1 DEF Init, SessionsOK
  <2>3. Awaited
    BY <2>1, LifecycleAssumption DEF Init, Awaited
  <2>4. ASSUME NEW c \in Conversation PROVE Watched(c)
    BY <2>1 DEF Init, Watched, Readers
  <2>5. Newest
    BY DEF Init, Newest
  <2> QED BY <2>2, <2>3, <2>4, <2>5 DEF Turns
<1>2. TInv /\ [Next]_vars => TInv'
  BY NextTurns
<1>3. Init /\ KInv => TInv
  BY <1>1 DEF TInv
<1> QED BY <1>2, <1>3, InductiveSlots, PTL DEF Spec

\* A turn that the agent works on belongs to a running run whose events are read
\* and whose timer is armed, as long as every event could be persisted.
THEOREM TurnsAreSupervised == Spec => []TurnSupervised
<1>1. TInv => TurnSupervised
  <2> SUFFICES ASSUME TInv, faults = 0, NEW c \in Conversation, session[c].phase = "active"
               PROVE  LET r == session[c].turn IN
                        /\ run[r] = "running" /\ service[r] = "running"
                        /\ loop[r] = "waiting" /\ timer[r] = "armed"
    BY DEF TurnSupervised
  <2>1. Watched(c) /\ session[c].phase \in AtWork
    BY DEF TInv, Turns, AtWork
  <2>2. /\ session[c].turn \in Run /\ session[c].turn \in Readers(c)
        /\ service[session[c].turn] = "running" /\ timer[session[c].turn] = "armed"
    BY <2>1 DEF Watched
  <2> QED BY <2>2 DEF Readers, TInv, KInv, IInv, ServiceMatches
<1> QED BY <1>1, InductiveTurns, PTL

=============================================================================
