---------------------------- MODULE RunLifecycle ----------------------------
(***************************************************************************)
(* The agent runs of one tenant on one runner: audits                      *)
(* (runner/src/runs/audit.ts), fixes (fix.ts) and conversation messages    *)
(* (conversation.ts) that share the store (db/index.ts), the run quota     *)
(* (limits.ts) and the ACP runtime (agent-runtime/acp/index.ts).           *)
(*                                                                         *)
(* A run is a row of the store, a slot of the quota, a turn of the agent,  *)
(* a loop that persists the turn's events and a timer.  The event loop,    *)
(* the timer, the user, the agent and a restart of the runner race to end  *)
(* it.  JavaScript runs to completion: what a promise job can do           *)
(* (Consume, TimerDone, StreamStopped) is done before the next request,    *)
(* timer or reply of the agent is looked at, which is the guard Quiet.     *)
(*                                                                         *)
(* Abstracted: the text events of a turn, an approval's details (a turn    *)
(* asks for at most one), the pre-flight of the only execution provider,   *)
(* which always succeeds, the 64 sessions of the runtime, and the failure  *)
(* of store writes other than those of the event loop.                     *)
(***************************************************************************)
EXTENDS Integers, Sequences, FiniteSets

CONSTANTS
    Run, Conversation, Project,
    NoRun,            \* not a run: no current turn, no latest run
    KindOf,           \* taskKind: "audit", "fix" or "conversation"
    ConversationOf,   \* the conversation a run belongs to
    ProjectOf,        \* the project of a conversation
    Maximum,          \* maxConcurrentRunsPerTenant
    MayAsk,           \* bound: runs whose turn asks for a permission
    MaxMishaps        \* bound: events that cannot be persisted, and restarts

\* An audit and a fix create the conversation they run in.
Owned(c) == {r \in Run : KindOf[r] # "conversation" /\ ConversationOf[r] = c}

ASSUME LifecycleAssumption ==
    /\ IsFiniteSet(Run) /\ NoRun \notin Run
    /\ KindOf \in [Run -> {"audit", "fix", "conversation"}]
    /\ ConversationOf \in [Run -> Conversation]
    /\ ProjectOf \in [Conversation -> Project]
    /\ \A r, s \in Run : s \in Owned(ConversationOf[r])
                            /\ r \in Owned(ConversationOf[r]) => r = s
    /\ MayAsk \subseteq Run /\ Maximum \in Nat \ {0} /\ MaxMishaps \in Nat

VARIABLES
    \* the store
    run,           \* runs.state, "none" before the row exists
    execution,     \* executions.state
    approval,      \* approvals.state of the request of a run's turn
    conversation,  \* conversations: open or closed
    bound,         \* conversations with a runtime_sessions row
    latest,        \* the newest run of a conversation
    pushed,        \* fixes whose commit reached the remote
    \* the memory of the runner
    active,        \* RunAdmission.#activeByTenant
    service,       \* the command that serves a run
    loop,          \* persistRuntimeEvents / #events of a run
    timer,         \* lifecycle.timeout of a run
    session,       \* AcpRuntime.#sessions
    descriptors,   \* AcpRuntime.#descriptors
    \* bounds
    faults, restarts

durable == <<run, execution, approval, conversation, bound, latest, pushed>>
memory == <<active, service, loop, timer, session, descriptors>>
vars == <<durable, memory, faults, restarts>>

Terminals == {"completed", "failed", "interrupted"}
Stopping == {"interrupting", "overflowing"}
Events == {"requested", "expired"} \cup Terminals
Phases == {"none", "opening", "fresh", "active", "resting"} \cup Stopping

NoSession == [phase |-> "none", turn |-> NoRun, asked |-> FALSE, queue |-> <<>>]

Init ==
    /\ run = [r \in Run |-> "none"]
    /\ execution = [r \in Run |-> "none"]
    /\ approval = [r \in Run |-> "none"]
    /\ conversation = [c \in Conversation |-> "none"]
    /\ bound = {} /\ pushed = {} /\ descriptors = {}
    /\ latest = [c \in Conversation |-> NoRun]
    /\ active = 0 /\ faults = 0 /\ restarts = 0
    /\ service = [r \in Run |-> "none"]
    /\ loop = [r \in Run |-> "off"]
    /\ timer = [r \in Run |-> "off"]
    /\ session = [c \in Conversation |-> NoSession]

-----------------------------------------------------------------------------
(* State read by the handlers.  Faulty variants, named Bad..., stand before *)
(* the definition they vary; no action uses them.                           *)

Turn(r) == session[ConversationOf[r]].turn
Queue(r) == session[ConversationOf[r]].queue
Reads(r) == loop[r] = "waiting" /\ Queue(r) # <<>>
\* interruptTurn awaited by the loop or by the timer has returned.
StopAwaited(r) == Turn(r) # r

Quiet == \A r \in Run :
    /\ ~Reads(r)
    /\ "stopping" \in {loop[r], timer[r]} => ~StopAwaited(r)

Admitted == active < Maximum
ProjectBusy(c) == \E d \in Conversation :
    ProjectOf[d] = ProjectOf[c] /\ conversation[d] = "open"
BadUnfinished(c) == \E r \in Run :
    ConversationOf[r] = c /\ run[r] = "running"
Unfinished(c) == \E r \in Run :
    ConversationOf[r] = c /\ run[r] \in {"queued", "running"}
\* startTurn finds a session that is neither stopping nor working.
Idle(c) == session[c].phase \in {"fresh", "resting"}
\* interruptTurn finds the turn of r current.
Working(r) == /\ session[ConversationOf[r]].phase = "active"
              /\ Turn(r) = r

BadMayTransition(from, to) ==
    \/ from = "queued" /\ to \in {"running", "interrupted", "failed"}
    \/ from = "running" /\ to \in {"completed", "failed"}
MayTransition(from, to) ==
    \/ from = to
    \/ from = "queued" /\ to \in {"running", "interrupted", "failed"}
    \/ from = "running" /\ to \in Terminals

Released == IF active <= 1 THEN 0 ELSE active - 1

-----------------------------------------------------------------------------
(* What the handlers share. *)

\* checkpointRun, and then markExecutionForRun if the checkpoint did not throw.
Settle(r, state) ==
    LET may == MayTransition(run[r], state)
    IN  /\ run' = IF may THEN [run EXCEPT ![r] = state] ELSE run
        /\ execution' = IF may /\ execution[r] = "preflightPassed"
                        THEN [execution EXCEPT ![r] = state] ELSE execution

\* #finalize, guarded by lifecycle.finalized; it also clears the timer.
BadLive(r) == TRUE
Live(r) == service[r] = "running"
Finalize(r, state) ==
    IF Live(r)
    THEN /\ Settle(r, state)
         /\ service' = [service EXCEPT ![r] = "over"]
         /\ active' = Released
    ELSE UNCHANGED <<run, execution, service, active>>

Cleared(r) == [timer EXCEPT ![r] = IF @ = "armed" THEN "off" ELSE @]
BadArmed(r) == timer
Armed(r) == [timer EXCEPT ![r] = "armed"]
Emitted(s, events) == [s EXCEPT !.queue = @ \o events]
Expiry(asked) == IF asked THEN <<"expired">> ELSE <<>>
\* What #stopTurn pushes: expired permissions first, then the end of the turn.
StopEvents(s) == Expiry(s.asked)
    \o <<IF s.phase = "interrupting" THEN "interrupted" ELSE "failed">>
\* #scheduleEviction: the session of an ended turn rests before it is removed.
Rested(s) == [s EXCEPT !.phase = "resting", !.turn = NoRun, !.asked = FALSE]
Interrupted(c) == [session EXCEPT ![c].phase = "interrupting"]

\* startTurn on an idle session and what follows it in the command: the run
\* is running, its timer is armed and its loop waits for events.
TurnStarts(r, state) ==
    /\ run' = [run EXCEPT ![r] = "running"]
    /\ execution' = [execution EXCEPT ![r] = "preflightPassed"]
    /\ service' = [service EXCEPT ![r] = "running"]
    /\ loop' = [loop EXCEPT ![r] = "waiting"]
    /\ timer' = Armed(r)
    /\ session' = [state EXCEPT ![ConversationOf[r]].phase = "active",
                               ![ConversationOf[r]].turn = r]

-----------------------------------------------------------------------------
(* Commands of the user. *)

\* start of an audit or a fix up to the reply of createSession.  An audit on a
\* project with an open conversation throws outside its try block.
StartRun(r) ==
    LET c == ConversationOf[r] IN
    /\ Quiet /\ KindOf[r] # "conversation" /\ service[r] = "none" /\ Admitted
    /\ IF ProjectBusy(c)
       THEN /\ service' = [service EXCEPT ![r] = "refused"]
            /\ active' = IF KindOf[r] = "fix" THEN active ELSE active + 1
            /\ UNCHANGED <<run, execution, conversation, latest, session>>
       ELSE /\ service' = [service EXCEPT ![r] = "opening"]
            /\ active' = active + 1
            /\ run' = [run EXCEPT ![r] = "queued"]
            /\ execution' = [execution EXCEPT ![r] = "preflightPassed"]
            /\ conversation' = [conversation EXCEPT ![c] = "open"]
            /\ latest' = [latest EXCEPT ![c] = r]
            /\ session' = [session EXCEPT ![c].phase = "opening"]
    /\ UNCHANGED <<approval, bound, pushed, loop, timer, descriptors, faults,
                   restarts>>

\* createSession answers: the session is saved and the turn starts.
RunOpened(r) ==
    /\ Quiet /\ service[r] = "opening"
    /\ TurnStarts(r, session)
    /\ bound' = bound \cup {ConversationOf[r]}
    /\ descriptors' = descriptors \cup {ConversationOf[r]}
    /\ UNCHANGED <<approval, conversation, latest, pushed, active, faults,
                   restarts>>

\* createSession fails: the catch clause; a fix closes its conversation.
RunRefused(r) ==
    LET c == ConversationOf[r] IN
    /\ Quiet /\ service[r] = "opening"
    /\ Settle(r, "failed")
    /\ service' = [service EXCEPT ![r] = "over"]
    /\ active' = Released
    /\ session' = [session EXCEPT ![c] = NoSession]
    /\ conversation' = IF KindOf[r] = "fix"
                       THEN [conversation EXCEPT ![c] = "closed"]
                       ELSE conversation
    /\ UNCHANGED <<approval, bound, latest, pushed, loop, timer, descriptors,
                   faults, restarts>>

\* message: a run on a conversation with a saved session, closed ones included.
Message(r) ==
    LET c == ConversationOf[r] IN
    /\ Quiet /\ KindOf[r] = "conversation" /\ service[r] = "none"
    /\ c \in bound /\ Admitted
    /\ latest' = [latest EXCEPT ![c] = r]
    /\ IF Idle(c)
       THEN TurnStarts(r, session) /\ active' = active + 1
       ELSE /\ run' = [run EXCEPT ![r] = "failed"]
            /\ execution' = [execution EXCEPT ![r] = "failed"]
            /\ service' = [service EXCEPT ![r] = "over"]
            /\ UNCHANGED <<active, loop, timer, session>>
    /\ UNCHANGED <<approval, conversation, bound, pushed, descriptors, faults,
                   restarts>>

\* create of a plain conversation, up to the reply of createSession.
Create(c) ==
    /\ Quiet /\ Owned(c) = {} /\ conversation[c] = "none" /\ ~ProjectBusy(c)
    /\ conversation' = [conversation EXCEPT ![c] = "open"]
    /\ session' = [session EXCEPT ![c].phase = "opening"]
    /\ UNCHANGED <<run, execution, approval, bound, latest, pushed, active,
                   service, loop, timer, descriptors, faults, restarts>>

\* createSession answers create, or fails and the conversation is closed.
Created(c) ==
    /\ Quiet /\ Owned(c) = {} /\ session[c].phase = "opening"
    /\ \/ /\ session' = [session EXCEPT ![c].phase = "fresh"]
          /\ bound' = bound \cup {c}
          /\ descriptors' = descriptors \cup {c}
          /\ UNCHANGED conversation
       \/ /\ session' = [session EXCEPT ![c] = NoSession]
          /\ conversation' = [conversation EXCEPT ![c] = "closed"]
          /\ UNCHANGED <<bound, descriptors>>
    /\ UNCHANGED <<run, execution, approval, latest, pushed, active, service,
                   loop, timer, faults, restarts>>

\* interrupt: only the newest run of the conversation can be interrupted.
UserInterrupt(c) ==
    LET r == latest[c] IN
    /\ Quiet /\ c \in bound /\ r # NoRun
    /\ run[r] = "running" /\ Working(r)
    /\ session' = Interrupted(c)
    /\ UNCHANGED <<durable, active, service, loop, timer, descriptors, faults,
                   restarts>>

\* The close route and closeConversation.
Close(c) ==
    /\ Quiet /\ conversation[c] = "open" /\ ~Unfinished(c)
    /\ conversation' = [conversation EXCEPT ![c] = "closed"]
    /\ UNCHANGED <<run, execution, approval, bound, latest, pushed, memory,
                   faults, restarts>>

\* resume: a removed read-only session is made again from its descriptor.
Resume(c) ==
    /\ Quiet /\ c \in bound \cap descriptors /\ session[c].phase = "none"
    /\ \A r \in Owned(c) : KindOf[r] # "fix"
    /\ session' = [session EXCEPT ![c] = [NoSession EXCEPT !.phase = "fresh"]]
    /\ loop' = [r \in Run |-> IF ConversationOf[r] = c /\ loop[r] = "waiting"
                              THEN "off" ELSE loop[r]]
    /\ UNCHANGED <<durable, active, service, timer, descriptors, faults,
                   restarts>>

\* ApprovalCommandService.resolve.  Only a fix may approve; an answer the agent
\* has no option for expires the request through the queue of events.
ResolveApproval(r) ==
    LET c == ConversationOf[r] IN
    /\ Quiet /\ approval[r] = "pending"
    /\ \/ /\ run[r] # "running"
          /\ approval' = [approval EXCEPT ![r] = "expired"]
          /\ UNCHANGED session
       \/ /\ run[r] = "running" /\ Working(r) /\ session[c].asked
          /\ \/ \E answer \in {"approved", "denied"} :
                   /\ answer = "approved" => KindOf[r] = "fix"
                   /\ approval' = [approval EXCEPT ![r] = answer]
                   /\ session' = [session EXCEPT ![c].asked = FALSE]
             \/ /\ session' = [session EXCEPT ![c].asked = FALSE,
                                              ![c].queue = @ \o <<"expired">>]
                /\ UNCHANGED approval
    /\ UNCHANGED <<run, execution, conversation, bound, latest, pushed, active,
                   service, loop, timer, descriptors, faults, restarts>>

-----------------------------------------------------------------------------
(* The agent and the runtime. *)

\* The agent asks for a permission.
AgentAsks(c) ==
    LET r == session[c].turn IN
    /\ Quiet /\ session[c].phase = "active"
    /\ r \in MayAsk /\ ~session[c].asked /\ approval[r] = "none"
    /\ session' = [session EXCEPT ![c].asked = TRUE,
                                  ![c].queue = @ \o <<"requested">>]
    /\ UNCHANGED <<durable, active, service, loop, timer, descriptors, faults,
                   restarts>>

\* The prompt answers or fails: open permissions expire, then the turn ends.
AgentEnds(c) ==
    /\ Quiet /\ session[c].phase = "active"
    /\ \E outcome \in Terminals :
          session' = [session EXCEPT ![c] =
              Rested(Emitted(@, Expiry(@.asked) \o <<outcome>>))]
    /\ UNCHANGED <<durable, active, service, loop, timer, descriptors, faults,
                   restarts>>

\* The turn exceeds the event limits and the runtime begins to stop it.
Overflow(c) ==
    /\ Quiet /\ session[c].phase = "active"
    /\ session' = [session EXCEPT ![c].phase = "overflowing"]
    /\ UNCHANGED <<durable, active, service, loop, timer, descriptors, faults,
                   restarts>>

\* #stopTurn is over: the connection is closed, the session removed and the end
\* of the turn pushed, in place of what was queued when the turn overflowed.
StopEnds(c) ==
    /\ Quiet /\ session[c].phase \in Stopping
    /\ session' = [session EXCEPT ![c] = [NoSession EXCEPT !.queue =
          IF session[c].phase = "overflowing" THEN StopEvents(session[c])
          ELSE session[c].queue \o StopEvents(session[c])]]
    /\ UNCHANGED <<durable, active, service, loop, timer, descriptors, faults,
                   restarts>>

\* The eviction timer of a resting session.
Evict(c) ==
    /\ Quiet /\ session[c].phase = "resting"
    /\ session' = [session EXCEPT ![c] = NoSession]
    /\ loop' = [r \in Run |-> IF ConversationOf[r] = c /\ loop[r] = "waiting"
                              THEN "off" ELSE loop[r]]
    /\ UNCHANGED <<durable, active, service, timer, descriptors, faults,
                   restarts>>

-----------------------------------------------------------------------------
(* The event loop and the timer of a run. *)

Taken(r) == [session EXCEPT ![ConversationOf[r]].queue = Tail(@)]

\* A completed fix is pushed before it ends.
BadDelivers(r, event) == FALSE
Delivers(r, event) == event = "completed" /\ KindOf[r] = "fix"

\* One event of the queue: approvals are recorded, and the end of the turn
\* ends the run.
Consume(r) ==
    LET event == Head(Queue(r)) IN
    /\ Reads(r)
    /\ session' = Taken(r)
    /\ approval' = [approval EXCEPT ![r] =
          CASE event = "requested" -> "pending"
            [] event = "expired" /\ @ = "pending" -> "expired"
            [] OTHER -> @]
    /\ \/ /\ event \notin Terminals
          /\ UNCHANGED <<run, execution, service, active, loop, timer>>
       \/ /\ Delivers(r, event)
          /\ loop' = [loop EXCEPT ![r] = "pushing"]
          /\ UNCHANGED <<run, execution, service, active, timer>>
       \/ /\ event \in Terminals /\ ~Delivers(r, event)
          /\ loop' = [loop EXCEPT ![r] = "off"]
          /\ Finalize(r, event)
          /\ timer' = Cleared(r)
    /\ UNCHANGED <<conversation, bound, latest, pushed, descriptors, faults,
                   restarts>>

\* An event cannot be persisted: the loop interrupts the turn and then fails the
\* run, at once when the turn is not current.
StreamFails(r) ==
    /\ faults + restarts < MaxMishaps /\ faults' = faults + 1
    /\ loop[r] = "waiting" /\ (Queue(r) # <<>> \/ (Quiet /\ Working(r)))
    /\ LET state == IF Queue(r) = <<>> THEN session ELSE Taken(r) IN
       IF Working(r)
       THEN /\ session' = [state EXCEPT ![ConversationOf[r]].phase = "interrupting"]
            /\ loop' = [loop EXCEPT ![r] = "stopping"]
            /\ UNCHANGED <<run, execution, service, active, timer>>
       ELSE /\ session' = state
            /\ loop' = [loop EXCEPT ![r] = "off"]
            /\ Finalize(r, "failed")
            /\ timer' = Cleared(r)
    /\ UNCHANGED <<approval, conversation, bound, latest, pushed, descriptors,
                   restarts>>

\* The loop's interruptTurn has returned.
StreamStopped(r) ==
    /\ loop[r] = "stopping" /\ StopAwaited(r)
    /\ loop' = [loop EXCEPT ![r] = "off"]
    /\ Finalize(r, "failed")
    /\ timer' = Cleared(r)
    /\ UNCHANGED <<approval, conversation, bound, latest, pushed, session,
                   descriptors, faults, restarts>>

\* The push of a fix answers; a failed push may have reached the remote.
Pushed(r) ==
    /\ Quiet /\ loop[r] = "pushing"
    /\ loop' = [loop EXCEPT ![r] = "off"]
    /\ \E landed, accepted \in BOOLEAN :
          /\ accepted => landed
          /\ pushed' = IF landed THEN pushed \cup {r} ELSE pushed
          /\ Finalize(r, IF accepted THEN "completed" ELSE "failed")
    /\ timer' = Cleared(r)
    /\ UNCHANGED <<approval, conversation, bound, latest, session, descriptors,
                   faults, restarts>>

\* maxRunDurationMs is over: interrupt the turn, or fail the run at once when
\* the turn is not current.
TimerFires(r) ==
    /\ Quiet /\ timer[r] = "armed"
    /\ IF Working(r)
       THEN /\ session' = Interrupted(ConversationOf[r])
            /\ timer' = [timer EXCEPT ![r] = "stopping"]
            /\ UNCHANGED <<run, execution, service, active>>
       ELSE /\ timer' = [timer EXCEPT ![r] = "off"]
            /\ Finalize(r, "failed")
            /\ UNCHANGED session
    /\ UNCHANGED <<approval, conversation, bound, latest, pushed, loop,
                   descriptors, faults, restarts>>

\* The timer's interruptTurn has returned.
TimerDone(r) ==
    /\ timer[r] = "stopping" /\ StopAwaited(r)
    /\ timer' = [timer EXCEPT ![r] = "off"]
    /\ Finalize(r, "interrupted")
    /\ UNCHANGED <<approval, conversation, bound, latest, pushed, loop, session,
                   descriptors, faults, restarts>>

-----------------------------------------------------------------------------
(* A crash and recoverInFlightRuns at the next start. *)

InFlight(r) == run[r] \in {"queued", "running"}
RecoveredApproval(r) ==
    IF approval[r] = "pending" /\ InFlight(r) THEN "expired" ELSE approval[r]
BadRecoveredExecution(r) ==
    IF execution[r] = "preflightPassed" /\ run[r] = "queued" THEN "interrupted"
    ELSE execution[r]
RecoveredExecution(r) ==
    IF execution[r] = "preflightPassed" /\ InFlight(r) THEN "interrupted"
    ELSE execution[r]
RecoveredRun(r) == IF run[r] = "running" THEN "interrupted" ELSE run[r]

Restart ==
    /\ faults + restarts < MaxMishaps /\ restarts' = restarts + 1
    /\ approval' = [r \in Run |-> RecoveredApproval(r)]
    /\ execution' = [r \in Run |-> RecoveredExecution(r)]
    /\ run' = [r \in Run |-> RecoveredRun(r)]
    /\ \E landed \in SUBSET {r \in Run : loop[r] = "pushing"} :
          pushed' = pushed \cup landed
    /\ active' = 0 /\ descriptors' = {}
    /\ service' = [r \in Run |->
          IF service[r] \in {"opening", "running"} THEN "over" ELSE service[r]]
    /\ loop' = [r \in Run |-> "off"]
    /\ timer' = [r \in Run |-> "off"]
    /\ session' = [c \in Conversation |-> NoSession]
    /\ UNCHANGED <<conversation, bound, latest, faults>>

Next ==
    \/ \E r \in Run : \/ StartRun(r) \/ RunOpened(r) \/ RunRefused(r)
                      \/ Message(r) \/ ResolveApproval(r)
                      \/ Consume(r) \/ StreamFails(r) \/ StreamStopped(r)
                      \/ Pushed(r) \/ TimerFires(r) \/ TimerDone(r)
    \/ \E c \in Conversation : \/ Create(c) \/ Created(c) \/ UserInterrupt(c)
                               \/ Close(c) \/ Resume(c) \/ AgentAsks(c)
                               \/ AgentEnds(c) \/ Overflow(c) \/ StopEnds(c)
                               \/ Evict(c)
    \/ Restart

\* Promise jobs run, timers fire, and #stopTurn ends: its cancellation, its
\* grace period and the kill of the agent process are all timed.
Fairness ==
    /\ \A r \in Run : /\ WF_vars(Consume(r)) /\ WF_vars(StreamStopped(r))
                      /\ WF_vars(TimerFires(r)) /\ WF_vars(TimerDone(r))
    /\ \A c \in Conversation : WF_vars(StopEnds(c))

Spec == Init /\ [][Next]_vars /\ Fairness

-----------------------------------------------------------------------------
(* Properties. *)

RunStates == {"none", "queued", "running"} \cup Terminals

TypeOK ==
    /\ run \in [Run -> RunStates]
    /\ execution \in [Run -> {"none", "preflightPassed"} \cup Terminals]
    /\ approval \in [Run -> {"none", "pending", "approved", "denied", "expired"}]
    /\ conversation \in [Conversation -> {"none", "open", "closed"}]
    /\ bound \subseteq Conversation /\ descriptors \subseteq Conversation
    /\ latest \in [Conversation -> Run \cup {NoRun}]
    /\ pushed \subseteq Run
    /\ active \in 0 .. Maximum
    /\ service \in [Run -> {"none", "refused", "opening", "running", "over"}]
    /\ loop \in [Run -> {"off", "waiting", "pushing", "stopping"}]
    /\ timer \in [Run -> {"off", "armed", "stopping"}]
    /\ session \in [Conversation -> [phase : Phases, turn : Run \cup {NoRun},
                                    asked : BOOLEAN, queue : Seq(Events)]]
    /\ faults \in 0 .. MaxMishaps /\ restarts \in 0 .. MaxMishaps

Holding == {r \in Run : service[r] \in {"opening", "running"}}

\* The quota is never given back twice: whatever ends a run (its events, its
\* timer, a failed stream), a run that is served keeps its slot, so the turns the
\* agent works on for served runs are at most Maximum.
SlotsKept == Cardinality(Holding) <= active

\* A turn that the agent works on belongs to a running run whose events are read
\* and whose timer is armed, as long as every event could be persisted.
TurnSupervised ==
    faults = 0 => \A c \in Conversation : session[c].phase = "active" =>
        LET r == session[c].turn IN
            /\ run[r] = "running" /\ service[r] = "running"
            /\ loop[r] = "waiting" /\ timer[r] = "armed"

\* A run and its execution end together, whoever ends them, restarts included;
\* only a run that was still queued at a restart stays behind its execution.
ExecutionFollowsRun ==
    \A r \in Run :
        /\ run[r] \in Terminals => execution[r] = run[r]
        /\ run[r] = "running" => execution[r] = "preflightPassed"

\* An approval shown as pending is one the agent still waits for or whose expiry
\* is under way, as long as every event could be persisted; only a run that its
\* timer ended while the turn was being stopped leaves one behind at a restart.
PendingIsAsked ==
    Quiet /\ faults = 0 => \A r \in Run : approval[r] = "pending" =>
        \/ Turn(r) = r /\ session[ConversationOf[r]].asked
        \/ restarts > 0 /\ run[r] \in {"failed", "interrupted"}

\* A fix that is recorded completed has been pushed.
CompletedFixPushed ==
    \A r \in Run : KindOf[r] = "fix" /\ run[r] = "completed" => r \in pushed

\* A conversation that is closed runs nothing unless a message was sent to it
\* after it was closed: an audit or a fix under way keeps its project.
ServedIsOpen ==
    \A r \in Run : KindOf[r] # "conversation" /\ r \in Holding =>
        conversation[ConversationOf[r]] = "open"

\* Every running run ends: by its events, its timer or a restart.
RunEnds == \A r \in Run : run[r] = "running" ~> run[r] \in Terminals

\* Expected of RunAdmission: the slots counted are those of the runs served.
\* It does not hold: an audit of a busy project keeps its slot.
SlotReturned == active = Cardinality(Holding)

\* Expected of recovery: a run that is queued is one that a command takes on.
\* It does not hold: recovery leaves queued runs queued.
QueuedIsServed == \A r \in Run : run[r] = "queued" => service[r] = "opening"

=============================================================================
