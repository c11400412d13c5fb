------------------------------ MODULE AcpRuntime ------------------------------
(***************************************************************************)
(* The ACP agent runtime (runner/src/agent-runtime/acp/index.ts) with the  *)
(* loops of the run services that read its event queues.                   *)
(*                                                                         *)
(* A session object (AcpSession) owns a child process and a queue of       *)
(* events; the maps #sessions and #descriptors go by the agent's session   *)
(* id.  Opening and resuming take several awaits, so two objects can be on *)
(* their way to one id.  The agent's updates, permission requests and      *)
(* answers, the user's calls, the overflow limits, the stop of a turn and  *)
(* the eviction timer interleave on an object.                             *)
(*                                                                         *)
(* The loop of a service handles an event without awaiting anything, so it *)
(* empties the queue before the next reply or timer (Quiet).  An event it  *)
(* cannot persist ends the loop and makes it interrupt the turn.           *)
(*                                                                         *)
(* Abstracted: the text of updates (every update counts one towards the    *)
(* event limits, which stand for the 2048 events and the 4 MB), the        *)
(* workspace binding (a mismatch is refused and changes nothing), and the  *)
(* malformed requests that are rejected.                                   *)
(***************************************************************************)
EXTENDS Integers, Sequences, FiniteSets, SequencesExt

CONSTANTS
    Object,            \* session objects, AcpSession
    Id,                \* session ids given out by agents
    NoObject,
    SessionLimit,      \* 64
    DescriptorLimit,   \* 256
    QueueLimit,        \* AsyncQueue.maximumSize
    EventLimit,        \* 2048 events or 4 MB
    PendingLimit,      \* 32
    Earlier,           \* ids of sessions opened and evicted before
    MaxTurns,          \* bound: turns started
    MaxAsks,           \* bound: permissions asked
    MaxMishaps         \* bound: events that cannot be persisted

NoId == "noId"
Turn == 1 .. MaxTurns
Ask == 1 .. MaxAsks

ASSUME RuntimeAssumption ==
    /\ NoObject \notin Object /\ NoId \notin Id
    /\ {SessionLimit, DescriptorLimit, QueueLimit, EventLimit, PendingLimit}
        \subseteq Nat \ {0}
    /\ Earlier \in Seq(Id) /\ Len(Earlier) <= DescriptorLimit
    /\ {MaxTurns, MaxAsks, MaxMishaps} \subseteq Nat

VARIABLES
    sessions,      \* #sessions: the object registered for an id
    descriptors,   \* #descriptors, in insertion order
    object,        \* the session objects
    heard,         \* what the loop of each object has heard, see TurnStream
    listening,     \* objects whose queue is read by a loop
    turns, asks, mishaps   \* fresh names, and the bound on mishaps

vars == <<sessions, descriptors, object, heard, listening, turns, asks, mishaps>>

NoStop == [turn |-> 0, expired |-> <<>>, replace |-> FALSE]

\* #makeSession, before the connection is made.
Fresh ==
    [stage |-> "none", id |-> NoId, turn |-> 0, generation |-> 0,
     terminalEmitted |-> FALSE, stopping |-> FALSE, overflowed |-> FALSE,
     count |-> 0, pending |-> <<>>, unanswered |-> {}, prompts |-> {},
     queue |-> <<>>, shut |-> FALSE, eviction |-> FALSE, stop |-> NoStop]

Init ==
    /\ sessions = [i \in Id |-> NoObject]
    /\ descriptors = Earlier
    /\ object = [o \in Object |-> Fresh]
    /\ heard = [o \in Object |-> [current |-> 0, last |-> 0, asking |-> {}, sound |-> TRUE]]
    /\ listening = {}
    /\ turns = 0 /\ asks = 0 /\ mishaps = 0

Event(type, of) == [type |-> type, of |-> of]
Registered == {i \in Id : sessions[i] # NoObject}
Quiet == \A o \in listening : object[o].queue = <<>>
-----------------------------------------------------------------------------
(***************************************************************************)
(* The helpers, as functions of a session object s.                        *)
(***************************************************************************)
\* AsyncQueue.push
Push(s, e) == IF s.shut THEN s ELSE [s EXCEPT !.queue = Append(@, e)]

\* The part of #stopTurn before its first await.
BeginStop(s, expired, replace) ==
    IF s.stopping THEN s
    ELSE [s EXCEPT !.stopping = TRUE, !.generation = @ + 1,
                   !.terminalEmitted = TRUE, !.turn = 0,
                   !.stop = [turn |-> s.turn, expired |-> expired, replace |-> replace]]

Overflow(s, generation) ==
    IF generation # s.generation \/ s.overflowed \/ s.stopping THEN s
    ELSE LET t == [s EXCEPT !.overflowed = TRUE, !.pending = <<>>]
         IN  IF s.turn = 0 THEN t ELSE BeginStop(t, s.pending, TRUE)

Full(s) == Len(s.queue) >= QueueLimit \/ s.count >= EventLimit

\* #emit
Emit(s, e, generation) ==
    IF generation # s.generation \/ s.overflowed THEN s
    ELSE IF Full(s) THEN Overflow(s, generation)
    ELSE Push([s EXCEPT !.count = @ + 1], e)

\* The expiries of some permissions, in their order.
Expiries(of) == [n \in 1 .. Len(of) |-> Event("expired", of[n])]

\* What fits of m into n.
Least(m, n) == IF m < n THEN m ELSE n

\* How many of the expiries of its pending requests #emit takes.
Fitting(s) ==
    IF Full(s) THEN 0
    ELSE Least(Len(s.pending), Least(QueueLimit - Len(s.queue), EventLimit - s.count))

\* What #cancelPermissions emits.  A session with pending requests is neither
\* overflowed, stopping nor shut; an expiry that does not fit is an overflow,
\* which empties the map and so ends the loop.
ExpirePending(s) ==
    LET n == Fitting(s)
        told == [s EXCEPT !.count = @ + n, !.queue = @ \o Expiries(SubSeq(s.pending, 1, n))]
    IN  IF n = Len(s.pending) THEN [told EXCEPT !.pending = <<>>]
        ELSE Overflow(told, s.generation)

\* A mutant: the requests of the agent are not resolved.
BadCancelPermissions(s) == ExpirePending(s)

\* #cancelPermissions: the agent is answered before each expiry, also before
\* the one that does not fit.
CancelPermissions(s) ==
    [ExpirePending(s) EXCEPT
        !.unanswered = @ \ {s.pending[n] : n \in 1 .. Least(Len(s.pending), Fitting(s) + 1)}]

\* The fence of #mapUpdate and #requestPermission.
Fenced(s) == s.turn = 0 \/ s.terminalEmitted \/ s.stopping

\* Both ends of the prompt of startTurn: its answer, which may first complete
\* the last message of the agent, and its failure.
Answered(s, generation, completes) ==
    IF generation # s.generation \/ s.terminalEmitted THEN s
    ELSE LET t == CancelPermissions(s)
             u == IF completes THEN Emit(t, Event("update", s.turn), generation) ELSE t
         IN  [Emit([u EXCEPT !.terminalEmitted = TRUE], Event("ended", s.turn), generation)
                EXCEPT !.turn = 0, !.eviction = TRUE]

\* A mutant: the end of the turn overtakes the expiries.
BadStopEvents(s) == <<Event("ended", s.stop.turn)>> \o Expiries(s.stop.expired)

\* The events the end of #stopTurn leaves in the queue.
StopEvents(s) == Append(Expiries(s.stop.expired), Event("ended", s.stop.turn))

\* The connection is closed: nothing comes from the agent any more, so what
\* only fences and counts its messages is forgotten.
Hangup(s) == [s EXCEPT !.stage = "closed", !.prompts = {}, !.generation = 0, !.count = 0]

\* A mutant: the end of a turn that overflowed is pushed and then dropped.
BadEndStop(s) ==
    [Hangup(s) EXCEPT
        !.stop = NoStop, !.unanswered = {}, !.eviction = TRUE,
        !.queue = IF s.stop.replace \/ s.shut THEN <<>> ELSE @ \o StopEvents(s)]

\* #stopTurn after the connection is closed.
EndStop(s) ==
    LET kept == IF s.stop.replace THEN <<>> ELSE s.queue
    IN  [Hangup(s) EXCEPT
            !.stop = NoStop, !.unanswered = {}, !.eviction = TRUE,
            !.queue = IF s.shut THEN kept ELSE kept \o StopEvents(s)]

Registers(o) == object[o].id \in Id /\ sessions[object[o].id] = o
Unregister(o) == IF Registers(o) THEN [sessions EXCEPT ![object[o].id] = NoObject] ELSE sessions
Becomes(o, s) == object' = [object EXCEPT ![o] = s]
-----------------------------------------------------------------------------
(***************************************************************************)
(* Opening and resuming a session.                                         *)
(***************************************************************************)
CreateSession(o) ==
    /\ object[o].stage = "none" /\ Cardinality(Registered) < SessionLimit
    /\ Becomes(o, [object[o] EXCEPT !.stage = "creating"])
    /\ UNCHANGED <<sessions, descriptors, heard, listening, turns, asks, mishaps>>

\* The agent names the session and the mode is set.  Agents do not use a name
\* twice, which the code checks between the two awaits.
SessionCreated(o, i) ==
    /\ object[o].stage = "creating"
    /\ sessions[i] = NoObject /\ ~Contains(descriptors, i)
    /\ \A other \in Object : object[other].id # i
    /\ Becomes(o, [object[o] EXCEPT !.stage = "open", !.id = i])
    /\ sessions' = [sessions EXCEPT ![i] = o]
    /\ descriptors' = Append(IF Len(descriptors) >= DescriptorLimit
                                THEN Tail(descriptors) ELSE descriptors, i)
    /\ UNCHANGED <<heard, listening, turns, asks, mishaps>>

\* A registered session is answered at once and nothing changes.
ResumeSession(o, i) ==
    /\ object[o].stage = "none" /\ sessions[i] = NoObject /\ Contains(descriptors, i)
    /\ Becomes(o, [object[o] EXCEPT !.stage = "resuming", !.id = i])
    /\ UNCHANGED <<sessions, descriptors, heard, listening, turns, asks, mishaps>>

\* The check for a registered session was made before the awaits.
SessionResumed(o) ==
    /\ object[o].stage = "resuming"
    /\ Becomes(o, [object[o] EXCEPT !.stage = "open"])
    /\ sessions' = [sessions EXCEPT ![object[o].id] = o]
    /\ UNCHANGED <<descriptors, heard, listening, turns, asks, mishaps>>

OpeningFails(o) ==
    /\ object[o].stage \in {"creating", "resuming"}
    /\ Becomes(o, [object[o] EXCEPT !.stage = "closed"])
    /\ UNCHANGED <<sessions, descriptors, heard, listening, turns, asks, mishaps>>
-----------------------------------------------------------------------------
(***************************************************************************)
(* A turn.                                                                 *)
(***************************************************************************)
\* The service that starts a turn reads the queue from the same job on.
StartTurn(i) ==
    LET o == sessions[i]
        t == turns + 1
        s == [object[o] EXCEPT !.eviction = FALSE, !.generation = @ + 1,
                !.terminalEmitted = FALSE, !.count = 0, !.overflowed = FALSE,
                !.turn = t,
                !.prompts = @ \cup {object[o].generation + 1}]
    IN  /\ o # NoObject /\ turns < MaxTurns
        /\ ~object[o].stopping /\ object[o].turn = 0
        /\ Becomes(o, Emit(s, Event("started", t), s.generation))
        /\ turns' = t
        /\ listening' = listening \cup {o}
        /\ UNCHANGED <<sessions, descriptors, heard, asks, mishaps>>

\* #mapUpdate: chunks, tool calls and plans.
Update(o) ==
    /\ object[o].stage = "open" /\ ~Fenced(object[o])
    /\ Becomes(o, Emit(object[o], Event("update", object[o].turn), object[o].generation))
    /\ UNCHANGED <<sessions, descriptors, heard, listening, turns, asks, mishaps>>

\* #mapUpdate: a message or a tool call with an identifier that cannot be kept.
UnfitUpdate(o) ==
    /\ object[o].stage = "open" /\ ~Fenced(object[o])
    /\ Becomes(o, Overflow(object[o], object[o].generation))
    /\ UNCHANGED <<sessions, descriptors, heard, listening, turns, asks, mishaps>>

\* #requestPermission; a fenced request is answered at once.
RequestPermission(o) ==
    LET s == object[o]
        a == asks + 1
        told == Emit(s, Event("asked", a), s.generation)
    IN  /\ s.stage = "open" /\ ~Fenced(s) /\ asks < MaxAsks
        /\ asks' = a
        /\ IF Len(s.pending) >= PendingLimit
           THEN Becomes(o, Overflow(s, s.generation))
           ELSE IF told.count = s.count
           THEN Becomes(o, told)
           ELSE Becomes(o, [told EXCEPT !.pending = Append(@, a), !.unanswered = @ \cup {a}])
        /\ UNCHANGED <<sessions, descriptors, heard, listening, turns, mishaps>>

PromptAnswered(o, generation) ==
    /\ object[o].stage = "open" /\ generation \in object[o].prompts
    /\ \E completes \in BOOLEAN :
        Becomes(o, [Answered(object[o], generation, completes) EXCEPT !.prompts = @ \ {generation}])
    /\ UNCHANGED <<sessions, descriptors, heard, listening, turns, asks, mishaps>>

\* The session object s as interruptTurn(turn) leaves it; an error changes nothing.
Interrupted(s) == BeginStop([s EXCEPT !.pending = <<>>], s.pending, FALSE)

InterruptTurn(i) ==
    LET o == sessions[i]
    IN  /\ o # NoObject /\ object[o].turn # 0
        /\ Becomes(o, Interrupted(object[o]))
        /\ UNCHANGED <<sessions, descriptors, heard, listening, turns, asks, mishaps>>

\* #stopTurn ends: the agent answered, or its time is up, and its process is closed.
StopEnds(o) ==
    /\ object[o].stop # NoStop
    /\ Becomes(o, EndStop(object[o]))
    /\ sessions' = Unregister(o)
    /\ UNCHANGED <<descriptors, heard, listening, turns, asks, mishaps>>

Decided(o, a) ==
    heard' = [heard EXCEPT ![o].asking = @ \ {a}]

\* resolveApproval, called by ApprovalService on a permission it heard of.
ResolveApproval(i, a) ==
    LET o == sessions[i]
        s == object[o]
        at == CHOOSE n \in 1 .. Len(s.pending) : s.pending[n] = a
        t == [s EXCEPT !.pending = RemoveAt(@, at), !.unanswered = @ \ {a}]
    IN  /\ o # NoObject /\ Contains(s.pending, a) /\ a \in heard[o].asking
        /\ \/ Becomes(o, t)
           \/ Becomes(o, Push(t, Event("expired", a)))   \* no such option
        /\ Decided(o, a)
        /\ UNCHANGED <<sessions, descriptors, listening, turns, asks, mishaps>>

\* The timer of #scheduleEviction, or the one set by #stopTurn.
Evict(o) ==
    /\ object[o].eviction
    /\ IF Registers(o) \/ object[o].stage = "closed"
       THEN /\ Becomes(o, [Hangup(object[o]) EXCEPT !.eviction = FALSE, !.shut = TRUE])
            /\ sessions' = Unregister(o)
       ELSE /\ Becomes(o, [object[o] EXCEPT !.eviction = FALSE])
            /\ UNCHANGED sessions
    /\ UNCHANGED <<descriptors, heard, listening, turns, asks, mishaps>>

\* close() of the runtime, when the runner shuts down.
Close ==
    LET open == {o \in Object : Registers(o)}
        Down(s) == [Hangup(CancelPermissions([s EXCEPT !.generation = @ + 1]))
                      EXCEPT !.eviction = FALSE, !.shut = TRUE]
    IN  /\ open # {}
        /\ sessions' = [i \in Id |-> NoObject]
        /\ object' = [o \in Object |-> IF o \in open THEN Down(object[o]) ELSE object[o]]
        /\ UNCHANGED <<descriptors, heard, listening, turns, asks, mishaps>>
-----------------------------------------------------------------------------
(***************************************************************************)
(* The loop of a run service.                                              *)
(***************************************************************************)
Hears(h, e) ==
    CASE e.type \in {"started", "update"} -> [h EXCEPT !.current = e.of, !.last = e.of]
      [] e.type = "asked"   -> [h EXCEPT !.asking = @ \cup {e.of}]
      [] e.type = "expired" -> [h EXCEPT !.asking = @ \ {e.of}]
      [] e.type = "ended"   -> [h EXCEPT !.current = 0, !.last = e.of]

\* The loop persists the next event and returns at the end of a turn.
Persist(o) ==
    /\ o \in listening /\ object[o].queue # <<>>
    /\ LET e == Head(object[o].queue)
       IN  /\ heard' = [heard EXCEPT ![o] = IF @.sound THEN Hears(@, e) ELSE @]
           /\ listening' = IF e.type = "ended" THEN listening \ {o} ELSE listening
    /\ Becomes(o, [object[o] EXCEPT !.queue = Tail(@)])
    /\ UNCHANGED <<sessions, descriptors, turns, asks, mishaps>>

\* An event cannot be persisted: the loop ends and interrupts its turn.  What
\* it leaves in the queue is no longer heard in order, so the record stops.
PersistFails(o) ==
    /\ o \in listening /\ object[o].queue # <<>> /\ mishaps < MaxMishaps
    /\ mishaps' = mishaps + 1
    /\ LET s == [object[o] EXCEPT !.queue = Tail(@)]
       IN  Becomes(o, IF Registers(o) /\ s.turn # 0 THEN Interrupted(s) ELSE s)
    /\ heard' = [heard EXCEPT ![o].sound = FALSE]
    /\ listening' = listening \ {o}
    /\ UNCHANGED <<sessions, descriptors, turns, asks>>

\* The stream was closed and is empty: the loop returns.
StreamEnds(o) ==
    /\ o \in listening /\ object[o].queue = <<>> /\ object[o].shut
    /\ listening' = listening \ {o}
    /\ UNCHANGED <<sessions, descriptors, object, heard, turns, asks, mishaps>>

Listen(o) == Persist(o) \/ PersistFails(o) \/ StreamEnds(o)

Opens(o) ==
    \/ CreateSession(o) \/ SessionResumed(o) \/ OpeningFails(o)
    \/ \E i \in Id : SessionCreated(o, i) \/ ResumeSession(o, i)

Agent(o) ==
    \/ Update(o) \/ UnfitUpdate(o) \/ RequestPermission(o)
    \/ \E g \in object[o].prompts : PromptAnswered(o, g)

Calls(i) ==
    \/ StartTurn(i) \/ InterruptTurn(i)
    \/ \E a \in Ask : ResolveApproval(i, a)

Next ==
    \/ \E o \in Object : Listen(o)
    \/ /\ Quiet
       /\ \/ \E o \in Object : Opens(o) \/ Agent(o) \/ StopEnds(o) \/ Evict(o)
          \/ \E i \in Id : Calls(i)
          \/ Close

Spec == Init /\ [][Next]_vars

(***************************************************************************)
(* Promise jobs run, and #stopTurn ends: its cancellation, its grace and   *)
(* the kill of the process are all timed.                                  *)
(***************************************************************************)
FairSpec ==
    /\ Spec
    /\ \A o \in Object : WF_vars(Persist(o)) /\ WF_vars(Quiet /\ StopEnds(o))
                            /\ WF_vars(StreamEnds(o))
-----------------------------------------------------------------------------
\* Type correctness of the maps, the queues and what a loop has heard.
RuntimeTypeOK ==
    /\ sessions \in [Id -> Object \cup {NoObject}]
    /\ descriptors \in Seq(Id) /\ Len(descriptors) <= DescriptorLimit
    /\ \A o \in Object :
        /\ object[o].stage \in {"none", "creating", "resuming", "open", "closed"}
        /\ object[o].turn \in 0 .. turns
        /\ Len(object[o].queue) <= QueueLimit + PendingLimit + 1
        /\ heard[o].current \in 0 .. turns /\ heard[o].asking \subseteq 1 .. asks
    /\ listening \subseteq Object

\* A permission the agent waits for is in the map of a turn that is on, or held
\* by a stop that will answer it: no overflow, interrupt, end of turn or shutdown
\* leaves the agent waiting (#requestPermission, #overflow, #cancelPermissions).
NoAskForgotten ==
    \A o \in Object : \A a \in object[o].unanswered :
        \/ Contains(object[o].pending, a) /\ object[o].turn # 0
        \/ Contains(object[o].stop.expired, a)

Stream(o) == INSTANCE TurnStream
    WITH current <- heard[o].current, last <- heard[o].last, asking <- heard[o].asking

\* What the loop of a service hears of a session is a TurnStream: events of a
\* turn only while it is on, expiries before its one end (#emit, #stopTurn).
HeardInOrder ==
    /\ \A o \in Object : Stream(o)!StreamInit
    /\ [][\A o \in Object : [Stream(o)!StreamNext]_(Stream(o)!streamVars)]_vars

\* A turn that is being stopped lets go of the loop that listens to it
\* (#stopTurn pushes an end the loop takes, whatever the agent does).
StopIsHeard == \A o \in Object : object[o].stop # NoStop ~> o \notin listening

\* Every turn that is on can be interrupted: its object is the one registered
\* for its session ("bounded interruption ... and session cleanup are supervised").
\* It does not hold: a second resume replaces the object a turn is on.
TurnReachable == \A o \in Object : object[o].turn # 0 => Registers(o)
=============================================================================
