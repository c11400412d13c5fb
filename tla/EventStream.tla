----------------------------- MODULE EventStream -----------------------------
(***************************************************************************)
(* The events of one conversation on their way to a reader: the table they *)
(* are persisted in (db/index.ts), the hub that hands them to open streams *)
(* (events/index.ts), the route of the stream (app.ts), and the            *)
(* conversation of the application that reads it                           *)
(* (managed_conversation_provider.dart, managed_runner_api.dart).          *)
(*                                                                         *)
(* An event is persisted and published in one step, and a stream is        *)
(* subscribed and its page listed in one step: neither waits.  What is     *)
(* written to a connection is read unless the connection is lost, so a     *)
(* frame is sent and accepted in one step.  An event is a cursor; those    *)
(* that end a turn settle the reader, the others keep it working.          *)
(***************************************************************************)
EXTENDS Integers, Sequences, FiniteSets

CONSTANTS
    Page,           \* the events a stream lists: 100
    Attempts,       \* maxReconnectAttempts: 3
    Strict,         \* may the reader refuse a frame without a cursor: TRUE for the
                    \* application, FALSE for a reader that passes over heartbeats
    MaxEvents, MaxFaults

ASSUME StreamAssumption ==
    /\ Page \in Nat \ {0} /\ Attempts \in Nat
    /\ Strict \subseteq BOOLEAN
    /\ MaxEvents \in Nat /\ MaxFaults \in Nat

VARIABLES
    ends,       \* the table: of each event, whether it ends a turn
    stream,     \* the open stream: its page, whether the heartbeat behind it is still
                \* to be sent, its queue, and snapshotCursor
    link,       \* the reader's connection: "none", "asking", "open" or "closing"
    last, seen, \* _lastAcceptedCursor, and all that was accepted
    phase,      \* "working" stands for the phases of _shouldKeepStreaming
    attempts, timer,    \* _reconnectAttempts, _reconnectTimer
    away,       \* paused, and not resumed to any effect
    strict,     \* which kind of reader it is
    outrun,     \* whether a stream was opened more than a page behind
    faults      \* connections lost, commands failed and readers replaced so far

runnerVars == <<ends, stream, outrun>>
readerVars == <<last, seen, phase, attempts>>
streamVars == <<runnerVars, readerVars, link, timer, away, strict, faults>>

Upto(m, n) == [k \in 1 .. n - m |-> m + k]
NoStream == [listed |-> <<>>, beat |-> FALSE, live |-> <<>>, snapshot |-> 0]

StreamInit ==
    /\ ends = <<>> /\ stream = NoStream /\ outrun = FALSE
    /\ link = "asking" /\ last = 0 /\ seen = {} /\ phase = "working"
    /\ attempts = 0 /\ timer = FALSE /\ away = FALSE /\ strict \in Strict /\ faults = 0

Fault == faults < MaxFaults /\ faults' = faults + 1
-----------------------------------------------------------------------------
(***************************************************************************)
(* The runner.                                                             *)
(***************************************************************************)
\* appendEvent and publish: only the queue of an open stream hears of it.
Publish(end) ==
    /\ Len(ends) < MaxEvents
    /\ ends' = Append(ends, end)
    /\ stream' = IF link = "open" THEN [stream EXCEPT !.live = Append(@, Len(ends) + 1)]
                 ELSE stream
    /\ UNCHANGED <<readerVars, outrun, link, timer, away, strict, faults>>

\* A mutant: the stream begins with what comes next.
BadUnread == Upto(Len(ends), Len(ends))
Unread == Upto(last, Len(ends))

\* The stream asked for after the last cursor is opened with one page of the rest.
Open ==
    LET page == SubSeq(Unread, 1, IF Len(Unread) < Page THEN Len(Unread) ELSE Page)
    IN  /\ link = "asking" /\ link' = "open"
        /\ stream' = [listed |-> page, beat |-> TRUE, live |-> <<>>,
                      snapshot |-> IF page = <<>> THEN last ELSE page[Len(page)]]
        /\ outrun' = (outrun \/ Len(Unread) > Page)
        /\ UNCHANGED <<readerVars, ends, timer, away, strict, faults>>
-----------------------------------------------------------------------------
(***************************************************************************)
(* The reader accepts events.                                              *)
(***************************************************************************)
\* _acceptEvent: what is not beyond the last cursor is ignored.
Accept(e) ==
    IF e > last
    THEN /\ last' = e /\ seen' = seen \cup {e} /\ attempts' = 0
         /\ phase' = IF ends[e] THEN "settled" ELSE "working"
    ELSE UNCHANGED readerVars

SendListed ==
    /\ link = "open" /\ stream.listed # <<>>
    /\ stream' = [stream EXCEPT !.listed = Tail(@)]
    /\ Accept(Head(stream.listed))
    /\ UNCHANGED <<ends, outrun, link, timer, away, strict, faults>>

\* The queue is read once the page and the heartbeat are out.
Following == link = "open" /\ stream.listed = <<>> /\ ~stream.beat

SendLive ==
    /\ Following /\ stream.live # <<>>
    /\ stream' = [stream EXCEPT !.live = Tail(@)]
    /\ IF Head(stream.live) <= stream.snapshot THEN UNCHANGED readerVars
       ELSE Accept(Head(stream.live))
    /\ UNCHANGED <<ends, outrun, link, timer, away, strict, faults>>
-----------------------------------------------------------------------------
(***************************************************************************)
(* A stream ends, and the reader comes back.                               *)
(***************************************************************************)
\* A mutant: a reader that has tried often enough stops without saying so.
BadGaveUp == phase
GaveUp == "failed"

\* _handleStreamDone, _handleStreamFailure and _scheduleReconnect.
StreamEnds ==
    /\ link' = "none" /\ stream' = NoStream
    /\ IF phase # "working" \/ timer THEN UNCHANGED <<phase, attempts, timer>>
       ELSE IF attempts >= Attempts
       THEN phase' = GaveUp /\ UNCHANGED <<attempts, timer>>
       ELSE attempts' = attempts + 1 /\ timer' = TRUE /\ UNCHANGED phase
    /\ UNCHANGED <<ends, outrun, last, seen, away, strict>>

\* A heartbeat has no cursor: the application's parser throws, which ends its stream.
Heartbeat ==
    /\ link = "open" /\ stream.listed = <<>> /\ stream.beat
    /\ UNCHANGED faults
    /\ \/ strict /\ StreamEnds
       \/ /\ ~strict /\ stream' = [stream EXCEPT !.beat = FALSE]
          /\ UNCHANGED <<readerVars, ends, outrun, link, timer, away, strict>>

\* nextWithTimeout: half a minute without an event closes the stream.
Quiet == Following /\ stream.live = <<>> /\ StreamEnds /\ UNCHANGED faults

\* The connection, or the runner, is lost; or the stream is refused.
Lost == link \in {"asking", "open"} /\ Fault /\ StreamEnds

\* A reader whose session has expired says so, and does not reconnect.
Unauthorized ==
    /\ link = "asking" /\ Fault
    /\ link' = "none" /\ phase' = "failed"
    /\ UNCHANGED <<runnerVars, last, seen, attempts, timer, away, strict>>

\* _listen, which does nothing while there is a subscription.
Listening == IF link = "none" THEN "asking" ELSE link

Reconnect ==
    /\ timer /\ timer' = FALSE /\ link' = Listening
    /\ UNCHANGED <<runnerVars, readerVars, away, strict, faults>>
-----------------------------------------------------------------------------
(***************************************************************************)
(* The user's commands, tabs and visits.                                   *)
(***************************************************************************)
\* A message, a resumption or a decision that is answered listens again.
UserCommand ==
    /\ phase # "working" \/ link = "none"
    /\ phase' = "working" /\ link' = Listening
    /\ away' = (away /\ link # "none")
    /\ UNCHANGED <<runnerVars, last, seen, attempts, timer, strict, faults>>

UserCommandFails ==
    /\ Fault /\ phase' = "failed"
    /\ UNCHANGED <<runnerVars, last, seen, attempts, link, timer, away, strict>>

InterruptTurn ==
    /\ phase # "settled" /\ phase' = "settled"
    /\ UNCHANGED <<runnerVars, last, seen, attempts, link, timer, away, strict, faults>>

\* pauseEvents waits for the subscription to be cancelled before it forgets it; until
\* then a return to the tab, and a command, find one and do nothing.
PauseEvents ==
    /\ link # "closing" /\ (link # "none" \/ timer)
    /\ timer' = FALSE /\ stream' = NoStream /\ away' = TRUE
    /\ link' = IF link = "none" THEN "none" ELSE "closing"
    /\ UNCHANGED <<readerVars, ends, outrun, strict, faults>>

Paused ==
    /\ link = "closing" /\ link' = "none"
    /\ UNCHANGED <<runnerVars, readerVars, timer, away, strict, faults>>

ResumeEvents ==
    /\ link = "none" /\ link' = Listening /\ away' = FALSE
    /\ UNCHANGED <<runnerVars, readerVars, timer, strict, faults>>

\* restoreConversation: a new reader starts from the first event.
RestoreConversation ==
    /\ Fault
    /\ link' = "asking" /\ last' = 0 /\ seen' = {}
    /\ phase' \in {"working", "settled", "failed"}
    /\ attempts' = 0 /\ timer' = FALSE /\ away' = FALSE /\ stream' = NoStream
    /\ UNCHANGED <<ends, outrun, strict>>
-----------------------------------------------------------------------------
StreamNext ==
    \/ \E end \in BOOLEAN : Publish(end)
    \/ Open \/ SendListed \/ SendLive \/ Heartbeat \/ Quiet \/ Lost \/ Unauthorized
    \/ Reconnect \/ UserCommand \/ UserCommandFails \/ InterruptTurn
    \/ PauseEvents \/ Paused \/ ResumeEvents \/ RestoreConversation

\* The runner answers and writes, the half minute passes, and the reader's timer fires.
StreamSpec ==
    /\ StreamInit /\ [][StreamNext]_streamVars
    /\ WF_streamVars(Open) /\ WF_streamVars(SendListed) /\ WF_streamVars(SendLive)
    /\ WF_streamVars(Heartbeat) /\ WF_streamVars(Quiet) /\ WF_streamVars(Reconnect)
-----------------------------------------------------------------------------
\* A reader misses nothing: what it has accepted is all there is up to the last, however
\* often it was cut off, unless a stream was opened more than a page behind.
GapFree == seen = 1 .. last \/ outrun

\* Failed or settled, or its tab is left.
NotListening == phase # "working" \/ away

\* A reader at work sees what is persisted, or says that it has failed: it is not left
\* behind by a quiet, a broken or an over-full stream.
ShownOrFailed ==
    \A e \in 1 .. MaxEvents :
        (e <= Len(ends) /\ ~NotListening) ~> (last >= e \/ NotListening)

\* What the thirty idle seconds of a stream are for: a conversation does not fail while
\* nothing has gone wrong.
FailedByAFault == phase = "failed" => faults > 0
=============================================================================
