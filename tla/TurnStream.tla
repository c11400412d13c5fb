------------------------------ MODULE TurnStream ------------------------------
(***************************************************************************)
(* Abstract: what the event stream of one agent session promises to the    *)
(* loop of the run service that reads it (runner/src/runs/*.ts on top of   *)
(* runner/src/agent-runtime/acp/index.ts).  Turns come one after the       *)
(* other, everything heard belongs to the turn that is on, a permission is *)
(* asked and expires at most once, and a turn ends once, with no           *)
(* permission left open.                                                   *)
(***************************************************************************)
EXTENDS Naturals

CONSTANTS Turn, Ask

VARIABLES
    current,   \* the turn being heard, or 0
    last,      \* the newest turn heard of
    asking     \* permissions heard of and neither decided nor expired

streamVars == <<current, last, asking>>

StreamInit == current = 0 /\ last = 0 /\ asking = {}

\* turn.started, or the first thing heard of a turn whose start was dropped.
Begin(t) ==
    /\ current = 0 /\ t > last
    /\ current' = t /\ last' = t
    /\ UNCHANGED asking

Asked(a) ==
    /\ current # 0 /\ a \notin asking
    /\ asking' = asking \cup {a}
    /\ UNCHANGED <<current, last>>

\* The user decides, or approval.expired is heard.
Closed(a) ==
    /\ a \in asking
    /\ asking' = asking \ {a}
    /\ UNCHANGED <<current, last>>

\* turn.completed, turn.failed or turn.interrupted.
End ==
    /\ current # 0 /\ asking = {}
    /\ current' = 0
    /\ UNCHANGED <<last, asking>>

StreamNext ==
    \/ \E t \in Turn : Begin(t)
    \/ \E a \in Ask : Asked(a) \/ Closed(a)
    \/ End

StreamSpec == StreamInit /\ [][StreamNext]_streamVars
=============================================================================
