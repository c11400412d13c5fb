--------------------------- MODULE OperatorSessions ---------------------------
(***************************************************************************)
(* The terminals and editors an operator opens on a project                *)
(* (operator-workspace/index.ts): OperatorWorkspaceGateway spawns a        *)
(* pseudo-terminal when a session is created, keeps what it prints until   *)
(* a socket is attached with the token of the session, and kills it when   *)
(* the session expires, the socket goes or the heartbeat stops.            *)
(*                                                                         *)
(* An owner is a member of a tenant in a project.  The origin check of     *)
(* attach, the bytes of the terminal and its size are left out; a chunk    *)
(* of output that does not fit is an outcome of printing it.               *)
(***************************************************************************)
EXTENDS Naturals, Sequences, FiniteSets

CONSTANTS
  Operator,         \* tenant, member and project of a session
  Surface,          \* "editor", "terminal"
  RequestKey,       \* idempotency keys
  Sessions,         \* bound: sessions ever created
  Lifetime,         \* capabilityLifetimeMs
  HeartbeatTimeout, \* heartbeatTimeoutMs
  PendingBound,     \* maximumPreAttachOutputBytes, in chunks
  LastTime          \* bound on the clock

VARIABLES
  allowlist,        \* workspaces: the operators whose project has one
  session,          \* the sessions created so far, in order of creation
  time

operatorVars == <<allowlist, session, time>>

OperatorInit == allowlist = Operator /\ session = <<>> /\ time = 0

SessionId == DOMAIN session

\* The sessions of the map, and those of one operator among them.
Stored == {i \in SessionId : session[i].stored}
Owned(o) == {i \in Stored : session[i].operator = o}

\* releaseAttachment, and the branch of close for a session never attached.
Released(s, kill) ==
  [s EXCEPT !.stored = FALSE, !.attached = FALSE, !.token = FALSE,
            !.pty = IF kill /\ @ = "alive" THEN "killed" ELSE @]

Release(i, kill) == session' = [session EXCEPT ![i] = Released(@, kill)]

-----------------------------------------------------------------------------
\* POST and DELETE of a session.

BadOutdated(o, f, k) == {i \in Owned(o) : session[i].key = k}

\* The sessions create closes: all the operator has, except one it returns
\* again to the same request.
Replayed(o, f, k) ==
  {i \in Owned(o) : session[i].key = k /\ session[i].token /\ session[i].expires > time}

Outdated(o, f, k) == Owned(o) \ Replayed(o, f, k)

\* create refuses beside an attached session, and the key of a session with
\* another surface.
Busy(o, f, k) ==
  \E i \in Owned(o) : session[i].attached \/ (session[i].key = k /\ session[i].surface # f)

NewSession(o, f, k) ==
  [operator |-> o, surface |-> f, key |-> k, stored |-> TRUE, token |-> TRUE,
   expires |-> time + Lifetime, attached |-> FALSE, heartbeat |-> time,
   pending |-> 0, pty |-> "alive"]

CreateSession(o, f, k) ==
  /\ o \in allowlist
  /\ ~Busy(o, f, k)
  /\ Replayed(o, f, k) = {}
  /\ Len(session) < Sessions
  /\ LET closed == Outdated(o, f, k)
     IN session' = Append([i \in SessionId |-> IF i \in closed THEN Released(session[i], TRUE)
                                               ELSE session[i]],
                          NewSession(o, f, k))
  /\ UNCHANGED <<allowlist, time>>

\* closeOwned, and every session on shutdown.
CloseSession(i) == i \in Stored /\ Release(i, TRUE) /\ UNCHANGED <<allowlist, time>>

\* The callback of expiryTimer, some time after Lifetime.
ExpireSession(i) ==
  /\ i \in Stored /\ session[i].token /\ session[i].expires <= time
  /\ Release(i, TRUE)
  /\ UNCHANGED <<allowlist, time>>

\* reconcileWorkspaces when the catalog changes: sessions are not touched.
Reconcile(o) ==
  /\ allowlist' = IF o \in allowlist THEN allowlist \ {o} ELSE allowlist \cup {o}
  /\ UNCHANGED <<session, time>>

-----------------------------------------------------------------------------
\* The socket of a session.

\* attach takes the token; what was printed so far is sent, and the socket may
\* fail or be full while it is.
Attach(i) ==
  /\ i \in Stored /\ session[i].token /\ session[i].expires > time /\ ~session[i].attached
  /\ \/ session' = [session EXCEPT ![i].attached = TRUE, ![i].token = FALSE,
                                   ![i].heartbeat = time, ![i].pending = 0]
     \/ Release(i, TRUE)
  /\ UNCHANGED <<allowlist, time>>

SocketHeartbeat(i) ==
  /\ i \in Stored /\ session[i].attached
  /\ session' = [session EXCEPT ![i].heartbeat = time]
  /\ UNCHANGED <<allowlist, time>>

SocketClose(i) ==
  /\ i \in Stored /\ session[i].attached
  /\ Release(i, TRUE)
  /\ UNCHANGED <<allowlist, time>>

\* The interval of attach, which looks at the last heartbeat.
HeartbeatCheck(i) ==
  /\ i \in Stored /\ session[i].attached
  /\ time - session[i].heartbeat > HeartbeatTimeout
  /\ Release(i, TRUE)
  /\ UNCHANGED <<allowlist, time>>

-----------------------------------------------------------------------------
\* The terminal.

\* A chunk goes to the socket, which may fail, or waits for one; one too many
\* closes the session.
Output(i) ==
  /\ i \in Stored /\ session[i].pty = "alive"
  /\ \/ session[i].attached /\ Release(i, TRUE)
     \/ ~session[i].attached /\ session[i].pending = PendingBound /\ Release(i, TRUE)
     \/ /\ ~session[i].attached /\ session[i].pending < PendingBound
        /\ session' = [session EXCEPT ![i].pending = @ + 1]
  /\ UNCHANGED <<allowlist, time>>

\* onExit is listened to once a socket is attached: the end of a terminal
\* nobody is attached to is not noticed.
PtyExit(i) ==
  /\ i \in SessionId /\ session[i].pty = "alive"
  /\ LET ended == [session[i] EXCEPT !.pty = "exited"]
     IN session' = [session EXCEPT ![i] = IF @.attached THEN Released(ended, FALSE) ELSE ended]
  /\ UNCHANGED <<allowlist, time>>

OperatorTick == time < LastTime /\ time' = time + 1 /\ UNCHANGED <<allowlist, session>>

OperatorNext ==
  \/ \E o \in Operator : \/ Reconcile(o)
                         \/ \E f \in Surface, k \in RequestKey : CreateSession(o, f, k)
  \/ \E i \in SessionId :
       \/ CloseSession(i) \/ ExpireSession(i)
       \/ Attach(i) \/ SocketHeartbeat(i) \/ SocketClose(i) \/ HeartbeatCheck(i)
       \/ Output(i) \/ PtyExit(i)
  \/ OperatorTick

OperatorSpec == OperatorInit /\ [][OperatorNext]_operatorVars

-----------------------------------------------------------------------------
(***************************************************************************)
(* No terminal outlives its session: a pseudo-terminal that runs belongs   *)
(* to a session of the map, and no operator has two, so that a close, an   *)
(* expiry or the shutdown reaches every process, whichever of the timer,   *)
(* the socket, the heartbeat and the next create comes first.              *)
(***************************************************************************)
TerminalsReachable ==
  /\ \A i \in SessionId : session[i].pty = "alive" => i \in Stored
  /\ \A o \in Operator : Cardinality(Owned(o)) <= 1

=============================================================================
