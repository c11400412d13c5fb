------------------------------ MODULE SdkFacade ------------------------------
(***************************************************************************)
(* The facade a compilation drives its sandbox through                     *)
(* (studio/providers/vercelSandboxSdkFacade.ts): an authorized session,    *)
(* its one creation, the commands of its plan and its cleanup.             *)
(*                                                                         *)
(* A caller stops waiting when its own deadline passes, and goes on to     *)
(* clean up: a creation and an execution can still be under way then.  The *)
(* sandbox of a name is known by the call that created it; the checks of   *)
(* digests, claims and tags come down to whether a session is still        *)
(* authorized and whether a sandbox carries its binding.                   *)
(***************************************************************************)
EXTENDS Integers, FiniteSets

CONSTANTS
    Session,        \* an authorization, with a token and a binding of its own
    Name, NameOf,   \* the sandbox name of its binding
    Creation,       \* the create calls a session may have under way at once
    Replay,         \* replay leases the verifier can answer with
    Commands,       \* length of the plan: three or two
    MaxCalls,       \* provider calls of one reservation: 32
    None

ASSUME FacadeAssumption ==
    /\ NameOf \in [Session -> Name] /\ Commands \in Nat \ {0} /\ MaxCalls \in Nat \ {0}
    /\ None \notin Session \X Creation /\ None \notin Session

VARIABLES
    authorized,     \* how far authorize got
    uses,           \* times a replay lease was accepted
    usedReplayLeases,
    lapsed,         \* the token or the reservation of a session has expired
    attempted,      \* createAttempted
    creation,       \* each create call
    execution,      \* the execute call: its place, command, and instance
    cleanup,        \* the cleanup call: its place and instance
    calls,          \* provider calls the ledger consumed
    sandbox         \* the provider: what is under a name

vars == <<authorized, uses, usedReplayLeases, lapsed, attempted, creation,
          execution, cleanup, calls, sandbox>>
trust == <<authorized, uses, usedReplayLeases, lapsed>>

Gone == [by |-> None, at |-> "none"]
NotRunning == [at |-> "idle", step |-> 0, on |-> Gone]

Init ==
    /\ authorized = [s \in Session |-> "no"] /\ uses = [l \in Replay |-> 0]
    /\ usedReplayLeases = {} /\ lapsed = [s \in Session |-> FALSE]
    /\ attempted = [s \in Session |-> FALSE]
    /\ creation = [c \in Session \X Creation |-> "idle"]
    /\ execution = [s \in Session |-> NotRunning]
    /\ cleanup = [s \in Session |-> [at |-> "idle", on |-> Gone]]
    /\ calls = [s \in Session |-> 0] /\ sandbox = [n \in Name |-> Gone]
-----------------------------------------------------------------------------
(***************************************************************************)
(* authorize                                                               *)
(***************************************************************************)
Moves(s, from, to) ==
    /\ authorized[s] = from
    /\ authorized' = [authorized EXCEPT ![s] = to]
    /\ UNCHANGED <<lapsed, attempted, creation, execution, cleanup, calls, sandbox>>

Authorize(s) == Moves(s, "no", "verifying") /\ UNCHANGED <<uses, usedReplayLeases>>

Fresh(l) == l \notin usedReplayLeases

\* What the verifier answers is checked and marked used in one step.
Verified(s) ==
    /\ Moves(s, "verifying", "reserving")
    /\ \E l \in Replay :
        /\ Fresh(l)
        /\ usedReplayLeases' = usedReplayLeases \cup {l}
        /\ uses' = [uses EXCEPT ![l] = @ + 1]

NotVerified(s) == Moves(s, "verifying", "refused") /\ UNCHANGED <<uses, usedReplayLeases>>
Reserved(s) == Moves(s, "reserving", "open") /\ UNCHANGED <<uses, usedReplayLeases>>
NotReserved(s) == Moves(s, "reserving", "refused") /\ UNCHANGED <<uses, usedReplayLeases>>

Lapse(s) ==
    /\ authorized[s] = "open" /\ ~lapsed[s]
    /\ lapsed' = [lapsed EXCEPT ![s] = TRUE]
    /\ UNCHANGED <<authorized, uses, usedReplayLeases, attempted, creation, execution,
                   cleanup, calls, sandbox>>

Authority(s) == authorized[s] = "open" /\ ~lapsed[s]
-----------------------------------------------------------------------------
(***************************************************************************)
(* A provider call is paid at the ledger before it is sent.                *)
(***************************************************************************)
Consume(s) ==
    /\ Authority(s) /\ calls[s] < MaxCalls
    /\ calls' = [calls EXCEPT ![s] = @ + 1]
-----------------------------------------------------------------------------
(***************************************************************************)
(* create: the call is paid, the SDK loaded, and only then is the creation *)
(* marked as attempted.                                                    *)
(***************************************************************************)
CreateQuiet == UNCHANGED <<trust, execution, cleanup>>

\* A mutant: a session may create again.
BadMayCreate(s) == Authority(s)
MayCreate(s) == Authority(s) /\ ~attempted[s]

Create(s, k) ==
    /\ creation[s, k] \in {"idle", "failed"} /\ MayCreate(s)
    /\ Consume(s)
    /\ creation' = [creation EXCEPT ![<<s, k>>] = "loading"]
    /\ CreateQuiet /\ UNCHANGED <<attempted, sandbox>>

CreateSent(s, k) ==
    /\ creation[s, k] = "loading"
    /\ creation' = [creation EXCEPT ![<<s, k>>] = "sent"]
    /\ attempted' = [attempted EXCEPT ![s] = TRUE]
    /\ CreateQuiet /\ UNCHANGED <<calls, sandbox>>

\* The provider refuses a name that is taken.  Its answer may be lost, or not be what
\* was asked for.
Created(s, k) ==
    /\ creation[s, k] = "sent" /\ sandbox[NameOf[s]] = Gone
    /\ sandbox' = [sandbox EXCEPT ![NameOf[s]] = [by |-> <<s, k>>, at |-> "running"]]
    /\ \E answer \in {"done", "failed"} : creation' = [creation EXCEPT ![<<s, k>>] = answer]
    /\ CreateQuiet /\ UNCHANGED <<attempted, calls>>

\* The SDK cannot be loaded, or the provider refuses.
CreateFails(s, k) ==
    /\ creation[s, k] \in {"loading", "sent"}
    /\ creation' = [creation EXCEPT ![<<s, k>>] = "failed"]
    /\ CreateQuiet /\ UNCHANGED <<attempted, calls, sandbox>>
-----------------------------------------------------------------------------
(***************************************************************************)
(* execute: a strict inspection, then the commands one after the other,    *)
(* each within what is left of the 600 seconds.                            *)
(***************************************************************************)
\* Mutants: a sandbox is known by its name only.
BadOwn(s, b) == b # Gone
Own(s, b) == b # Gone /\ b.by[1] = s

ExecuteQuiet == UNCHANGED <<trust, attempted, creation, cleanup, sandbox>>
Running(s, at, step, on) ==
    execution' = [execution EXCEPT ![s] = [at |-> at, step |-> step, on |-> on]]

Execute(s) ==
    /\ execution[s].at = "idle" /\ Consume(s)
    /\ Running(s, "inspect", 0, Gone) /\ ExecuteQuiet

\* The instance is what the binding says, or the execution fails.
Inspected(s) ==
    LET b == sandbox[NameOf[s]]
    IN  /\ execution[s].at = "inspect" /\ Own(s, b)
        /\ Running(s, "ready", 0, b) /\ ExecuteQuiet /\ UNCHANGED calls

RunCommand(s) ==
    /\ execution[s].at = "ready" /\ Consume(s)
    /\ Running(s, "command", execution[s].step + 1, execution[s].on) /\ ExecuteQuiet

CommandExits(s) ==
    LET e == execution[s]
    IN  /\ e.at = "command" /\ sandbox[NameOf[s]].by = e.on.by
        /\ sandbox[NameOf[s]].at = "running"
        /\ Running(s, IF e.step = Commands THEN "done" ELSE "ready", e.step, e.on)
        /\ ExecuteQuiet /\ UNCHANGED calls

\* Nothing is there, it is not ours, a command fails, writes too much or is late,
\* or the call cannot be paid.
ExecuteFails(s) ==
    /\ execution[s].at \in {"inspect", "ready", "command"}
    /\ Running(s, "failed", execution[s].step, Gone) /\ ExecuteQuiet /\ UNCHANGED calls
-----------------------------------------------------------------------------
(***************************************************************************)
(* cleanup: every failure is reported as cleanupUncertain.                 *)
(***************************************************************************)
CleanupQuiet == UNCHANGED <<authorized, lapsed, attempted, creation, execution>>
Cleaning(s, from, to, on) ==
    /\ cleanup[s].at = from
    /\ cleanup' = [cleanup EXCEPT ![s] = [at |-> to, on |-> on]]
Here(s) == sandbox[NameOf[s]] # Gone /\ sandbox[NameOf[s]].by = cleanup[s].on.by

Cleanup(s) ==
    /\ Authority(s) /\ cleanup[s].at \in {"idle", "uncertain"}
    /\ Cleaning(s, cleanup[s].at, "proving", Gone)
    /\ CleanupQuiet /\ UNCHANGED <<uses, usedReplayLeases, calls, sandbox>>

Proved(s) ==
    /\ \/ Cleaning(s, "proving", "inspect", Gone) /\ Consume(s)
       \/ Cleaning(s, "proving", "uncertain", Gone) /\ UNCHANGED calls
    /\ \E l \in Replay :
        /\ Fresh(l)
        /\ usedReplayLeases' = usedReplayLeases \cup {l}
        /\ uses' = [uses EXCEPT ![l] = @ + 1]
    /\ CleanupQuiet /\ UNCHANGED sandbox

Found(s) ==
    LET b == sandbox[NameOf[s]]
    IN  /\ Own(s, b) /\ Cleaning(s, "inspect", "stop", b) /\ Consume(s)
        /\ CleanupQuiet /\ UNCHANGED <<uses, usedReplayLeases, sandbox>>

CleanupStops(s) ==
    /\ Here(s) /\ Cleaning(s, "stop", "delete", cleanup[s].on) /\ Consume(s)
    /\ sandbox' = [sandbox EXCEPT ![NameOf[s]].at = "stopped"]
    /\ CleanupQuiet /\ UNCHANGED <<uses, usedReplayLeases>>

CleanupDeletes(s) ==
    /\ Here(s) /\ Cleaning(s, "delete", "clean", Gone)
    /\ sandbox' = [sandbox EXCEPT ![NameOf[s]] = Gone]
    /\ CleanupQuiet /\ UNCHANGED <<uses, usedReplayLeases, calls>>

\* Also when the provider did what it was asked and the answer is lost.
CleanupUncertain(s) ==
    /\ cleanup[s].at \in {"proving", "inspect", "stop", "delete"}
    /\ cleanup' = [cleanup EXCEPT ![s] = [at |-> "uncertain", on |-> Gone]]
    /\ \/ UNCHANGED sandbox
       \/ /\ cleanup[s].at = "delete" /\ Here(s)
          /\ sandbox' = [sandbox EXCEPT ![NameOf[s]] = Gone]
    /\ CleanupQuiet /\ UNCHANGED <<uses, usedReplayLeases, calls>>

Authorizes(s) ==
    \/ Authorize(s) \/ Verified(s) \/ NotVerified(s)
    \/ Reserved(s) \/ NotReserved(s) \/ Lapse(s)
Creates(s, k) ==
    \/ Create(s, k) \/ CreateSent(s, k) \/ Created(s, k)
    \/ CreateFails(s, k)
Executes(s) ==
    Execute(s) \/ Inspected(s) \/ RunCommand(s) \/ CommandExits(s) \/ ExecuteFails(s)
Cleans(s) ==
    \/ Cleanup(s) \/ Proved(s) \/ Found(s) \/ CleanupStops(s)
    \/ CleanupDeletes(s) \/ CleanupUncertain(s)

Next ==
    \E s \in Session :
        \/ Authorizes(s) \/ Executes(s) \/ Cleans(s)
        \/ \E k \in Creation : Creates(s, k)

Spec == Init /\ [][Next]_vars
-----------------------------------------------------------------------------
\* A cleanup that succeeded is final: no sandbox of the session exists any more,
\* although a creation its caller stopped waiting for may have answered late.
CleanIsGone ==
    \A s \in Session : cleanup[s].at = "clean" => ~Own(s, sandbox[NameOf[s]])

\* A replay lease is accepted once, whether it authorizes or proves a cleanup, and
\* however the verifier's answers interleave.
ReplayedNever == \A l \in Replay : uses[l] <= 1

\* A session stops and deletes nothing but the sandbox it created, although names
\* are looked up before the calls that act on them.
OthersUntouched ==
    [][\A s \in Session : cleanup'[s] # cleanup[s] =>
        \A n \in Name : sandbox'[n] # sandbox[n] => sandbox[n].by[1] = s]_vars
=============================================================================
