----------------------------- MODULE GitHubSource -----------------------------
(***************************************************************************)
(* The GitHub App of the local runner (projects/githubProjectSource.ts):   *)
(* the installation it is bound to, the states of the setups under way,    *)
(* the repositories it has listed, and the calls that wait for GitHub.     *)
(*                                                                         *)
(* A call captures the binding, waits, and then tells the catalog of       *)
(* projects (main.ts) what it learnt of that installation, whatever has    *)
(* become of the binding meanwhile.  The runner serves one actor, so the   *)
(* comparisons of actors are left out; so are the pages of a list, and the *)
(* metadata of a repository, and failures to save the binding.  Answers of *)
(* GitHub are arbitrary.  A notice is given in one step with what          *)
(* surrounds it: the catalog is synchronous.                               *)
(***************************************************************************)
EXTENDS Integers, FiniteSets

CONSTANTS Account,      \* the installations of the App
          Repository, SourceCall, Setup,
          Nothing

ASSUME SourceAssumption == Nothing \notin Account \cup Repository \cup Setup \cup SourceCall

VARIABLES
    binding,    \* #bindings, of the one actor, and the file it is saved in
    setups,     \* #setupStates
    issued,     \* the states made so far: each is random
    completed,  \* how often a state has completed a setup
    candidates, \* #candidates: installation and repository
    calls,      \* the requests that wait for GitHub
    shown,      \* the state of the projects of an installation in the catalog
    raced       \* the installations given up while a call was waiting on them, or
                \* displaced by such a call

sourceVars == <<binding, setups, issued, completed, candidates, calls, shown, raced>>

Waiting(op, i, x) == [op |-> op, inst |-> i, about |-> x]
Free == Waiting("none", Nothing, Nothing)

SourceInit ==
    /\ binding = Nothing /\ setups = {} /\ issued = {} /\ candidates = {} /\ raced = {}
    /\ completed = [s \in Setup |-> 0]
    /\ calls = [c \in SourceCall |-> Free]
    /\ shown = [i \in Account |-> "none"]

\* #notify, which reaches updateGitHubReadiness: a state is shown of the projects
\* of one installation.
Notified(i, readiness) == [shown EXCEPT ![i] = readiness]

Started(c, op, i, x) ==
    /\ calls[c] = Free
    /\ calls' = [calls EXCEPT ![c] = Waiting(op, i, x)]
Answered(c, op) ==
    /\ calls[c].op = op
    /\ calls' = [calls EXCEPT ![c] = Free]

\* Calls that will speak for installation i although it is given up now.
StillWaiting(i, but) == \E c \in SourceCall \ {but} : calls[c].inst = i
GivenUp(i, but) == IF i # Nothing /\ StillWaiting(i, but) THEN raced \cup {i} ELSE raced
-----------------------------------------------------------------------------
(***************************************************************************)
(* Setup and disconnection.                                                *)
(***************************************************************************)
BeginSetup(s) ==
    /\ s \notin issued
    /\ issued' = issued \cup {s} /\ setups' = setups \cup {s}
    /\ UNCHANGED <<binding, completed, candidates, calls, shown, raced>>

Taken(s) == setups \ {s}

StartSetup(c, s, i) ==
    /\ s \in setups
    /\ setups' = Taken(s)
    /\ Started(c, "setup", i, s)
    /\ UNCHANGED <<binding, issued, completed, candidates, shown, raced>>

\* A mutant: the installation that is replaced keeps its projects.
BadReplaced(i) == Notified(i, "ready")
Replaced(i) ==
    [j \in Account |->
        IF j = i THEN "ready" ELSE IF j = binding THEN "accessLost" ELSE shown[j]]

FinishSetup(c) ==
    LET i == calls[c].inst
    IN  /\ Answered(c, "setup")
        /\ binding' = i
        /\ shown' = Replaced(i)
        /\ raced' = (IF binding = i THEN raced ELSE GivenUp(binding, c)) \ {i}
        /\ completed' = [completed EXCEPT ![calls[c].about] = @ + 1]
        /\ UNCHANGED <<setups, issued, candidates>>

\* The candidates listed so far go with the binding.
DisconnectSource ==
    /\ binding # Nothing
    /\ binding' = Nothing /\ candidates' = {}
    /\ shown' = Notified(binding, "accessLost")
    /\ raced' = GivenUp(binding, Nothing)
    /\ UNCHANGED <<setups, issued, completed, calls>>
-----------------------------------------------------------------------------
(***************************************************************************)
(* Calls on the bound installation.                                        *)
(***************************************************************************)
StartOn(c, op, x) ==
    /\ binding # Nothing
    /\ Started(c, op, binding, x)
    /\ UNCHANGED <<binding, setups, issued, completed, candidates, shown, raced>>

\* A candidate of another installation is refused before the call.
StartSelect(c, r) == <<binding, r>> \in candidates /\ StartOn(c, "select", r)

Start(c) ==
    \/ StartOn(c, "status", Nothing)
    \/ StartOn(c, "list", Nothing)
    \/ \E r \in Repository : StartSelect(c, r)

\* A label that changed is written over whatever the binding is by now.
FinishStatus(c) ==
    LET i == calls[c].inst
    IN  /\ Answered(c, "status")
        /\ \/ UNCHANGED <<binding, raced>>
           \/ /\ binding' = i
              /\ raced' = (raced \cup ({binding} \ {Nothing})) \ {i}
        /\ shown' = Notified(i, "ready")
        /\ UNCHANGED <<setups, issued, completed, candidates>>

FinishList(c, rs) ==
    LET i == calls[c].inst
    IN  /\ Answered(c, "list")
        /\ candidates' = candidates \cup ({i} \X rs)
        /\ shown' = Notified(i, "ready")
        /\ UNCHANGED <<binding, setups, issued, completed, raced>>

\* The route then connects the repository, as ready, to the installation of the call.
FinishSelect(c) ==
    /\ Answered(c, "select")
    /\ shown' = Notified(calls[c].inst, "ready")
    /\ UNCHANGED <<binding, setups, issued, completed, candidates, raced>>

\* 401, 403 and 404 are a loss of access, anything else is a degraded connection;
\* a setup that is not confirmed, and a repository that changed, tell nothing.
Refuse(c) ==
    /\ calls[c].op # "none"
    /\ Answered(c, calls[c].op)
    /\ \/ /\ calls[c].op # "setup"
          /\ \E readiness \in {"accessLost", "degraded"} :
               shown' = Notified(calls[c].inst, readiness)
       \/ calls[c].op \in {"setup", "select"} /\ UNCHANGED shown
    /\ UNCHANGED <<binding, setups, issued, completed, candidates, raced>>
-----------------------------------------------------------------------------
\* #prune: every operation begins by forgetting what is ten minutes old.
Expire ==
    /\ \/ \E s \in setups : setups' = setups \ {s} /\ UNCHANGED candidates
       \/ \E x \in candidates : candidates' = candidates \ {x} /\ UNCHANGED setups
    /\ UNCHANGED <<binding, issued, completed, calls, shown, raced>>

\* Only the bindings, and the projects of the catalog, are on disk.
RestartSource ==
    /\ setups' = {} /\ candidates' = {} /\ calls' = [c \in SourceCall |-> Free]
    /\ UNCHANGED <<binding, issued, completed, shown, raced>>

SourceNext ==
    \/ \E s \in Setup : BeginSetup(s)
    \/ DisconnectSource \/ Expire \/ RestartSource
    \/ \E c \in SourceCall :
        \/ \E s \in Setup, i \in Account : StartSetup(c, s, i)
        \/ Start(c) \/ Refuse(c)
        \/ FinishSetup(c) \/ FinishStatus(c) \/ FinishSelect(c)
        \/ \E rs \in SUBSET Repository : FinishList(c, rs)

SourceSpec == SourceInit /\ [][SourceNext]_sourceVars
-----------------------------------------------------------------------------
\* A setup is completed once: its state is taken before the runner waits for GitHub.
SetupOnce == \A s \in Setup : completed[s] <= 1

\* The projects of an installation are readable while the runner is bound to it, and
\* no longer once it is disconnected or replaced, unless a call was waiting on it at
\* that moment, whose late answer speaks for it again, or even binds it again.
ReadyIsBound == \A i \in Account : shown[i] = "ready" => i = binding \/ i \in raced

\* What a disconnection promises: no such exception.  It does not hold.
DisconnectHolds == \A i \in Account : shown[i] = "ready" => i = binding
=============================================================================
