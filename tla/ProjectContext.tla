---------------------------- MODULE ProjectContext ----------------------------
(***************************************************************************)
(* The context bundles of a project (projectContextGenerator.ts, the       *)
(* refresh route of projectContextRoutes.ts and the bundles of db):        *)
(* LocalProjectContextGenerator reads the commit of the repository, then   *)
(* its files, and writes a bundle unless the latest one says the same.     *)
(* Requests that come while a refresh runs are answered by it.             *)
(*                                                                         *)
(* The commit is awaited; the files are read, compared and written without *)
(* giving up the thread.  The owner edits, commits and switches branches   *)
(* at any time.  The contents of all sources are one version number, and   *)
(* the replay of a request by its key is in CommandReplay.                 *)
(***************************************************************************)
EXTENDS Naturals, Sequences

CONSTANTS
  ContextMember,    \* members of the tenant who may read the project
  Versions,            \* bound: versions of the files and of the commit
  StaleAfter,       \* STALE_AFTER_MS, in days
  LastDay,          \* bound on the calendar
  Bundles           \* bound on the bundles written

VARIABLES
  worktree,             \* the repository: its commit and the version of its files
  bundles,          \* project_context_bundles of the project, in order
  contextTargets,          \* members ensureLocalProjectContextTarget has written
  pendingRefresh,   \* #pending: who started it, its commit once read, who asked
  answers,           \* the last answers of each member, and the files at the ask
  day

contextVars == <<worktree, bundles, contextTargets, pendingRefresh, answers, day>>

NoRefresh == [at |-> "none", by |-> {}, commit |-> 0, asked |-> {}]

NoBundle == [commit |-> 0, sources |-> 0, created |-> 0]

ContextInit ==
  /\ worktree = [commit |-> 1, files |-> 1]
  /\ bundles = <<>> /\ contextTargets = {} /\ day = 0
  /\ pendingRefresh = NoRefresh
  /\ answers = [u \in ContextMember |-> [status |-> "none", bundle |-> NoBundle, since |-> 0]]

\* getLatestProjectContextBundle: the calendar does not go back, so the newest
\* is the last written.
LatestBundle == IF bundles = <<>> THEN NoBundle ELSE bundles[Len(bundles)]

\* projection.
StatusOf(bundle) ==
  IF bundle = NoBundle THEN "missing"
  ELSE IF day - bundle.created > StaleAfter THEN "stale" ELSE "ready"

\* refresh: the first request resolves the repository and starts reading its
\* commit; the others wait for the same bundle.
Refresh(u) ==
  /\ u \notin pendingRefresh.asked
  /\ pendingRefresh' =
       IF pendingRefresh.at = "none"
         THEN [at |-> "commit", by |-> {u}, commit |-> 0, asked |-> {u}]
         ELSE [pendingRefresh EXCEPT !.asked = @ \cup {u}]
  /\ answers' = [answers EXCEPT ![u].since = worktree.files]
  /\ UNCHANGED <<worktree, bundles, contextTargets, day>>

\* git rev-parse --verify HEAD, a child process the generator awaits.
SourceCommit ==
  /\ pendingRefresh.at = "commit"
  /\ pendingRefresh' = [pendingRefresh EXCEPT !.at = "files", !.commit = worktree.commit]
  /\ UNCHANGED <<worktree, bundles, contextTargets, answers, day>>

AnswerAll(status, bundle) ==
  /\ answers' = [u \in ContextMember |->
                  IF u \in pendingRefresh.asked
                    THEN [status |-> status, bundle |-> bundle, since |-> answers[u].since]
                    ELSE answers[u]]
  /\ pendingRefresh' = NoRefresh

BadSameEvidence(commit, sources) == LatestBundle.commit = commit

\* The latest bundle says the same of the same commit.
SameEvidence(commit, sources) ==
  LatestBundle.commit = commit /\ LatestBundle.sources = sources

\* ensureLocalProjectContextTarget: the rows a bundle refers to, for the member
\* whose request started the refresh.
EnsureTarget == contextTargets' = contextTargets \cup pendingRefresh.by

\* persistSkillEvidenceEnvelope.
Persisted(bundle) == bundles' = Append(bundles, bundle)

\* collectFiles, the hashes and the bundle.
CollectFiles ==
  /\ pendingRefresh.at = "files"
  /\ \/ /\ SameEvidence(pendingRefresh.commit, worktree.files)
        /\ AnswerAll(StatusOf(LatestBundle), LatestBundle)
        /\ UNCHANGED <<bundles, contextTargets>>
     \/ /\ ~SameEvidence(pendingRefresh.commit, worktree.files)
        /\ Len(bundles) < Bundles
        /\ LET bundle == [commit |-> pendingRefresh.commit, sources |-> worktree.files, created |-> day]
           IN EnsureTarget /\ Persisted(bundle) /\ AnswerAll(StatusOf(bundle), bundle)
  /\ UNCHANGED <<worktree, day>>

\* No commit, a link, too many or too large files, a file that changed while it
\* was read.
RefreshFails ==
  /\ pendingRefresh.at \in {"commit", "files"}
  /\ AnswerAll("failed", NoBundle)
  /\ UNCHANGED <<worktree, bundles, contextTargets, day>>

\* The owner edits files, commits, or switches to another branch.
OwnerWorks ==
  /\ \/ worktree.files < Versions /\ worktree' = [worktree EXCEPT !.files = @ + 1]
     \/ worktree.commit < Versions /\ worktree' = [worktree EXCEPT !.commit = @ + 1]
     \/ /\ worktree.commit < Versions /\ worktree.files < Versions
        /\ worktree' = [commit |-> worktree.commit + 1, files |-> worktree.files + 1]
  /\ UNCHANGED <<bundles, contextTargets, pendingRefresh, answers, day>>

NextDay == day < LastDay /\ day' = day + 1 /\ UNCHANGED <<worktree, bundles, contextTargets, pendingRefresh, answers>>

ContextNext ==
  \/ \E u \in ContextMember : Refresh(u)
  \/ SourceCommit \/ CollectFiles \/ RefreshFails \/ OwnerWorks \/ NextDay

ContextSpec == ContextInit /\ [][ContextNext]_contextVars

-----------------------------------------------------------------------------
(***************************************************************************)
(* A refresh sees what was edited before it was asked: the sources it      *)
(* answers with are no older than the request, also when it joined a       *)
(* refresh in progress or was given the latest bundle again.  (Of the      *)
(* commit this is not true: it is read before the last requests join.)     *)
(***************************************************************************)
RefreshSeesEdits ==
  \A u \in ContextMember :
    u \notin pendingRefresh.asked /\ answers[u].status \in {"ready", "stale"}
      => answers[u].bundle.sources >= answers[u].since

=============================================================================
