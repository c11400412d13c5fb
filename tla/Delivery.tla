------------------------------ MODULE Delivery ------------------------------
(***************************************************************************)
(* The delivery of a fix (workspaces/projectDelivery.ts, called by         *)
(* runs/fix.ts): the checkout of a project is admitted before the turn of  *)
(* the agent and its branch pushed after it.  Every git command is a step, *)
(* because the remote belongs to everybody: other people push to it and    *)
(* rewind it between any two commands.  A branch is the sequence of its    *)
(* commits, oldest first.                                                  *)
(*                                                                         *)
(* One fix at a time works in a checkout: the store keeps one open         *)
(* conversation per project.  A git command that reads the checkout is     *)
(* taken to succeed.  What the agent does to the checkout in its turn      *)
(* (commit, edit, pull, reset, switch) is not under src/.                  *)
(***************************************************************************)
EXTENDS Naturals, SequencesExt

CONSTANT Commits    \* bound: commits anybody makes

VARIABLES
  remoteBranch,     \* the delivery branch at the origin
  tracking,         \* refs/remotes/origin/<branch> of the checkout
  checkout,         \* the checkout: HEAD, is it clean, is it on the branch
  fix,              \* the fix in progress: its next command, the head it was
                    \* admitted at, how the last one ended
  commits           \* commits made so far, which are also their names

deliveryVars == <<remoteBranch, tracking, checkout, fix, commits>>

DeliveryInit ==
  /\ remoteBranch = <<1>> /\ tracking = <<1>> /\ commits = 1
  /\ checkout = [head |-> <<1>>, clean |-> TRUE, onBranch |-> TRUE]
  /\ fix = [next |-> "none", admitted |-> <<>>, outcome |-> "none"]

FixUnchanged == UNCHANGED <<remoteBranch, tracking, checkout, commits>>

Proceeds(next) == fix' = [fix EXCEPT !.next = next]

Ends(outcome) == fix' = [fix EXCEPT !.next = "none", !.outcome = outcome]

-----------------------------------------------------------------------------
\* admit: the branch, the status, a fetch, then HEAD against the remote.

AdmitStatus ==
  /\ fix.next = "none"
  /\ IF checkout.clean /\ checkout.onBranch
       THEN Proceeds("admitFetch")
       ELSE Ends("refused")
  /\ FixUnchanged

\* Any git command that talks to the remote may fail.
AdmitFetch ==
  /\ fix.next = "admitFetch"
  /\ \/ tracking' = remoteBranch /\ Proceeds("compare")
     \/ UNCHANGED tracking /\ Ends("refused")
  /\ UNCHANGED <<remoteBranch, checkout, commits>>

\* Commits of the remote HEAD lacks refuse the fix; commits of HEAD the remote
\* lacks do not.
Behind == ~IsPrefix(tracking, checkout.head)

AdmitCompare ==
  /\ fix.next = "compare"
  /\ IF Behind
       THEN Ends("refused")
       ELSE fix' = [fix EXCEPT !.next = "turn", !.admitted = tracking]
  /\ FixUnchanged

-----------------------------------------------------------------------------
\* The turn of the agent, then push.

\* turn.completed pushes; a turn that fails or is interrupted does not.
TurnEnds ==
  /\ fix.next = "turn"
  /\ Proceeds("pushStatus") \/ Ends("failed")
  /\ FixUnchanged

PushStatus ==
  /\ fix.next = "pushStatus"
  /\ IF checkout.clean THEN Proceeds("pushFetch") ELSE Ends("failed")
  /\ FixUnchanged

PushFetch ==
  /\ fix.next = "pushFetch"
  /\ \/ tracking' = remoteBranch /\ Proceeds("pushCompare")
     \/ UNCHANGED tracking /\ Ends("failed")
  /\ UNCHANGED <<remoteBranch, checkout, commits>>

Advanced == tracking # fix.admitted

PushCompare ==
  /\ fix.next = "pushCompare"
  /\ IF Advanced THEN Ends("failed") ELSE Proceeds("send")
  /\ FixUnchanged

BadOriginAccepts == TRUE

\* git push without --force: the origin takes a head that extends its own.
OriginAccepts == IsPrefix(remoteBranch, checkout.head)

\* The answer of a push the origin took may be lost: the fix is recorded as
\* rejected.
Push ==
  /\ fix.next = "send"
  /\ \/ /\ OriginAccepts
        /\ remoteBranch' = checkout.head /\ tracking' = checkout.head
        /\ Ends("completed")
     \/ OriginAccepts /\ remoteBranch' = checkout.head /\ UNCHANGED tracking /\ Ends("failed")
     \/ UNCHANGED <<remoteBranch, tracking>> /\ Ends("failed")
  /\ UNCHANGED <<checkout, commits>>

-----------------------------------------------------------------------------
\* Outside src/: the agent in its turn, and everybody else.

AgentActs ==
  /\ fix.next = "turn"
  /\ \/ /\ commits < Commits
        /\ checkout' = [checkout EXCEPT !.head = Append(@, commits + 1), !.clean = TRUE]
        /\ commits' = commits + 1 /\ UNCHANGED tracking
     \/ /\ checkout' = [checkout EXCEPT !.clean = FALSE]
        /\ UNCHANGED <<tracking, commits>>
     \/ /\ checkout' = [checkout EXCEPT !.onBranch = ~@]
        /\ UNCHANGED <<tracking, commits>>
     \/ /\ tracking' = remoteBranch /\ IsPrefix(checkout.head, remoteBranch)
        /\ checkout' = [checkout EXCEPT !.head = remoteBranch]
        /\ UNCHANGED commits
     \/ /\ checkout.head # <<>>
        /\ checkout' = [checkout EXCEPT !.head = Front(@), !.clean = TRUE]
        /\ UNCHANGED <<tracking, commits>>
  /\ UNCHANGED <<remoteBranch, fix>>

OthersPush ==
  /\ commits < Commits
  /\ commits' = commits + 1
  /\ remoteBranch' = Append(remoteBranch, commits + 1)
  /\ UNCHANGED <<tracking, checkout, fix>>

OthersRewind ==
  /\ Len(remoteBranch) > 1
  /\ remoteBranch' = Front(remoteBranch)
  /\ UNCHANGED <<tracking, checkout, fix, commits>>

DeliveryNext ==
  \/ AdmitStatus \/ AdmitFetch \/ AdmitCompare
  \/ TurnEnds \/ PushStatus \/ PushFetch \/ PushCompare \/ Push
  \/ AgentActs \/ OthersPush \/ OthersRewind

DeliverySpec == DeliveryInit /\ [][DeliveryNext]_deliveryVars

-----------------------------------------------------------------------------
(***************************************************************************)
(* A fix delivers onto the branch it was admitted at: when its push        *)
(* changes the remote, everything on the remote was there at admission,    *)
(* and stays.  So no commit other people pushed since is overwritten, and  *)
(* none is built upon, whenever they push or rewind (projectDelivery.ts    *)
(* refuses with deliveryRemoteAdvanced or deliveryPushRejected).           *)
(***************************************************************************)
DeliversOntoAdmitted ==
  [][(fix.next = "send" /\ fix'.next # "send" /\ remoteBranch' # remoteBranch)
     => IsPrefix(remoteBranch, fix.admitted) /\ IsPrefix(remoteBranch, remoteBranch')]_deliveryVars

=============================================================================
