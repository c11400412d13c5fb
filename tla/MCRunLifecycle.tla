--------------------------- MODULE MCRunLifecycle ---------------------------
(***************************************************************************)
(* Three runs of a tenant with a quota of two: a fix, a message that       *)
(* follows it in its conversation (also while the fix is pushed), and an   *)
(* audit of the same project, which can start once the fix's conversation  *)
(* is closed and then runs beside a late message.  A plain conversation    *)
(* excludes them both.  A configuration may leave some of them out.        *)
(***************************************************************************)
EXTENDS RunLifecycle, TLC

CONSTANTS a, f, m, ca, cf, cm, p

MCKindOf == [r \in Run |->
    (a :> "audit" @@ f :> "fix" @@ m :> "conversation")[r]]
MCConversationOf == [r \in Run |-> (a :> ca @@ f :> cf @@ m :> cf)[r]]
MCProjectOf == [c \in Conversation |-> p]

=============================================================================
