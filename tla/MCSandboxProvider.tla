--------------------------- MODULE MCSandboxProvider ---------------------------
(***************************************************************************)
(* A compile that is admitted twice and a sandbox of an earlier process.   *)
(* The window holds one lifecycle beside a reconciliation.                 *)
(***************************************************************************)
EXTENDS SandboxProvider, TLC

CONSTANTS a1, a2, job1, stray
MCNameOf == a1 :> job1 @@ a2 :> job1
=============================================================================
