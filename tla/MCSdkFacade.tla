----------------------------- MODULE MCSdkFacade -----------------------------
(***************************************************************************)
(* Two sessions of different jobs whose sandboxes have one name, three     *)
(* replay leases, plans of two commands, and too few calls to do all that  *)
(* a session may do twice.                                                 *)
(***************************************************************************)
EXTENDS SdkFacade, TLC

CONSTANTS s1, s2, box
MCNameOf == s1 :> box @@ s2 :> box

\* Neither the sessions nor the leases are told apart.
Symmetric == Permutations(Session) \cup Permutations(Replay)
=============================================================================
