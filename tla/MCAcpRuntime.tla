----------------------------- MODULE MCAcpRuntime -----------------------------
(***************************************************************************)
(* Two session objects: two sessions of their own, or two resumes of one   *)
(* session.  The limits are so small that each of them is met.             *)
(***************************************************************************)
EXTENDS AcpRuntime

CONSTANT i1
MCEarlier == <<i1>>
=============================================================================
