----------------------------- MODULE MCChatLink -----------------------------
(***************************************************************************)
(* The instance of ChatLink that TLC checks.                               *)
(***************************************************************************)
EXTENDS ChatLink

TwoAddrs == {1, 2}
=============================================================================
