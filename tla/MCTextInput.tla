---------------------------- MODULE MCTextInput ----------------------------
(***************************************************************************)
(* The instance of TextInput that TLC checks.                              *)
(***************************************************************************)
EXTENDS TextInput
=============================================================================
