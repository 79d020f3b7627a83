------------------------------ MODULE MCSaving ------------------------------
(***************************************************************************)
(* The instance of Saving that TLC checks.                                 *)
(***************************************************************************)
EXTENDS Saving

(* The other name of the first is the second.                              *)
MCOther == [n \in {"a", "a_1"} |-> IF n = "a" THEN "a_1" ELSE "a_1_1"]
=============================================================================
