------------------------------ MODULE MCWindow ------------------------------
(***************************************************************************)
(* The instance of Window that TLC checks.                                 *)
(***************************************************************************)
EXTENDS Window

MCFilters == {{}, Peers, {CHOOSE p \in Peers : TRUE}}
=============================================================================
