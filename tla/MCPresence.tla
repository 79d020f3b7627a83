----------------------------- MODULE MCPresence -----------------------------
(***************************************************************************)
(* The instances of Presence that TLC checks, and what the documentation   *)
(* says of it that the code does not do.                                   *)
(***************************************************************************)
EXTENDS Presence
-----------------------------------------------------------------------------

(* Only peers that have not announced themselves for kExpireMs are to be   *)
(* expired (architecture.md:71-72): no running peer is, if no beacon of    *)
(* it was lost.                                                            *)
AnnouncingStays == \A i \in DOMAIN records : up[records[i].id] => records[i].age <= Expire
=============================================================================
