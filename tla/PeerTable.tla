----------------------------- MODULE PeerTable -----------------------------
(***************************************************************************)
(* The table saved_peers of PeerStore: which peers are saved, favourites   *)
(* and blocked.  A row exists where a flag is set; SQL's answer for a      *)
(* missing row is that no flag is.  Names and addresses are left out.      *)
(***************************************************************************)
EXTENDS Integers

Put(set, p, on) == IF on THEN set \union {p} ELSE set \ {p}

NoFlags == [saved |-> {}, favorite |-> {}, blocked |-> {}]

Tables(ids) == [saved : SUBSET ids, favorite : SUBSET ids, blocked : SUBSET ids]

SetSaved(table, p, on) == [table EXCEPT !.saved = Put(@, p, on)]

(* Favouriting implies saved; unfavouriting does not unsave.               *)
SetFavorite(table, p, on) ==
    [table EXCEPT !.favorite = Put(@, p, on), !.saved = IF on THEN @ \union {p} ELSE @]

SetBlocked(table, p, on) == [table EXCEPT !.blocked = Put(@, p, on)]

SavedPeers(table) == table.saved \ table.blocked
FavoritePeers(table) == table.favorite \ table.blocked
BlockedPeers(table) == table.blocked
=============================================================================
