------------------------------ MODULE ChatRows ------------------------------
(***************************************************************************)
(* The rows of ChatStore's table `messages` that belong to one peer, as a  *)
(* sequence: the row with id i is rows[i], because the ids are             *)
(* AUTOINCREMENT and so never reused.  A deleted row keeps its place, with *)
(* what it last held; nothing reads or changes it again.                   *)
(***************************************************************************)
EXTENDS Naturals, Sequences

NoPath == "none"

Present(rows, id) == id \in DOMAIN rows /\ ~rows[id].deleted

(* INSERT: the id of the new row is the length of the result.              *)
AddMessage(rows, row) == Append(rows, row)

(* UPDATE ... WHERE id: the status and the path are both overwritten, with *)
(* whatever the caller left in the Message, and a missing row is no error. *)
Updated(row, status, path) == [row EXCEPT !.status = status, !.path = path]

UpdateMessage(rows, id, status, path) ==
    IF Present(rows, id) THEN [rows EXCEPT ![id] = Updated(rows[id], status, path)] ELSE rows

(* DELETE FROM messages WHERE peer_id.                                     *)
Deleted(row) == [row EXCEPT !.deleted = TRUE]

ClearPeer(rows) == [id \in DOMAIN rows |-> Deleted(rows[id])]
=============================================================================
