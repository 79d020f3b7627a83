---------------------------- MODULE MCFileOffer -----------------------------
(***************************************************************************)
(* The instances of FileOffer that TLC checks, and what the documentation  *)
(* says of it that the code does not do.                                   *)
(***************************************************************************)
EXTENDS FileOffer

AllKinds == {"File", "Folder", "EmptyFolder"}
OneDir   == {"downloads"}
-----------------------------------------------------------------------------

(* A row of R is Done only if the files of its own offer have arrived: the *)
(* declared id makes arrival order irrelevant (TransferClient.h:13-14).    *)
DoneIsOwnOffer ==
    \A r \in DOMAIN recv : recv[r].status = "Done" =>
       \E c \in DOMAIN conns : conns[c].declared = r /\ conns[c].ended = FilesOf(conns[c])
=============================================================================
