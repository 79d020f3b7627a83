----------------------------- MODULE MCSettings -----------------------------
(***************************************************************************)
(* The instances of Settings that TLC checks, and what the documentation   *)
(* says of it that the code does not do.                                   *)
(***************************************************************************)
EXTENDS Settings

(* Changing the data folder takes effect after a restart                   *)
(* (AppSettings.h:38, MainWindow.cpp:306), and an identity is stable       *)
(* (AppSettings.h:23): until then the Hello of a chat connection carries   *)
(* the id that the beacons announce.                                       *)
HelloIsAnnounced == running => greeted = announced
=============================================================================
