----------------------------- MODULE FileOffer ------------------------------
(***************************************************************************)
(* The life of file and folder offers between two running Apps: "S", which *)
(* offers, and "R", which accepts, denies and asks again (App.cpp).        *)
(*                                                                         *)
(* S keeps its rows of ChatStore, the outbox and m_pendingOffers; R keeps  *)
(* its own rows, m_pendingInbound (one entry for each Accept click, in     *)
(* click order) and m_inboundIdMap (data connection -> entry).  The two    *)
(* stores number their rows independently: a FileRequest carries S's id,   *)
(* R echoes it with its own id in the payload, and S stamps that one on    *)
(* the data connection.                                                    *)
(*                                                                         *)
(* Chat frames are delivered in order, and a connection that breaks loses  *)
(* what it still carried.  A data connection is modelled by the files S    *)
(* has written and the files R has received; TransferStream refines it.    *)
(***************************************************************************)
EXTENDS Naturals, Sequences, SequencesExt, ChatRows

CONSTANTS MaxOffers,    \* bound on the offers S makes
          MaxFaults,    \* bound on failures and deletions of history
          FolderFiles,  \* number of files of a non-empty folder
          Kinds,        \* kinds of offers made
          Dirs,         \* directories R may choose to save to
          DefaultDir    \* the one configured in R's settings

ASSUME BoundsAssumption == /\ MaxOffers \in Nat /\ MaxFaults \in Nat
                           /\ FolderFiles \in Nat \ {0}
ASSUME KindsAssumption == Kinds \subseteq {"File", "Folder", "EmptyFolder"}
ASSUME DirsAssumption == DefaultDir \in Dirs /\ NoPath \notin Dirs

VARIABLES sent, outbox, pendingOffers, recv, pendingInbound, downloadDir,
          online, toRecv, toSend, conns, faults

senderVars   == <<sent, outbox, pendingOffers>>
receiverVars == <<recv, pendingInbound, downloadDir>>
netVars      == <<toRecv, toSend>>
vars == <<senderVars, receiverVars, netVars, online, conns, faults>>

Apps == {"S", "R"}
NoEntry == 0
Local == "local"     \* the path of what S offers, on S's disk

SendStatus == {"WaitingAccept", "Pending", "Transferring", "Done", "Denied"}
RecvStatus == {"WaitingAccept", "Transferring", "Done", "Denied", "RequestAgain"}

OfferRow == [kind : Kinds, status : SendStatus, path : {Local, NoPath},
             deleted : BOOLEAN]
RecvRow  == [kind : Kinds, remote : Nat, status : RecvStatus, path : Dirs \union {NoPath},
             deleted : BOOLEAN]
Reply    == [type : {"FileAccept", "FileReject", "RequestAgain"}, id : Nat, local : Nat]
Conn     == [offer : Nat, declared : Nat,  \* S's id, and R's id it is stamped with
             client : BOOLEAN,             \* S's TransferClient is alive
             written : Nat, eos : BOOLEAN, \* files S wrote, and whether it sent the sentinel
             xfer : BOOLEAN,               \* R's IncomingTransfer exists
             cut : BOOLEAN,                \* it ended before R had read the sentinel
             begun : Nat, ended : Nat,     \* files R has begun, and has received intact
             saving : Dirs \union {NoPath},\* where the file now being received goes
             entry : Nat,                  \* R's m_inboundIdMap.value(tid), 0 for none
             placed : SUBSET Dirs]         \* where R put the files so far

TypeOK == /\ sent \in Seq(OfferRow) /\ Len(sent) \in 0..MaxOffers
          /\ outbox \in Seq(DOMAIN sent) /\ pendingOffers \subseteq DOMAIN sent
          /\ recv \in Seq(RecvRow) /\ pendingInbound \in Seq(Nat)
          /\ downloadDir \in Dirs /\ online \in [Apps -> BOOLEAN]
          /\ toRecv \in Seq(DOMAIN sent) /\ toSend \in Seq(Reply)
          /\ conns \in Seq(Conn) /\ faults \in 0..MaxFaults

Init == /\ sent = <<>> /\ outbox = <<>> /\ pendingOffers = {}
        /\ recv = <<>> /\ pendingInbound = <<>> /\ downloadDir = DefaultDir
        /\ online = [a \in Apps |-> FALSE]
        /\ toRecv = <<>> /\ toSend = <<>> /\ conns = <<>> /\ faults = 0

Fault == faults < MaxFaults /\ faults' = faults + 1

Files(kind) == IF kind = "Folder" THEN FolderFiles ELSE 1

FilesOf(k) == Files(sent[k.offer].kind)

(* The m_inboundIdMap entry's row becomes status and path; no entry, no    *)
(* update.                                                                 *)
UpdateEntry(k, status, path) ==
    recv' = IF k.entry = NoEntry THEN recv ELSE UpdateMessage(recv, k.entry, status, path)

-----------------------------------------------------------------------------
(* What the two Apps do when their user clicks.                            *)

(* Mutant: the offer is registered before the row has its id.              *)
SendOfferEarly(kind) ==
    /\ Len(sent) < MaxOffers /\ online["S"]
    /\ sent' = AddMessage(sent, [kind |-> kind, status |-> "WaitingAccept", path |-> Local,
                                 deleted |-> FALSE])
    /\ pendingOffers' = pendingOffers \union {Len(sent) + 2}
    /\ toRecv' = Append(toRecv, Len(sent) + 1)
    /\ UNCHANGED <<outbox, receiverVars, online, toSend, conns, faults>>

(* sendFile, sendFolder, sendImage.  To a peer that is not online only a   *)
(* plain file is queued (the peer is taken to be saved: for others nothing *)
(* happens); a folder is stored as if offered, and no frame leaves.        *)
SendOffer(kind) ==
    LET s == Len(sent) + 1
        Add(status) == AddMessage(sent, [kind |-> kind, status |-> status, path |-> Local,
                                          deleted |-> FALSE])
    IN /\ Len(sent) < MaxOffers
       /\ \/ /\ online["S"]
             /\ sent' = Add("WaitingAccept")
             /\ pendingOffers' = pendingOffers \union {s}
             /\ toRecv' = Append(toRecv, s)
             /\ UNCHANGED outbox
          \/ /\ ~online["S"] /\ kind = "File"
             /\ sent' = Add("Pending")
             /\ outbox' = Append(outbox, s)
             /\ UNCHANGED <<pendingOffers, toRecv>>
          \/ /\ ~online["S"] /\ kind # "File"
             /\ sent' = Add("WaitingAccept")
             /\ UNCHANGED <<outbox, pendingOffers, toRecv>>
       /\ UNCHANGED <<receiverVars, online, toSend, conns, faults>>

(* R's view shows the buttons for a row in these states only, and the      *)
(* handlers find the row only among the messages of online peers.          *)
Clickable(r, statuses) == online["R"] /\ Present(recv, r) /\ recv[r].status \in statuses

(* Mutant: the frame carries R's own id where S's is expected.             *)
AnswerOwnId(r, status, type) ==
    /\ recv' = UpdateMessage(recv, r, status, recv[r].path)
    /\ toSend' = Append(toSend, [type |-> type, id |-> r, local |-> r])
    /\ UNCHANGED <<senderVars, online, toRecv, conns, faults>>

(* A click on row r: its new status, and the frame that tells S, which     *)
(* echoes S's id and carries R's own.                                      *)
Answer(r, status, type) ==
    /\ recv' = UpdateMessage(recv, r, status, recv[r].path)
    /\ toSend' = Append(toSend, [type |-> type, id |-> recv[r].remote, local |-> r])
    /\ UNCHANGED <<senderVars, online, toRecv, conns, faults>>

(* Mutant: a denied row can be accepted too.                               *)
AcceptDenied(r, dir) ==
    /\ Clickable(r, {"WaitingAccept", "Denied"})
    /\ downloadDir' = dir
    /\ pendingInbound' = Append(pendingInbound, r)
    /\ Answer(r, "Transferring", "FileAccept")

(* Mutant: no entry is queued for the connection to come.                  *)
AcceptNoEntry(r, dir) ==
    /\ Clickable(r, {"WaitingAccept"})
    /\ downloadDir' = dir
    /\ Answer(r, "Transferring", "FileAccept")
    /\ UNCHANGED pendingInbound

(* acceptTransfer (dir = downloadDir) and acceptTransferTo.                *)
AcceptTransfer(r, dir) ==
    /\ Clickable(r, {"WaitingAccept"})
    /\ downloadDir' = dir
    /\ pendingInbound' = Append(pendingInbound, r)
    /\ Answer(r, "Transferring", "FileAccept")

(* Mutant: the wrong frame goes out.                                       *)
DenyAsAccept(r) ==
    /\ Clickable(r, {"WaitingAccept"})
    /\ Answer(r, "Denied", "FileAccept")
    /\ UNCHANGED <<pendingInbound, downloadDir>>

DenyTransfer(r) ==
    /\ Clickable(r, {"WaitingAccept"})
    /\ Answer(r, "Denied", "FileReject")
    /\ UNCHANGED <<pendingInbound, downloadDir>>

(* requestAgain adds no entry to m_pendingInbound.                         *)
RequestAgain(r) ==
    /\ Clickable(r, {"Done", "Denied"})
    /\ Answer(r, "RequestAgain", "RequestAgain")
    /\ UNCHANGED <<pendingInbound, downloadDir>>

(* deleteHistory on either side.                                           *)
DeleteHistory(a) ==
    /\ Fault
    /\ IF a = "S" THEN sent' = ClearPeer(sent) /\ UNCHANGED recv
                  ELSE recv' = ClearPeer(recv) /\ UNCHANGED sent
    /\ UNCHANGED <<outbox, pendingOffers, pendingInbound, downloadDir, netVars, online,
                   conns>>

-----------------------------------------------------------------------------
(* routeIncoming: R receives an offer, S receives an answer.               *)

RouteFileRequest ==
    /\ toRecv # <<>>
    /\ recv' = AddMessage(recv, [kind |-> sent[Head(toRecv)].kind, remote |-> Head(toRecv),
                                 status |-> "WaitingAccept", path |-> NoPath,
                                 deleted |-> FALSE])
    /\ toRecv' = Tail(toRecv)
    /\ UNCHANGED <<senderVars, pendingInbound, downloadDir, online, toSend, conns, faults>>

(* A fresh TransferClient for offer s, stamped with R's id.  An empty      *)
(* folder finishes without connecting, and while S does not see R there is *)
(* no address to connect to; the row is updated with an empty path.        *)
StartClient(s, local) ==
    LET empty == sent[s].kind = "EmptyFolder"
    IN /\ sent' = UpdateMessage(sent, s, IF empty THEN "Done" ELSE "Transferring", NoPath)
       /\ conns' = IF empty \/ ~online["S"] THEN conns
                   ELSE Append(conns, [offer |-> s, declared |-> local, client |-> TRUE,
                                       written |-> 0, eos |-> FALSE, xfer |-> TRUE,
                                       cut |-> FALSE, begun |-> 0, ended |-> 0,
                                       saving |-> NoPath, entry |-> NoEntry, placed |-> {}])

(* S takes the next answer off the wire.                                   *)
TakeReply(type) == /\ toSend # <<>> /\ Head(toSend).type = type
                   /\ toSend' = Tail(toSend)
                   /\ UNCHANGED <<receiverVars, outbox, online, toRecv, faults>>

RouteFileAccept ==
    LET f == Head(toSend)
    IN /\ TakeReply("FileAccept")
       /\ IF f.id \in pendingOffers
          THEN pendingOffers' = pendingOffers \ {f.id} /\ StartClient(f.id, f.local)
          ELSE UNCHANGED <<sent, pendingOffers, conns>>

RouteFileReject ==
    LET f == Head(toSend)
    IN /\ TakeReply("FileReject")
       /\ IF f.id \in pendingOffers
          THEN /\ pendingOffers' = pendingOffers \ {f.id}
               /\ sent' = UpdateMessage(sent, f.id, "Denied", NoPath)
          ELSE UNCHANGED <<sent, pendingOffers>>
       /\ UNCHANGED conns

(* The path is looked up in the store, among the rows of online peers.     *)
RouteRequestAgain ==
    LET f == Head(toSend)
    IN /\ TakeReply("RequestAgain")
       /\ IF online["S"] /\ Present(sent, f.id) /\ sent[f.id].path # NoPath
          THEN StartClient(f.id, f.local)
          ELSE UNCHANGED <<sent, conns>>
       /\ UNCHANGED pendingOffers

-----------------------------------------------------------------------------
(* S's TransferClient: one connection for all the files of an offer.       *)

(* A file written to the socket, with its transferProgress.                *)
WriteFile(c) ==
    LET k == conns[c]
    IN /\ c \in DOMAIN conns /\ k.client /\ k.written < FilesOf(k)
       /\ conns' = [conns EXCEPT ![c] = [k EXCEPT !.written = @ + 1]]
       /\ sent' = UpdateMessage(sent, k.offer, "Transferring", NoPath)
       /\ UNCHANGED <<receiverVars, outbox, pendingOffers, netVars, online, faults>>

(* Mutant: the sentinel goes out after the first file, the client goes on.  *)
FinishSendingEarly(c) ==
    LET k == conns[c]
    IN /\ c \in DOMAIN conns /\ k.client /\ k.written > 0
       /\ conns' = [conns EXCEPT ![c] = [k EXCEPT !.eos = TRUE]]
       /\ sent' = UpdateMessage(sent, k.offer, "Done", NoPath)
       /\ UNCHANGED <<receiverVars, outbox, pendingOffers, netVars, online, faults>>

(* The sentinel, disconnectFromHost and transferFinished: the client dies. *)
FinishSending(c) ==
    LET k == conns[c]
    IN /\ c \in DOMAIN conns /\ k.client /\ k.written = FilesOf(k)
       /\ conns' = [conns EXCEPT ![c] = [k EXCEPT !.eos = TRUE, !.client = FALSE]]
       /\ sent' = UpdateMessage(sent, k.offer, "Done", NoPath)
       /\ UNCHANGED <<receiverVars, outbox, pendingOffers, netVars, online, faults>>

(* transferFailed on S: a failure, or R has closed the connection.  The    *)
(* row is not updated.                                                     *)
ClientFails(c) ==
    LET k == conns[c]
    IN /\ c \in DOMAIN conns /\ k.client
       /\ conns' = [conns EXCEPT ![c] = [k EXCEPT !.client = FALSE]]
       /\ IF k.xfer THEN Fault ELSE UNCHANGED faults
       /\ UNCHANGED <<senderVars, receiverVars, netVars, online>>

-----------------------------------------------------------------------------
(* R's TransferServer and the slots App connects to its signals.           *)

(* Mutant: arrival order decides.                                          *)
EntryPlaceFifo(k) == {1} \intersect DOMAIN pendingInbound

(* The place in m_pendingInbound of the entry that transferStarted takes   *)
(* for connection k: the first with the declared id, else the first.       *)
EntryPlace(k) ==
    LET own == {i \in DOMAIN pendingInbound : pendingInbound[i] = k.declared}
    IN IF own # {} THEN {i \in own : \A j \in own : i <= j}
                   ELSE {1} \intersect DOMAIN pendingInbound

(* Mutant: the entry is mapped but stays in m_pendingInbound.              *)
BeginFileKeepsEntry(c) ==
    LET k == conns[c]
    IN /\ c \in DOMAIN conns /\ k.xfer /\ k.saving = NoPath /\ k.begun < k.written
       /\ \E r \in IF k.entry # NoEntry \/ EntryPlace(k) = {} THEN {k.entry}
                   ELSE {pendingInbound[i] : i \in EntryPlace(k)} :
            conns' = [conns EXCEPT ![c] =
                         [k EXCEPT !.begun = @ + 1, !.saving = downloadDir,
                                   !.placed = @ \union {downloadDir}, !.entry = r]]
       /\ UNCHANGED <<senderVars, receiverVars, netVars, online, faults>>

(* A file header, and transferStarted: the connection is mapped to an      *)
(* entry unless it already is, or none is pending.                         *)
BeginFile(c) ==
    LET k == conns[c]
        Begin(r) == conns' = [conns EXCEPT ![c] =
                        [k EXCEPT !.begun = @ + 1, !.saving = downloadDir,
                                  !.placed = @ \union {downloadDir}, !.entry = r]]
    IN /\ c \in DOMAIN conns /\ k.xfer /\ k.saving = NoPath /\ k.begun < k.written
       /\ IF k.entry # NoEntry \/ EntryPlace(k) = {}
          THEN Begin(k.entry) /\ UNCHANGED pendingInbound
          ELSE \E i \in EntryPlace(k) : /\ Begin(pendingInbound[i])
                                        /\ pendingInbound' = RemoveAt(pendingInbound, i)
       /\ UNCHANGED <<senderVars, recv, downloadDir, netVars, online, faults>>

(* The last byte of an intact file: transferProgress, transferFileFinished. *)
(* The row of a plain file gets the path, that of a folder does not.       *)
EndFile(c) ==
    LET k == conns[c]
        folder == k.entry # NoEntry /\ recv[k.entry].kind # "File"
    IN /\ c \in DOMAIN conns /\ k.xfer /\ k.saving # NoPath
       /\ conns' = [conns EXCEPT ![c] = [k EXCEPT !.ended = @ + 1, !.saving = NoPath]]
       /\ UpdateEntry(k, "Transferring", IF folder THEN NoPath ELSE k.saving)
       /\ UNCHANGED <<senderVars, pendingInbound, downloadDir, netVars, online, faults>>

(* The digest does not match: transferFailed, and the connection goes on.  *)
RejectFile(c) ==
    LET k == conns[c]
    IN /\ c \in DOMAIN conns /\ k.xfer /\ k.saving # NoPath /\ Fault
       /\ conns' = [conns EXCEPT ![c] = [k EXCEPT !.saving = NoPath, !.entry = NoEntry]]
       /\ UpdateEntry(k, "Transferring", NoPath)
       /\ UNCHANGED <<senderVars, pendingInbound, downloadDir, netVars, online>>

(* Mutant: the mapping is kept when the batch ends.                        *)
FinishBatchKeepsEntry(c) ==
    LET k == conns[c]
        folder == k.entry # NoEntry /\ recv[k.entry].kind # "File"
    IN /\ c \in DOMAIN conns /\ k.xfer /\ k.eos /\ k.saving = NoPath /\ k.begun = k.written
       /\ conns' = [conns EXCEPT ![c] = [k EXCEPT !.xfer = FALSE]]
       /\ UpdateEntry(k, "Done", IF folder THEN downloadDir ELSE NoPath)
       /\ UNCHANGED <<senderVars, pendingInbound, downloadDir, netVars, online, faults>>

(* The sentinel: transferBatchFinished.                                    *)
FinishBatch(c) ==
    LET k == conns[c]
        folder == k.entry # NoEntry /\ recv[k.entry].kind # "File"
    IN /\ c \in DOMAIN conns /\ k.xfer /\ k.eos /\ k.saving = NoPath /\ k.begun = k.written
       /\ conns' = [conns EXCEPT ![c] = [k EXCEPT !.xfer = FALSE, !.entry = NoEntry]]
       /\ UpdateEntry(k, "Done", IF folder THEN downloadDir ELSE NoPath)
       /\ UNCHANGED <<senderVars, pendingInbound, downloadDir, netVars, online, faults>>

(* transferFailed on R: a failure, or S's end of the connection is gone.   *)
(* That is no fault: S deletes its client as soon as the sentinel is       *)
(* handed to the socket, and what the socket still buffers goes with it    *)
(* (App.cpp:634; TransferStream.Delete).  The mapping goes, the row of R   *)
(* is not updated, and an entry that was never mapped stays pending.       *)
XferFails(c) ==
    LET k == conns[c]
    IN /\ c \in DOMAIN conns /\ k.xfer
       /\ conns' = [conns EXCEPT ![c] = [k EXCEPT !.xfer = FALSE, !.entry = NoEntry,
                                                  !.saving = NoPath, !.cut = TRUE]]
       /\ IF k.client THEN Fault ELSE UNCHANGED faults
       /\ UNCHANGED <<senderVars, receiverVars, netVars, online>>

-----------------------------------------------------------------------------
(* The environment: presence, broken chat connections and restarts.        *)

(* peersChanged with the other peer in it: S flushes its outbox.           *)
PeerAppears(a) ==
    /\ ~online[a]
    /\ online' = [online EXCEPT ![a] = TRUE]
    /\ IF a = "S"
       THEN /\ pendingOffers' = pendingOffers \union ToSet(outbox)
            /\ toRecv' = toRecv \o outbox
            /\ outbox' = <<>>
       ELSE UNCHANGED <<pendingOffers, toRecv, outbox>>
    /\ UNCHANGED <<sent, receiverVars, toSend, conns, faults>>

(* peersChanged without it: the history goes if it is kept for the session *)
(* only, which the user may choose for each peer.                          *)
PeerDropped(a) ==
    /\ online[a] /\ Fault
    /\ online' = [online EXCEPT ![a] = FALSE]
    /\ \E sessionOnly \in BOOLEAN :
          /\ sent' = IF a = "S" /\ sessionOnly THEN ClearPeer(sent) ELSE sent
          /\ recv' = IF a = "R" /\ sessionOnly THEN ClearPeer(recv) ELSE recv
    /\ UNCHANGED <<outbox, pendingOffers, pendingInbound, downloadDir, netVars, conns>>

(* A prefix of q arrives, the rest is lost.                                *)
Truncated(q) == {SubSeq(q, 1, n) : n \in 0..Len(q)}

(* A chat connection breaks.                                               *)
LoseFrames ==
    /\ Fault
    /\ toRecv' \in Truncated(toRecv) /\ toSend' \in Truncated(toSend)
    /\ UNCHANGED <<senderVars, receiverVars, online, conns>>

RestartS ==
    /\ Fault
    /\ pendingOffers' = {}
    /\ online' = [online EXCEPT !["S"] = FALSE]
    /\ toRecv' \in Truncated(toRecv) /\ toSend' = <<>>
    /\ conns' = [c \in DOMAIN conns |-> [conns[c] EXCEPT !.client = FALSE]]
    /\ UNCHANGED <<sent, outbox, receiverVars>>

RestartR ==
    /\ Fault
    /\ pendingInbound' = <<>> /\ downloadDir' = DefaultDir
    /\ online' = [online EXCEPT !["R"] = FALSE]
    /\ toRecv' = <<>> /\ toSend' \in Truncated(toSend)
    /\ conns' = [c \in DOMAIN conns |-> [conns[c] EXCEPT !.xfer = FALSE, !.saving = NoPath,
                                                         !.entry = NoEntry,
                                                         !.cut = @ \/ conns[c].xfer]]
    /\ UNCHANGED <<senderVars, recv>>

-----------------------------------------------------------------------------
Rows == 1..MaxOffers
Tids == 1..(2 * MaxOffers)   \* one connection for an Accept, one for a RequestAgain

Click == \/ \E kind \in Kinds : SendOffer(kind)
         \/ \E r \in Rows : \/ \E dir \in Dirs : AcceptTransfer(r, dir)
                            \/ DenyTransfer(r)
                            \/ RequestAgain(r)
         \/ \E a \in Apps : DeleteHistory(a)

Route == RouteFileRequest \/ RouteFileAccept \/ RouteFileReject \/ RouteRequestAgain

Stream(c) == \/ WriteFile(c) \/ FinishSending(c)
             \/ BeginFile(c) \/ EndFile(c) \/ FinishBatch(c)

Break(c) == ClientFails(c) \/ RejectFile(c) \/ XferFails(c)

Environment == \/ \E a \in Apps : PeerAppears(a) \/ PeerDropped(a)
               \/ LoseFrames \/ RestartS \/ RestartR

Next == \/ Click
        \/ Route
        \/ \E c \in Tids : Stream(c) \/ Break(c)
        \/ Environment

Spec == Init /\ [][Next]_vars

(* The event loops of both Apps keep running: a frame that has arrived is  *)
(* routed and a connection that can go on does.  Users, failures and       *)
(* presence are not fair.                                                  *)
FairSpec == Spec /\ WF_vars(Route) /\ \A c \in Tids : WF_vars(Stream(c))

-----------------------------------------------------------------------------
(* An entry is in m_pendingInbound or is mapped to one connection, never   *)
(* both and never twice: what App owns it frees once, and no two           *)
(* connections report on the same message (App.cpp:96-116, 171-181).       *)
EntryOwnedOnce ==
    /\ \A i, j \in DOMAIN pendingInbound : i # j => pendingInbound[i] # pendingInbound[j]
    /\ \A c, d \in DOMAIN conns :
          c # d /\ conns[c].entry # NoEntry => conns[c].entry # conns[d].entry
    /\ \A c \in DOMAIN conns, i \in DOMAIN pendingInbound : conns[c].entry # pendingInbound[i]

(* An entry stands for a row that R's user has accepted and that has not   *)
(* finished: a progress report or a late sentinel can change no other row  *)
(* (App.cpp:118-169).                                                      *)
EntriesAccepted ==
    LET Accepted(r) == r \in DOMAIN recv /\ recv[r].status = "Transferring"
    IN /\ \A i \in DOMAIN pendingInbound : Accepted(pendingInbound[i])
       /\ \A c \in DOMAIN conns : conns[c].entry # NoEntry => Accepted(conns[c].entry)

(* The ids survive the round trip: every data connection is stamped with   *)
(* R's id of the very offer it carries, whatever offers were lost on the   *)
(* way (App.cpp:388-396 and 585-650).                                      *)
EchoMatches ==
    \A c \in DOMAIN conns : /\ conns[c].declared \in DOMAIN recv
                            /\ recv[conns[c].declared].remote = conns[c].offer

(* While nothing has failed, connections are matched to the Accept they    *)
(* answer in whatever order they arrive, and a row of R is Done only when  *)
(* all files of its own offer have arrived and S's row is Done too         *)
(* (TransferClient.h:13-14).                                               *)
MatchedWithoutFaults ==
    faults = 0 =>
      /\ \A c \in DOMAIN conns : conns[c].entry \in {NoEntry, conns[c].declared}
      /\ \A r \in DOMAIN recv : recv[r].status = "Done" =>
            /\ \E c \in DOMAIN conns : conns[c].declared = r /\ conns[c].ended = FilesOf(conns[c])
            /\ Present(sent, recv[r].remote) => sent[recv[r].remote].status = "Done"

(* R's rows: no late, broken or mismatched connection changes a row its    *)
(* user has not accepted, has denied, has seen done or has asked for again. *)
ReceiverLifecycle ==
    [][\A r \in DOMAIN recv :
          recv'[r].status # recv[r].status =>
             <<recv[r].status, recv'[r].status>> \in
                {<<"WaitingAccept", "Transferring">>, <<"WaitingAccept", "Denied">>,
                 <<"Transferring", "Done">>,
                 <<"Denied", "RequestAgain">>, <<"Done", "RequestAgain">>}]_vars

(* S's rows: an offer is never marked done or denied without its answer,   *)
(* and a denied or finished offer only moves because R asked again.        *)
SenderLifecycle ==
    [][\A s \in DOMAIN sent :
          sent'[s].status # sent[s].status =>
             \/ sent[s].status \in {"WaitingAccept", "Pending"}
                  /\ toSend # <<>> /\ Head(toSend).id = s
             \/ sent[s].status = "Transferring" /\ sent'[s].status = "Done"
             \/ toSend # <<>> /\ Head(toSend) = [type |-> "RequestAgain", id |-> s,
                                                 local |-> Head(toSend).local]]_vars

(* S's row says Done, and the stream that carried R's row r ended before R *)
(* had read all of it: S's client took the rest with it.                   *)
CutShort(r) == \E c \in DOMAIN conns : /\ conns[c].declared = r /\ conns[c].cut
                                       /\ conns[c].eos
                                       /\ recv[r].status = "Transferring"

(* The fate of an accepted offer that is not an empty folder, when nothing *)
(* fails and no history is deleted: its connection comes and finds its     *)
(* entry, and R's row is Done, or stays as it is because S deleted its     *)
(* client with the end of the stream still in the socket.  That an         *)
(* accepted offer completes is NOT so, even without a failure (App.cpp:    *)
(* 368-402, 585-650, 97-115, 151-181).                                     *)
AcceptedEnds ==
    \A r \in Rows :
       (r \in DOMAIN recv /\ recv[r].status = "Transferring" /\ recv[r].kind # "EmptyFolder")
          ~> (faults > 0 \/ (r \in DOMAIN recv /\ (recv[r].status = "Done" \/ CutShort(r))))

-----------------------------------------------------------------------------
(* The phase of each offer as its user and R's user see it: the            *)
(* refinement mapping to Consent.                                          *)
Granted == {"Transferring", "Done", "RequestAgain"}

Answered(s, statuses) == \E r \in DOMAIN recv : recv[r].remote = s /\ recv[r].status \in statuses

Streamed(s) == \E c \in DOMAIN conns : conns[c].offer = s

Phase(s) == IF Streamed(s) THEN "streamed"
            ELSE IF Answered(s, Granted) THEN "granted"
            ELSE IF Answered(s, {"Denied"}) THEN "refused"
            ELSE IF s \in DOMAIN sent THEN "offered" ELSE "none"

Consented == INSTANCE Consent WITH Offers <- Rows, phase <- [s \in Rows |-> Phase(s)]

(* No data connection is opened for an offer before R's user accepted it   *)
(* or asked for it again, and a refusal is only undone by asking again.    *)
DataOnlyByConsent == Consented!Spec

=============================================================================
