--------------------------- MODULE TransferStream ---------------------------
(***************************************************************************)
(* One data connection: a TransferClient streaming the files of one offer, *)
(* and the IncomingTransfer of the TransferServer that receives them.      *)
(*                                                                         *)
(* The client runs in its App's event loop: functors posted with a zero    *)
(* timer, and its own deletion, run in the order they were posted;         *)
(* bytesWritten, the hash watcher and errors come in between.  What it     *)
(* writes waits in Qt's write buffer until the kernel has room for it.     *)
(* The unit of data is the chunk of kChunkSize; a frame takes no room.     *)
(***************************************************************************)
EXTENDS Naturals, Sequences

CONSTANTS Batches,     \* the lists of entries that are offered, with their sizes in chunks
          KernelRoom,  \* chunks the kernel holds between the two sockets
          MaxFaults    \* bound on failures

ASSUME BatchesAssumption == Batches \subseteq Seq([dir : BOOLEAN, size : Nat])
ASSUME BoundsAssumption == KernelRoom \in Nat \ {0} /\ MaxFaults \in Nat

VARIABLES
    batch,                     \* what App asked the client to send
    pending,                   \* d->pending: the files not yet opened
    file, sent, headerSent,    \* d->file (0 for null), d->sent, d->headerSent
    hashing,                   \* a QFutureWatcher is running
    posted,                    \* functors in the event queue
    sock,                      \* d->socket
    txbuf,                     \* Qt's write buffer
    drift,                     \* what became of each file since it was hashed
    sendRow,                   \* S's row, as App's slots set it
    failed,                    \* transferFailed was emitted
    net,                       \* what the kernels hold
    link,                      \* the connection, as the kernels see it; "lost": it is gone
                               \* and nothing tells R
    xfer,                      \* R's IncomingTransfer, and how it ended
    receiving, left, intact,   \* its file (0 for none), what is left of it, the digest
    got,                       \* files reported by transferFileFinished
    entry, recvRow,            \* App's InboundEntry, and R's row
    faults

clientVars == <<batch, pending, file, sent, headerSent, hashing, posted, sock, txbuf, drift,
                sendRow, failed>>
serverVars == <<xfer, receiving, left, intact, got, entry, recvRow>>
vars == <<clientVars, serverVars, net, link, faults>>

Files == 1..Len(batch)
Size(f) == IF batch[f].dir THEN 0 ELSE batch[f].size

Id == [frame |-> "id"]
Header(f) == [frame |-> "header", file |-> f]
Chunk(f, ok) == [frame |-> "chunk", file |-> f, ok |-> ok]
Eos == [frame |-> "eos"]

Chunks(q) == Len(SelectSeq(q, LAMBDA t : t.frame = "chunk"))

Links == {"up", "closed", "broken", "lost"}

Frames == {Id, Eos} \union {Header(f) : f \in Files} \union {Chunk(f, ok) : f \in Files, ok \in BOOLEAN}

TypeOK ==
    /\ batch \in Batches /\ pending \in Seq(Files) /\ file \in {0} \union Files
    /\ sent \in Nat /\ headerSent \in BOOLEAN /\ hashing \in BOOLEAN
    /\ posted \in Seq({"sendCurrentHeader", "sendNextChunk", "delete"})
    /\ sock \in {"new", "connecting", "connected", "closing", "gone", "destroyed"}
    /\ drift \in [Files -> {"none", "shrunk", "grown", "changed"}]
    /\ sendRow \in {"Transferring", "Done"} /\ failed \in BOOLEAN
    /\ txbuf \in Seq(Frames) /\ net \in Seq(Frames) /\ link \in Links
    /\ xfer \in {"open", "garbled", "finished", "aborted"}
    /\ receiving \in {0} \union Files /\ left \in Nat /\ intact \in BOOLEAN
    /\ got \in Seq(Files) /\ entry \in {"pending", "mapped", "gone"}
    /\ recvRow \in {"Transferring", "Done"} /\ faults \in 0..MaxFaults

Init == /\ batch \in Batches /\ pending = <<>> /\ file = 0 /\ sent = 0
        /\ headerSent = FALSE /\ hashing = FALSE /\ posted = <<>> /\ sock = "new"
        /\ txbuf = <<>> /\ drift = [f \in Files |-> "none"] /\ sendRow = "Transferring" /\ failed = FALSE
        /\ net = <<>> /\ link = "up"
        /\ xfer = "open" /\ receiving = 0 /\ left = 0 /\ intact = TRUE /\ got = <<>>
        /\ entry = "pending" /\ recvRow = "Transferring" /\ faults = 0

Fault == faults < MaxFaults /\ faults' = faults + 1

-----------------------------------------------------------------------------
(* TransferClient.                                                         *)

Cleanup == file' = 0 /\ sent' = 0 /\ headerSent' = FALSE /\ pending' = <<>>

(* The two signals, with App's slots: each has the client deleted.         *)
Finished(rest) == /\ sendRow' = "Done" /\ posted' = Append(rest, "delete")
                  /\ Cleanup /\ UNCHANGED failed

Failed(rest) == /\ failed' = TRUE /\ posted' = Append(rest, "delete")
                /\ Cleanup /\ UNCHANGED sendRow

(* Mutant: the entries are counted from zero.                              *)
StartFromZero ==
    /\ sock = "new" /\ posted = <<>> /\ batch # <<>>
    /\ sock' = "connecting" /\ pending' = [i \in Files |-> i - 1]
    /\ UNCHANGED <<batch, file, sent, headerSent, hashing, posted, txbuf, drift, sendRow, failed,
                   serverVars, net, link, faults>>

(* sendFile and sendFolder.  A folder without entries is finished at once. *)
Start ==
    /\ sock = "new" /\ posted = <<>>
    /\ IF batch = <<>>
       THEN Finished(<<>>) /\ UNCHANGED sock
       ELSE /\ sock' = "connecting" /\ pending' = [i \in Files |-> i]
            /\ UNCHANGED <<file, sent, headerSent, posted, sendRow, failed>>
    /\ UNCHANGED <<batch, hashing, txbuf, drift, serverVars, net, link, faults>>

Room == KernelRoom - Chunks(net)

(* The kernel has room for the first n frames of q.                        *)
Fits(q, n) == Chunks(SubSeq(q, 1, n)) <= Room

(* The end-of-stream sentinel, flush(), which writes all the kernel takes, *)
(* and disconnectFromHost().  On a socket that has failed the writes do    *)
(* nothing.                                                                *)
SendEos(rest) ==
    /\ pending = <<>>
    /\ IF sock = "connected" /\ link = "up"
       THEN LET all == Append(txbuf, Eos)
            IN /\ \E n \in 0..Len(all) :
                     /\ Fits(all, n) /\ (n < Len(all) => ~Fits(all, n + 1))
                     /\ net' = net \o SubSeq(all, 1, n)
                     /\ txbuf' = SubSeq(all, n + 1, Len(all))
               /\ sock' = "closing"
       ELSE UNCHANGED <<net, txbuf, sock>>
    /\ Finished(rest)
    /\ UNCHANGED <<hashing, drift, faults>>

(* The next file, after the frames in buf: a directory or an empty file    *)
(* has only a header; a file with contents is opened and hashed first, and *)
(* may fail to open.                                                       *)
SendBare(f, buf, rest) ==
    /\ Size(f) = 0
    /\ txbuf' = Append(buf, Header(f))
    /\ headerSent' = TRUE /\ file' = 0 /\ sent' = 0 /\ pending' = Tail(pending)
    /\ posted' = Append(rest, "sendCurrentHeader")
    /\ UNCHANGED <<hashing, drift, sendRow, failed, faults>>

OpenFile(f, buf, rest) ==
    /\ Size(f) > 0
    /\ file' = f /\ sent' = 0 /\ headerSent' = FALSE /\ hashing' = TRUE
    /\ pending' = Tail(pending) /\ posted' = rest /\ txbuf' = buf
    /\ UNCHANGED <<drift, sendRow, failed, faults>>

OpenFails(f, buf, rest) ==
    /\ ~batch[f].dir /\ Fault /\ Failed(rest) /\ txbuf' = buf
    /\ UNCHANGED <<hashing, drift>>

SendHeader(buf, rest) ==
    /\ pending # <<>>
    /\ \/ SendBare(Head(pending), buf, rest)
       \/ OpenFile(Head(pending), buf, rest)
       \/ OpenFails(Head(pending), buf, rest)
    /\ UNCHANGED net

Connected ==
    /\ sock = "connecting" /\ link = "up" /\ sock' = "connected"
    /\ SendHeader(<<Id>>, posted)
    /\ UNCHANGED <<batch, serverVars, link>>

SendCurrentHeader ==
    /\ posted # <<>> /\ Head(posted) = "sendCurrentHeader"
    /\ SendEos(Tail(posted)) \/ (SendHeader(txbuf, Tail(posted)) /\ UNCHANGED sock)
    /\ UNCHANGED <<batch, serverVars, link>>

(* The watcher's callback: the header, and the first chunk is posted.      *)
HashReady ==
    /\ hashing /\ hashing' = FALSE
    /\ IF sock = "connected"
       THEN /\ txbuf' = Append(txbuf, Header(file)) /\ headerSent' = TRUE
            /\ posted' = Append(posted, "sendNextChunk")
       ELSE UNCHANGED <<txbuf, headerSent, posted>>
    /\ UNCHANGED <<batch, pending, file, sent, sock, drift, sendRow, failed, serverVars, net,
                   link, faults>>

AtShortEnd == drift[file] = "shrunk" /\ sent + 1 = Size(file)

(* The early returns of sendNextChunk: no open file, more than two chunks  *)
(* buffered, or the file has become shorter and is at its end.             *)
MayWrite(buf) == file # 0 /\ Chunks(buf) <= 2 /\ ~AtShortEnd

(* A read is not limited to d->total: if the file has grown, the last one  *)
(* returns more than was announced.                                        *)
NextChunk(buf, rest) ==
    IF MayWrite(buf)
    THEN LET last == sent + 1 = Size(file)
             read == <<Chunk(file, drift[file] # "changed")>>
         IN /\ txbuf' = buf \o read \o (IF last /\ drift[file] = "grown" THEN read ELSE <<>>)
            /\ sent' = sent + 1 /\ file' = IF last THEN 0 ELSE file
            /\ posted' = IF last THEN Append(rest, "sendCurrentHeader") ELSE rest
            /\ sendRow' = "Transferring"
    ELSE txbuf' = buf /\ posted' = rest /\ UNCHANGED <<sent, file, sendRow>>

SendNextChunk ==
    /\ posted # <<>> /\ Head(posted) = "sendNextChunk"
    /\ NextChunk(txbuf, Tail(posted))
    /\ UNCHANGED <<batch, pending, headerSent, hashing, sock, drift, failed, serverVars, net,
                   link, faults>>

(* Mutant: the header of the file need not have been sent.                 *)
OnBytesWrittenEarly(buf) == NextChunk(buf, posted)

(* Mutant: only the posted call sends a chunk.                             *)
OnBytesWrittenSilent(buf) == txbuf' = buf /\ UNCHANGED <<file, sent, posted, sendRow>>

(* The slot of bytesWritten.                                               *)
OnBytesWritten(buf) ==
    IF headerSent /\ file # 0
    THEN NextChunk(buf, posted)
    ELSE txbuf' = buf /\ UNCHANGED <<file, sent, posted, sendRow>>

(* The kernel takes some frames of the buffer, or (n = 0) a part of a      *)
(* chunk, and bytesWritten is emitted once.                                *)
BytesWritten ==
    /\ sock \in {"connected", "closing"} /\ link = "up" /\ txbuf # <<>>
    /\ \E n \in 0..Len(txbuf) :
          /\ Fits(txbuf, n)
          /\ n = 0 => Head(txbuf).frame = "chunk"
          /\ net' = net \o SubSeq(txbuf, 1, n)
          /\ OnBytesWritten(SubSeq(txbuf, n + 1, Len(txbuf)))
    /\ UNCHANGED <<batch, pending, headerSent, hashing, sock, drift, failed, serverVars, link,
                   faults>>

(* errorOccurred: the connection could not be made, or is gone.            *)
SocketError ==
    /\ \/ sock \in {"connecting", "connected"} /\ link # "up"
       \/ sock = "closing" /\ link # "up" /\ txbuf # <<>>
    /\ sock' = "gone" /\ txbuf' = <<>>
    /\ Failed(posted)
    /\ UNCHANGED <<batch, hashing, drift, serverVars, net, link, faults>>

(* The deferred deletion: the socket is aborted with what it still         *)
(* buffers, and what was posted to the client is dropped.                  *)
Delete ==
    /\ posted # <<>> /\ Head(posted) = "delete" /\ posted' = <<>>
    /\ sock' = "destroyed" /\ txbuf' = <<>> /\ hashing' = FALSE
    /\ link' = IF link = "up" /\ sock # "new" THEN "closed" ELSE link
    /\ Cleanup
    /\ UNCHANGED <<batch, drift, sendRow, failed, serverVars, net, faults>>

-----------------------------------------------------------------------------
(* TransferServer, with App's slots.                                       *)

(* Mutant: a file that fails the check does not fail the transfer.         *)
FinishFileAlways(f, ok) == IF ok THEN got' = Append(got, f) /\ UNCHANGED entry
                                 ELSE UNCHANGED <<got, entry>>

(* A file has all its bytes: transferFileFinished, or transferFailed for   *)
(* this file and the stream goes on.                                       *)
FinishFile(f, ok) ==
    IF ok THEN got' = Append(got, f) /\ UNCHANGED entry
          ELSE entry' = "gone" /\ UNCHANGED got

(* abortTransfer: an entry not yet mapped stays in m_pendingInbound.       *)
Abort == /\ xfer' = "aborted" /\ net' = <<>>
         /\ link' = "broken"
         /\ entry' = IF entry = "mapped" THEN "gone" ELSE entry
         /\ UNCHANGED <<receiving, left, intact, got, recvRow>>

ReceiveId == /\ Head(net) = Id /\ net' = Tail(net)
             /\ UNCHANGED <<serverVars, link, faults>>

ReceiveHeader ==
    /\ left = 0 /\ Head(net).frame = "header"
    /\ LET f == Head(net).file
           mapped == IF entry = "pending" THEN "mapped" ELSE entry
       IN \/ /\ Size(f) = 0
             /\ got' = Append(got, f) /\ entry' = mapped /\ net' = Tail(net)
             /\ UNCHANGED <<xfer, receiving, left, intact, recvRow, link, faults>>
          \/ /\ Size(f) > 0
             /\ receiving' = f /\ left' = Size(f) /\ intact' = TRUE /\ entry' = mapped
             /\ net' = Tail(net)
             /\ UNCHANGED <<xfer, got, recvRow, link, faults>>
          \/ ~batch[f].dir /\ Fault /\ Abort   \* no disk space, or no file can be made

ReceiveChunk ==
    /\ left > 0
    /\ LET ok == intact /\ Head(net).frame = "chunk" /\ Head(net).ok
       IN /\ left' = left - 1 /\ intact' = ok
          /\ IF left = 1 THEN FinishFile(receiving, ok) /\ receiving' = 0
                         ELSE UNCHANGED <<got, entry, receiving>>
    /\ net' = Tail(net)
    /\ UNCHANGED <<xfer, recvRow, link, faults>>

(* Payload where a frame should start: the length read from it is refused, *)
(* or R takes all that follows for a frame of that length, which it may    *)
(* come to refuse too.                                                     *)
ReceiveGarbage ==
    /\ left = 0 /\ (xfer = "garbled" \/ Head(net).frame = "chunk")
    /\ \/ Abort
       \/ /\ xfer' = "garbled" /\ net' = Tail(net)
          /\ UNCHANGED <<receiving, left, intact, got, entry, recvRow, link>>
    /\ UNCHANGED faults

ReceiveEos ==
    /\ left = 0 /\ Head(net) = Eos /\ net' = Tail(net)
    /\ xfer' = "finished"
    /\ IF entry = "mapped" THEN recvRow' = "Done" /\ entry' = "gone"
                           ELSE UNCHANGED <<recvRow, entry>>
    /\ link' = IF link = "up" THEN "closed" ELSE link
    /\ UNCHANGED <<receiving, left, intact, got, faults>>

Receive ==
    /\ net # <<>>
    /\ \/ xfer = "open" /\ (ReceiveId \/ ReceiveHeader \/ ReceiveChunk \/ ReceiveEos)
       \/ xfer \in {"open", "garbled"} /\ ReceiveGarbage
    /\ UNCHANGED clientVars

(* Mutant: only a file that is cut short ends the transfer.                *)
PeerClosedMidFile ==
    /\ xfer \in {"open", "garbled"} /\ net = <<>> /\ link \in {"closed", "broken"} /\ left > 0
    /\ Abort
    /\ UNCHANGED <<clientVars, faults>>

(* The end of the connection, once everything that arrived is read.  R     *)
(* never writes, and has neither a keepalive nor a time limit: of a peer   *)
(* that vanishes without a word it hears nothing.                          *)
PeerClosed ==
    /\ xfer \in {"open", "garbled"} /\ net = <<>> /\ link \in {"closed", "broken"}
    /\ Abort
    /\ UNCHANGED <<clientVars, faults>>

-----------------------------------------------------------------------------
(* The environment.                                                        *)

(* The connection cannot be made, or breaks, before S has closed it or     *)
(* while the last segments are under way: both sides learn of it, or S     *)
(* alone, whose segments are not acknowledged.                             *)
Breaks == /\ Fault /\ link \in {"up", "closed"} /\ sock # "new"
          /\ link' \in {"broken", "lost"}
          /\ \E n \in 0..Len(net) : net' = SubSeq(net, 1, n)
          /\ UNCHANGED <<clientVars, serverVars>>

(* Someone writes to the file that is being sent.                          *)
Drifts == /\ Fault /\ file # 0 /\ headerSent /\ drift[file] = "none"
          /\ \E d \in {"shrunk", "grown", "changed"} : drift' = [drift EXCEPT ![file] = d]
          /\ UNCHANGED <<batch, pending, file, sent, headerSent, hashing, posted, sock, txbuf,
                         sendRow, failed, serverVars, net, link>>

Client == \/ Start \/ Connected \/ SendCurrentHeader \/ HashReady \/ SendNextChunk
          \/ BytesWritten \/ SocketError \/ Delete

Server == Receive \/ PeerClosed

Next == Client \/ Server \/ Breaks \/ Drifts

Spec == Init /\ [][Next]_vars

(* Both event loops run, the kernels move data, and the watcher reports.   *)
FairSpec == /\ Spec
            /\ WF_vars(Start) /\ WF_vars(Connected) /\ WF_vars(SendCurrentHeader)
            /\ WF_vars(HashReady) /\ WF_vars(SendNextChunk) /\ WF_vars(BytesWritten)
            /\ WF_vars(SocketError) /\ WF_vars(Delete) /\ WF_vars(Server)

-----------------------------------------------------------------------------
Drifted(d) == \E f \in Files : drift[f] = d

(* Payload never comes where a frame should start, whichever of the posted *)
(* call and bytesWritten sends a chunk and wherever the batch moves on to  *)
(* its next file, unless a file grew while it was read                     *)
(* (TransferClient.cpp:59-62, 216, 255-258).                               *)
NeverGarbled == xfer = "garbled" => Drifted("grown")

(* R's row is Done only when every file of the offer has been received     *)
(* intact and in order, whatever failed and whatever was written to the    *)
(* files meanwhile (TransferServer.cpp:69-89, App.cpp:151-181).            *)
DoneIsComplete == recvRow = "Done" => got = [f \in Files |-> f]

(* The client always comes to an end, with no wake-up lost between the     *)
(* limit on the buffer and bytesWritten, unless a file it reads has become *)
(* shorter: then it waits for ever (TransferClient.cpp:240-260).           *)
ClientEnds == <>(sock = "destroyed" \/ Drifted("shrunk"))

(* R frees its IncomingTransfer when the connection comes to an end        *)
(* (TransferServer.cpp:58-67, 140-147, 251-267), unless S waits for ever   *)
(* with a file that became shorter, or S is lost without a word: then R    *)
(* waits for ever, too.                                                    *)
ServerEnds == <>(xfer \in {"finished", "aborted"} \/ batch = <<>> \/ Drifted("shrunk") \/ link = "lost")

=============================================================================
