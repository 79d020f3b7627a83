------------------------------ MODULE ChatLink ------------------------------
(***************************************************************************)
(* Text messages from one App, A, to a peer, B: the outbox for a peer that *)
(* is offline, A's ChatClient (one PeerConn for each address, a queue      *)
(* while it connects), and B's ChatServer, which knows a connection by the *)
(* Hello that must come first on it.                                       *)
(*                                                                         *)
(* B is a saved peer of A.  ChatServer never writes, so ChatClient reads   *)
(* nothing: the frames of B to A are another instance of this module.      *)
(***************************************************************************)
EXTENDS Naturals, Sequences, SequencesExt

CONSTANTS Addrs,        \* addresses B may have
          MaxMessages,  \* bound on the messages A sends
          MaxFaults     \* bound on failures, restarts, changes of address and of blocking

ASSUME BoundsAssumption == MaxMessages \in Nat /\ MaxFaults \in Nat
ASSUME AddrsAssumption == 0 \notin Addrs /\ Addrs # {}

VARIABLES rows,     \* status of A's rows, in ChatStore
          outbox,   \* rows in A's OutboxStore
          peer,     \* B's address in A's Discovery, or NoAddr
          pc,       \* A's ChatClient: a PeerConn for each address
          conns,    \* the chat connections A has made, as B's ChatServer sees them
          got,      \* what B's App has stored, and from whom
          blocked,  \* B has blocked A
          home,     \* where B is
          faults

vars == <<rows, outbox, peer, pc, conns, got, blocked, home, faults>>

NoAddr == 0
NoConn == 0
Hello == 0          \* the frames are Hello and the rows' ids

(* The sets of connections and stored messages over rows with these ids.   *)
PeerConn(ids) == [sock : {"unconnected", "connecting", "connected"},
                  queue : Seq(ids),
                  conn : Nat]                  \* the connection, while the socket is connected
Conn(ids) == [up : BOOLEAN,                    \* what is written to it reaches B
              net : Seq(ids \union {Hello}),   \* frames on their way
              id : {"address", "A"}]           \* whom B takes its frames to be from
Stored(ids) == [row : ids, from : {"address", "A"}]

Ids == DOMAIN rows

TypeOK == /\ rows \in Seq({"Pending", "Done"}) /\ outbox \in Seq(Ids)
          /\ peer \in Addrs \union {NoAddr} /\ pc \in [Addrs -> PeerConn(Ids)]
          /\ conns \in Seq(Conn(Ids)) /\ got \in Seq(Stored(Ids))
          /\ blocked \in BOOLEAN /\ home \in Addrs /\ faults \in 0..MaxFaults

Unconnected == [sock |-> "unconnected", queue |-> <<>>, conn |-> NoConn]

Init == /\ rows = <<>> /\ outbox = <<>> /\ peer = NoAddr
        /\ pc = [a \in Addrs |-> Unconnected]
        /\ conns = <<>> /\ got = <<>> /\ blocked = FALSE /\ home \in Addrs /\ faults = 0

Fault == faults < MaxFaults /\ faults' = faults + 1

-----------------------------------------------------------------------------
(* A's side.                                                               *)

(* Frames written to connection k, if it still carries anything.           *)
Carrying(k, frames) == [k EXCEPT !.net = IF k.up THEN @ \o frames ELSE @]

(* Mutant: while the socket connects nothing is queued.                    *)
QueueingNothing(p, frames) == [p EXCEPT !.sock = "connecting"]

(* getOrCreate, and the frames wait for the connection.                    *)
Queueing(p, frames) == [p EXCEPT !.sock = "connecting", !.queue = @ \o frames]

(* ChatClient::send, once for each of the frames.                          *)
ClientSend(a, frames) ==
    IF pc[a].sock = "connected"
    THEN /\ conns' = [conns EXCEPT ![pc[a].conn] = Carrying(conns[pc[a].conn], frames)]
         /\ UNCHANGED pc
    ELSE /\ pc' = [pc EXCEPT ![a] = Queueing(pc[a], frames)]
         /\ UNCHANGED conns

(* sendMessage.                                                            *)
SendMessage ==
    LET id == Len(rows) + 1
    IN /\ Len(rows) < MaxMessages
       /\ IF peer = NoAddr
          THEN /\ rows' = Append(rows, "Pending") /\ outbox' = Append(outbox, id)
               /\ UNCHANGED <<pc, conns>>
          ELSE rows' = Append(rows, "Done") /\ ClientSend(peer, <<id>>) /\ UNCHANGED outbox
       /\ UNCHANGED <<peer, got, blocked, home, faults>>

(* Mutant: the entries that are sent stay in the outbox.                   *)
FlushKeeping(a) ==
    /\ IF outbox = <<>> THEN UNCHANGED <<pc, conns>> ELSE ClientSend(a, outbox)
    /\ UNCHANGED outbox

(* Mutant: one entry at a time.                                            *)
FlushOne(a) ==
    IF outbox = <<>> THEN UNCHANGED <<outbox, pc, conns>>
                     ELSE ClientSend(a, <<Head(outbox)>>) /\ outbox' = Tail(outbox)

(* flushOutbox: the entries are deleted, then sent.  No row is updated.    *)
FlushOutbox(a) ==
    /\ IF outbox = <<>> THEN UNCHANGED <<pc, conns>> ELSE ClientSend(a, outbox)
    /\ outbox' = <<>>

(* peersChanged: an announcement of B, whose address is new or has changed. *)
PeersChanged ==
    /\ peer # home /\ peer' = home
    /\ FlushOutbox(home)
    /\ UNCHANGED <<rows, got, blocked, home, faults>>

(* peersChanged without B.                                                 *)
PeerDropped == /\ peer # NoAddr /\ peer' = NoAddr
               /\ UNCHANGED <<rows, outbox, pc, conns, got, blocked, home, faults>>

(* Mutant: the queue goes out before the Hello.                            *)
GreetingLast(queue) == Append(queue, Hello)

(* What is sent on connected: a Hello, and the queue.                      *)
Greeting(queue) == <<Hello>> \o queue

Connected(a) ==
    /\ pc[a].sock = "connecting" /\ home = a
    /\ conns' = Append(conns, [up |-> TRUE, net |-> Greeting(pc[a].queue), id |-> "address"])
    /\ pc' = [pc EXCEPT ![a] = [sock |-> "connected", queue |-> <<>>, conn |-> Len(conns) + 1]]
    /\ UNCHANGED <<rows, outbox, peer, got, blocked, home, faults>>

(* errorOccurred: the queue is cleared.                                    *)
ConnectFails(a) ==
    /\ pc[a].sock = "connecting"
    /\ IF home = a THEN Fault ELSE UNCHANGED faults
    /\ pc' = [pc EXCEPT ![a] = Unconnected]
    /\ UNCHANGED <<rows, outbox, peer, conns, got, blocked, home>>

Disconnected(a) ==
    /\ pc[a].sock = "connected" /\ ~conns[pc[a].conn].up
    /\ pc' = [pc EXCEPT ![a] = Unconnected]
    /\ UNCHANGED <<rows, outbox, peer, conns, got, blocked, home, faults>>

-----------------------------------------------------------------------------
(* B's side.                                                               *)

(* Mutant: the Hello is forwarded to App too.                              *)
StoredByAll(frame, id) == <<[row |-> frame, from |-> id]>>

(* What App stores of a frame: nothing for a Hello, which is not           *)
(* forwarded, nor for a peer that is blocked.                              *)
StoredBy(frame, id) == IF frame = Hello \/ (blocked /\ id = "A") THEN <<>>
                       ELSE <<[row |-> frame, from |-> id]>>

(* Whom the connection's frames are taken to be from: a Hello binds it to  *)
(* A's id.                                                                 *)
Binding(frame, id) == IF frame = Hello THEN "A" ELSE id

(* The channel of connection c hands on a frame.                           *)
Receive(c) ==
    LET k == conns[c]
        frame == Head(k.net)
    IN /\ c \in DOMAIN conns /\ k.net # <<>>
       /\ conns' = [conns EXCEPT ![c] = [k EXCEPT !.net = Tail(@), !.id = Binding(frame, @)]]
       /\ got' = got \o StoredBy(frame, k.id)
       /\ UNCHANGED <<rows, outbox, peer, pc, blocked, home, faults>>

SetBlocked == /\ Fault /\ blocked' = ~blocked
              /\ UNCHANGED <<rows, outbox, peer, pc, conns, got, home>>

-----------------------------------------------------------------------------
(* The environment: broken connections, restarts, another address.         *)

Truncated(q) == {SubSeq(q, 1, n) : n \in 0..Len(q)}

Breaks(c) ==
    /\ c \in DOMAIN conns /\ conns[c].up /\ Fault
    /\ \E q \in Truncated(conns[c].net) :
          conns' = [conns EXCEPT ![c] = [conns[c] EXCEPT !.up = FALSE, !.net = q]]
    /\ UNCHANGED <<rows, outbox, peer, pc, got, blocked, home>>

(* The rows and the outbox are on disk, the queues are not.                *)
RestartA ==
    /\ Fault
    /\ peer' = NoAddr /\ pc' = [a \in Addrs |-> Unconnected]
    /\ conns' = [c \in DOMAIN conns |-> [conns[c] EXCEPT !.up = FALSE]]
    /\ UNCHANGED <<rows, outbox, got, blocked, home>>

(* B restarts, perhaps elsewhere.                                          *)
RestartB ==
    /\ Fault
    /\ home' \in Addrs
    /\ conns' = [c \in DOMAIN conns |-> [conns[c] EXCEPT !.up = FALSE, !.net = <<>>]]
    /\ UNCHANGED <<rows, outbox, peer, pc, got, blocked>>

Conns == 1..(MaxMessages + MaxFaults)

Next == \/ SendMessage \/ PeersChanged \/ PeerDropped
        \/ \E a \in Addrs : Connected(a) \/ ConnectFails(a) \/ Disconnected(a)
        \/ \E c \in Conns : Receive(c) \/ Breaks(c)
        \/ SetBlocked \/ RestartA \/ RestartB

Spec == Init /\ [][Next]_vars

(* Sockets connect or fail, and what arrives is read.  Users, presence and *)
(* failures are not fair.                                                  *)
FairSpec == /\ Spec
            /\ \A a \in Addrs : WF_vars(Connected(a) \/ ConnectFails(a))
            /\ \A c \in Conns : WF_vars(Receive(c))

-----------------------------------------------------------------------------
(* No message is stored twice by B, through flushes, queues, reconnections *)
(* and restarts (App.cpp:831-852, ChatClient.cpp:38-43, 122-134).          *)
AtMostOnce == \A i, j \in DOMAIN got : got[i].row = got[j].row => i = j

(* While nothing has failed B stores messages in the order A sent them,    *)
(* however sending, connecting, dropping out and flushing interleave.      *)
InOrder == faults = 0 => \A i, j \in DOMAIN got : i < j => got[i].row < got[j].row

(* B stores no message under an address in place of A's id: the Hello      *)
(* precedes every frame, on every connection (ChatClient.cpp:67-73,        *)
(* ChatServer.cpp:37-51).                                                  *)
Identified == \A i \in DOMAIN got : got[i].from = "A"

(* Blocking works from the moment it is set, for connections made before   *)
(* it too (App.cpp:533).                                                   *)
BlockedStoresNothing == [][blocked => got' = got]_vars

(* As long as A sees B nothing is left in the outbox: no message is held   *)
(* back behind ones sent later (App.cpp:60-63, 251-281).                   *)
OutboxDrained == peer # NoAddr => outbox = <<>>

(* A message that has left the outbox is stored by B, unless something     *)
(* fails or A is blocked meanwhile (App.cpp:831-852, ChatClient.cpp:85-134). *)
SentArrives ==
    \A i \in 1..MaxMessages :
       (i \in DOMAIN rows /\ ~\E j \in DOMAIN outbox : outbox[j] = i)
          ~> (faults > 0 \/ \E j \in DOMAIN got : got[j].row = i)

=============================================================================
