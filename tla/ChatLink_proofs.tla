--------------------------- MODULE ChatLink_proofs ---------------------------
(***************************************************************************)
(* Proofs about ChatLink: types, the outbox, the identity under which B    *)
(* stores messages, that it stores each once and in order, for any number  *)
(* of messages, addresses and failures.                                    *)
(***************************************************************************)
EXTENDS ChatLink, SequenceTheorems, TLAPS

(* Until B has read the Hello of a connection it is the next frame; a      *)
(* connection that has broken may have lost it.                            *)
Greets(k) == k.id = "address" => \/ k.net # <<>> /\ Head(k.net) = Hello
                                 \/ k.net = <<>> /\ ~k.up

GreetedFirst == \A c \in DOMAIN conns : Greets(conns[c])

(* A socket that is connected has its connection.                          *)
Bound == \A a \in Addrs : pc[a].sock = "connected" => pc[a].conn \in DOMAIN conns

LinkInv == TypeOK /\ Bound
IdInv == LinkInv /\ GreetedFirst /\ Identified

-----------------------------------------------------------------------------
(* What type correctness says of the sequences, in the form the provers    *)
(* need.                                                                   *)
LEMMA Elements ==
  ASSUME TypeOK
  PROVE  /\ DOMAIN conns = 1..Len(conns) /\ Len(conns) \in Nat
         /\ \A c \in DOMAIN conns : conns[c] \in Conn(Ids)
         /\ \A a \in Addrs : pc[a] \in PeerConn(Ids)
         /\ Ids = 1..Len(rows) /\ Len(rows) \in Nat
  BY ElementOfSeq, LenProperties DEF TypeOK, Ids

LEMMA TruncatedFacts ==
  ASSUME NEW T, NEW q \in Seq(T), NEW t \in Truncated(q)
  PROVE  t \in Seq(T) /\ (t # <<>> => q # <<>> /\ Head(t) = Head(q))
<1>1. PICK n \in 0..Len(q) : t = SubSeq(q, 1, n)
  BY DEF Truncated
<1>2. \A j \in 1..n : q[j] \in T
  BY <1>1, ElementOfSeq, LenProperties
<1>3. t \in Seq(T) /\ Len(t) = n /\ \A j \in 1..n : t[j] = q[j]
  BY <1>1, <1>2, LenProperties, SubSeqProperties
<1>4. ASSUME t # <<>> PROVE q # <<>> /\ Head(t) = Head(q)
  <2>1. n > 0
    BY <1>3, <1>4, EmptySeq
  <2>2. Len(q) > 0
    BY <2>1, <1>1, LenProperties
  <2> QED BY <1>3, <2>1, <2>2, EmptySeq
<1> QED BY <1>3, <1>4

LEMMA FunctionIsSeq ==
  ASSUME NEW T, NEW n \in Nat, NEW f \in [1..n -> T]
  PROVE  f \in Seq(T) /\ Len(f) = n
  BY SeqDef, LenProperties

(* A new row is no harm to what refers to the others.                      *)
LEMMA MoreIds ==
  ASSUME TypeOK, NEW status \in {"Pending", "Done"}, rows' = Append(rows, status)
  PROVE  /\ rows' \in Seq({"Pending", "Done"}) /\ Len(rows) + 1 \in Ids'
         /\ outbox \in Seq(Ids') /\ pc \in [Addrs -> PeerConn(Ids')]
         /\ conns \in Seq(Conn(Ids')) /\ got \in Seq(Stored(Ids'))
<1>1. /\ rows' \in Seq({"Pending", "Done"}) /\ Len(rows') = Len(rows) + 1
      /\ Len(rows) \in Nat /\ Ids = 1..Len(rows)
  BY AppendProperties, Elements DEF TypeOK
<1>2. Ids' = 1..(Len(rows) + 1)
  BY <1>1, LenProperties DEF Ids
<1>3. Ids \subseteq Ids' /\ Len(rows) + 1 \in Ids'
  BY <1>1, <1>2
<1>4. \A q \in Seq(Ids) : q \in Seq(Ids')
  BY <1>3, SeqMonotonic
<1>5. \A q \in Seq(Ids \union {Hello}) : q \in Seq(Ids' \union {Hello})
  BY <1>3, SeqMonotonic
<1>6. \A k \in Conn(Ids) : k \in Conn(Ids')
  BY <1>5 DEF Conn
<1>7. \A p \in PeerConn(Ids) : p \in PeerConn(Ids')
  BY <1>4 DEF PeerConn
<1>8. \A m \in Stored(Ids) : m \in Stored(Ids')
  BY <1>3 DEF Stored
<1>9. conns \in Seq(Conn(Ids')) /\ got \in Seq(Stored(Ids'))
  BY <1>6, <1>8, SeqMonotonic DEF TypeOK
<1>10. outbox \in Seq(Ids') /\ pc \in [Addrs -> PeerConn(Ids')]
  BY <1>4, <1>7 DEF TypeOK
<1> QED BY <1>1, <1>3, <1>9, <1>10

LEMMA FaultType ==
  ASSUME TypeOK, Fault
  PROVE  faults' \in 0..MaxFaults
  BY BoundsAssumption DEF TypeOK, Fault

LEMMA InitInv == Init => IdInv /\ OutboxDrained
<1> SUFFICES ASSUME Init PROVE IdInv /\ OutboxDrained
  OBVIOUS
<1>1. \A T : <<>> \in Seq(T)
  BY EmptySeq
<1>2. DOMAIN conns = {} /\ DOMAIN got = {}
  BY EmptySeq, LenProperties DEF Init
<1>3. Unconnected \in PeerConn(Ids) /\ Unconnected.sock = "unconnected"
  BY <1>1 DEF Unconnected, PeerConn, NoConn
<1>4. pc \in [Addrs -> PeerConn(Ids)] /\ Bound
  BY <1>3 DEF Init, Bound
<1>5. TypeOK
  <2>1. /\ rows \in Seq({"Pending", "Done"}) /\ outbox \in Seq(Ids)
        /\ conns \in Seq(Conn(Ids)) /\ got \in Seq(Stored(Ids))
    BY <1>1 DEF Init
  <2>2. peer \in Addrs \union {NoAddr} /\ blocked \in BOOLEAN /\ home \in Addrs
    BY DEF Init
  <2>3. faults \in 0..MaxFaults
    BY BoundsAssumption DEF Init
  <2> QED BY <1>4, <2>1, <2>2, <2>3 DEF TypeOK
<1>6. OutboxDrained
  BY DEF Init, OutboxDrained
<1> QED BY <1>2, <1>4, <1>5, <1>6 DEF IdInv, LinkInv, GreetedFirst, Identified

-----------------------------------------------------------------------------
(* What is written to a connection goes behind what it carries.            *)
LEMMA CarryingFacts ==
  ASSUME NEW ids, NEW k \in Conn(ids), NEW frames \in Seq(ids)
  PROVE  Carrying(k, frames) \in Conn(ids) /\ (Greets(k) => Greets(Carrying(k, frames)))
<1> DEFINE new == Carrying(k, frames)
           T == ids \union {Hello}
<1>1. k.net \in Seq(T) /\ k.up \in BOOLEAN /\ k.id \in {"address", "A"}
  BY DEF Conn
<1>2. frames \in Seq(T)
  BY SeqMonotonic
<1>3. k.net \o frames \in Seq(T)
  BY <1>1, <1>2, ConcatProperties
<1>4. /\ new.net = (IF k.up THEN k.net \o frames ELSE k.net)
      /\ new.up = k.up /\ new.id = k.id /\ new \in Conn(ids)
  BY <1>1, <1>3 DEF Carrying, Conn
<1>5. ASSUME k.net # <<>> PROVE k.net \o frames # <<>> /\ Head(k.net \o frames) = Head(k.net)
  <2> HIDE DEF T
  <2>1. Len(k.net) \in Nat \ {0} /\ Len(frames) \in Nat
    BY <1>1, <1>2, <1>5, EmptySeq, LenProperties
  <2>2. Len(k.net \o frames) > 0 /\ (k.net \o frames)[1] = k.net[1]
    BY <2>1, <1>1, <1>2, ConcatProperties
  <2> QED BY <2>1, <2>2, <1>3, EmptySeq
<1>6. ASSUME Greets(k) PROVE Greets(new)
  <2> HIDE DEF new
  <2> QED BY <1>4, <1>5, <1>6 DEF Greets
<1> QED BY <1>4, <1>6

LEMMA QueueingFacts ==
  ASSUME NEW ids, NEW p \in PeerConn(ids), NEW frames \in Seq(ids)
  PROVE  Queueing(p, frames) \in PeerConn(ids) /\ Queueing(p, frames).sock = "connecting"
<1>1. p.queue \in Seq(ids)
  BY DEF PeerConn
<1>2. p.queue \o frames \in Seq(ids)
  BY <1>1, ConcatProperties
<1> QED BY <1>2 DEF PeerConn, Queueing

(* A connection replaced by a good one.                                    *)
LEMMA ReplaceConn ==
  ASSUME NEW ids, conns \in Seq(Conn(ids)), NEW c \in DOMAIN conns, NEW k \in Conn(ids),
         conns' = [conns EXCEPT ![c] = k]
  PROVE  /\ conns' \in Seq(Conn(ids)) /\ DOMAIN conns' = DOMAIN conns
         /\ (GreetedFirst /\ Greets(k) => GreetedFirst')
<1>1. c \in 1..Len(conns) /\ DOMAIN conns = 1..Len(conns)
  BY LenProperties
<1>2. conns' \in Seq(Conn(ids)) /\ Len(conns') = Len(conns)
  BY <1>1, ExceptSeq
<1>3. DOMAIN conns' = DOMAIN conns
  BY <1>1, <1>2, LenProperties
<1>4. \A d \in DOMAIN conns : conns'[d] \in {conns[d], k}
  BY <1>1
<1>5. ASSUME GreetedFirst, Greets(k) PROVE GreetedFirst'
  <2> SUFFICES ASSUME NEW d \in DOMAIN conns PROVE Greets(conns'[d])
    BY <1>3 DEF GreetedFirst
  <2> QED BY <1>4, <1>5 DEF GreetedFirst
<1> QED BY <1>2, <1>3, <1>5

(* ClientSend, over any set of ids that includes those sent.               *)
LEMMA SendKeeps ==
  ASSUME NEW ids, conns \in Seq(Conn(ids)), pc \in [Addrs -> PeerConn(ids)], Bound,
         NEW a \in Addrs, NEW frames \in Seq(ids), ClientSend(a, frames)
  PROVE  /\ conns' \in Seq(Conn(ids)) /\ pc' \in [Addrs -> PeerConn(ids)] /\ Bound'
         /\ (GreetedFirst => GreetedFirst')
<1>1. CASE pc[a].sock = "connected"
  <2> DEFINE c == pc[a].conn
             k == Carrying(conns[c], frames)
  <2>1. c \in DOMAIN conns
    BY <1>1 DEF Bound
  <2>2. conns[c] \in Conn(ids)
    BY <2>1, ElementOfSeq, LenProperties
  <2>3. k \in Conn(ids) /\ (Greets(conns[c]) => Greets(k))
    BY <2>2, CarryingFacts
  <2>4. conns' = [conns EXCEPT ![c] = k] /\ pc' = pc
    BY <1>1 DEF ClientSend
  <2>5. GreetedFirst => Greets(conns[c])
    BY <2>1 DEF GreetedFirst
  <2>6. conns' \in Seq(Conn(ids)) /\ DOMAIN conns' = DOMAIN conns
        /\ (GreetedFirst => GreetedFirst')
    <3> HIDE DEF c, k
    <3> QED BY <2>1, <2>3, <2>4, <2>5, ReplaceConn
  <2>7. Bound'
    BY <2>4, <2>6 DEF Bound
  <2> QED BY <2>4, <2>6, <2>7
<1>2. CASE pc[a].sock # "connected"
  <2>1. pc' = [pc EXCEPT ![a] = Queueing(pc[a], frames)] /\ conns' = conns
    BY <1>2 DEF ClientSend
  <2>2. Queueing(pc[a], frames) \in PeerConn(ids) /\ Queueing(pc[a], frames).sock = "connecting"
    BY QueueingFacts
  <2>3. /\ pc' \in [Addrs -> PeerConn(ids)]
        /\ \A b \in Addrs : pc'[b].sock = "connected" => pc'[b] = pc[b]
    BY <2>1, <2>2
  <2>4. Bound'
    BY <2>1, <2>3 DEF Bound
  <2>5. GreetedFirst => GreetedFirst'
    BY <2>1 DEF GreetedFirst
  <2> QED BY <2>1, <2>3, <2>4, <2>5
<1> QED BY <1>1, <1>2

-----------------------------------------------------------------------------
(* One lemma for each action: it keeps LinkInv and, with it, the rest.     *)
Keeps == /\ LinkInv' /\ (GreetedFirst => GreetedFirst')
         /\ (OutboxDrained => OutboxDrained')

LEMMA SendMessageKeeps ==
  ASSUME LinkInv, SendMessage
  PROVE  Keeps /\ got' = got
<1> DEFINE id == Len(rows) + 1
<1>1. CASE peer = NoAddr
  <2>1. /\ rows' = Append(rows, "Pending") /\ outbox' = Append(outbox, id)
        /\ UNCHANGED <<pc, conns, peer, got, blocked, home, faults>>
    BY <1>1 DEF SendMessage
  <2>2. /\ rows' \in Seq({"Pending", "Done"}) /\ id \in Ids' /\ outbox \in Seq(Ids')
        /\ conns \in Seq(Conn(Ids')) /\ pc \in [Addrs -> PeerConn(Ids')]
        /\ got \in Seq(Stored(Ids'))
    BY <2>1, MoreIds DEF LinkInv
  <2>3. outbox' \in Seq(Ids')
    BY <2>1, <2>2, AppendProperties
  <2>4. LinkInv'
    BY <2>1, <2>2, <2>3 DEF LinkInv, TypeOK, Bound
  <2> QED BY <1>1, <2>1, <2>4 DEF Keeps, GreetedFirst, OutboxDrained
<1>2. CASE peer # NoAddr
  <2>1. /\ rows' = Append(rows, "Done") /\ ClientSend(peer, <<id>>)
        /\ UNCHANGED <<outbox, peer, got, blocked, home, faults>>
    BY <1>2 DEF SendMessage
  <2>2. /\ rows' \in Seq({"Pending", "Done"}) /\ id \in Ids' /\ outbox \in Seq(Ids')
        /\ conns \in Seq(Conn(Ids')) /\ pc \in [Addrs -> PeerConn(Ids')]
        /\ got \in Seq(Stored(Ids'))
    BY <2>1, MoreIds DEF LinkInv
  <2>3. <<id>> \in Seq(Ids') /\ peer \in Addrs
    BY <1>2, <2>2 DEF LinkInv, TypeOK
  <2>4. /\ conns' \in Seq(Conn(Ids')) /\ pc' \in [Addrs -> PeerConn(Ids')] /\ Bound'
        /\ (GreetedFirst => GreetedFirst')
    BY <2>1, <2>2, <2>3, SendKeeps DEF LinkInv
  <2>5. LinkInv'
    BY <2>1, <2>2, <2>4 DEF LinkInv, TypeOK
  <2> QED BY <2>1, <2>4, <2>5 DEF Keeps, OutboxDrained
<1> QED BY <1>1, <1>2

LEMMA PeersChangedKeeps ==
  ASSUME LinkInv, PeersChanged
  PROVE  Keeps /\ got' = got
<1>1. /\ peer' = home /\ outbox' = <<>>
      /\ UNCHANGED <<rows, got, blocked, home, faults>>
  BY DEF PeersChanged, FlushOutbox
<1>2. /\ conns \in Seq(Conn(Ids)) /\ pc \in [Addrs -> PeerConn(Ids)] /\ Bound
      /\ outbox \in Seq(Ids) /\ home \in Addrs
  BY DEF LinkInv, TypeOK
<1>3. /\ conns' \in Seq(Conn(Ids)) /\ pc' \in [Addrs -> PeerConn(Ids)] /\ Bound'
      /\ (GreetedFirst => GreetedFirst')
  <2>1. CASE outbox = <<>>
    <3>1. UNCHANGED <<pc, conns>>
      BY <2>1 DEF PeersChanged, FlushOutbox
    <3> QED BY <3>1, <1>2 DEF Bound, GreetedFirst
  <2>2. CASE outbox # <<>>
    <3>1. ClientSend(home, outbox)
      BY <2>2 DEF PeersChanged, FlushOutbox
    <3> QED BY <3>1, <1>2, SendKeeps
  <2> QED BY <2>1, <2>2
<1>4. outbox' \in Seq(Ids)
  BY <1>1, EmptySeq
<1>5. LinkInv'
  BY <1>1, <1>2, <1>3, <1>4 DEF LinkInv, TypeOK, Ids
<1> QED BY <1>1, <1>3, <1>5 DEF Keeps, OutboxDrained

LEMMA ConnectedKeeps ==
  ASSUME LinkInv, NEW a \in Addrs, Connected(a)
  PROVE  Keeps /\ got' = got
<1> DEFINE k == [up |-> TRUE, net |-> Greeting(pc[a].queue), id |-> "address"]
           p == [sock |-> "connected", queue |-> <<>>, conn |-> Len(conns) + 1]
           T == Ids \union {Hello}
<1>1. /\ conns' = Append(conns, k) /\ pc' = [pc EXCEPT ![a] = p]
      /\ UNCHANGED <<rows, outbox, peer, got, blocked, home, faults>>
  BY DEF Connected
<1>2. /\ conns \in Seq(Conn(Ids)) /\ pc \in [Addrs -> PeerConn(Ids)] /\ Bound
      /\ Len(conns) \in Nat /\ DOMAIN conns = 1..Len(conns)
  BY Elements DEF LinkInv, TypeOK
<1>3. Greeting(pc[a].queue) \in Seq(T) /\ Greeting(pc[a].queue) # <<>>
      /\ Head(Greeting(pc[a].queue)) = Hello
  <2>1. pc[a].queue \in Seq(T)
    <3>1. pc[a].queue \in Seq(Ids)
      BY <1>2 DEF PeerConn
    <3> QED BY <3>1, SeqMonotonic
  <2>2. <<Hello>> \in Seq(T) /\ Len(<<Hello>>) = 1 /\ <<Hello>>[1] = Hello
    OBVIOUS
  <2> DEFINE g == <<Hello>> \o pc[a].queue
  <2> HIDE DEF T
  <2>3. g \in Seq(T) /\ Len(g) > 0 /\ g[1] = Hello
    BY <2>1, <2>2, ConcatProperties, LenProperties
  <2>4. g # <<>> /\ Head(g) = Hello
    <3> HIDE DEF g
    <3> QED BY <2>3, EmptySeq
  <2> QED BY <2>3, <2>4 DEF Greeting
<1>4. k \in Conn(Ids) /\ Greets(k)
  BY <1>3 DEF Conn, Greets
<1>5. p \in PeerConn(Ids)
  BY <1>2, EmptySeq DEF PeerConn
<1> HIDE DEF k
<1>6. /\ conns' \in Seq(Conn(Ids)) /\ DOMAIN conns' = 1..(Len(conns) + 1)
      /\ \A c \in DOMAIN conns : conns'[c] = conns[c]
      /\ conns'[Len(conns) + 1] = k
  BY <1>1, <1>2, <1>4, AppendProperties, LenProperties
<1>7. pc' \in [Addrs -> PeerConn(Ids)]
  BY <1>1, <1>2, <1>5
<1>8. Bound'
  <2> SUFFICES ASSUME NEW b \in Addrs, pc'[b].sock = "connected"
               PROVE  pc'[b].conn \in 1..(Len(conns) + 1)
    BY <1>6 DEF Bound
  <2>1. CASE b = a
    BY <1>1, <1>2, <2>1
  <2>2. CASE b # a
    <3>1. pc'[b] = pc[b]
      BY <1>1, <1>2, <2>2
    <3> QED BY <3>1, <1>2 DEF Bound
  <2> QED BY <2>1, <2>2
<1>9. GreetedFirst => GreetedFirst'
  <2> SUFFICES ASSUME GreetedFirst, NEW c \in 1..(Len(conns) + 1)
               PROVE  Greets(conns'[c])
    BY <1>6 DEF GreetedFirst
  <2>1. c \in DOMAIN conns \/ c = Len(conns) + 1
    BY <1>2
  <2> QED BY <2>1, <1>4, <1>6 DEF GreetedFirst
<1>10. LinkInv'
  BY <1>1, <1>6, <1>7, <1>8 DEF LinkInv, TypeOK, Ids
<1> QED BY <1>1, <1>9, <1>10 DEF Keeps, OutboxDrained

(* A socket that is no longer connected, with an empty queue.              *)
LEMMA UnconnectedKeeps ==
  ASSUME LinkInv, NEW a \in Addrs, pc' = [pc EXCEPT ![a] = Unconnected],
         faults' \in 0..MaxFaults, UNCHANGED <<rows, outbox, peer, conns, got, blocked, home>>
  PROVE  Keeps /\ got' = got
<1>1. Unconnected \in PeerConn(Ids) /\ Unconnected.sock = "unconnected"
  BY EmptySeq DEF Unconnected, PeerConn, NoConn
<1>2. /\ pc' \in [Addrs -> PeerConn(Ids)]
      /\ \A b \in Addrs : pc'[b].sock = "connected" => pc'[b] = pc[b]
  BY <1>1 DEF LinkInv, TypeOK
<1>3. LinkInv'
  BY <1>2 DEF LinkInv, TypeOK, Bound, Ids
<1> QED BY <1>3 DEF Keeps, GreetedFirst, OutboxDrained

LEMMA PeerDroppedKeeps ==
  ASSUME LinkInv, PeerDropped
  PROVE  Keeps /\ got' = got
<1>1. /\ peer' = NoAddr
      /\ UNCHANGED <<rows, outbox, pc, conns, got, blocked, home, faults>>
  BY DEF PeerDropped
<1>2. LinkInv'
  BY <1>1 DEF LinkInv, TypeOK, Bound, Ids
<1> QED BY <1>1, <1>2 DEF Keeps, GreetedFirst, OutboxDrained

LEMMA SetBlockedKeeps ==
  ASSUME LinkInv, SetBlocked
  PROVE  Keeps /\ got' = got
<1>1. faults' \in 0..MaxFaults
  BY FaultType DEF SetBlocked, LinkInv
<1>2. /\ blocked' = ~blocked
      /\ UNCHANGED <<rows, outbox, peer, pc, conns, got, home>>
  BY DEF SetBlocked
<1>3. LinkInv'
  BY <1>1, <1>2 DEF LinkInv, TypeOK, Bound, Ids
<1> QED BY <1>2, <1>3 DEF Keeps, GreetedFirst, OutboxDrained

LEMMA BreaksKeeps ==
  ASSUME LinkInv, NEW c \in Conns, Breaks(c)
  PROVE  Keeps /\ got' = got
<1>1. c \in DOMAIN conns /\ faults' \in 0..MaxFaults
  BY FaultType DEF Breaks, LinkInv
<1>2. PICK q \in Truncated(conns[c].net) :
         conns' = [conns EXCEPT ![c] = [conns[c] EXCEPT !.up = FALSE, !.net = q]]
  BY DEF Breaks
<1>3. UNCHANGED <<rows, outbox, peer, pc, got, blocked, home>>
  BY DEF Breaks
<1> DEFINE k == [conns[c] EXCEPT !.up = FALSE, !.net = q]
<1>4. conns[c] \in Conn(Ids) /\ conns \in Seq(Conn(Ids))
  BY <1>1, Elements DEF LinkInv, TypeOK
<1>5. conns[c].net \in Seq(Ids \union {Hello})
  BY <1>4 DEF Conn
<1>6. q \in Seq(Ids \union {Hello}) /\ (q # <<>> => /\ conns[c].net # <<>>
                                                  /\ Head(q) = Head(conns[c].net))
  BY <1>5, TruncatedFacts
<1>7. k \in Conn(Ids) /\ k.up = FALSE /\ k.net = q /\ k.id = conns[c].id
  BY <1>4, <1>6 DEF Conn
<1>8. GreetedFirst => Greets(k)
  <2>1. ASSUME GreetedFirst PROVE Greets(conns[c])
    BY <1>1, <2>1 DEF GreetedFirst
  <2> HIDE DEF k
  <2> QED BY <2>1, <1>6, <1>7 DEF Greets
<1> HIDE DEF k
<1>9. /\ conns' \in Seq(Conn(Ids)) /\ DOMAIN conns' = DOMAIN conns
      /\ (GreetedFirst => GreetedFirst')
  <2>1. conns' = [conns EXCEPT ![c] = k]
    BY <1>2 DEF k
  <2> QED BY <2>1, <1>1, <1>4, <1>7, <1>8, ReplaceConn
<1>10. LinkInv'
  BY <1>1, <1>3, <1>9 DEF LinkInv, TypeOK, Bound, Ids
<1> QED BY <1>3, <1>9, <1>10 DEF Keeps, OutboxDrained

(* Connections that are no longer up, with their frames or without.        *)
LEMMA AllDown ==
  ASSUME TypeOK,
         \/ conns' = [c \in DOMAIN conns |-> [conns[c] EXCEPT !.up = FALSE]]
         \/ conns' = [c \in DOMAIN conns |-> [conns[c] EXCEPT !.up = FALSE, !.net = <<>>]]
  PROVE  /\ conns' \in Seq(Conn(Ids)) /\ DOMAIN conns' = DOMAIN conns
         /\ (GreetedFirst => GreetedFirst')
<1>1. /\ DOMAIN conns = 1..Len(conns) /\ Len(conns) \in Nat
      /\ \A c \in DOMAIN conns : conns[c] \in Conn(Ids)
  BY Elements
<1>2. DOMAIN conns' = DOMAIN conns
  OBVIOUS
<1>3. \A c \in DOMAIN conns : /\ conns'[c] \in Conn(Ids) /\ conns'[c].up = FALSE
                              /\ conns'[c].net \in {conns[c].net, <<>>}
                              /\ conns'[c].id = conns[c].id
  <2> SUFFICES ASSUME NEW c \in DOMAIN conns
               PROVE  /\ conns'[c] \in Conn(Ids) /\ conns'[c].up = FALSE
                      /\ conns'[c].net \in {conns[c].net, <<>>}
                      /\ conns'[c].id = conns[c].id
    OBVIOUS
  <2>1. conns[c] \in Conn(Ids) /\ <<>> \in Seq(Ids \union {Hello})
    BY <1>1, EmptySeq
  <2>2. \/ conns'[c] = [conns[c] EXCEPT !.up = FALSE]
        \/ conns'[c] = [conns[c] EXCEPT !.up = FALSE, !.net = <<>>]
    OBVIOUS
  <2>3. ASSUME NEW k \in Conn(Ids)
        PROVE  /\ [k EXCEPT !.up = FALSE] \in Conn(Ids)
               /\ [k EXCEPT !.up = FALSE, !.net = <<>>] \in Conn(Ids)
               /\ [k EXCEPT !.up = FALSE].up = FALSE
               /\ [k EXCEPT !.up = FALSE].net = k.net
               /\ [k EXCEPT !.up = FALSE].id = k.id
               /\ [k EXCEPT !.up = FALSE, !.net = <<>>].up = FALSE
               /\ [k EXCEPT !.up = FALSE, !.net = <<>>].net = <<>>
               /\ [k EXCEPT !.up = FALSE, !.net = <<>>].id = k.id
    BY <2>1 DEF Conn
  <2> QED BY <2>1, <2>2, <2>3
<1>4. conns' \in [1..Len(conns) -> Conn(Ids)]
  BY <1>1, <1>3
<1>5. conns' \in Seq(Conn(Ids))
  BY <1>1, <1>4, FunctionIsSeq
<1>6. ASSUME GreetedFirst PROVE GreetedFirst'
  BY <1>2, <1>3, <1>6 DEF GreetedFirst, Greets
<1> QED BY <1>2, <1>5, <1>6

LEMMA RestartsKeep ==
  ASSUME LinkInv, RestartA \/ RestartB
  PROVE  Keeps /\ got' = got
<1>1. faults' \in 0..MaxFaults
  BY FaultType DEF RestartA, RestartB, LinkInv
<1>2. /\ conns' \in Seq(Conn(Ids)) /\ DOMAIN conns' = DOMAIN conns
      /\ (GreetedFirst => GreetedFirst')
  BY AllDown DEF RestartA, RestartB, LinkInv
<1>3. Unconnected \in PeerConn(Ids) /\ Unconnected.sock = "unconnected"
  BY EmptySeq DEF Unconnected, PeerConn, NoConn
<1>4. CASE RestartA
  <2>1. /\ peer' = NoAddr /\ pc' = [a \in Addrs |-> Unconnected]
        /\ UNCHANGED <<rows, outbox, got, blocked, home>>
    BY <1>4 DEF RestartA
  <2>2. pc' \in [Addrs -> PeerConn(Ids)] /\ Bound'
    BY <2>1, <1>3 DEF Bound
  <2>3. LinkInv'
    BY <2>1, <2>2, <1>1, <1>2 DEF LinkInv, TypeOK, Ids
  <2> QED BY <2>1, <2>3, <1>2 DEF Keeps, OutboxDrained
<1>5. CASE RestartB
  <2>1. home' \in Addrs /\ UNCHANGED <<rows, outbox, peer, pc, got, blocked>>
    BY <1>5 DEF RestartB
  <2>2. LinkInv'
    BY <2>1, <1>1, <1>2 DEF LinkInv, TypeOK, Bound, Ids
  <2> QED BY <2>1, <2>2, <1>2 DEF Keeps, OutboxDrained
<1> QED BY <1>4, <1>5

(* A frame read by B: what is stored comes from a connection that has said *)
(* who it is, and is not blocked.                                          *)
LEMMA ReceiveKeeps ==
  ASSUME LinkInv, NEW c \in Conns, Receive(c)
  PROVE  /\ Keeps
         /\ GreetedFirst => /\ Identified => Identified'
                            /\ blocked => got' = got
<1> DEFINE k == conns[c]
           frame == Head(k.net)
           new == [k EXCEPT !.net = Tail(@), !.id = Binding(frame, @)]
           kept == StoredBy(frame, k.id)
           T == Ids \union {Hello}
<1>1. /\ c \in DOMAIN conns /\ k.net # <<>>
      /\ conns' = [conns EXCEPT ![c] = new] /\ got' = got \o kept
      /\ UNCHANGED <<rows, outbox, peer, pc, blocked, home, faults>>
  BY DEF Receive
<1>2. k \in Conn(Ids) /\ conns \in Seq(Conn(Ids)) /\ got \in Seq(Stored(Ids))
  BY <1>1, Elements DEF LinkInv, TypeOK
<1>3. k.net \in Seq(T) /\ k.up \in BOOLEAN /\ k.id \in {"address", "A"}
  BY <1>2 DEF Conn
<1>4. frame \in T /\ Tail(k.net) \in Seq(T)
  <2> HIDE DEF T
  <2> QED BY <1>1, <1>3, HeadTailProperties
<1>5. /\ new \in Conn(Ids) /\ new.net = Tail(k.net)
      /\ new.id = IF frame = Hello THEN "A" ELSE k.id
  BY <1>2, <1>4 DEF Conn, Binding
<1>6. GreetedFirst => (frame = Hello \/ k.id = "A") /\ Greets(new)
  <2>1. ASSUME GreetedFirst PROVE Greets(k)
    BY <1>1, <2>1 DEF GreetedFirst
  <2>2. ASSUME GreetedFirst PROVE frame = Hello \/ k.id = "A"
    BY <2>1, <2>2, <1>1, <1>3 DEF Greets
  <2> HIDE DEF new, k
  <2> QED BY <2>2, <1>5 DEF Greets
<1>7. kept \in Seq(Stored(Ids))
  <2>1. CASE frame = Hello \/ (blocked /\ k.id = "A")
    BY <2>1, EmptySeq DEF StoredBy
  <2>2. CASE ~(frame = Hello \/ (blocked /\ k.id = "A"))
    <3>1. [row |-> frame, from |-> k.id] \in Stored(Ids)
      BY <2>2, <1>3, <1>4 DEF Stored
    <3>2. kept = <<[row |-> frame, from |-> k.id]>>
      BY <2>2 DEF StoredBy
    <3> HIDE DEF kept, frame, k
    <3> QED BY <3>1, <3>2
  <2> QED BY <2>1, <2>2
<1>8. /\ conns' \in Seq(Conn(Ids)) /\ DOMAIN conns' = DOMAIN conns
      /\ (GreetedFirst => GreetedFirst')
  <2> HIDE DEF new, k, frame
  <2> QED BY <1>1, <1>2, <1>5, <1>6, ReplaceConn
<1>9. got' \in Seq(Stored(Ids))
  <2> HIDE DEF kept
  <2> QED BY <1>1, <1>2, <1>7, ConcatProperties
<1>10. LinkInv'
  <2> HIDE DEF new, kept
  <2> QED BY <1>1, <1>8, <1>9 DEF LinkInv, TypeOK, Bound, Ids
<1>11. ASSUME GreetedFirst, blocked PROVE got' = got
  <2>1. kept = <<>>
    BY <1>6, <1>11 DEF StoredBy
  <2> QED BY <2>1, <1>1, <1>2, ConcatEmptySeq
<1>12. ASSUME GreetedFirst, Identified PROVE Identified'
  <2>1. \A i \in 1..Len(kept) : kept[i].from = "A"
    <3>1. CASE frame = Hello \/ (blocked /\ k.id = "A")
      BY <3>1, EmptySeq DEF StoredBy
    <3>2. CASE ~(frame = Hello \/ (blocked /\ k.id = "A"))
      <4>1. kept = <<[row |-> frame, from |-> "A"]>>
        BY <3>2, <1>6, <1>12 DEF StoredBy
      <4> HIDE DEF kept, frame, k
      <4> QED BY <4>1
    <3> QED BY <3>1, <3>2
  <2> HIDE DEF kept
  <2>2. \A i \in 1..Len(got) : got[i].from = "A"
    BY <1>2, <1>12, LenProperties DEF Identified
  <2>3. /\ Len(got) \in Nat /\ Len(kept) \in Nat
        /\ DOMAIN got' = 1..(Len(got) + Len(kept))
        /\ \A i \in 1..(Len(got) + Len(kept)) :
              got'[i] = IF i <= Len(got) THEN got[i] ELSE kept[i - Len(got)]
    BY <1>1, <1>2, <1>7, <1>9, ConcatProperties, LenProperties
  <2> SUFFICES ASSUME NEW i \in 1..(Len(got) + Len(kept)) PROVE got'[i].from = "A"
    BY <2>3 DEF Identified
  <2>4. CASE i <= Len(got)
    BY <2>2, <2>3, <2>4
  <2>5. CASE i > Len(got)
    <3>1. i - Len(got) \in 1..Len(kept)
      BY <2>3, <2>5
    <3> QED BY <2>1, <2>3, <2>5, <3>1
  <2> QED BY <2>3, <2>4, <2>5
<1> QED BY <1>1, <1>8, <1>10, <1>11, <1>12 DEF Keeps, OutboxDrained

-----------------------------------------------------------------------------
(* Every step keeps the invariants.                                        *)
LEMMA StepKeeps ==
  ASSUME LinkInv, [Next]_vars
  PROVE  /\ Keeps
         /\ GreetedFirst => /\ Identified => Identified'
                            /\ blocked => got' = got
<1> DEFINE Others == Keeps /\ got' = got
<1>0. Others => /\ Keeps
                /\ GreetedFirst => /\ Identified => Identified'
                                   /\ blocked => got' = got
  BY DEF Identified
<1>1. CASE SendMessage
  BY <1>0, <1>1, SendMessageKeeps
<1>2. CASE PeersChanged
  BY <1>0, <1>2, PeersChangedKeeps
<1>3. CASE PeerDropped
  BY <1>0, <1>3, PeerDroppedKeeps
<1>4. ASSUME NEW a \in Addrs, Connected(a) PROVE Others
  BY <1>4, ConnectedKeeps
<1>5. ASSUME NEW a \in Addrs, ConnectFails(a) PROVE Others
  <2>1. faults' \in 0..MaxFaults
    BY <1>5, FaultType DEF ConnectFails, LinkInv, TypeOK
  <2> QED BY <2>1, <1>5, UnconnectedKeeps DEF ConnectFails
<1>6. ASSUME NEW a \in Addrs, Disconnected(a) PROVE Others
  <2>1. faults' \in 0..MaxFaults
    BY <1>6 DEF Disconnected, LinkInv, TypeOK
  <2> QED BY <2>1, <1>6, UnconnectedKeeps DEF Disconnected
<1>7. ASSUME NEW c \in Conns, Receive(c)
      PROVE  /\ Keeps
             /\ GreetedFirst => /\ Identified => Identified'
                                /\ blocked => got' = got
  BY <1>7, ReceiveKeeps
<1>8. ASSUME NEW c \in Conns, Breaks(c) PROVE Others
  BY <1>8, BreaksKeeps
<1>9. CASE SetBlocked
  BY <1>0, <1>9, SetBlockedKeeps
<1>10. CASE RestartA \/ RestartB
  BY <1>0, <1>10, RestartsKeep
<1>11. CASE UNCHANGED vars
  BY <1>0, <1>11 DEF vars, Keeps, LinkInv, TypeOK, Bound, Ids, GreetedFirst, OutboxDrained
<1> HIDE DEF Others
<1> QED BY <1>0, <1>1, <1>2, <1>3, <1>4, <1>5, <1>6, <1>7, <1>8, <1>9, <1>10, <1>11 DEF Next

(* The types are right, and a connected socket has its connection          *)
(* (ChatClient.cpp:45-106).                                                *)
THEOREM LinkTyped == Spec => []TypeOK
<1>1. Init => LinkInv
  BY InitInv DEF IdInv
<1>2. LinkInv /\ [Next]_vars => LinkInv'
  BY StepKeeps DEF Keeps
<1>3. LinkInv => TypeOK
  BY DEF LinkInv
<1> QED BY <1>1, <1>2, <1>3, PTL DEF Spec

(* While A sees B, nothing waits in the outbox: messages sent later do not *)
(* overtake those queued earlier (App.cpp:60-63, 251-281).                 *)
THEOREM DrainedWhileSeen == Spec => []OutboxDrained
<1>1. Init => LinkInv /\ OutboxDrained
  BY InitInv DEF IdInv
<1>2. LinkInv /\ OutboxDrained /\ [Next]_vars => (LinkInv /\ OutboxDrained)'
  BY StepKeeps DEF Keeps
<1> QED BY <1>1, <1>2, PTL DEF Spec

(* B stores every message under A's id, never under an address: no frame   *)
(* overtakes the Hello of its connection (ChatServer.cpp:37-51).           *)
THEOREM SenderIdentified == Spec => []Identified
<1>1. Init => IdInv
  BY InitInv
<1>2. IdInv /\ [Next]_vars => IdInv'
  BY StepKeeps DEF Keeps, IdInv
<1>3. IdInv => Identified
  BY DEF IdInv
<1> QED BY <1>1, <1>2, <1>3, PTL DEF Spec

(* Nothing of a blocked peer is stored, not even what comes over           *)
(* connections made before it was blocked (App.cpp:533).                   *)
THEOREM BlockedIgnored == Spec => BlockedStoresNothing
<1>1. Init => IdInv
  BY InitInv
<1>2. IdInv /\ [Next]_vars => IdInv'
  BY StepKeeps DEF Keeps, IdInv
<1>3. IdInv /\ [Next]_vars => [blocked => got' = got]_vars
  BY StepKeeps DEF IdInv
<1> QED BY <1>1, <1>2, <1>3, PTL DEF Spec, BlockedStoresNothing

-----------------------------------------------------------------------------
(* Where a row may be: in A's outbox, queued for an address, on a          *)
(* connection, stored by B.                                                *)
Places == {<<"outbox", 0>>, <<"got", 0>>} \union ({"queue"} \X Addrs) \union ({"net"} \X Nat)

StoredRows == [i \in DOMAIN got |-> got[i].row]

At(x) == CASE x[1] = "outbox" -> outbox
           [] x[1] = "got"    -> StoredRows
           [] x[1] = "queue"  -> pc[x[2]].queue
           [] x[1] = "net"    -> IF x[2] \in DOMAIN conns THEN conns[x[2]].net ELSE <<>>

(* The rows in a sequence of frames, and that each is there once.          *)
In(q) == {q[i] : i \in DOMAIN q} \ {Hello}
Once(q) == \A i, j \in DOMAIN q : q[i] = q[j] /\ q[i] # Hello => i = j

(* No row is in two places, or twice in one.                               *)
OneCopy == /\ \A x \in Places : Once(At(x))
           /\ \A x, y \in Places : x # y => In(At(x)) \intersect In(At(y)) = {}

-----------------------------------------------------------------------------
(* What a sequence contains, and its parts and concatenations.             *)
LEMMA InFacts ==
  ASSUME NEW T, NEW p \in Seq(T), NEW q \in Seq(T)
  PROVE  /\ p \o q \in Seq(T) /\ In(p \o q) = In(p) \union In(q)
         /\ Once(p) /\ Once(q) /\ In(p) \intersect In(q) = {} => Once(p \o q)
<1>1. /\ Len(p) \in Nat /\ Len(q) \in Nat /\ DOMAIN p = 1..Len(p) /\ DOMAIN q = 1..Len(q)
      /\ p \o q \in Seq(T) /\ DOMAIN (p \o q) = 1..(Len(p) + Len(q))
      /\ \A i \in 1..(Len(p) + Len(q)) : (p \o q)[i] = IF i <= Len(p) THEN p[i] ELSE q[i - Len(p)]
  BY LenProperties, ConcatProperties
<1> DEFINE r == p \o q
<1> HIDE DEF r
<1>2. /\ \A i \in DOMAIN p : i \in DOMAIN r /\ r[i] = p[i]
      /\ \A i \in DOMAIN q : i + Len(p) \in DOMAIN r /\ r[i + Len(p)] = q[i]
      /\ \A i \in DOMAIN r : \/ i \in DOMAIN p
                             \/ i - Len(p) \in DOMAIN q /\ r[i] = q[i - Len(p)]
  BY <1>1 DEF r
<1>3. In(r) = In(p) \union In(q)
  <2>1. \A z \in In(p) : z \in In(r)
    BY <1>2 DEF In
  <2>2. \A z \in In(q) : z \in In(r)
    BY <1>2 DEF In
  <2>3. \A z \in In(r) : z \in In(p) \union In(q)
    BY <1>2 DEF In
  <2> QED BY <2>1, <2>2, <2>3
<1>4. ASSUME Once(p), Once(q), In(p) \intersect In(q) = {},
             NEW i \in DOMAIN r, NEW j \in DOMAIN r, r[i] = r[j], r[i] # Hello
      PROVE  i = j
  <2>1. CASE i \in DOMAIN p /\ j \in DOMAIN p
    BY <2>1, <1>2, <1>4 DEF Once
  <2>2. CASE i \in DOMAIN p /\ j \notin DOMAIN p
    <3>1. r[i] \in In(p) /\ r[j] \in In(q)
      BY <2>2, <1>2, <1>4 DEF In
    <3> QED BY <3>1, <1>4
  <2>3. CASE i \notin DOMAIN p /\ j \in DOMAIN p
    <3>1. r[j] \in In(p) /\ r[i] \in In(q)
      BY <2>3, <1>2, <1>4 DEF In
    <3> QED BY <3>1, <1>4
  <2>4. CASE i \notin DOMAIN p /\ j \notin DOMAIN p
    <3>1. i - Len(p) = j - Len(p)
      BY <2>4, <1>2, <1>4 DEF Once
    <3> QED BY <3>1, <1>1, <1>2 DEF r
  <2> QED BY <2>1, <2>2, <2>3, <2>4
<1> QED BY <1>1, <1>3, <1>4 DEF r, Once

LEMMA SmallFacts ==
  /\ In(<<>>) = {} /\ Once(<<>>)
  /\ \A z : /\ In(<<z>>) = {z} \ {Hello} /\ Once(<<z>>)
            /\ DOMAIN <<z>> = {1}
<1>1. DOMAIN <<>> = {}
  BY EmptySeq, LenProperties
<1>2. \A z : DOMAIN <<z>> = {1} /\ <<z>>[1] = z
  OBVIOUS
<1> QED BY <1>1, <1>2 DEF In, Once

(* A sequence with a row at its end, or a Hello at its head.               *)
LEMMA OneMore ==
  ASSUME NEW T, NEW q \in Seq(T), NEW z \in T
  PROVE  /\ q \o <<z>> \in Seq(T) /\ In(q \o <<z>>) = In(q) \union ({z} \ {Hello})
         /\ Once(q) /\ z \notin In(q) => Once(q \o <<z>>)
         /\ <<z>> \o q \in Seq(T)
         /\ z = Hello => In(<<z>> \o q) = In(q) /\ (Once(q) => Once(<<z>> \o q))
<1>1. PICK p \in Seq(T) : p = <<z>>
  <2>1. <<z>> \in Seq(T)
    OBVIOUS
  <2> QED BY <2>1, Zenon
<1>2. In(p) = {z} \ {Hello} /\ Once(p)
  BY <1>1, SmallFacts
<1>3. q \o p \in Seq(T) /\ In(q \o p) = In(q) \union In(p)
      /\ (Once(q) /\ In(q) \intersect In(p) = {} => Once(q \o p))
  BY <1>2, InFacts
<1>4. p \o q \in Seq(T) /\ In(p \o q) = In(p) \union In(q)
      /\ (Once(q) /\ In(p) \intersect In(q) = {} => Once(p \o q))
  BY <1>2, InFacts
<1> QED BY <1>1, <1>2, <1>3, <1>4

LEMMA TailFacts ==
  ASSUME NEW T, NEW q \in Seq(T), q # <<>>
  PROVE  /\ In(Tail(q)) \subseteq In(q) /\ (Head(q) # Hello => Head(q) \in In(q))
         /\ Once(q) => Once(Tail(q)) /\ Head(q) \notin In(Tail(q))
<1>1. /\ Tail(q) \in Seq(T) /\ Len(q) \in Nat \ {0} /\ Head(q) = q[1]
      /\ DOMAIN q = 1..Len(q) /\ DOMAIN Tail(q) = 1..(Len(q) - 1)
      /\ \A i \in 1..(Len(q) - 1) : Tail(q)[i] = q[i + 1]
  BY HeadTailProperties, EmptySeq, LenProperties
<1>2. \A i \in DOMAIN Tail(q) : i + 1 \in DOMAIN q /\ i + 1 # 1 /\ Tail(q)[i] = q[i + 1]
  BY <1>1
<1>3. 1 \in DOMAIN q
  BY <1>1
<1>4. In(Tail(q)) \subseteq In(q) /\ (Head(q) # Hello => Head(q) \in In(q))
  BY <1>1, <1>2, <1>3 DEF In
<1>5. ASSUME Once(q) PROVE Once(Tail(q)) /\ Head(q) \notin In(Tail(q))
  <2>1. Head(q) \notin In(Tail(q))
    BY <1>1, <1>2, <1>3, <1>5 DEF In, Once
  <2>2. ASSUME NEW i \in DOMAIN Tail(q), NEW j \in DOMAIN Tail(q),
               Tail(q)[i] = Tail(q)[j], Tail(q)[i] # Hello
        PROVE  i = j
    <3>1. i + 1 = j + 1
      BY <1>2, <1>5, <2>2 DEF Once
    <3> QED BY <3>1, <1>1
  <2> QED BY <2>1, <2>2 DEF Once
<1> QED BY <1>4, <1>5

LEMMA CutFacts ==
  ASSUME NEW T, NEW q \in Seq(T), NEW t \in Truncated(q)
  PROVE  In(t) \subseteq In(q) /\ (Once(q) => Once(t))
<1>1. PICK n \in 0..Len(q) : t = SubSeq(q, 1, n)
  BY DEF Truncated
<1>2. \A j \in 1..n : q[j] \in T
  BY <1>1, ElementOfSeq, LenProperties
<1>3. DOMAIN t = 1..n /\ (\A j \in 1..n : t[j] = q[j]) /\ DOMAIN q = 1..Len(q) /\ Len(q) \in Nat
  BY <1>1, <1>2, LenProperties, SubSeqProperties
<1> QED BY <1>3 DEF In, Once

(* Rows are moved to d, or are new there: what they are they are nowhere   *)
(* else.                                                                   *)
LEMMA Moved ==
  ASSUME OneCopy, NEW d \in Places, NEW M,
         Once(At(d)'), In(At(d)') \subseteq In(At(d)) \union M,
         \A x \in Places : x # d => /\ Once(At(x)') /\ In(At(x)') \subseteq In(At(x))
                                    /\ In(At(x)') \intersect M = {}
  PROVE  OneCopy'
<1>1. \A x \in Places : Once(At(x)')
  OBVIOUS
<1>2. ASSUME NEW x \in Places, NEW y \in Places, x # y, NEW z, z \in In(At(x)'), z \in In(At(y)')
      PROVE  FALSE
  <2>1. x # d => z \in In(At(x)) /\ z \notin M
    BY <1>2
  <2>2. y # d => z \in In(At(y)) /\ z \notin M
    BY <1>2
  <2>3. x = d \/ y = d
    BY <2>1, <2>2, <1>2 DEF OneCopy
  <2>4. z \in In(At(d))
    BY <2>1, <2>2, <2>3, <1>2
  <2> QED BY <2>1, <2>2, <2>3, <2>4, <1>2 DEF OneCopy
<1> QED BY <1>1, <1>2 DEF OneCopy

(* Nothing but losses.                                                     *)
LEMMA Lost ==
  ASSUME OneCopy, \A x \in Places : Once(At(x)') /\ In(At(x)') \subseteq In(At(x))
  PROVE  OneCopy'
<1>1. ASSUME NEW x \in Places, NEW y \in Places, x # y
      PROVE  In(At(x)') \intersect In(At(y)') = {}
  BY <1>1 DEF OneCopy
<1> QED BY <1>1 DEF OneCopy

(* The four kinds of place.                                                *)
LEMMA AtFacts ==
  /\ <<"outbox", 0>> \in Places /\ At(<<"outbox", 0>>) = outbox
  /\ <<"got", 0>> \in Places /\ At(<<"got", 0>>) = StoredRows
  /\ \A a \in Addrs : <<"queue", a>> \in Places /\ At(<<"queue", a>>) = pc[a].queue
  /\ \A c \in Nat : /\ <<"net", c>> \in Places
                    /\ At(<<"net", c>>) = IF c \in DOMAIN conns THEN conns[c].net ELSE <<>>
  BY DEF Places, At

LEMMA PlaceCases ==
  ASSUME NEW x \in Places
  PROVE  \/ x = <<"outbox", 0>> \/ x = <<"got", 0>>
         \/ \E a \in Addrs : x = <<"queue", a>>
         \/ \E c \in Nat : x = <<"net", c>>
  BY DEF Places

LEMMA TypesAt ==
  ASSUME TypeOK
  PROVE  /\ outbox \in Seq(Ids) /\ (\A a \in Addrs : pc[a].queue \in Seq(Ids))
         /\ \A c \in DOMAIN conns : conns[c].net \in Seq(Ids \union {Hello})
         /\ StoredRows \in Seq(Ids) /\ DOMAIN StoredRows = DOMAIN got
         /\ \A x \in Places : In(At(x)) \subseteq Ids /\ At(x) \in Seq(Ids \union {Hello})
<1>1. outbox \in Seq(Ids) /\ (\A a \in Addrs : pc[a].queue \in Seq(Ids))
      /\ \A c \in DOMAIN conns : conns[c].net \in Seq(Ids \union {Hello})
  <2>1. \A a \in Addrs : pc[a].queue \in Seq(Ids)
    BY Elements DEF PeerConn
  <2>2. \A c \in DOMAIN conns : conns[c].net \in Seq(Ids \union {Hello})
    BY Elements DEF Conn
  <2> QED BY <2>1, <2>2 DEF TypeOK
<1>2. StoredRows \in Seq(Ids) /\ DOMAIN StoredRows = DOMAIN got
  <2>1. Len(got) \in Nat /\ DOMAIN got = 1..Len(got) /\ \A i \in 1..Len(got) : got[i] \in Stored(Ids)
    BY LenProperties, ElementOfSeq DEF TypeOK
  <2>2. \A i \in 1..Len(got) : got[i].row \in Ids
    BY <2>1 DEF Stored
  <2>3. StoredRows \in [1..Len(got) -> Ids]
    BY <2>1, <2>2 DEF StoredRows
  <2> QED BY <2>1, <2>3, FunctionIsSeq DEF StoredRows
<1>3. \A x \in Places : At(x) \in Seq(Ids \union {Hello})
  <2> SUFFICES ASSUME NEW x \in Places PROVE At(x) \in Seq(Ids \union {Hello})
    OBVIOUS
  <2>1. \A q \in Seq(Ids) : q \in Seq(Ids \union {Hello})
    BY SeqMonotonic
  <2>2. <<>> \in Seq(Ids \union {Hello})
    BY EmptySeq
  <2>3. CASE x = <<"outbox", 0>> \/ x = <<"got", 0>>
    BY <1>1, <1>2, <2>1, <2>3, AtFacts
  <2>4. ASSUME NEW a \in Addrs, x = <<"queue", a>> PROVE At(x) \in Seq(Ids \union {Hello})
    <3>1. At(x) = pc[a].queue
      BY <2>4, AtFacts
    <3> QED BY <3>1, <1>1, <2>1
  <2>5. ASSUME NEW c \in Nat, x = <<"net", c>> PROVE At(x) \in Seq(Ids \union {Hello})
    <3>1. At(x) = IF c \in DOMAIN conns THEN conns[c].net ELSE <<>>
      BY <2>5, AtFacts
    <3> QED BY <3>1, <1>1, <2>2
  <2> QED BY <2>3, <2>4, <2>5, PlaceCases
<1>4. ASSUME NEW q \in Seq(Ids \union {Hello}) PROVE In(q) \subseteq Ids
  <2>1. \A i \in DOMAIN q : q[i] \in Ids \union {Hello}
    BY LenProperties, ElementOfSeq
  <2> QED BY <2>1 DEF In
<1> QED BY <1>1, <1>2, <1>3, <1>4

(* ClientSend of frames that are in no place after the step but the one    *)
(* they are sent to.                                                       *)
LEMMA SendMoves ==
  ASSUME OneCopy, TypeOK, Bound, NEW ids, Ids \subseteq ids, NEW a \in Addrs, NEW frames \in Seq(ids),
         Once(frames), ClientSend(a, frames),
         \A x \in Places : x[1] \in {"queue", "net"} => In(At(x)) \intersect In(frames) = {},
         got' = got, Once(outbox'), In(outbox') \subseteq In(outbox),
         In(outbox') \intersect In(frames) = {}, In(StoredRows) \intersect In(frames) = {}
  PROVE  OneCopy'
<1>0. StoredRows' = StoredRows
  BY DEF StoredRows
<1> DEFINE T == ids \union {Hello}
<1>t. \A q \in Seq(ids) : q \in Seq(T)
  BY SeqMonotonic
<1>s. \A q \in Seq(Ids) : q \in Seq(T)
  BY SeqMonotonic
<1>n. \A q \in Seq(Ids \union {Hello}) : q \in Seq(T)
  BY SeqMonotonic
<1>1. CASE pc[a].sock = "connected"
  <2>0. PICK c \in DOMAIN conns : c = pc[a].conn
    BY <1>1 DEF Bound
  <2> DEFINE d == <<"net", c>>
             k == conns[c]
  <2>1. c \in Nat /\ DOMAIN conns = 1..Len(conns) /\ k \in Conn(Ids)
    BY Elements
  <2>2. /\ pc' = pc /\ DOMAIN conns' = DOMAIN conns
        /\ conns'[c].net = IF k.up THEN k.net \o frames ELSE k.net
        /\ \A b \in DOMAIN conns : b # c => conns'[b] = conns[b]
    <3>1. conns' = [conns EXCEPT ![c] = Carrying(k, frames)] /\ pc' = pc
      BY <2>0, <1>1 DEF ClientSend
    <3>2. Carrying(k, frames).net = IF k.up THEN k.net \o frames ELSE k.net
      BY <2>1 DEF Carrying, Conn
    <3> QED BY <3>1, <3>2, <2>1
  <2>3. d \in Places /\ At(d) = k.net /\ k.net \in Seq(T)
    BY <2>1, <1>n, AtFacts DEF Conn
  <2>4. At(d)' = IF k.up THEN k.net \o frames ELSE k.net
    BY <2>1, <2>2 DEF At
  <2>5. Once(k.net) /\ In(k.net) \intersect In(frames) = {}
    BY <2>3 DEF OneCopy
  <2>6. /\ In(k.net \o frames) = In(k.net) \union In(frames)
        /\ Once(k.net \o frames)
    BY <2>3, <2>5, <1>t, InFacts
  <2>7. Once(At(d)') /\ In(At(d)') \subseteq In(At(d)) \union In(frames)
    BY <2>3, <2>4, <2>5, <2>6
  <2>8. ASSUME NEW x \in Places, x # d
        PROVE  Once(At(x)') /\ In(At(x)') \subseteq In(At(x)) /\ In(At(x)') \intersect In(frames) = {}
    <3>1. CASE x = <<"outbox", 0>>
      BY <3>1 DEF At
    <3>2. CASE x = <<"got", 0>>
      BY <3>2, <1>0, AtFacts DEF At, OneCopy
    <3>3. ASSUME NEW b \in Addrs, x = <<"queue", b>> PROVE At(x)' = At(x) /\ x[1] \in {"queue", "net"}
      BY <3>3, <2>2 DEF At
    <3>4. ASSUME NEW b \in Nat, x = <<"net", b>> PROVE At(x)' = At(x) /\ x[1] \in {"queue", "net"}
      BY <3>4, <2>2, <2>8 DEF At
    <3> QED BY <3>1, <3>2, <3>3, <3>4, PlaceCases DEF OneCopy
  <2> HIDE DEF d
  <2> QED BY <2>3, <2>7, <2>8, Moved
<1>2. CASE pc[a].sock # "connected"
  <2> DEFINE d == <<"queue", a>>
             q == pc[a].queue
  <2>1. pc[a] \in PeerConn(Ids) /\ q \in Seq(T)
    BY <1>s, Elements, TypesAt
  <2>2. /\ conns' = conns /\ pc'[a].queue = q \o frames
        /\ \A b \in Addrs : b # a => pc'[b] = pc[b]
    <3>1. pc' = [pc EXCEPT ![a] = Queueing(pc[a], frames)] /\ conns' = conns
      BY <1>2 DEF ClientSend
    <3>2. Queueing(pc[a], frames).queue = q \o frames
      BY <2>1 DEF Queueing, PeerConn
    <3> QED BY <3>1, <3>2 DEF TypeOK
  <2>3. d \in Places /\ At(d) = q
    BY AtFacts
  <2>4. At(d)' = q \o frames
    BY <2>2 DEF At
  <2>5. Once(q) /\ In(q) \intersect In(frames) = {}
    BY <2>3 DEF OneCopy
  <2>6. In(q \o frames) = In(q) \union In(frames) /\ Once(q \o frames)
    BY <2>1, <2>5, <1>t, InFacts
  <2>7. Once(At(d)') /\ In(At(d)') \subseteq In(At(d)) \union In(frames)
    BY <2>3, <2>4, <2>6
  <2>8. ASSUME NEW x \in Places, x # d
        PROVE  Once(At(x)') /\ In(At(x)') \subseteq In(At(x)) /\ In(At(x)') \intersect In(frames) = {}
    <3>1. CASE x = <<"outbox", 0>>
      BY <3>1 DEF At
    <3>2. CASE x = <<"got", 0>>
      BY <3>2, <1>0, AtFacts DEF At, OneCopy
    <3>3. ASSUME NEW b \in Addrs, x = <<"queue", b>> PROVE At(x)' = At(x) /\ x[1] \in {"queue", "net"}
      BY <3>3, <2>2, <2>8 DEF At
    <3>4. ASSUME NEW b \in Nat, x = <<"net", b>> PROVE At(x)' = At(x) /\ x[1] \in {"queue", "net"}
      BY <3>4, <2>2 DEF At
    <3> QED BY <3>1, <3>2, <3>3, <3>4, PlaceCases DEF OneCopy
  <2> HIDE DEF d
  <2> QED BY <2>3, <2>7, <2>8, Moved
<1> QED BY <1>1, <1>2

(* What each action does to the places.                                    *)
LEMMA SendMessageOnce == ASSUME LinkInv, OneCopy, SendMessage PROVE OneCopy'
<1> DEFINE id == Len(rows) + 1
<1>1. TypeOK /\ Bound /\ Len(rows) \in Nat /\ Ids = 1..Len(rows) /\ id # Hello /\ id \notin Ids
  <2>1. TypeOK /\ Bound
    BY DEF LinkInv
  <2>2. Len(rows) \in Nat /\ Ids = 1..Len(rows)
    BY <2>1, Elements
  <2> QED BY <2>1, <2>2 DEF Hello
<1>2. \A x \in Places : In(At(x)) \subseteq Ids
  BY <1>1, TypesAt
<1> HIDE DEF id
<1>3. In(<<id>>) = {id} /\ Once(<<id>>)
  BY <1>1, SmallFacts
<1>4. CASE peer = NoAddr
  <2> DEFINE d == <<"outbox", 0>>
             T == Ids \union {id}
  <2>1. outbox' = Append(outbox, id) /\ UNCHANGED <<pc, conns, got>>
    BY <1>4 DEF SendMessage, id
  <2>2. outbox \in Seq(T) /\ id \in T /\ <<id>> \in Seq(T)
    BY <1>1, SeqMonotonic DEF TypeOK
  <2>3. outbox' = outbox \o <<id>>
    BY <2>1, <2>2, AppendIsConcat
  <2>4. d \in Places /\ At(d) = outbox /\ At(d)' = outbox'
    BY AtFacts DEF At
  <2>5. Once(outbox) /\ In(outbox) \intersect {id} = {}
    BY <2>4, <1>1, <1>2 DEF OneCopy
  <2>6. Once(outbox') /\ In(outbox') = In(outbox) \union {id}
    <3> HIDE DEF T
    <3> QED BY <2>2, <2>3, <2>5, <1>1, OneMore
  <2>7. \A x \in Places : x # d => At(x)' = At(x)
    BY <2>1, PlaceCases DEF At, StoredRows
  <2>8. \A x \in Places : x # d => /\ Once(At(x)') /\ In(At(x)') \subseteq In(At(x))
                                   /\ In(At(x)') \intersect {id} = {}
    BY <2>7, <1>1, <1>2 DEF OneCopy
  <2> HIDE DEF d
  <2> QED BY <2>4, <2>6, <2>8, Moved
<1>5. CASE peer # NoAddr
  <2> DEFINE ids == Ids \union {id}
  <2>1. ClientSend(peer, <<id>>) /\ UNCHANGED <<outbox, got>> /\ peer \in Addrs
    BY <1>1, <1>5 DEF SendMessage, id, TypeOK
  <2>2. \A x \in Places : In(At(x)) \intersect {id} = {}
    BY <1>1, <1>2
  <2>3. <<id>> \in Seq(ids) /\ Ids \subseteq ids
    OBVIOUS
  <2>4. Once(outbox) /\ In(outbox) \intersect {id} = {} /\ In(StoredRows) \intersect {id} = {}
    BY <2>2, AtFacts DEF OneCopy
  <2> HIDE DEF ids
  <2> QED BY <1>1, <1>3, <2>1, <2>2, <2>3, <2>4, SendMoves
<1> QED BY <1>4, <1>5

LEMMA PeersChangedOnce == ASSUME LinkInv, OneCopy, PeersChanged PROVE OneCopy'
<1>1. TypeOK /\ Bound /\ outbox' = <<>> /\ got' = got /\ home \in Addrs
  BY DEF LinkInv, TypeOK, PeersChanged, FlushOutbox
<1>2. In(<<>>) = {} /\ Once(<<>>)
  BY SmallFacts
<1>3. CASE outbox = <<>>
  <2>1. UNCHANGED <<pc, conns>>
    BY <1>3 DEF PeersChanged, FlushOutbox
  <2>2. \A x \in Places : At(x)' = At(x)
    BY <2>1, <1>1, <1>3, PlaceCases DEF At, StoredRows
  <2> QED BY <2>2 DEF OneCopy
<1>4. CASE outbox # <<>>
  <2>1. ClientSend(home, outbox)
    BY <1>4 DEF PeersChanged, FlushOutbox
  <2>2. \A x \in Places : x # <<"outbox", 0>> => In(At(x)) \intersect In(outbox) = {}
    BY AtFacts DEF OneCopy
  <2>3. Once(outbox) /\ outbox \in Seq(Ids)
    BY <1>1, AtFacts DEF OneCopy, TypeOK
  <2>4. In(StoredRows) \intersect In(outbox) = {}
    BY <2>2, AtFacts
  <2>5. \A x \in Places : x[1] \in {"queue", "net"} => In(At(x)) \intersect In(outbox) = {}
    BY <2>2
  <2> QED BY <1>1, <1>2, <2>1, <2>3, <2>4, <2>5, SendMoves
<1> QED BY <1>3, <1>4

LEMMA ConnectedOnce == ASSUME LinkInv, OneCopy, NEW a \in Addrs, Connected(a) PROVE OneCopy'
<1>1. /\ TypeOK /\ Len(conns) \in Nat /\ DOMAIN conns = 1..Len(conns)
      /\ pc[a].queue \in Seq(Ids) /\ conns \in Seq(Conn(Ids))
  BY Elements, TypesAt DEF LinkInv, TypeOK
<1>2. PICK c \in Nat : c = Len(conns) + 1
  BY <1>1
<1> DEFINE T == Ids \union {Hello}
           q == pc[a].queue
           k == [up |-> TRUE, net |-> <<Hello>> \o q, id |-> "address"]
           d == <<"net", c>>
<1>3. /\ UNCHANGED <<outbox, got>> /\ conns' = Append(conns, k)
      /\ pc'[a].queue = <<>> /\ \A b \in Addrs : b # a => pc'[b] = pc[b]
  BY DEF Connected, Greeting, LinkInv, TypeOK
<1>4. q \in Seq(T) /\ <<Hello>> \in Seq(T)
  BY <1>1, SeqMonotonic
<1>5. Once(q) /\ In(<<Hello>>) = {} /\ Once(<<Hello>>) /\ In(<<>>) = {} /\ Once(<<>>)
  BY AtFacts, SmallFacts DEF OneCopy
<1>6. <<Hello>> \o q \in Seq(T) /\ Once(<<Hello>> \o q) /\ In(<<Hello>> \o q) = In(q)
  <2>1. Hello \in T
    OBVIOUS
  <2> HIDE DEF T
  <2> QED BY <2>1, <1>4, <1>5, OneMore
<1>7. k \in Conn(Ids)
  BY <1>6 DEF Conn
<1>8. DOMAIN conns' = 1..c /\ conns'[c].net = <<Hello>> \o q
      /\ \A b \in DOMAIN conns : conns'[b] = conns[b]
  <2>1. k.net = <<Hello>> \o q
    OBVIOUS
  <2> HIDE DEF k
  <2> QED BY <2>1, <1>1, <1>2, <1>3, <1>7, AppendProperties, LenProperties
<1>9. d \in Places /\ At(d) = <<>> /\ At(d)' = <<Hello>> \o q
  <2>1. c \notin DOMAIN conns /\ c \in DOMAIN conns'
    BY <1>1, <1>2, <1>8
  <2> QED BY <2>1, <1>8, AtFacts DEF At
<1>10. ASSUME NEW x \in Places, x # d
       PROVE  Once(At(x)') /\ In(At(x)') \subseteq In(At(x)) /\ In(At(x)') \intersect In(q) = {}
  <2> DEFINE s == <<"queue", a>>
  <2>1. s \in Places /\ At(s) = q /\ At(s)' = <<>>
    BY <1>3, AtFacts DEF At
  <2>2. CASE x = s
    BY <2>1, <2>2, <1>5
  <2>3. ASSUME x # s PROVE At(x)' = At(x)
    <3>1. CASE x = <<"outbox", 0>> \/ x = <<"got", 0>>
      BY <3>1, <1>3 DEF At, StoredRows
    <3>2. ASSUME NEW b \in Addrs, x = <<"queue", b>> PROVE At(x)' = At(x)
      BY <3>2, <2>3, <1>3 DEF At
    <3>3. ASSUME NEW b \in Nat, x = <<"net", b>> PROVE At(x)' = At(x)
      <4>1. b \in DOMAIN conns' <=> b \in DOMAIN conns
        BY <3>3, <1>1, <1>2, <1>8, <1>10
      <4> QED BY <4>1, <3>3, <1>8 DEF At
    <3> QED BY <3>1, <3>2, <3>3, PlaceCases
  <2> QED BY <2>1, <2>2, <2>3, <1>10 DEF OneCopy
<1>11. Once(At(d)') /\ In(At(d)') \subseteq In(At(d)) \union In(q)
  BY <1>6, <1>9
<1> HIDE DEF d
<1> QED BY <1>9, <1>10, <1>11, Moved

(* A queue is cleared.                                                     *)
LEMMA UnconnectedOnce ==
  ASSUME LinkInv, OneCopy, NEW a \in Addrs, pc' = [pc EXCEPT ![a] = Unconnected],
         UNCHANGED <<outbox, conns, got>>
  PROVE  OneCopy'
<1>1. pc'[a].queue = <<>> /\ \A b \in Addrs : b # a => pc'[b] = pc[b]
  BY DEF Unconnected, LinkInv, TypeOK
<1>2. In(<<>>) = {} /\ Once(<<>>)
  BY SmallFacts
<1>3. ASSUME NEW x \in Places PROVE At(x)' = At(x) \/ At(x)' = <<>>
  BY <1>1, PlaceCases DEF At, StoredRows
<1>4. \A x \in Places : Once(At(x)') /\ In(At(x)') \subseteq In(At(x))
  BY <1>2, <1>3 DEF OneCopy
<1> QED BY <1>4, Lost

LEMMA UntouchedOnce == ASSUME OneCopy, UNCHANGED <<outbox, pc, conns, got>> PROVE OneCopy'
<1>1. \A x \in Places : At(x)' = At(x)
  BY DEF At, StoredRows
<1> QED BY <1>1 DEF OneCopy

LEMMA BreaksOnce == ASSUME LinkInv, OneCopy, NEW c \in Conns, Breaks(c) PROVE OneCopy'
<1>1. c \in DOMAIN conns /\ UNCHANGED <<outbox, pc, got>>
  BY DEF Breaks
<1>2. PICK q \in Truncated(conns[c].net) :
         conns' = [conns EXCEPT ![c] = [conns[c] EXCEPT !.up = FALSE, !.net = q]]
  BY DEF Breaks
<1>3. /\ conns[c] \in Conn(Ids) /\ conns[c].net \in Seq(Ids \union {Hello})
      /\ c \in Nat /\ DOMAIN conns = 1..Len(conns)
  BY <1>1, Elements, TypesAt DEF LinkInv
<1>4. In(q) \subseteq In(conns[c].net) /\ (Once(conns[c].net) => Once(q))
  BY <1>3, CutFacts
<1>5. /\ DOMAIN conns' = DOMAIN conns /\ conns'[c].net = q
      /\ \A b \in DOMAIN conns : b # c => conns'[b] = conns[b]
  BY <1>1, <1>2, <1>3 DEF Conn
<1> DEFINE d == <<"net", c>>
<1>6. d \in Places /\ At(d) = conns[c].net /\ At(d)' = q
  BY <1>1, <1>3, <1>5, AtFacts DEF At
<1>7. \A x \in Places : x # d => At(x)' = At(x)
  <2> SUFFICES ASSUME NEW x \in Places, x # d PROVE At(x)' = At(x)
    OBVIOUS
  <2>1. ASSUME NEW b \in Nat, x = <<"net", b>> PROVE At(x)' = At(x)
    BY <2>1, <1>5 DEF At
  <2> QED BY <2>1, <1>1, PlaceCases DEF At, StoredRows
<1>8. \A x \in Places : Once(At(x)') /\ In(At(x)') \subseteq In(At(x))
  BY <1>4, <1>6, <1>7 DEF OneCopy
<1> QED BY <1>8, Lost

LEMMA RestartsOnce == ASSUME LinkInv, OneCopy, RestartA \/ RestartB PROVE OneCopy'
<1>1. UNCHANGED <<outbox, got>>
  BY DEF RestartA, RestartB
<1>2. \A a \in Addrs : pc'[a].queue \in {pc[a].queue, <<>>}
  <2>1. Unconnected.queue = <<>>
    BY DEF Unconnected
  <2>2. CASE RestartA
    BY <2>1, <2>2 DEF RestartA
  <2>3. CASE RestartB
    BY <2>3 DEF RestartB
  <2> QED BY <2>2, <2>3
<1>3. DOMAIN conns' = DOMAIN conns /\ \A c \in DOMAIN conns : conns'[c].net \in {conns[c].net, <<>>}
  <2>1. DOMAIN conns' = DOMAIN conns
    BY DEF RestartA, RestartB
  <2>2. ASSUME NEW c \in DOMAIN conns PROVE conns'[c].net \in {conns[c].net, <<>>}
    <3>1. conns[c] \in Conn(Ids)
      BY Elements DEF LinkInv
    <3>2. \/ conns'[c] = [conns[c] EXCEPT !.up = FALSE]
          \/ conns'[c] = [conns[c] EXCEPT !.up = FALSE, !.net = <<>>]
      BY DEF RestartA, RestartB
    <3> QED BY <3>1, <3>2 DEF Conn
  <2> QED BY <2>1, <2>2
<1>4. In(<<>>) = {} /\ Once(<<>>)
  BY SmallFacts
<1>5. ASSUME NEW x \in Places PROVE At(x)' = At(x) \/ At(x)' = <<>>
  <2>1. ASSUME NEW b \in Nat, x = <<"net", b>> PROVE At(x)' = At(x) \/ At(x)' = <<>>
    BY <2>1, <1>3 DEF At
  <2>2. ASSUME NEW a \in Addrs, x = <<"queue", a>> PROVE At(x)' = At(x) \/ At(x)' = <<>>
    BY <2>2, <1>2 DEF At
  <2> QED BY <2>1, <2>2, <1>1, PlaceCases DEF At, StoredRows
<1>6. \A x \in Places : Once(At(x)') /\ In(At(x)') \subseteq In(At(x))
  BY <1>4, <1>5 DEF OneCopy
<1> QED BY <1>6, Lost

(* What a frame adds to the rows stored: itself, or nothing.               *)
LEMMA ReceivedRows ==
  ASSUME TypeOK, NEW c \in Conns, Receive(c)
  PROVE  LET q == conns[c].net IN
         /\ c \in DOMAIN conns /\ q # <<>> /\ q \in Seq(Ids \union {Hello})
         /\ DOMAIN conns' = DOMAIN conns /\ conns'[c].net = Tail(q) /\ conns'[c].up = conns[c].up
         /\ \A b \in DOMAIN conns : b # c => conns'[b] = conns[b]
         /\ \/ StoredRows' = StoredRows
            \/ Head(q) \in Ids /\ Head(q) # Hello /\ StoredRows' = StoredRows \o <<Head(q)>>
<1> DEFINE k == conns[c]
           q == k.net
           frame == Head(q)
           stored == StoredBy(frame, k.id)
<1>1. /\ c \in DOMAIN conns /\ q # <<>> /\ got' = got \o stored
      /\ conns' = [conns EXCEPT ![c] = [k EXCEPT !.net = Tail(@), !.id = Binding(frame, @)]]
  BY DEF Receive
<1>2. k \in Conn(Ids) /\ q \in Seq(Ids \union {Hello}) /\ got \in Seq(Stored(Ids))
  BY <1>1, Elements, TypesAt DEF TypeOK
<1>3. frame \in Ids \union {Hello}
  BY <1>1, <1>2, HeadTailProperties
<1>4. /\ DOMAIN conns' = DOMAIN conns /\ conns'[c].net = Tail(q) /\ conns'[c].up = k.up
      /\ \A b \in DOMAIN conns : b # c => conns'[b] = conns[b]
  BY <1>1, <1>2 DEF Conn
<1>5. CASE stored = <<>>
  <2>1. got' = got
    BY <1>1, <1>2, <1>5, ConcatEmptySeq
  <2> QED BY <2>1, <1>1, <1>2, <1>4 DEF StoredRows
<1>6. CASE stored # <<>>
  <2> DEFINE m == [row |-> frame, from |-> k.id]
  <2>1. stored = <<m>> /\ frame # Hello
    BY <1>6 DEF StoredBy
  <2>2. frame \in Ids /\ m \in Stored(Ids) /\ m.row = frame
    BY <2>1, <1>2, <1>3 DEF Stored, Conn
  <2> HIDE DEF m, stored, frame
  <2>3. <<m>> \in Seq(Stored(Ids)) /\ <<frame>> \in Seq(Ids) /\ Len(<<m>>) = 1 /\ Len(<<frame>>) = 1
    BY <2>2
  <2>4. Len(got) \in Nat /\ DOMAIN got = 1..Len(got) /\ got' \in Seq(Stored(Ids))
        /\ DOMAIN got' = 1..(Len(got) + 1)
        /\ \A i \in 1..(Len(got) + 1) : got'[i] = IF i <= Len(got) THEN got[i] ELSE m
    <3>1. Len(got) \in Nat /\ DOMAIN got = 1..Len(got) /\ got' \in Seq(Stored(Ids))
          /\ Len(got') = Len(got) + 1
          /\ \A i \in 1..(Len(got) + 1) : got'[i] = IF i <= Len(got) THEN got[i] ELSE <<m>>[i - Len(got)]
      BY <1>1, <1>2, <2>1, <2>3, ConcatProperties, LenProperties
    <3>2. \A i \in 1..(Len(got) + 1) : i <= Len(got) \/ i - Len(got) = 1
      BY <3>1
    <3> QED BY <3>1, <3>2, LenProperties
  <2>5. StoredRows \in Seq(Ids) /\ Len(StoredRows) = Len(got)
    BY <2>4, TypesAt, LenProperties DEF StoredRows
  <2> DEFINE more == StoredRows \o <<frame>>
  <2>6. /\ more \in Seq(Ids) /\ Len(more) = Len(got) + 1
        /\ \A i \in 1..(Len(got) + 1) :
              more[i] = IF i <= Len(got) THEN StoredRows[i] ELSE <<frame>>[i - Len(got)]
    BY <2>3, <2>5, ConcatProperties
  <2> HIDE DEF more
  <2>7. DOMAIN more = 1..(Len(got) + 1) /\ \A i \in 1..(Len(got) + 1) : StoredRows'[i] = more[i]
    <3>1. DOMAIN more = 1..(Len(got) + 1)
      BY <2>6, LenProperties
    <3>2. ASSUME NEW i \in 1..(Len(got) + 1) PROVE StoredRows'[i] = more[i]
      <4>1. StoredRows'[i] = got'[i].row
        BY <2>4 DEF StoredRows
      <4>2. CASE i <= Len(got)
        BY <4>1, <4>2, <2>4, <2>6 DEF StoredRows
      <4>3. CASE i > Len(got)
        <5>1. i - Len(got) = 1
          BY <4>3, <2>4
        <5> QED BY <4>1, <4>3, <5>1, <2>2, <2>4, <2>6
      <4> QED BY <4>2, <4>3, <2>4
    <3> QED BY <3>1, <3>2
  <2>8. StoredRows' = more
    <3>1. StoredRows' = [i \in 1..(Len(got) + 1) |-> StoredRows'[i]]
      BY <2>4 DEF StoredRows
    <3>2. more = [i \in 1..(Len(got) + 1) |-> more[i]]
      BY <2>6, <2>7, LenProperties
    <3> QED BY <3>1, <3>2, <2>7
  <2> QED BY <2>1, <2>2, <2>8, <1>1, <1>2, <1>4 DEF more, frame
<1> QED BY <1>5, <1>6

LEMMA ReceiveOnce == ASSUME LinkInv, OneCopy, NEW c \in Conns, Receive(c) PROVE OneCopy'
<1> DEFINE q == conns[c].net
           s == <<"net", c>>
           d == <<"got", 0>>
           T == Ids \union {Hello}
<1>1. /\ c \in DOMAIN conns /\ q # <<>> /\ q \in Seq(T)
      /\ DOMAIN conns' = DOMAIN conns /\ conns'[c].net = Tail(q)
      /\ \A b \in DOMAIN conns : b # c => conns'[b] = conns[b]
      /\ \/ StoredRows' = StoredRows
         \/ Head(q) \in Ids /\ Head(q) # Hello /\ StoredRows' = StoredRows \o <<Head(q)>>
  BY ReceivedRows DEF LinkInv
<1>2. c \in Nat
  BY <1>1, Elements DEF LinkInv
<1>3. s \in Places /\ At(s) = q /\ At(s)' = Tail(q)
  BY <1>1, <1>2, AtFacts DEF At
<1>4. Once(q) /\ In(Tail(q)) \subseteq In(q) /\ (Head(q) # Hello => Head(q) \in In(q))
      /\ Once(Tail(q)) /\ Head(q) \notin In(Tail(q))
  BY <1>1, <1>3, TailFacts DEF OneCopy
<1>5. \A x \in Places : x # s /\ x # d => At(x)' = At(x)
  <2> SUFFICES ASSUME NEW x \in Places, x # s, x # d PROVE At(x)' = At(x)
    OBVIOUS
  <2>1. UNCHANGED <<outbox, pc>>
    BY DEF Receive
  <2>2. ASSUME NEW b \in Nat, x = <<"net", b>> PROVE At(x)' = At(x)
    BY <2>2, <1>1 DEF At
  <2> QED BY <2>1, <2>2, PlaceCases DEF At
<1>6. d \in Places /\ At(d) = StoredRows /\ At(d)' = StoredRows' /\ d # s
  BY AtFacts DEF At
<1>7. CASE StoredRows' = StoredRows
  <2>1. \A x \in Places : Once(At(x)') /\ In(At(x)') \subseteq In(At(x))
    BY <1>3, <1>4, <1>5, <1>6, <1>7 DEF OneCopy
  <2> QED BY <2>1, Lost
<1>8. CASE Head(q) \in Ids /\ Head(q) # Hello /\ StoredRows' = StoredRows \o <<Head(q)>>
  <2>0. PICK frame \in Ids : frame = Head(q)
    BY <1>8
  <2>1. StoredRows \in Seq(Ids) /\ <<frame>> \in Seq(Ids)
    BY TypesAt DEF LinkInv
  <2>2. In(<<frame>>) = {frame} /\ Once(<<frame>>) /\ frame \in In(At(s))
    BY <1>3, <1>4, <1>8, <2>0, SmallFacts
  <2>3. \A x \in Places : x # s => frame \notin In(At(x))
    BY <2>2, <1>3 DEF OneCopy
  <2>4. Once(StoredRows) /\ In(StoredRows) \intersect {frame} = {}
    BY <2>3, <1>6 DEF OneCopy
  <2>5. Once(At(d)') /\ In(At(d)') \subseteq In(At(d)) \union {frame}
    <3>2. /\ In(StoredRows \o <<frame>>) = In(StoredRows) \union ({frame} \ {Hello})
          /\ Once(StoredRows \o <<frame>>)
      BY <2>1, <2>4, OneMore
    <3>3. At(d)' = StoredRows \o <<frame>> /\ At(d) = StoredRows
      BY <2>0, <1>6, <1>8
    <3> QED BY <3>2, <3>3
  <2>6. \A x \in Places : x # d => /\ Once(At(x)') /\ In(At(x)') \subseteq In(At(x))
                                   /\ In(At(x)') \intersect {frame} = {}
    BY <2>0, <2>3, <1>3, <1>4, <1>5 DEF OneCopy
  <2> HIDE DEF d
  <2> QED BY <1>6, <2>5, <2>6, Moved
<1> QED BY <1>1, <1>7, <1>8

LEMMA StepOnce == ASSUME LinkInv, OneCopy, [Next]_vars PROVE OneCopy'
<1>1. CASE SendMessage
  BY <1>1, SendMessageOnce
<1>2. CASE PeersChanged
  BY <1>2, PeersChangedOnce
<1>3. CASE PeerDropped \/ SetBlocked \/ UNCHANGED vars
  BY <1>3, UntouchedOnce DEF PeerDropped, SetBlocked, vars
<1>4. ASSUME NEW a \in Addrs, Connected(a) PROVE OneCopy'
  BY <1>4, ConnectedOnce
<1>5. ASSUME NEW a \in Addrs, ConnectFails(a) \/ Disconnected(a) PROVE OneCopy'
  BY <1>5, UnconnectedOnce DEF ConnectFails, Disconnected
<1>6. ASSUME NEW c \in Conns, Receive(c) PROVE OneCopy'
  BY <1>6, ReceiveOnce
<1>7. ASSUME NEW c \in Conns, Breaks(c) PROVE OneCopy'
  BY <1>7, BreaksOnce
<1>8. CASE RestartA \/ RestartB
  BY <1>8, RestartsOnce
<1> QED BY <1>1, <1>2, <1>3, <1>4, <1>5, <1>6, <1>7, <1>8 DEF Next

LEMMA InitOnce == Init => OneCopy
<1> SUFFICES ASSUME Init PROVE OneCopy
  OBVIOUS
<1>1. DOMAIN <<>> = {} /\ In(<<>>) = {} /\ Once(<<>>)
  BY SmallFacts, EmptySeq, LenProperties
<1>2. DOMAIN StoredRows = {}
  BY <1>1 DEF Init, StoredRows
<1>3. Once(StoredRows) /\ In(StoredRows) = {}
  BY <1>2 DEF Once, In
<1>4. \A x \in Places : Once(At(x)) /\ In(At(x)) = {}
  <2> SUFFICES ASSUME NEW x \in Places PROVE Once(At(x)) /\ In(At(x)) = {}
    OBVIOUS
  <2>1. CASE x = <<"outbox", 0>> \/ x = <<"got", 0>>
    BY <2>1, <1>1, <1>3, AtFacts DEF Init
  <2>2. ASSUME NEW a \in Addrs, x = <<"queue", a>> PROVE At(x) = <<>>
    BY <2>2, AtFacts DEF Init, Unconnected
  <2>3. ASSUME NEW c \in Nat, x = <<"net", c>> PROVE At(x) = <<>>
    BY <2>3, <1>1, AtFacts DEF Init
  <2> QED BY <2>1, <2>2, <2>3, <1>1, PlaceCases
<1> QED BY <1>4 DEF OneCopy

(* A row is in one place at a time, from the outbox to B's store, and      *)
(* whatever fails only loses it (App.cpp:831-852, ChatClient.cpp:38-134).  *)
THEOREM StoredOnce == Spec => []AtMostOnce
<1>1. Init => LinkInv /\ OneCopy
  BY InitInv, InitOnce DEF IdInv
<1>2. LinkInv /\ OneCopy /\ [Next]_vars => (LinkInv /\ OneCopy)'
  BY StepKeeps, StepOnce DEF Keeps
<1>3. LinkInv /\ OneCopy => AtMostOnce
  <2> SUFFICES ASSUME LinkInv, OneCopy, NEW i \in DOMAIN got, NEW j \in DOMAIN got,
                      got[i].row = got[j].row
               PROVE  i = j
    BY DEF AtMostOnce
  <2>1. Once(StoredRows) /\ DOMAIN StoredRows = DOMAIN got /\ StoredRows \in Seq(Ids)
    BY AtFacts, TypesAt DEF OneCopy, LinkInv
  <2>2. StoredRows[i] \in Ids /\ Hello \notin Ids
    BY <2>1, ElementOfSeq, LenProperties, Elements DEF LinkInv, Hello
  <2> QED BY <2>1, <2>2 DEF Once, StoredRows
<1> QED BY <1>1, <1>2, <1>3, PTL DEF Spec

-----------------------------------------------------------------------------
(* While nothing has failed there is one lane from A to B: what B has      *)
(* stored, the connection, the queue for it and the outbox.                *)
Lane == IF conns = <<>> THEN <<>> ELSE conns[1].net

OneLane == /\ peer \in {NoAddr, home}
           /\ \A a \in Addrs \ {home} : pc[a].sock = "unconnected"
           /\ IF pc[home].sock = "connected"
              THEN pc[home].queue = <<>> /\ pc[home].conn = 1 /\ Len(conns) = 1 /\ conns[1].up
              ELSE conns = <<>>

Rising(q) == \A i, j \in DOMAIN q : i < j /\ q[i] # Hello /\ q[j] # Hello => q[i] < q[j]
Ahead(p, q) == \A y \in In(p), z \in In(q) : y < z

(* The parts of the lane, in their order.                                  *)
Ordered(g, n, q, o) ==
    /\ Rising(g) /\ Rising(n) /\ Rising(q) /\ Rising(o)
    /\ Ahead(g, n) /\ Ahead(g, q) /\ Ahead(g, o) /\ Ahead(n, q) /\ Ahead(n, o) /\ Ahead(q, o)

OrderInv == faults = 0 => OneLane /\ Ordered(StoredRows, Lane, pc[home].queue, outbox)

-----------------------------------------------------------------------------
(* Rising rows, and what cutting or joining sequences does to them.        *)
LEMMA RisingConcat ==
  ASSUME NEW T, NEW p \in Seq(T), NEW q \in Seq(T), Rising(p), Rising(q), Ahead(p, q)
  PROVE  Rising(p \o q)
<1>1. /\ Len(p) \in Nat /\ Len(q) \in Nat /\ DOMAIN p = 1..Len(p) /\ DOMAIN q = 1..Len(q)
      /\ DOMAIN (p \o q) = 1..(Len(p) + Len(q))
      /\ \A i \in 1..(Len(p) + Len(q)) : (p \o q)[i] = IF i <= Len(p) THEN p[i] ELSE q[i - Len(p)]
  BY LenProperties, ConcatProperties
<1> DEFINE r == p \o q
<1> HIDE DEF r
<1> SUFFICES ASSUME NEW i \in DOMAIN r, NEW j \in DOMAIN r, i < j, r[i] # Hello, r[j] # Hello
             PROVE  r[i] < r[j]
  BY DEF Rising, r
<1>2. CASE j <= Len(p)
  <2>1. i \in DOMAIN p /\ j \in DOMAIN p /\ r[i] = p[i] /\ r[j] = p[j]
    BY <1>1, <1>2 DEF r
  <2> QED BY <2>1 DEF Rising
<1>3. CASE i <= Len(p) /\ j > Len(p)
  <2>1. i \in DOMAIN p /\ j - Len(p) \in DOMAIN q /\ r[i] = p[i] /\ r[j] = q[j - Len(p)]
    BY <1>1, <1>3 DEF r
  <2>2. r[i] \in In(p) /\ r[j] \in In(q)
    BY <2>1 DEF In
  <2> QED BY <2>2 DEF Ahead
<1>4. CASE i > Len(p)
  <2>1. /\ i - Len(p) \in DOMAIN q /\ j - Len(p) \in DOMAIN q /\ i - Len(p) < j - Len(p)
        /\ r[i] = q[i - Len(p)] /\ r[j] = q[j - Len(p)]
    BY <1>1, <1>4 DEF r
  <2> QED BY <2>1 DEF Rising
<1> QED BY <1>1, <1>2, <1>3, <1>4 DEF r

LEMMA RisingTail ==
  ASSUME NEW T, NEW q \in Seq(T), q # <<>>, Rising(q)
  PROVE  Rising(Tail(q)) /\ (Head(q) # Hello => \A z \in In(Tail(q)) : Head(q) < z)
<1>1. /\ Len(q) \in Nat \ {0} /\ Head(q) = q[1]
      /\ DOMAIN q = 1..Len(q) /\ DOMAIN Tail(q) = 1..(Len(q) - 1)
      /\ \A i \in 1..(Len(q) - 1) : Tail(q)[i] = q[i + 1]
  BY HeadTailProperties, EmptySeq, LenProperties
<1>2. \A i \in DOMAIN Tail(q) : i + 1 \in DOMAIN q /\ 1 < i + 1 /\ Tail(q)[i] = q[i + 1]
  BY <1>1
<1>3. \A i, j \in DOMAIN Tail(q) : i < j => i + 1 < j + 1
  BY <1>1
<1>4. Rising(Tail(q))
  BY <1>2, <1>3 DEF Rising
<1>5. ASSUME Head(q) # Hello, NEW z \in In(Tail(q)) PROVE Head(q) < z
  <2>1. PICK i \in DOMAIN Tail(q) : z = Tail(q)[i] /\ z # Hello
    BY DEF In
  <2>2. 1 \in DOMAIN q
    BY <1>1
  <2> QED BY <2>1, <2>2, <1>1, <1>2, <1>5 DEF Rising
<1> QED BY <1>4, <1>5

LEMMA RisingSmall ==
  Rising(<<>>) /\ \A q : Ahead(q, <<>>) /\ Ahead(<<>>, q)
<1>1. DOMAIN <<>> = {} /\ In(<<>>) = {}
  BY SmallFacts, EmptySeq, LenProperties
<1> QED BY <1>1 DEF Rising, Ahead

LEMMA RisingOne ==
  ASSUME NEW T, NEW q \in Seq(T), NEW z \in T, Rising(q)
  PROVE  /\ (\A y \in In(q) : y < z) => Rising(q \o <<z>>)
         /\ z = Hello => Rising(<<z>> \o q)
<1>1. PICK p \in Seq(T) : p = <<z>>
  <2>1. <<z>> \in Seq(T)
    OBVIOUS
  <2> QED BY <2>1, Zenon
<1>2. In(p) = {z} \ {Hello} /\ DOMAIN p = {1}
  BY <1>1, SmallFacts
<1>3. Rising(p)
  BY <1>2 DEF Rising
<1>4. (\A y \in In(q) : y < z) => Ahead(q, p)
  BY <1>2 DEF Ahead
<1>5. z = Hello => Ahead(p, q)
  BY <1>2 DEF Ahead
<1> QED BY <1>1, <1>3, <1>4, <1>5, RisingConcat

(* A new row comes last.                                                   *)
LEMMA OrderedNew ==
  ASSUME NEW T, NEW g \in Seq(T), NEW n \in Seq(T), NEW q \in Seq(T), NEW o \in Seq(T),
         NEW z \in T, Ordered(g, n, q, o),
         \A y \in In(g) \union In(n) \union In(q) \union In(o) : y < z
  PROVE  /\ Ordered(g, n, q, o \o <<z>>)
         /\ o = <<>> => Ordered(g, n, q \o <<z>>, o)
         /\ q = <<>> /\ o = <<>> => Ordered(g, n \o <<z>>, q, o)
<1>1. Ordered(g, n, q, o \o <<z>>)
  BY OneMore, RisingOne DEF Ordered, Ahead
<1>2. o = <<>> => Ordered(g, n, q \o <<z>>, o)
  <2>1. Ahead(q \o <<z>>, <<>>)
    BY RisingSmall
  <2> QED BY <2>1, OneMore, RisingOne DEF Ordered, Ahead
<1>3. q = <<>> /\ o = <<>> => Ordered(g, n \o <<z>>, q, o)
  <2>1. Ahead(n \o <<z>>, <<>>)
    BY RisingSmall
  <2> QED BY <2>1, OneMore, RisingOne DEF Ordered, Ahead
<1> QED BY <1>1, <1>2, <1>3

(* The outbox follows the queue, or what is on the connection.             *)
LEMMA OrderedFlush ==
  ASSUME NEW T, NEW g \in Seq(T), NEW n \in Seq(T), NEW q \in Seq(T), NEW o \in Seq(T),
         Ordered(g, n, q, o)
  PROVE  /\ Ordered(g, n, q \o o, <<>>)
         /\ q = <<>> => Ordered(g, n \o o, q, <<>>)
<1>1. Rising(<<>>) /\ \A s : Ahead(s, <<>>) /\ Ahead(<<>>, s)
  BY RisingSmall
<1>2. Rising(q \o o) /\ Rising(n \o o) /\ In(q \o o) = In(q) \union In(o) /\ In(n \o o) = In(n) \union In(o)
  BY RisingConcat, InFacts DEF Ordered
<1>3. Ahead(g, q \o o) /\ Ahead(n, q \o o) /\ Ahead(g, n \o o)
  BY <1>2 DEF Ordered, Ahead
<1> QED BY <1>1, <1>2, <1>3 DEF Ordered

(* The queue follows the Hello of the new connection.                      *)
LEMMA OrderedGreeting ==
  ASSUME NEW T, NEW g \in Seq(T), NEW q \in Seq(T), NEW o \in Seq(T), Hello \in T,
         Ordered(g, <<>>, q, o)
  PROVE  Ordered(g, <<Hello>> \o q, <<>>, o)
<1>1. Rising(<<>>) /\ \A s : Ahead(s, <<>>) /\ Ahead(<<>>, s)
  BY RisingSmall
<1>2. Rising(<<Hello>> \o q) /\ In(<<Hello>> \o q) = In(q)
  BY OneMore, RisingOne DEF Ordered
<1>3. Ahead(g, <<Hello>> \o q) /\ Ahead(<<Hello>> \o q, o)
  BY <1>2 DEF Ordered, Ahead
<1> QED BY <1>1, <1>2, <1>3 DEF Ordered

(* The first frame of the connection is stored, or dropped.                *)
LEMMA OrderedReceive ==
  ASSUME NEW T, NEW g \in Seq(T), NEW n \in Seq(T), NEW q \in Seq(T), NEW o \in Seq(T),
         n # <<>>, Ordered(g, n, q, o)
  PROVE  /\ Ordered(g, Tail(n), q, o)
         /\ Head(n) # Hello => Ordered(g \o <<Head(n)>>, Tail(n), q, o)
<1>1. /\ In(Tail(n)) \subseteq In(n) /\ (Head(n) # Hello => Head(n) \in In(n))
      /\ Rising(Tail(n)) /\ (Head(n) # Hello => \A z \in In(Tail(n)) : Head(n) < z)
  BY TailFacts, RisingTail DEF Ordered
<1>2. Ordered(g, Tail(n), q, o)
  BY <1>1 DEF Ordered, Ahead
<1>3. ASSUME Head(n) # Hello PROVE Ordered(g \o <<Head(n)>>, Tail(n), q, o)
  <2>1. PICK z \in T : z = Head(n)
    BY HeadTailProperties
  <2>2. In(g \o <<z>>) = In(g) \union {z} /\ \A y \in In(g) : y < z
    BY <2>1, <1>1, <1>3, OneMore DEF Ordered, Ahead
  <2>3. Rising(g \o <<z>>)
    BY <2>2, RisingOne DEF Ordered
  <2>4. Ahead(g \o <<z>>, Tail(n)) /\ Ahead(g \o <<z>>, q) /\ Ahead(g \o <<z>>, o)
    BY <2>1, <2>2, <1>1, <1>2, <1>3 DEF Ordered, Ahead
  <2> QED BY <2>1, <2>3, <2>4, <1>2 DEF Ordered
<1> QED BY <1>2, <1>3

LEMMA LaneTypes ==
  ASSUME LinkInv
  PROVE  LET T == Ids \union {Hello} IN
         /\ StoredRows \in Seq(T) /\ Lane \in Seq(T) /\ pc[home].queue \in Seq(T) /\ outbox \in Seq(T)
         /\ In(StoredRows) \union In(Lane) \union In(pc[home].queue) \union In(outbox) \subseteq Ids
         /\ home \in Addrs /\ (conns # <<>> => 1 \in DOMAIN conns)
<1> DEFINE T == Ids \union {Hello}
<1>1. home \in Addrs /\ conns \in Seq(Conn(Ids)) /\ TypeOK
  BY DEF LinkInv, TypeOK
<1>2. conns # <<>> => 1 \in DOMAIN conns
  BY <1>1, EmptySeq, Elements
<1>3. /\ At(<<"got", 0>>) = StoredRows /\ At(<<"queue", home>>) = pc[home].queue
      /\ At(<<"outbox", 0>>) = outbox /\ At(<<"net", 1>>) = Lane
  <2>1. DOMAIN <<>> = {}
    BY SmallFacts, EmptySeq, LenProperties
  <2> QED BY <2>1, <1>1, <1>2, AtFacts DEF Lane
<1>4. {<<"got", 0>>, <<"queue", home>>, <<"outbox", 0>>, <<"net", 1>>} \subseteq Places
  BY <1>1, AtFacts
<1>5. \A x \in Places : In(At(x)) \subseteq Ids /\ At(x) \in Seq(T)
  BY <1>1, TypesAt
<1> HIDE DEF T
<1>6. StoredRows \in Seq(T) /\ Lane \in Seq(T) /\ pc[home].queue \in Seq(T) /\ outbox \in Seq(T)
  BY <1>3, <1>4, <1>5
<1>7. In(StoredRows) \union In(Lane) \union In(pc[home].queue) \union In(outbox) \subseteq Ids
  BY <1>3, <1>4, <1>5
<1> QED BY <1>1, <1>2, <1>6, <1>7 DEF T

(* What ClientSend does to the lane.                                       *)
LEMMA LaneSent ==
  ASSUME LinkInv, OneLane, NEW frames, ClientSend(home, frames)
  PROVE  /\ \A a \in Addrs \ {home} : pc'[a] = pc[a]
         /\ \/ /\ pc[home].sock = "connected" /\ pc[home].queue = <<>> /\ pc' = pc
               /\ Len(conns') = 1 /\ conns'[1].up /\ conns' # <<>> /\ conns # <<>>
               /\ conns'[1].net = conns[1].net \o frames
            \/ /\ pc[home].sock # "connected" /\ pc'[home].sock # "connected"
               /\ pc'[home].queue = pc[home].queue \o frames /\ conns' = conns
<1>1. home \in Addrs /\ conns \in Seq(Conn(Ids)) /\ pc[home] \in PeerConn(Ids)
      /\ pc \in [Addrs -> PeerConn(Ids)]
  BY Elements DEF LinkInv, TypeOK
<1>2. CASE pc[home].sock = "connected"
  <2>1. pc' = pc /\ conns' = [conns EXCEPT ![1] = Carrying(conns[1], frames)]
        /\ Len(conns) = 1 /\ conns[1].up /\ pc[home].queue = <<>>
    BY <1>2 DEF ClientSend, OneLane
  <2>2. conns[1] \in Conn(Ids) /\ DOMAIN conns = 1..1
    BY <2>1, <1>1, Elements DEF LinkInv
  <2>3. Carrying(conns[1], frames).net = conns[1].net \o frames /\ Carrying(conns[1], frames).up
    BY <2>1, <2>2 DEF Carrying, Conn
  <2>4. DOMAIN conns' = 1..1 /\ conns'[1] = Carrying(conns[1], frames)
    BY <2>1, <2>2
  <2>5. Len(conns') = 1 /\ conns' # <<>> /\ conns # <<>>
    <3>1. DOMAIN <<>> = {} /\ 1 \in DOMAIN conns /\ 1 \in DOMAIN conns'
      BY <2>2, <2>4, EmptySeq, LenProperties
    <3>2. conns' = [i \in 1..1 |-> conns'[i]]
      BY <2>1, <2>2
    <3> QED BY <3>1, <3>2
  <2> QED BY <1>2, <2>1, <2>3, <2>4, <2>5
<1>3. CASE pc[home].sock # "connected"
  <2>1. pc' = [pc EXCEPT ![home] = Queueing(pc[home], frames)] /\ conns' = conns
    BY <1>3 DEF ClientSend
  <2>2. Queueing(pc[home], frames).sock = "connecting"
        /\ Queueing(pc[home], frames).queue = pc[home].queue \o frames
    BY <1>1 DEF Queueing, PeerConn
  <2> QED BY <1>1, <1>3, <2>1, <2>2
<1> QED BY <1>2, <1>3

(* Sent frames join the lane where they stay in order.                     *)
LEMMA SentOrder ==
  ASSUME LinkInv, OneLane, NEW frames, ClientSend(home, frames),
         peer' \in {NoAddr, home}, home' = home, got' = got, outbox' = <<>>,
         Ordered(StoredRows, Lane, pc[home].queue \o frames, <<>>),
         pc[home].queue = <<>> => Ordered(StoredRows, Lane \o frames, pc[home].queue, <<>>)
  PROVE  OneLane' /\ Ordered(StoredRows, Lane, pc[home].queue, outbox)'
<1>1. StoredRows' = StoredRows
  BY DEF StoredRows
<1>2. \A a \in Addrs \ {home} : pc'[a] = pc[a]
  BY LaneSent
<1>3. CASE /\ pc[home].sock = "connected" /\ pc[home].queue = <<>> /\ pc' = pc
           /\ Len(conns') = 1 /\ conns'[1].up /\ conns' # <<>> /\ conns # <<>>
           /\ conns'[1].net = conns[1].net \o frames
  <2>1. Lane' = Lane \o frames
    BY <1>3 DEF Lane
  <2>2. OneLane'
    BY <1>2, <1>3 DEF OneLane
  <2> QED BY <1>1, <1>3, <2>1, <2>2
<1>4. CASE /\ pc[home].sock # "connected" /\ pc'[home].sock # "connected"
           /\ pc'[home].queue = pc[home].queue \o frames /\ conns' = conns
  <2>1. Lane' = Lane
    BY <1>4 DEF Lane
  <2>2. OneLane'
    BY <1>2, <1>4 DEF OneLane
  <2> QED BY <1>1, <1>4, <2>1, <2>2
<1> QED BY <1>3, <1>4, LaneSent

(* What each action does to the order.                                     *)
LEMMA SendMessageOrder ==
  ASSUME LinkInv, OutboxDrained, OneLane, Ordered(StoredRows, Lane, pc[home].queue, outbox), SendMessage
  PROVE  OneLane' /\ Ordered(StoredRows, Lane, pc[home].queue, outbox)'
<1>1. Len(rows) \in Nat /\ Ids = 1..Len(rows)
  BY Elements DEF LinkInv
<1>2. PICK id \in Nat : id = Len(rows) + 1
  BY <1>1
<1> DEFINE S == Ids \union {Hello}
           T == S \union {id}
           Q == pc[home].queue
<1>3. /\ StoredRows \in Seq(S) /\ Lane \in Seq(S) /\ Q \in Seq(S) /\ outbox \in Seq(S)
      /\ In(StoredRows) \union In(Lane) \union In(Q) \union In(outbox) \subseteq Ids
  BY LaneTypes
<1>4. StoredRows \in Seq(T) /\ Lane \in Seq(T) /\ Q \in Seq(T) /\ outbox \in Seq(T)
  <2>1. S \subseteq T
    OBVIOUS
  <2> HIDE DEF S, T
  <2> QED BY <2>1, <1>3, SeqMonotonic
<1>5. \A y \in In(StoredRows) \union In(Lane) \union In(Q) \union In(outbox) : y < id
  BY <1>1, <1>2, <1>3
<1>6. id \in T
  OBVIOUS
<1>7. /\ Ordered(StoredRows, Lane, Q, outbox \o <<id>>)
      /\ outbox = <<>> => Ordered(StoredRows, Lane, Q \o <<id>>, outbox)
      /\ Q = <<>> /\ outbox = <<>> => Ordered(StoredRows, Lane \o <<id>>, Q, outbox)
  <2> HIDE DEF T, Q
  <2>1. Ordered(StoredRows, Lane, Q, outbox)
    BY DEF Q
  <2> QED BY <2>1, <1>4, <1>5, <1>6, OrderedNew
<1>8. CASE peer = NoAddr
  <2>1. outbox' = Append(outbox, id) /\ UNCHANGED <<peer, pc, conns, got, home>>
    BY <1>2, <1>8 DEF SendMessage
  <2>2. outbox' = outbox \o <<id>>
    <3> HIDE DEF T
    <3> QED BY <2>1, <1>4, <1>6, AppendIsConcat
  <2>3. StoredRows' = StoredRows /\ Lane' = Lane /\ OneLane'
    BY <2>1 DEF StoredRows, Lane, OneLane
  <2> QED BY <2>1, <2>2, <2>3, <1>7
<1>9. CASE peer # NoAddr
  <2>1. ClientSend(home, <<id>>) /\ outbox = <<>> /\ UNCHANGED <<outbox, peer, got, home>>
    BY <1>2, <1>9 DEF SendMessage, OneLane, OutboxDrained
  <2>2. PICK frames : frames = <<id>>
    OBVIOUS
  <2>3. peer' \in {NoAddr, home} /\ outbox' = <<>>
    BY <2>1 DEF OneLane
  <2> QED BY <2>1, <2>2, <2>3, <1>7, SentOrder
<1> QED BY <1>8, <1>9

LEMMA PeersChangedOrder ==
  ASSUME LinkInv, OneLane, Ordered(StoredRows, Lane, pc[home].queue, outbox), PeersChanged
  PROVE  OneLane' /\ Ordered(StoredRows, Lane, pc[home].queue, outbox)'
<1> DEFINE T == Ids \union {Hello}
           Q == pc[home].queue
<1>1. /\ peer' = home /\ outbox' = <<>> /\ UNCHANGED <<got, home>>
      /\ IF outbox = <<>> THEN UNCHANGED <<pc, conns>> ELSE ClientSend(home, outbox)
  BY DEF PeersChanged, FlushOutbox
<1>2. CASE outbox = <<>>
  <2>1. UNCHANGED <<pc, conns, got, home, outbox>>
    BY <1>1, <1>2
  <2>2. StoredRows' = StoredRows /\ Lane' = Lane /\ OneLane'
    BY <1>1, <2>1 DEF StoredRows, Lane, OneLane
  <2> QED BY <2>1, <2>2
<1>3. CASE outbox # <<>>
  <2>1. StoredRows \in Seq(T) /\ Lane \in Seq(T) /\ Q \in Seq(T) /\ outbox \in Seq(T)
    BY LaneTypes
  <2>2. /\ Ordered(StoredRows, Lane, Q \o outbox, <<>>)
        /\ Q = <<>> => Ordered(StoredRows, Lane \o outbox, Q, <<>>)
    <3> HIDE DEF T, Q
    <3>1. Ordered(StoredRows, Lane, Q, outbox)
      BY DEF Q
    <3> QED BY <3>1, <2>1, OrderedFlush
  <2>3. PICK frames : frames = outbox
    OBVIOUS
  <2> QED BY <1>1, <1>3, <2>2, <2>3, SentOrder
<1> QED BY <1>2, <1>3

LEMMA ConnectedOrder ==
  ASSUME LinkInv, OneLane, Ordered(StoredRows, Lane, pc[home].queue, outbox),
         NEW a \in Addrs, Connected(a)
  PROVE  OneLane' /\ Ordered(StoredRows, Lane, pc[home].queue, outbox)'
<1> DEFINE T == Ids \union {Hello}
           q == pc[home].queue
           k == [up |-> TRUE, net |-> <<Hello>> \o q, id |-> "address"]
<1>1. /\ a = home /\ conns = <<>> /\ UNCHANGED <<peer, home, outbox, got>>
      /\ conns' = Append(conns, k)
      /\ pc' = [pc EXCEPT ![home] = [sock |-> "connected", queue |-> <<>>, conn |-> Len(conns) + 1]]
  BY DEF Connected, OneLane, Greeting
<1>2. pc \in [Addrs -> PeerConn(Ids)] /\ home \in Addrs
  BY DEF LinkInv, TypeOK
<1>3. conns' = <<k>> /\ Len(conns) = 0 /\ Len(conns') = 1 /\ conns'[1] = k /\ conns' # <<>>
  <2> HIDE DEF k
  <2> QED BY <1>1
<1>4. /\ pc'[home].sock = "connected" /\ pc'[home].queue = <<>> /\ pc'[home].conn = 1
      /\ \A b \in Addrs \ {home} : pc'[b] = pc[b]
  BY <1>1, <1>2, <1>3
<1>5. OneLane'
  BY <1>1, <1>3, <1>4 DEF OneLane
<1>6. Lane = <<>> /\ Lane' = <<Hello>> \o q /\ StoredRows' = StoredRows
  BY <1>1, <1>3 DEF Lane, StoredRows
<1>7. Ordered(StoredRows, <<Hello>> \o q, <<>>, outbox)
  <2>1. StoredRows \in Seq(T) /\ q \in Seq(T) /\ outbox \in Seq(T) /\ Hello \in T
    BY LaneTypes
  <2> HIDE DEF T, q
  <2>2. Ordered(StoredRows, <<>>, q, outbox)
    BY <1>6 DEF q
  <2> QED BY <2>1, <2>2, OrderedGreeting
<1> QED BY <1>1, <1>4, <1>5, <1>6, <1>7

(* Ranges from one tell their ends.                                        *)
LEMMA SameLength ==
  ASSUME NEW m \in Nat, NEW n \in Nat, 1..m = 1..n
  PROVE  m = n
<1>1. m \in 1..n \/ m = 0
  OBVIOUS
<1>2. n \in 1..m \/ n = 0
  OBVIOUS
<1> QED BY <1>1, <1>2

LEMMA ReceiveOrder ==
  ASSUME LinkInv, OneLane, Ordered(StoredRows, Lane, pc[home].queue, outbox),
         NEW c \in Conns, Receive(c)
  PROVE  OneLane' /\ Ordered(StoredRows, Lane, pc[home].queue, outbox)'
<1> DEFINE T == Ids \union {Hello}
           q == conns[c].net
<1>1. /\ c \in DOMAIN conns /\ q # <<>> /\ q \in Seq(T)
      /\ DOMAIN conns' = DOMAIN conns /\ conns'[c].net = Tail(q) /\ conns'[c].up = conns[c].up
      /\ \/ StoredRows' = StoredRows
         \/ Head(q) \in Ids /\ Head(q) # Hello /\ StoredRows' = StoredRows \o <<Head(q)>>
  BY ReceivedRows DEF LinkInv
<1>2. UNCHANGED <<peer, pc, home, outbox>> /\ conns' \in Seq(Conn(Ids)) /\ DOMAIN conns = 1..Len(conns)
  <2>1. LinkInv' /\ UNCHANGED <<peer, pc, home, outbox, rows>>
    BY ReceiveKeeps DEF Keeps, Receive
  <2> QED BY <2>1, Elements DEF LinkInv, TypeOK, Ids
<1>3. conns # <<>> /\ conns' # <<>> /\ Len(conns') = Len(conns)
  <2>1. DOMAIN <<>> = {}
    BY SmallFacts, EmptySeq, LenProperties
  <2>2. DOMAIN conns' = 1..Len(conns') /\ Len(conns') \in Nat /\ Len(conns) \in Nat
    BY <1>2, LenProperties, Elements DEF LinkInv
  <2>3. Len(conns') = Len(conns)
    <3>1. 1..Len(conns') = 1..Len(conns)
      BY <2>2, <1>1, <1>2
    <3> QED BY <3>1, <2>2, SameLength
  <2>4. conns # <<>> /\ conns' # <<>>
    BY <2>1, <1>1
  <2> QED BY <2>3, <2>4
<1>4. c = 1 /\ OneLane'
  <2>1. pc[home].sock = "connected" /\ Len(conns) = 1
    BY <1>3 DEF OneLane
  <2>2. c = 1
    BY <2>1, <1>1, <1>2
  <2> QED BY <2>1, <2>2, <1>1, <1>2, <1>3 DEF OneLane
<1>5. Lane = q /\ Lane' = Tail(q)
  BY <1>1, <1>3, <1>4 DEF Lane
<1>6. /\ Ordered(StoredRows, Tail(Lane), pc[home].queue, outbox)
      /\ Head(Lane) # Hello => Ordered(StoredRows \o <<Head(Lane)>>, Tail(Lane), pc[home].queue, outbox)
  <2>1. StoredRows \in Seq(T) /\ Lane \in Seq(T) /\ pc[home].queue \in Seq(T) /\ outbox \in Seq(T)
        /\ Lane # <<>>
    BY <1>1, <1>5, LaneTypes
  <2> HIDE DEF T
  <2> QED BY <2>1, OrderedReceive
<1> QED BY <1>1, <1>2, <1>4, <1>5, <1>6

LEMMA StepOrder == ASSUME LinkInv, OutboxDrained, OrderInv, [Next]_vars PROVE OrderInv'
<1> SUFFICES ASSUME faults' = 0
             PROVE  OneLane' /\ Ordered(StoredRows, Lane, pc[home].queue, outbox)'
  BY DEF OrderInv
<1>0. faults \in Nat /\ ~Fault
  <2>1. faults \in Nat
    BY BoundsAssumption DEF LinkInv, TypeOK
  <2> QED BY <2>1 DEF Fault
<1>1. faults = 0
  <2>1. faults' = faults
    BY <1>0 DEF Next, SendMessage, PeersChanged, PeerDropped, Connected, ConnectFails, Disconnected,
                Receive, Breaks, SetBlocked, RestartA, RestartB, vars
  <2> QED BY <2>1
<1>2. OneLane /\ Ordered(StoredRows, Lane, pc[home].queue, outbox)
  BY <1>1 DEF OrderInv
<1>3. CASE SendMessage
  BY <1>2, <1>3, SendMessageOrder
<1>4. CASE PeersChanged
  BY <1>2, <1>4, PeersChangedOrder
<1>5. CASE PeerDropped \/ UNCHANGED vars
  <2>1. UNCHANGED <<pc, conns, got, home, outbox>> /\ peer' \in {peer, NoAddr}
    BY <1>5 DEF PeerDropped, vars
  <2>2. StoredRows' = StoredRows /\ Lane' = Lane /\ OneLane'
    BY <1>2, <2>1 DEF StoredRows, Lane, OneLane
  <2> QED BY <1>2, <2>1, <2>2
<1>6. ASSUME NEW a \in Addrs, Connected(a)
      PROVE  OneLane' /\ Ordered(StoredRows, Lane, pc[home].queue, outbox)'
  BY <1>2, <1>6, ConnectedOrder
<1>7. ASSUME NEW a \in Addrs, ConnectFails(a) \/ Disconnected(a) PROVE FALSE
  <2>1. pc[a].sock # "unconnected"
    BY <1>7 DEF ConnectFails, Disconnected
  <2>2. a = home
    BY <2>1, <1>2 DEF OneLane
  <2>3. ~ConnectFails(a)
    BY <2>2, <1>0 DEF ConnectFails
  <2> QED BY <2>2, <2>3, <1>2, <1>7 DEF OneLane, Disconnected
<1>8. ASSUME NEW c \in Conns, Receive(c)
      PROVE  OneLane' /\ Ordered(StoredRows, Lane, pc[home].queue, outbox)'
  BY <1>2, <1>8, ReceiveOrder
<1>9. ~SetBlocked /\ ~RestartA /\ ~RestartB /\ \A c \in Conns : ~Breaks(c)
  BY <1>0 DEF SetBlocked, RestartA, RestartB, Breaks
<1> QED BY <1>3, <1>4, <1>5, <1>6, <1>7, <1>8, <1>9 DEF Next

LEMMA InitOrder == Init => OrderInv
<1> SUFFICES ASSUME Init PROVE OneLane /\ Ordered(StoredRows, Lane, pc[home].queue, outbox)
  BY DEF OrderInv
<1>1. OneLane
  BY DEF Init, OneLane, Unconnected
<1>2. Lane = <<>> /\ pc[home].queue = <<>> /\ outbox = <<>>
  BY DEF Init, Lane, Unconnected
<1>3. DOMAIN StoredRows = {}
  BY EmptySeq, LenProperties DEF Init, StoredRows
<1>4. Rising(StoredRows) /\ In(StoredRows) = {}
  BY <1>3 DEF Rising, In
<1> QED BY <1>1, <1>2, <1>4, RisingSmall DEF Ordered, Ahead

(* While nothing has failed there is one lane from A to B, and what is     *)
(* stored, on the connection, queued and in the outbox is in order along   *)
(* it (App.cpp:60-63, ChatClient.cpp:63-69, 122-134).                      *)
THEOREM StoredInOrder == Spec => []InOrder
<1>1. Init => LinkInv /\ OutboxDrained /\ OrderInv
  BY InitInv, InitOrder DEF IdInv
<1>2. LinkInv /\ OutboxDrained /\ OrderInv /\ [Next]_vars => (LinkInv /\ OutboxDrained /\ OrderInv)'
  BY StepKeeps, StepOrder DEF Keeps
<1>3. LinkInv /\ OrderInv => InOrder
  <2> SUFFICES ASSUME LinkInv, OrderInv, faults = 0,
                      NEW i \in DOMAIN got, NEW j \in DOMAIN got, i < j
               PROVE  got[i].row < got[j].row
    BY DEF InOrder
  <2>1. Rising(StoredRows) /\ DOMAIN StoredRows = DOMAIN got /\ StoredRows \in Seq(Ids)
    BY TypesAt DEF OrderInv, Ordered, LinkInv
  <2>2. StoredRows[i] \in Ids /\ StoredRows[j] \in Ids /\ Hello \notin Ids
    BY <2>1, ElementOfSeq, LenProperties, Elements DEF LinkInv, Hello
  <2> QED BY <2>1, <2>2 DEF Rising, StoredRows
<1> QED BY <1>1, <1>2, <1>3, PTL DEF Spec

=============================================================================
