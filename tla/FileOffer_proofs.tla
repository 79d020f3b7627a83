-------------------------- MODULE FileOffer_proofs --------------------------
(***************************************************************************)
(* Proofs about FileOffer, for every number of offers, failures, files and *)
(* directories.                                                            *)
(***************************************************************************)
EXTENDS FileOffer, SequenceTheorems, TLAPS

(* What the helpers on sequences and rows return.                          *)
LEMMA RemoveAtFacts ==
  ASSUME NEW T, NEW q \in Seq(T), NEW i \in DOMAIN q
  PROVE  /\ RemoveAt(q, i) \in Seq(T)
         /\ Len(RemoveAt(q, i)) = Len(q) - 1
         /\ \A j \in 1..(Len(q) - 1) : RemoveAt(q, i)[j] = IF j < i THEN q[j] ELSE q[j + 1]
<1> DEFINE a == SubSeq(q, 1, i - 1)
           b == SubSeq(q, i + 1, Len(q))
<1>1. i \in 1..Len(q) /\ Len(q) \in Nat
  BY LenProperties
<1>2. \A j \in 1..Len(q) : q[j] \in T
  BY ElementOfSeq
<1>3. a \in Seq(T) /\ Len(a) = i - 1 /\ \A j \in 1..(i - 1) : a[j] = q[j]
  <2>1. \A j \in 1..(i - 1) : q[j] \in T
    BY <1>1, <1>2
  <2> QED BY <2>1, <1>1, SubSeqProperties
<1>4. b \in Seq(T) /\ Len(b) = Len(q) - i /\ \A j \in 1..(Len(q) - i) : b[j] = q[i + j]
  <2>1. \A j \in (i + 1)..Len(q) : q[j] \in T
    BY <1>1, <1>2
  <2> QED BY <2>1, <1>1, SubSeqProperties
<1>5. RemoveAt(q, i) = a \o b
  BY DEF RemoveAt
<1> HIDE DEF a, b
<1> QED BY <1>1, <1>3, <1>4, <1>5, ConcatProperties

LEMMA TruncatedFacts ==
  ASSUME NEW T, NEW q \in Seq(T), NEW t \in Truncated(q)
  PROVE  /\ t \in Seq(T) /\ Len(t) <= Len(q)
         /\ \A i \in DOMAIN t : t[i] = q[i]
<1>1. PICK n \in 0..Len(q) : t = SubSeq(q, 1, n)
  BY DEF Truncated
<1>2. \A j \in 1..n : q[j] \in T
  BY <1>1, ElementOfSeq, LenProperties
<1> QED BY <1>1, <1>2, LenProperties, SubSeqProperties

(* A function on 1..n is a sequence.                                       *)
LEMMA FunctionIsSeq ==
  ASSUME NEW T, NEW n \in Nat, NEW f \in [1..n -> T]
  PROVE  f \in Seq(T) /\ Len(f) = n
  BY SeqDef, LenProperties

(* An update touches the status and the path of one row.                   *)
LEMMA UpdateRow ==
  ASSUME NEW T, NEW rows \in Seq(T), NEW id, NEW status, NEW path,
         \A r \in T : Updated(r, status, path) \in T
  PROVE  LET new == UpdateMessage(rows, id, status, path)
         IN /\ new \in Seq(T) /\ Len(new) = Len(rows)
            /\ \A r \in DOMAIN rows :
                  new[r] \in {rows[r], Updated(rows[r], status, path)}
            /\ \A r \in DOMAIN rows : r # id => new[r] = rows[r]
<1> DEFINE row == Updated(rows[id], status, path)
           new == UpdateMessage(rows, id, status, path)
<1>1. DOMAIN rows = 1..Len(rows)
  BY LenProperties
<1>2. CASE Present(rows, id)
  <2>1. id \in 1..Len(rows)
    BY <1>1, <1>2 DEF Present
  <2>2. row \in T
    BY <2>1, ElementOfSeq
  <2>3. new = [rows EXCEPT ![id] = row]
    BY <1>2 DEF UpdateMessage
  <2> QED BY <1>1, <2>1, <2>2, <2>3, ExceptSeq
<1>3. CASE ~Present(rows, id)
  BY <1>3 DEF UpdateMessage
<1> QED BY <1>2, <1>3

LEMMA UpdateOffer ==
  ASSUME NEW rows \in Seq(OfferRow), NEW id, NEW status \in SendStatus,
         NEW path \in {Local, NoPath}
  PROVE  LET new == UpdateMessage(rows, id, status, path)
         IN /\ new \in Seq(OfferRow) /\ Len(new) = Len(rows)
            /\ \A s \in DOMAIN rows : new[s].status \in {rows[s].status, status}
<1>1. \A r \in OfferRow : /\ Updated(r, status, path) \in OfferRow
                           /\ Updated(r, status, path).status = status
  BY DEF OfferRow, Updated
<1>2. \A s \in DOMAIN rows : rows[s] \in OfferRow
  BY ElementOfSeq, LenProperties
<1> QED BY <1>1, <1>2, UpdateRow

LEMMA UpdateReceived ==
  ASSUME NEW rows \in Seq(RecvRow), NEW id, NEW status \in RecvStatus,
         NEW path \in Dirs \union {NoPath}
  PROVE  LET new == UpdateMessage(rows, id, status, path)
         IN /\ new \in Seq(RecvRow) /\ Len(new) = Len(rows)
            /\ \A r \in DOMAIN rows : new[r].remote = rows[r].remote
            /\ \A r \in DOMAIN rows : r # id => new[r] = rows[r]
            /\ \A r \in DOMAIN rows : new[r].status \in {rows[r].status, status}
<1>1. \A r \in RecvRow : /\ Updated(r, status, path) \in RecvRow
                          /\ Updated(r, status, path).status = status
                          /\ Updated(r, status, path).remote = r.remote
  BY DEF RecvRow, Updated
<1>2. \A r \in DOMAIN rows : rows[r] \in RecvRow
  BY ElementOfSeq, LenProperties
<1> QED BY <1>1, <1>2, UpdateRow

(* Deleting the history keeps the rows' places, statuses and ids.          *)
LEMMA ClearOffers ==
  ASSUME NEW rows \in Seq(OfferRow)
  PROVE  /\ ClearPeer(rows) \in Seq(OfferRow) /\ Len(ClearPeer(rows)) = Len(rows)
         /\ \A s \in DOMAIN rows : ClearPeer(rows)[s].status = rows[s].status
<1>1. \A s \in DOMAIN rows : rows[s] \in OfferRow
  BY ElementOfSeq, LenProperties
<1>2. \A r \in OfferRow : /\ Deleted(r) \in OfferRow
                           /\ Deleted(r).status = r.status
  BY DEF OfferRow, Deleted
<1>3. ClearPeer(rows) \in [1..Len(rows) -> OfferRow]
  BY <1>1, <1>2, LenProperties DEF ClearPeer
<1>4. \A s \in DOMAIN rows : ClearPeer(rows)[s] = Deleted(rows[s])
  BY DEF ClearPeer
<1> QED BY <1>1, <1>2, <1>3, <1>4, FunctionIsSeq, LenProperties

LEMMA ClearReceived ==
  ASSUME NEW rows \in Seq(RecvRow)
  PROVE  /\ ClearPeer(rows) \in Seq(RecvRow) /\ Len(ClearPeer(rows)) = Len(rows)
         /\ \A r \in DOMAIN rows : /\ ClearPeer(rows)[r].remote = rows[r].remote
                                   /\ ClearPeer(rows)[r].status = rows[r].status
<1>1. \A r \in DOMAIN rows : rows[r] \in RecvRow
  BY ElementOfSeq, LenProperties
<1>2. \A r \in RecvRow : /\ Deleted(r) \in RecvRow
                          /\ Deleted(r).status = r.status
                          /\ Deleted(r).remote = r.remote
  BY DEF RecvRow, Deleted
<1>3. ClearPeer(rows) \in [1..Len(rows) -> RecvRow]
  BY <1>1, <1>2, LenProperties DEF ClearPeer
<1>4. \A r \in DOMAIN rows : ClearPeer(rows)[r] = Deleted(rows[r])
  BY DEF ClearPeer
<1> QED BY <1>1, <1>2, <1>3, <1>4, FunctionIsSeq, LenProperties

-----------------------------------------------------------------------------
(* What type correctness says of the sequences, in the form the provers    *)
(* need.                                                                   *)
LEMMA Elements ==
  ASSUME TypeOK
  PROVE  /\ \A s \in DOMAIN sent : sent[s] \in OfferRow
         /\ \A r \in DOMAIN recv : recv[r] \in RecvRow
         /\ \A c \in DOMAIN conns : conns[c] \in Conn
         /\ \A i \in DOMAIN pendingInbound : pendingInbound[i] \in Nat
         /\ toRecv # <<>> => Head(toRecv) \in DOMAIN sent /\ Tail(toRecv) \in Seq(DOMAIN sent)
         /\ toSend # <<>> => Head(toSend) \in Reply /\ Tail(toSend) \in Seq(Reply)
         /\ DOMAIN sent = 1..Len(sent) /\ Len(sent) \in Nat
         /\ DOMAIN recv = 1..Len(recv) /\ Len(recv) \in Nat
         /\ DOMAIN conns = 1..Len(conns) /\ Len(conns) \in Nat
         /\ DOMAIN pendingInbound = 1..Len(pendingInbound) /\ Len(pendingInbound) \in Nat
  BY ElementOfSeq, LenProperties, HeadTailProperties DEF TypeOK

LEMMA FaultType ==
  ASSUME TypeOK, Fault
  PROVE  faults' \in 0..MaxFaults
  BY BoundsAssumption DEF TypeOK, Fault

LEMMA InitType == Init => TypeOK
  BY EmptySeq, BoundsAssumption, DirsAssumption DEF Init, TypeOK, Apps

(* A click of R's user changes a row and sends an answer.                  *)
LEMMA AnswerType ==
  ASSUME TypeOK, NEW r \in DOMAIN recv, NEW status \in RecvStatus,
         NEW type \in {"FileAccept", "FileReject", "RequestAgain"}, Answer(r, status, type),
         pendingInbound' \in Seq(Nat), downloadDir' \in Dirs
  PROVE  TypeOK'
<1>1. recv[r] \in RecvRow /\ r \in Nat
  BY Elements
<1>2. recv[r].path \in Dirs \union {NoPath} /\ recv[r].remote \in Nat
  BY <1>1 DEF RecvRow
<1>3. recv' \in Seq(RecvRow)
  BY <1>2, UpdateReceived DEF TypeOK, Answer
<1>4. toSend' \in Seq(Reply)
  BY <1>1, <1>2, AppendProperties DEF TypeOK, Answer, Reply
<1> QED BY <1>3, <1>4 DEF TypeOK, Answer, senderVars

(* The answer S takes off the wire.                                        *)
LEMMA TakeReplyType ==
  ASSUME TypeOK, NEW type, TakeReply(type)
  PROVE  /\ Head(toSend) \in Reply /\ toSend' \in Seq(Reply)
         /\ UNCHANGED <<outbox, recv, pendingInbound, downloadDir, online, toRecv, faults>>
  BY Elements DEF TakeReply, receiverVars

LEMMA StartClientType ==
  ASSUME TypeOK, NEW s \in DOMAIN sent, NEW local \in Nat, StartClient(s, local)
  PROVE  /\ sent' \in Seq(OfferRow) /\ Len(sent') = Len(sent) /\ DOMAIN sent' = DOMAIN sent
         /\ conns' \in Seq(Conn)
<1> DEFINE k == [offer |-> s, declared |-> local, client |-> TRUE, written |-> 0,
                 eos |-> FALSE, xfer |-> TRUE, cut |-> FALSE, begun |-> 0, ended |-> 0,
                 saving |-> NoPath, entry |-> NoEntry, placed |-> {}]
<1>1. k \in Conn
  BY Elements DEF Conn, NoEntry
<1>2. conns' = conns \/ conns' = Append(conns, k)
  BY DEF StartClient
<1> HIDE DEF k
<1>3. conns' \in Seq(Conn)
  <2>1. conns \in Seq(Conn)
    BY DEF TypeOK
  <2> QED BY <1>1, <1>2, <2>1, AppendProperties
<1>4. sent' \in Seq(OfferRow) /\ Len(sent') = Len(sent)
  BY UpdateOffer DEF StartClient, TypeOK, SendStatus
<1> QED BY <1>3, <1>4, LenProperties DEF TypeOK

(* A step of connection c that may update the row it carries on S's side   *)
(* or the row of its entry on R's side.                                    *)
LEMMA ConnType ==
  ASSUME TypeOK, NEW c \in DOMAIN conns, NEW k \in Conn, conns' = [conns EXCEPT ![c] = k],
         UNCHANGED <<outbox, pendingOffers, downloadDir, netVars, online>>,
         faults' \in 0..MaxFaults, pendingInbound' \in Seq(Nat),
         \/ UNCHANGED sent
         \/ \E status \in SendStatus, path \in {Local, NoPath} :
               sent' = UpdateMessage(sent, conns[c].offer, status, path),
         \/ UNCHANGED recv
         \/ \E status \in RecvStatus, path \in Dirs \union {NoPath} :
               recv' = UpdateMessage(recv, conns[c].entry, status, path)
  PROVE  TypeOK'
<1>1. conns' \in Seq(Conn)
  BY ExceptSeq, LenProperties DEF TypeOK
<1>2. sent' \in Seq(OfferRow) /\ Len(sent') = Len(sent)
  BY UpdateOffer DEF TypeOK
<1>3. DOMAIN sent' = DOMAIN sent
  BY <1>2, LenProperties DEF TypeOK
<1>4. recv' \in Seq(RecvRow)
  <2>1. recv \in Seq(RecvRow)
    BY DEF TypeOK
  <2> QED BY <2>1, UpdateReceived
<1> QED BY <1>1, <1>2, <1>3, <1>4 DEF TypeOK, netVars

LEMMA StreamType ==
  ASSUME TypeOK, NEW c \in Tids, Stream(c) \/ Break(c)
  PROVE  TypeOK'
<1>1. SUFFICES ASSUME c \in DOMAIN conns PROVE TypeOK'
  BY DEF Stream, Break, WriteFile, FinishSending, BeginFile, EndFile, FinishBatch,
         ClientFails, RejectFile, XferFails
<1> DEFINE k == conns[c]
<1>2. /\ k \in Conn /\ downloadDir \in Dirs /\ k.saving \in Dirs \union {NoPath}
      /\ k.written + 1 \in Nat /\ k.begun + 1 \in Nat /\ k.ended + 1 \in Nat
      /\ k.placed \union {downloadDir} \in SUBSET Dirs
      /\ pendingInbound \in Seq(Nat) /\ faults \in 0..MaxFaults
  <2>1. k \in Conn /\ downloadDir \in Dirs
    BY <1>1, Elements DEF TypeOK
  <2>2. pendingInbound \in Seq(Nat) /\ faults \in 0..MaxFaults
    BY DEF TypeOK
  <2> HIDE DEF k
  <2> QED BY <2>1, <2>2 DEF Conn
<1> HIDE DEF k
<1>3. CASE WriteFile(c)
  <2>1. [k EXCEPT !.written = @ + 1] \in Conn
    BY <1>2 DEF Conn
  <2> QED BY <1>1, <1>2, <1>3, <2>1, ConnType
          DEF k, WriteFile, SendStatus, receiverVars
<1>4. CASE FinishSending(c)
  <2>1. [k EXCEPT !.eos = TRUE, !.client = FALSE] \in Conn
    BY <1>2 DEF Conn
  <2> QED BY <1>1, <1>2, <1>4, <2>1, ConnType
          DEF k, FinishSending, SendStatus, receiverVars
<1>5. CASE BeginFile(c)
  <2> DEFINE Begun(r) == [k EXCEPT !.begun = @ + 1, !.saving = downloadDir,
                                   !.placed = @ \union {downloadDir}, !.entry = r]
  <2>1. \A r \in Nat : Begun(r) \in Conn
    BY <1>2 DEF Conn
  <2>2. PICK r \in Nat : /\ conns' = [conns EXCEPT ![c] = Begun(r)]
                         /\ pendingInbound' \in Seq(Nat)
    <3>1. CASE k.entry # NoEntry \/ EntryPlace(k) = {}
      BY <1>2, <1>5, <3>1 DEF k, BeginFile, Conn
    <3>2. CASE ~(k.entry # NoEntry \/ EntryPlace(k) = {})
      <4>1. PICK i \in EntryPlace(k) :
              /\ conns' = [conns EXCEPT ![c] = Begun(pendingInbound[i])]
              /\ pendingInbound' = RemoveAt(pendingInbound, i)
        BY <1>5, <3>2 DEF k, BeginFile
      <4>2. i \in DOMAIN pendingInbound
        BY DEF EntryPlace
      <4> QED BY <1>2, <4>1, <4>2, RemoveAtFacts, Elements
    <3> QED BY <3>1, <3>2
  <2> HIDE DEF Begun
  <2> QED BY <1>1, <1>2, <1>5, <2>1, <2>2, ConnType DEF k, BeginFile, senderVars
<1>6. CASE EndFile(c)
  <2>1. [k EXCEPT !.ended = @ + 1, !.saving = NoPath] \in Conn
    BY <1>2 DEF Conn
  <2> QED BY <1>1, <1>2, <1>6, <2>1, ConnType
          DEF k, EndFile, UpdateEntry, RecvStatus, senderVars
<1>7. CASE FinishBatch(c)
  <2>1. [k EXCEPT !.xfer = FALSE, !.entry = NoEntry] \in Conn
    BY <1>2 DEF Conn, NoEntry
  <2> QED BY <1>1, <1>2, <1>7, <2>1, ConnType
          DEF k, FinishBatch, UpdateEntry, RecvStatus, senderVars
<1>8. CASE ClientFails(c)
  <2>1. [k EXCEPT !.client = FALSE] \in Conn
    BY <1>2 DEF Conn
  <2> QED BY <1>1, <1>2, <1>8, <2>1, ConnType, FaultType
          DEF k, ClientFails, senderVars, receiverVars
<1>9. CASE RejectFile(c)
  <2>1. [k EXCEPT !.saving = NoPath, !.entry = NoEntry] \in Conn
    BY <1>2 DEF Conn, NoEntry
  <2> QED BY <1>1, <1>2, <1>9, <2>1, ConnType, FaultType
          DEF k, RejectFile, UpdateEntry, RecvStatus, senderVars
<1>10. CASE XferFails(c)
  <2>1. [k EXCEPT !.xfer = FALSE, !.entry = NoEntry, !.saving = NoPath, !.cut = TRUE] \in Conn
    BY <1>2 DEF Conn, NoEntry
  <2> QED BY <1>1, <1>2, <1>10, <2>1, ConnType, FaultType
          DEF k, XferFails, senderVars, receiverVars
<1> QED BY <1>3, <1>4, <1>5, <1>6, <1>7, <1>8, <1>9, <1>10 DEF Stream, Break

LEMMA ClickType ==
  ASSUME TypeOK, Click
  PROVE  TypeOK'
<1>1. ASSUME NEW kind \in Kinds, SendOffer(kind)
      PROVE  TypeOK'
  <2> DEFINE row(status) == [kind |-> kind, status |-> status, path |-> Local,
                             deleted |-> FALSE]
             s == Len(sent) + 1
  <2>1. PICK status \in {"WaitingAccept", "Pending"} : sent' = Append(sent, row(status))
    BY <1>1 DEF SendOffer, AddMessage
  <2>2. row(status) \in OfferRow
    BY DEF OfferRow, SendStatus
  <2> HIDE DEF row
  <2>3. sent' \in Seq(OfferRow) /\ Len(sent') = s
    BY <2>1, <2>2, AppendProperties DEF TypeOK
  <2>4. DOMAIN sent' = 1..s /\ DOMAIN sent \subseteq DOMAIN sent' /\ s \in DOMAIN sent'
    BY <2>3, Elements, LenProperties
  <2>5. outbox \in Seq(DOMAIN sent') /\ toRecv \in Seq(DOMAIN sent')
    BY <2>4, SeqMonotonic DEF TypeOK
  <2>6. outbox' \in Seq(DOMAIN sent') /\ toRecv' \in Seq(DOMAIN sent')
    <3>1. outbox' \in {outbox, Append(outbox, s)} /\ toRecv' \in {toRecv, Append(toRecv, s)}
      BY <1>1 DEF SendOffer
    <3> DEFINE D == DOMAIN sent'
    <3>2. outbox \in Seq(D) /\ toRecv \in Seq(D) /\ s \in D
      BY <2>4, <2>5
    <3> HIDE DEF D, s
    <3>3. Append(outbox, s) \in Seq(D) /\ Append(toRecv, s) \in Seq(D)
      BY <3>2, AppendProperties
    <3>4. outbox' \in Seq(D) /\ toRecv' \in Seq(D)
      BY <3>1, <3>2, <3>3
    <3> QED BY <3>4 DEF D
  <2>7. Len(sent') \in 0..MaxOffers
    BY <1>1, <2>3, Elements, BoundsAssumption DEF SendOffer
  <2>8. pendingOffers' \subseteq DOMAIN sent'
    BY <1>1, <2>4 DEF SendOffer, TypeOK
  <2>9. UNCHANGED <<recv, pendingInbound, downloadDir, online, toSend, conns, faults>>
    BY <1>1 DEF SendOffer, receiverVars
  <2> QED BY <2>3, <2>6, <2>7, <2>8, <2>9 DEF TypeOK
<1>2. ASSUME NEW r \in Rows, NEW dir \in Dirs, AcceptTransfer(r, dir)
      PROVE  TypeOK'
  <2>1. r \in DOMAIN recv
    BY <1>2 DEF AcceptTransfer, Clickable, Present
  <2>2. pendingInbound' \in Seq(Nat) /\ downloadDir' \in Dirs
    BY <1>2, AppendProperties DEF AcceptTransfer, TypeOK, Rows
  <2> QED BY <1>2, <2>1, <2>2, AnswerType DEF AcceptTransfer, RecvStatus
<1>3. ASSUME NEW r \in Rows, DenyTransfer(r)
      PROVE  TypeOK'
  <2>1. r \in DOMAIN recv
    BY <1>3 DEF DenyTransfer, Clickable, Present
  <2>2. pendingInbound' \in Seq(Nat) /\ downloadDir' \in Dirs
    BY <1>3 DEF DenyTransfer, TypeOK
  <2> QED BY <1>3, <2>1, <2>2, AnswerType DEF DenyTransfer, RecvStatus
<1>4. ASSUME NEW r \in Rows, RequestAgain(r)
      PROVE  TypeOK'
  <2>1. r \in DOMAIN recv
    BY <1>4 DEF RequestAgain, Clickable, Present
  <2>2. pendingInbound' \in Seq(Nat) /\ downloadDir' \in Dirs
    BY <1>4 DEF RequestAgain, TypeOK
  <2> QED BY <1>4, <2>1, <2>2, AnswerType DEF RequestAgain, RecvStatus
<1>5. ASSUME NEW a \in Apps, DeleteHistory(a)
      PROVE  TypeOK'
  <2>1. sent' \in Seq(OfferRow) /\ Len(sent') = Len(sent)
    BY <1>5, ClearOffers DEF DeleteHistory, TypeOK
  <2>2. DOMAIN sent' = DOMAIN sent
    BY <2>1, LenProperties DEF TypeOK
  <2>3. recv' \in Seq(RecvRow)
    BY <1>5, ClearReceived DEF DeleteHistory, TypeOK
  <2>4. faults' \in 0..MaxFaults
    BY <1>5, FaultType DEF DeleteHistory
  <2> QED BY <1>5, <2>1, <2>2, <2>3, <2>4 DEF DeleteHistory, TypeOK, netVars
<1> QED BY <1>1, <1>2, <1>3, <1>4, <1>5 DEF Click

LEMMA RouteType ==
  ASSUME TypeOK, Route
  PROVE  TypeOK'
<1>1. CASE RouteFileRequest
  <2> DEFINE s == Head(toRecv)
             row == [kind |-> sent[s].kind, remote |-> s, status |-> "WaitingAccept",
                     path |-> NoPath, deleted |-> FALSE]
  <2>1. s \in DOMAIN sent /\ s \in Nat /\ sent[s] \in OfferRow /\ toRecv' \in Seq(DOMAIN sent)
    BY <1>1, Elements DEF RouteFileRequest
  <2>2. row \in RecvRow
    BY <2>1 DEF RecvRow, OfferRow, RecvStatus
  <2>3. recv' = Append(recv, row)
    BY <1>1 DEF RouteFileRequest, AddMessage
  <2> HIDE DEF row
  <2>4. recv' \in Seq(RecvRow)
    BY <2>2, <2>3, AppendProperties DEF TypeOK
  <2> QED BY <1>1, <2>1, <2>4 DEF RouteFileRequest, TypeOK, senderVars
<1>2. ASSUME NEW f, f = Head(toSend), NEW type, TakeReply(type),
             \/ /\ f.id \in DOMAIN sent /\ pendingOffers' \subseteq pendingOffers
                /\ StartClient(f.id, f.local)
             \/ UNCHANGED <<sent, pendingOffers, conns>>
      PROVE  TypeOK'
  <2>1. f \in Reply /\ toSend' \in Seq(Reply)
        /\ UNCHANGED <<outbox, recv, pendingInbound, downloadDir, online, toRecv, faults>>
    BY <1>2, TakeReplyType
  <2>2. f.local \in Nat
    BY <2>1 DEF Reply
  <2>3. CASE StartClient(f.id, f.local) /\ f.id \in DOMAIN sent /\ pendingOffers' \subseteq pendingOffers
    BY <2>1, <2>2, <2>3, StartClientType DEF TypeOK
  <2>4. CASE UNCHANGED <<sent, pendingOffers, conns>>
    BY <2>1, <2>4 DEF TypeOK
  <2> QED BY <1>2, <2>3, <2>4
<1>3. CASE RouteFileAccept
  BY <1>2, <1>3 DEF RouteFileAccept, TypeOK
<1>4. CASE RouteFileReject
  <2>1. toSend' \in Seq(Reply)
        /\ UNCHANGED <<outbox, recv, pendingInbound, downloadDir, online, toRecv, faults>>
    BY <1>4, TakeReplyType DEF RouteFileReject
  <2>2. sent' \in Seq(OfferRow) /\ Len(sent') = Len(sent)
    BY <1>4, UpdateOffer DEF RouteFileReject, TypeOK, SendStatus
  <2>3. DOMAIN sent' = DOMAIN sent
    BY <2>2, LenProperties DEF TypeOK
  <2> QED BY <1>4, <2>1, <2>2, <2>3 DEF RouteFileReject, TypeOK
<1>5. CASE RouteRequestAgain
  BY <1>2, <1>5 DEF RouteRequestAgain, Present
<1> QED BY <1>1, <1>3, <1>4, <1>5 DEF Route

LEMMA EnvironmentType ==
  ASSUME TypeOK, Environment
  PROVE  TypeOK'
<1>1. ASSUME NEW a \in Apps, PeerAppears(a)
      PROVE  TypeOK'
  <2>1. ToSet(outbox) \subseteq DOMAIN sent
    BY ElementOfSeq, LenProperties DEF ToSet, TypeOK
  <2>2. toRecv \o outbox \in Seq(DOMAIN sent) /\ <<>> \in Seq(DOMAIN sent)
    BY ConcatProperties, EmptySeq DEF TypeOK
  <2>3. online' \in [Apps -> BOOLEAN]
    BY <1>1 DEF PeerAppears, TypeOK
  <2>4. outbox' \in Seq(DOMAIN sent) /\ toRecv' \in Seq(DOMAIN sent)
        /\ pendingOffers' \subseteq DOMAIN sent
    BY <1>1, <2>1, <2>2 DEF PeerAppears, TypeOK
  <2> QED BY <1>1, <2>3, <2>4 DEF PeerAppears, TypeOK, receiverVars
<1>2. ASSUME NEW a \in Apps, PeerDropped(a)
      PROVE  TypeOK'
  <2>1. sent' \in Seq(OfferRow) /\ Len(sent') = Len(sent)
    BY <1>2, ClearOffers DEF PeerDropped, TypeOK
  <2>2. DOMAIN sent' = DOMAIN sent
    BY <2>1, LenProperties DEF TypeOK
  <2>3. recv' \in Seq(RecvRow)
    BY <1>2, ClearReceived DEF PeerDropped, TypeOK
  <2>4. faults' \in 0..MaxFaults /\ online' \in [Apps -> BOOLEAN]
    BY <1>2, FaultType DEF PeerDropped, TypeOK
  <2> QED BY <1>2, <2>1, <2>2, <2>3, <2>4 DEF PeerDropped, TypeOK, netVars
<1>3. CASE LoseFrames
  <2>1. toRecv' \in Seq(DOMAIN sent) /\ toSend' \in Seq(Reply)
    BY <1>3, TruncatedFacts DEF LoseFrames, TypeOK
  <2> QED BY <1>3, <2>1, FaultType DEF LoseFrames, TypeOK, senderVars, receiverVars
<1>4. CASE RestartS
  <2>1. toRecv' \in Seq(DOMAIN sent) /\ toSend' \in Seq(Reply)
    BY <1>4, TruncatedFacts, EmptySeq DEF RestartS, TypeOK
  <2>2. \A c \in DOMAIN conns : [conns[c] EXCEPT !.client = FALSE] \in Conn
    BY Elements DEF Conn
  <2>3. conns' \in [1..Len(conns) -> Conn]
    BY <1>4, <2>2, Elements DEF RestartS
  <2>4. conns' \in Seq(Conn)
    BY <2>3, Elements, FunctionIsSeq
  <2>5. online' \in [Apps -> BOOLEAN]
    BY <1>4 DEF RestartS, TypeOK
  <2> QED BY <1>4, <2>1, <2>4, <2>5, FaultType DEF RestartS, TypeOK, receiverVars
<1>5. CASE RestartR
  <2>1. toRecv' \in Seq(DOMAIN sent) /\ toSend' \in Seq(Reply) /\ pendingInbound' \in Seq(Nat)
    BY <1>5, TruncatedFacts, EmptySeq DEF RestartR, TypeOK
  <2>2. \A c \in DOMAIN conns : [conns[c] EXCEPT !.xfer = FALSE, !.saving = NoPath,
                                                !.entry = NoEntry, !.cut = @ \/ conns[c].xfer] \in Conn
    BY Elements DEF Conn, NoEntry
  <2>3. conns' \in [1..Len(conns) -> Conn]
    BY <1>5, <2>2, Elements DEF RestartR
  <2>4. conns' \in Seq(Conn)
    BY <2>3, Elements, FunctionIsSeq
  <2>5. online' \in [Apps -> BOOLEAN] /\ downloadDir' \in Dirs
    BY <1>5, DirsAssumption DEF RestartR, TypeOK
  <2> QED BY <1>5, <2>1, <2>4, <2>5, FaultType DEF RestartR, TypeOK, senderVars
<1> QED BY <1>1, <1>2, <1>3, <1>4, <1>5 DEF Environment

(* Every variable keeps its type.                                          *)
LEMMA NextType ==
  ASSUME TypeOK, [Next]_vars
  PROVE  TypeOK'
<1>1. CASE UNCHANGED vars
  BY <1>1 DEF TypeOK, vars, senderVars, receiverVars, netVars
<1> QED BY <1>1, ClickType, RouteType, StreamType, EnvironmentType DEF Next

THEOREM TypeCorrect == Spec => []TypeOK
<1>1. TypeOK /\ [Next]_vars => TypeOK'
  BY NextType
<1> QED BY <1>1, InitType, PTL DEF Spec

-----------------------------------------------------------------------------
(* The entries of R: EntryOwnedOnce is inductive together with             *)
(* EntriesAccepted, since a row can only be accepted once.                 *)
EntriesInv == TypeOK /\ EntriesAccepted /\ EntryOwnedOnce

LEMMA EntryFacts ==
  ASSUME EntriesInv
  PROVE  /\ TypeOK
         /\ \A i \in DOMAIN pendingInbound : /\ pendingInbound[i] \in DOMAIN recv
                                            /\ recv[pendingInbound[i]].status = "Transferring"
         /\ \A c \in DOMAIN conns : conns[c].entry # NoEntry =>
               conns[c].entry \in DOMAIN recv /\ recv[conns[c].entry].status = "Transferring"
         /\ \A i, j \in DOMAIN pendingInbound : i # j => pendingInbound[i] # pendingInbound[j]
         /\ \A c, d \in DOMAIN conns :
               c # d /\ conns[c].entry # NoEntry => conns[c].entry # conns[d].entry
         /\ \A c \in DOMAIN conns, i \in DOMAIN pendingInbound :
               conns[c].entry # pendingInbound[i]
         /\ NoEntry \notin DOMAIN recv
<1>1. TypeOK
  BY DEF EntriesInv
<1>2. NoEntry \notin DOMAIN recv
  BY <1>1, Elements DEF NoEntry
<1> QED BY <1>1, <1>2 DEF EntriesInv, EntriesAccepted, EntryOwnedOnce

(* A step that adds no entry and ends no accepted row.                     *)
LEMMA EntriesFrame ==
  ASSUME EntriesInv, TypeOK',
         \A r \in DOMAIN recv : recv[r].status = "Transferring" =>
            r \in DOMAIN recv' /\ recv'[r].status = "Transferring",
         pendingInbound' = pendingInbound \/ pendingInbound' = <<>>,
         \A c \in DOMAIN conns' : conns'[c].entry # NoEntry =>
            c \in DOMAIN conns /\ conns'[c].entry = conns[c].entry
  PROVE  EntriesInv'
<1>1. NoEntry \notin DOMAIN recv'
  <2>1. \A r \in DOMAIN recv' : r # 0
    BY LenProperties DEF TypeOK
  <2> QED BY <2>1 DEF NoEntry
<1>2. \A i \in DOMAIN pendingInbound' :
        i \in DOMAIN pendingInbound /\ pendingInbound'[i] = pendingInbound[i]
  OBVIOUS
<1>3. EntriesAccepted'
  BY <1>2, EntryFacts DEF EntriesAccepted
<1>4. EntryOwnedOnce'
  <2>1. \A i, j \in DOMAIN pendingInbound' : i # j => pendingInbound'[i] # pendingInbound'[j]
    BY <1>2, EntryFacts
  <2>2. ASSUME NEW c \in DOMAIN conns', NEW d \in DOMAIN conns', c # d,
               conns'[c].entry # NoEntry
        PROVE  conns'[c].entry # conns'[d].entry
    BY <2>2, EntryFacts
  <2>3. ASSUME NEW c \in DOMAIN conns', NEW i \in DOMAIN pendingInbound'
        PROVE  conns'[c].entry # pendingInbound'[i]
    BY <1>2, EntryFacts
  <2> QED BY <2>1, <2>2, <2>3 DEF EntryOwnedOnce
<1> QED BY <1>3, <1>4 DEF EntriesInv

LEMMA AcceptEntries ==
  ASSUME EntriesInv, NEW r \in Rows, NEW dir \in Dirs, AcceptTransfer(r, dir), TypeOK'
  PROVE  EntriesInv'
<1>1. /\ r \in DOMAIN recv /\ recv[r].status = "WaitingAccept" /\ r # NoEntry
      /\ recv' = UpdateMessage(recv, r, "Transferring", recv[r].path)
      /\ pendingInbound' = Append(pendingInbound, r) /\ conns' = conns
  BY EntryFacts DEF AcceptTransfer, Clickable, Present, Answer
<1>2. recv \in Seq(RecvRow) /\ recv[r].path \in Dirs \union {NoPath}
  BY <1>1, EntryFacts, Elements DEF RecvRow, TypeOK
<1>3. /\ DOMAIN recv' = DOMAIN recv
      /\ \A x \in DOMAIN recv : x # r => recv'[x] = recv[x]
      /\ recv'[r].status = "Transferring"
  <2>1. Present(recv, r)
    BY DEF AcceptTransfer, Clickable
  <2>2. recv' = [recv EXCEPT ![r] = Updated(recv[r], "Transferring", recv[r].path)]
    BY <1>1, <2>1 DEF UpdateMessage
  <2>3. Updated(recv[r], "Transferring", recv[r].path).status = "Transferring"
    BY <1>1, EntryFacts, Elements DEF Updated, RecvRow
  <2> QED BY <1>1, <2>2, <2>3
<1>4. /\ DOMAIN pendingInbound' = 1..(Len(pendingInbound) + 1)
      /\ DOMAIN pendingInbound = 1..Len(pendingInbound) /\ Len(pendingInbound) \in Nat
      /\ \A i \in DOMAIN pendingInbound : pendingInbound'[i] = pendingInbound[i]
      /\ pendingInbound'[Len(pendingInbound) + 1] = r
  <2>1. pendingInbound \in Seq(Nat) /\ r \in Nat
    BY EntryFacts DEF TypeOK, Rows
  <2> QED BY <1>1, <2>1, AppendProperties, LenProperties
<1>5. \A i \in DOMAIN pendingInbound : pendingInbound[i] # r
  BY <1>1, EntryFacts
<1>6. \A c \in DOMAIN conns : conns[c].entry # r
  BY <1>1, EntryFacts
<1>7. EntriesAccepted'
  BY <1>1, <1>3, <1>4, EntryFacts DEF EntriesAccepted
<1>8. EntryOwnedOnce'
  BY <1>1, <1>4, <1>5, <1>6, EntryFacts DEF EntryOwnedOnce
<1> QED BY <1>7, <1>8 DEF EntriesInv

LEMMA BeginEntries ==
  ASSUME EntriesInv, NEW c \in Tids, BeginFile(c), TypeOK'
  PROVE  EntriesInv'
<1> DEFINE k == conns[c]
           Begun(r) == [k EXCEPT !.begun = @ + 1, !.saving = downloadDir,
                                 !.placed = @ \union {downloadDir}, !.entry = r]
<1>1. c \in DOMAIN conns /\ recv' = recv
  BY DEF BeginFile
<1>2. k \in Conn
  BY <1>1, EntryFacts, Elements
<1>3. \A r : Begun(r).entry = r
  BY <1>2 DEF Conn
<1>4. CASE k.entry # NoEntry \/ EntryPlace(k) = {}
  <2>1. conns' = [conns EXCEPT ![c] = Begun(k.entry)] /\ pendingInbound' = pendingInbound
    BY <1>4 DEF BeginFile
  <2> HIDE DEF Begun
  <2>2. \A d \in DOMAIN conns' : d \in DOMAIN conns /\ conns'[d].entry = conns[d].entry
    BY <1>1, <1>3, <2>1
  <2> QED BY <1>1, <2>1, <2>2, EntriesFrame
<1>5. CASE ~(k.entry # NoEntry \/ EntryPlace(k) = {})
  <2>1. PICK p \in EntryPlace(k) : /\ conns' = [conns EXCEPT ![c] = Begun(pendingInbound[p])]
                                   /\ pendingInbound' = RemoveAt(pendingInbound, p)
    BY <1>5 DEF BeginFile
  <2>2. p \in DOMAIN pendingInbound
    BY DEF EntryPlace
  <2> HIDE DEF Begun
  <2>3. /\ DOMAIN conns' = DOMAIN conns /\ conns'[c].entry = pendingInbound[p]
        /\ \A d \in DOMAIN conns : d # c => conns'[d] = conns[d]
    BY <1>1, <1>3, <2>1
  <2>4. /\ DOMAIN pendingInbound = 1..Len(pendingInbound) /\ Len(pendingInbound) \in Nat
        /\ DOMAIN pendingInbound' = 1..(Len(pendingInbound) - 1)
        /\ \A j \in 1..(Len(pendingInbound) - 1) :
              pendingInbound'[j] = IF j < p THEN pendingInbound[j] ELSE pendingInbound[j + 1]
    <3>1. pendingInbound \in Seq(Nat)
      BY EntryFacts DEF TypeOK
    <3> DEFINE q == RemoveAt(pendingInbound, p)
    <3>2. /\ q \in Seq(Nat) /\ Len(q) = Len(pendingInbound) - 1
          /\ \A j \in 1..(Len(pendingInbound) - 1) :
                q[j] = IF j < p THEN pendingInbound[j] ELSE pendingInbound[j + 1]
      BY <2>2, <3>1, RemoveAtFacts
    <3> HIDE DEF q
    <3>3. DOMAIN q = 1..(Len(pendingInbound) - 1)
      BY <3>2, LenProperties
    <3>4. DOMAIN pendingInbound = 1..Len(pendingInbound) /\ Len(pendingInbound) \in Nat
      BY <3>1, LenProperties
    <3>5. pendingInbound' = q
      BY <2>1 DEF q
    <3> QED BY <3>2, <3>3, <3>4, <3>5
  <2> DEFINE From(j) == IF j < p THEN j ELSE j + 1
  <2>5. \A j \in DOMAIN pendingInbound' : /\ From(j) \in DOMAIN pendingInbound /\ From(j) # p
                                          /\ pendingInbound'[j] = pendingInbound[From(j)]
    BY <2>2, <2>4
  <2>6. \A i, j \in DOMAIN pendingInbound' : i # j => From(i) # From(j)
    BY <2>2, <2>4
  <2> HIDE DEF From
  <2>7. EntriesAccepted'
    BY <1>1, <2>2, <2>3, <2>5, EntryFacts DEF EntriesAccepted
  <2>8. EntryOwnedOnce'
    <3>1. \A i, j \in DOMAIN pendingInbound' : i # j => pendingInbound'[i] # pendingInbound'[j]
      BY <2>5, <2>6, EntryFacts
    <3>2. ASSUME NEW d \in DOMAIN conns', NEW e \in DOMAIN conns', d # e,
                 conns'[d].entry # NoEntry
          PROVE  conns'[d].entry # conns'[e].entry
      BY <1>1, <2>2, <2>3, <3>2, EntryFacts
    <3>3. ASSUME NEW d \in DOMAIN conns', NEW i \in DOMAIN pendingInbound'
          PROVE  conns'[d].entry # pendingInbound'[i]
      BY <1>1, <2>2, <2>3, <2>5, EntryFacts
    <3> QED BY <3>1, <3>2, <3>3 DEF EntryOwnedOnce
  <2> QED BY <2>7, <2>8 DEF EntriesInv
<1> QED BY <1>4, <1>5

LEMMA FinishEntries ==
  ASSUME EntriesInv, NEW c \in Tids, FinishBatch(c), TypeOK'
  PROVE  EntriesInv'
<1> DEFINE k == conns[c]
           Ended == [k EXCEPT !.xfer = FALSE, !.entry = NoEntry]
<1>1. /\ c \in DOMAIN conns /\ conns' = [conns EXCEPT ![c] = Ended]
      /\ pendingInbound' = pendingInbound /\ downloadDir \in Dirs
  BY EntryFacts DEF FinishBatch, TypeOK
<1>2. Ended.entry = NoEntry
  BY <1>1, EntryFacts, Elements DEF Conn
<1> HIDE DEF Ended
<1>3. /\ DOMAIN conns' = DOMAIN conns /\ conns'[c].entry = NoEntry
      /\ \A d \in DOMAIN conns : d # c => conns'[d] = conns[d]
  BY <1>1, <1>2
<1>4. /\ DOMAIN recv' = DOMAIN recv
      /\ \A x \in DOMAIN recv : x # k.entry => recv'[x] = recv[x]
  <2>1. recv \in Seq(RecvRow) /\ DOMAIN recv = 1..Len(recv)
    BY EntryFacts, Elements DEF TypeOK
  <2>2. recv' = recv \/ \E path \in Dirs \union {NoPath} :
                          recv' = UpdateMessage(recv, k.entry, "Done", path)
    BY <1>1 DEF FinishBatch, UpdateEntry
  <2>3. ASSUME NEW path \in Dirs \union {NoPath}, recv' = UpdateMessage(recv, k.entry, "Done", path)
        PROVE  /\ recv' \in Seq(RecvRow) /\ Len(recv') = Len(recv)
               /\ \A x \in DOMAIN recv : x # k.entry => recv'[x] = recv[x]
    <3> DEFINE new == UpdateMessage(recv, k.entry, "Done", path)
    <3> HIDE DEF k
    <3>1. "Done" \in RecvStatus
      BY DEF RecvStatus
    <3>2. /\ new \in Seq(RecvRow) /\ Len(new) = Len(recv)
          /\ \A x \in DOMAIN recv : x # k.entry => new[x] = recv[x]
      BY <2>1, <3>1, UpdateReceived
    <3> QED BY <2>3, <3>2
  <2> QED BY <2>1, <2>2, <2>3, LenProperties
<1>5. EntriesAccepted'
  BY <1>1, <1>3, <1>4, EntryFacts DEF EntriesAccepted
<1>6. EntryOwnedOnce'
  BY <1>1, <1>3, <1>4, EntryFacts DEF EntryOwnedOnce
<1> QED BY <1>5, <1>6 DEF EntriesInv

(* An update that leaves the row of its entry accepted.                    *)
LEMMA ProgressRows ==
  ASSUME EntriesInv, NEW c \in DOMAIN conns, NEW path \in Dirs \union {NoPath},
         UpdateEntry(conns[c], "Transferring", path)
  PROVE  /\ DOMAIN recv' = DOMAIN recv
         /\ \A r \in DOMAIN recv : recv'[r].status = recv[r].status
         /\ \A r \in DOMAIN recv : recv'[r].remote = recv[r].remote
<1> DEFINE e == conns[c].entry
           new == UpdateMessage(recv, e, "Transferring", path)
<1>1. recv \in Seq(RecvRow) /\ (e # NoEntry => e \in DOMAIN recv /\ recv[e].status = "Transferring")
  BY EntryFacts DEF TypeOK
<1> HIDE DEF e
<1>2. recv' = recv \/ (e # NoEntry /\ recv' = new)
  BY DEF UpdateEntry, e
<1>3. "Transferring" \in RecvStatus
  BY DEF RecvStatus
<1>4. /\ new \in Seq(RecvRow) /\ Len(new) = Len(recv)
      /\ \A r \in DOMAIN recv : new[r].remote = recv[r].remote
      /\ \A r \in DOMAIN recv : r # e => new[r] = recv[r]
      /\ \A r \in DOMAIN recv : new[r].status \in {recv[r].status, "Transferring"}
  BY <1>1, <1>3, UpdateReceived
<1>5. DOMAIN new = 1..Len(recv) /\ DOMAIN recv = 1..Len(recv)
  BY <1>1, <1>4, LenProperties
<1> HIDE DEF new
<1> QED BY <1>1, <1>2, <1>4, <1>5

(* A click other than Accept changes the status of no accepted row.        *)
LEMMA AnswerRows ==
  ASSUME TypeOK, NEW r \in DOMAIN recv, NEW status \in RecvStatus,
         NEW type, Answer(r, status, type)
  PROVE  /\ DOMAIN recv' = DOMAIN recv
         /\ \A x \in DOMAIN recv : recv'[x].remote = recv[x].remote
         /\ \A x \in DOMAIN recv : x # r => recv'[x] = recv[x]
         /\ recv'[r].status \in {recv[r].status, status}
<1> DEFINE path == recv[r].path
           new == UpdateMessage(recv, r, status, path)
<1>1. recv \in Seq(RecvRow) /\ path \in Dirs \union {NoPath} /\ recv' = new
  BY Elements DEF TypeOK, Answer, RecvRow
<1> HIDE DEF path
<1>2. /\ new \in Seq(RecvRow) /\ Len(new) = Len(recv)
      /\ \A x \in DOMAIN recv : new[x].remote = recv[x].remote
      /\ \A x \in DOMAIN recv : x # r => new[x] = recv[x]
      /\ \A x \in DOMAIN recv : new[x].status \in {recv[x].status, status}
  BY <1>1, UpdateReceived
<1> HIDE DEF new
<1> QED BY <1>1, <1>2, LenProperties

LEMMA RequestRows ==
  ASSUME TypeOK, RouteFileRequest
  PROVE  LET n == Len(recv) + 1
         IN /\ DOMAIN recv' = 1..n /\ DOMAIN recv = 1..Len(recv) /\ Len(recv) \in Nat
            /\ \A r \in DOMAIN recv : recv'[r] = recv[r]
            /\ recv'[n].status = "WaitingAccept" /\ ~recv'[n].deleted
            /\ recv'[n].remote = Head(toRecv) /\ Head(toRecv) \in DOMAIN sent
<1> DEFINE row == [kind |-> sent[Head(toRecv)].kind, remote |-> Head(toRecv),
                   status |-> "WaitingAccept", path |-> NoPath, deleted |-> FALSE]
<1>1. /\ recv' = Append(recv, row) /\ row.status = "WaitingAccept" /\ ~row.deleted
      /\ row.remote = Head(toRecv) /\ Head(toRecv) \in DOMAIN sent
  BY Elements DEF RouteFileRequest, AddMessage
<1> HIDE DEF row
<1>2. recv \in Seq(RecvRow \union {row}) /\ row \in RecvRow \union {row}
  BY SeqMonotonic DEF TypeOK
<1> QED BY <1>1, <1>2, AppendProperties, LenProperties

(* What a step may do to R's rows: the moves of one row, and a new row.    *)
Moves == {<<"WaitingAccept", "Transferring">>, <<"WaitingAccept", "Denied">>,
          <<"Transferring", "Done">>, <<"Denied", "RequestAgain">>, <<"Done", "RequestAgain">>}

RowsMove(moves) ==
  /\ \A r \in DOMAIN recv : /\ r \in DOMAIN recv' /\ recv'[r].remote = recv[r].remote
                           /\ \/ recv'[r].status = recv[r].status
                              \/ <<recv[r].status, recv'[r].status>> \in moves
  /\ \A r \in DOMAIN recv' : r \notin DOMAIN recv =>
        recv'[r].status = "WaitingAccept" /\ recv'[r].remote \in DOMAIN sent

Finish == {<<"Transferring", "Done">>}

LEMMA ClickRows ==
  ASSUME EntriesInv, Click
  PROVE  RowsMove(Moves \ Finish)
<1>1. TypeOK
  BY EntryFacts
<1>2. ASSUME NEW r \in Rows, NEW status \in RecvStatus, NEW type, Answer(r, status, type),
             r \in DOMAIN recv, <<recv[r].status, status>> \in Moves \ Finish
      PROVE  RowsMove(Moves \ Finish)
  BY <1>1, <1>2, AnswerRows DEF RowsMove
<1>3. ASSUME NEW r \in Rows, NEW dir \in Dirs, AcceptTransfer(r, dir)
      PROVE  RowsMove(Moves \ Finish)
  BY <1>2, <1>3 DEF AcceptTransfer, Clickable, Present, Moves, Finish, RecvStatus
<1>4. ASSUME NEW r \in Rows, DenyTransfer(r)
      PROVE  RowsMove(Moves \ Finish)
  BY <1>2, <1>4 DEF DenyTransfer, Clickable, Present, Moves, Finish, RecvStatus
<1>5. ASSUME NEW r \in Rows, RequestAgain(r)
      PROVE  RowsMove(Moves \ Finish)
  BY <1>2, <1>5 DEF RequestAgain, Clickable, Present, Moves, Finish, RecvStatus
<1>6. ASSUME NEW kind \in Kinds, SendOffer(kind)
      PROVE  RowsMove(Moves \ Finish)
  BY <1>6 DEF SendOffer, receiverVars, RowsMove
<1>7. ASSUME NEW a \in Apps, DeleteHistory(a)
      PROVE  RowsMove(Moves \ Finish)
  <2>1. recv' = recv \/ recv' = ClearPeer(recv)
    BY <1>7 DEF DeleteHistory
  <2>2. DOMAIN ClearPeer(recv) = DOMAIN recv
    BY DEF ClearPeer
  <2> QED BY <1>1, <2>1, <2>2, ClearReceived DEF RowsMove, TypeOK
<1> QED BY <1>3, <1>4, <1>5, <1>6, <1>7 DEF Click

LEMMA RouteRows ==
  ASSUME EntriesInv, Route
  PROVE  RowsMove({})
<1>1. CASE RouteFileRequest
  BY <1>1, EntryFacts, RequestRows DEF RowsMove
<1>2. CASE RouteFileAccept \/ RouteFileReject \/ RouteRequestAgain
  <2>1. recv' = recv
    BY <1>2 DEF RouteFileAccept, RouteFileReject, RouteRequestAgain, TakeReply, receiverVars
  <2> QED BY <2>1 DEF RowsMove
<1> QED BY <1>1, <1>2 DEF Route

LEMMA StreamRows ==
  ASSUME EntriesInv, NEW c \in Tids, Stream(c) \/ Break(c), ~FinishBatch(c)
  PROVE  RowsMove({})
<1>1. CASE EndFile(c) \/ RejectFile(c)
  <2>1. c \in DOMAIN conns
    BY <1>1 DEF EndFile, RejectFile
  <2>2. conns[c].saving \in Dirs \union {NoPath}
    BY <2>1, EntryFacts, Elements DEF Conn
  <2>3. PICK path \in Dirs \union {NoPath} : UpdateEntry(conns[c], "Transferring", path)
    BY <1>1, <2>2 DEF EndFile, RejectFile
  <2> QED BY <2>1, <2>3, ProgressRows DEF RowsMove
<1>2. CASE WriteFile(c) \/ FinishSending(c) \/ BeginFile(c) \/ ClientFails(c) \/ XferFails(c)
  <2>1. recv' = recv
    BY <1>2 DEF WriteFile, FinishSending, BeginFile, ClientFails, XferFails, receiverVars
  <2> QED BY <2>1 DEF RowsMove
<1> QED BY <1>1, <1>2 DEF Stream, Break

LEMMA FinishRows ==
  ASSUME EntriesInv, NEW c \in Tids, FinishBatch(c)
  PROVE  RowsMove(Finish)
<1> DEFINE k == conns[c]
           e == k.entry
<1>1. c \in DOMAIN conns /\ recv \in Seq(RecvRow)
  BY EntryFacts DEF FinishBatch, TypeOK
<1>2. e # NoEntry => e \in DOMAIN recv /\ recv[e].status = "Transferring"
  BY <1>1, EntryFacts
<1>3. \/ recv' = recv
      \/ e # NoEntry /\ \E path \in Dirs \union {NoPath} :
                          recv' = UpdateMessage(recv, e, "Done", path)
  BY EntryFacts DEF FinishBatch, UpdateEntry, TypeOK
<1> HIDE DEF e
<1>4. ASSUME NEW path \in Dirs \union {NoPath}, e # NoEntry,
             recv' = UpdateMessage(recv, e, "Done", path)
      PROVE  RowsMove(Finish)
  <2> DEFINE new == UpdateMessage(recv, e, "Done", path)
  <2>1. "Done" \in RecvStatus
    BY DEF RecvStatus
  <2>2. /\ new \in Seq(RecvRow) /\ Len(new) = Len(recv)
        /\ \A x \in DOMAIN recv : new[x].remote = recv[x].remote
        /\ \A x \in DOMAIN recv : x # e => new[x] = recv[x]
        /\ \A x \in DOMAIN recv : new[x].status \in {recv[x].status, "Done"}
    BY <1>1, <2>1, UpdateReceived
  <2>3. DOMAIN new = DOMAIN recv
    BY <1>1, <2>2, LenProperties
  <2>4. recv' = new
    BY <1>4
  <2> HIDE DEF new
  <2> QED BY <1>2, <1>4, <2>2, <2>3, <2>4 DEF RowsMove, Finish
<1> QED BY <1>3, <1>4 DEF RowsMove

LEMMA EnvironmentRows ==
  ASSUME EntriesInv, Environment
  PROVE  RowsMove({})
<1>1. recv' = recv \/ recv' = ClearPeer(recv)
  BY DEF Environment, PeerAppears, PeerDropped, LoseFrames, RestartS, RestartR, receiverVars
<1>2. recv \in Seq(RecvRow) /\ DOMAIN ClearPeer(recv) = DOMAIN recv
  BY EntryFacts DEF ClearPeer, TypeOK
<1> QED BY <1>1, <1>2, ClearReceived DEF RowsMove

LEMMA InitEntries == Init => EntriesInv
<1> SUFFICES ASSUME Init PROVE EntriesAccepted /\ EntryOwnedOnce
  BY InitType DEF EntriesInv
<1>1. DOMAIN pendingInbound = {} /\ DOMAIN conns = {}
  BY DEF Init
<1> QED BY <1>1 DEF EntriesAccepted, EntryOwnedOnce

LEMMA EntriesNext ==
  ASSUME EntriesInv, [Next]_vars
  PROVE  EntriesInv'
<1>0. TypeOK'
  BY NextType, EntryFacts
<1> DEFINE EntriesKept ==
             /\ pendingInbound' = pendingInbound \/ pendingInbound' = <<>>
             /\ \A d \in DOMAIN conns' : conns'[d].entry # NoEntry =>
                   d \in DOMAIN conns /\ conns'[d].entry = conns[d].entry
<1>1. ASSUME EntriesKept, RowsMove({}) \/ RowsMove(Moves \ Finish)
      PROVE  EntriesInv'
  BY <1>0, <1>1, EntriesFrame DEF RowsMove, Moves, Finish
<1>2. CASE Click
  <2>1. CASE \E r \in Rows, dir \in Dirs : AcceptTransfer(r, dir)
    BY <1>0, <2>1, AcceptEntries
  <2>2. CASE ~\E r \in Rows, dir \in Dirs : AcceptTransfer(r, dir)
    <3>1. conns' = conns /\ pendingInbound' = pendingInbound
      BY <1>2, <2>2 DEF Click, SendOffer, DenyTransfer, RequestAgain, DeleteHistory, Answer,
                        receiverVars
    <3> QED BY <1>1, <1>2, <3>1, ClickRows
  <2> QED BY <2>1, <2>2
<1>3. CASE Route
  <2>1. pendingInbound' = pendingInbound
    BY <1>3 DEF Route, RouteFileRequest, RouteFileAccept, RouteFileReject, RouteRequestAgain,
                TakeReply, receiverVars
  <2>2. \A d \in DOMAIN conns' : conns'[d].entry # NoEntry =>
           d \in DOMAIN conns /\ conns'[d].entry = conns[d].entry
    <3>1. ASSUME NEW s, NEW local, StartClient(s, local)
          PROVE  \A d \in DOMAIN conns' : conns'[d].entry # NoEntry =>
                    d \in DOMAIN conns /\ conns'[d].entry = conns[d].entry
      <4> DEFINE k == [offer |-> s, declared |-> local, client |-> TRUE, written |-> 0,
                       eos |-> FALSE, xfer |-> TRUE, cut |-> FALSE, begun |-> 0, ended |-> 0,
                       saving |-> NoPath, entry |-> NoEntry, placed |-> {}]
      <4>1. (conns' = conns \/ conns' = Append(conns, k)) /\ k.entry = NoEntry
        BY <3>1 DEF StartClient
      <4> HIDE DEF k
      <4>2. conns \in Seq(Conn \union {k}) /\ k \in Conn \union {k}
        BY EntryFacts, SeqMonotonic DEF TypeOK
      <4> QED BY <4>1, <4>2, AppendProperties, LenProperties
    <3>2. conns' = conns \/ \E s, local : StartClient(s, local)
      BY <1>3 DEF Route, RouteFileRequest, RouteFileAccept, RouteFileReject, RouteRequestAgain
    <3> QED BY <3>1, <3>2
  <2> QED BY <1>1, <1>3, <2>1, <2>2, RouteRows
<1>4. ASSUME NEW c \in Tids, Stream(c) \/ Break(c)
      PROVE  EntriesInv'
  <2>1. CASE BeginFile(c)
    BY <1>0, <2>1, BeginEntries
  <2>2. CASE FinishBatch(c)
    BY <1>0, <2>2, FinishEntries
  <2>3. CASE ~BeginFile(c) /\ ~FinishBatch(c)
    <3>1. pendingInbound' = pendingInbound
      BY <1>4, <2>3 DEF Stream, Break, WriteFile, FinishSending, EndFile, ClientFails,
                        RejectFile, XferFails, receiverVars
    <3>2. c \in DOMAIN conns
      BY <1>4, <2>3 DEF Stream, Break, WriteFile, FinishSending, EndFile, ClientFails,
                        RejectFile, XferFails
    <3> DEFINE k == conns[c]
    <3>3. k \in Conn
      BY <3>2, EntryFacts, Elements
    <3>4. PICK new : conns' = [conns EXCEPT ![c] = new] /\ new.entry \in {k.entry, NoEntry}
      <4>1. /\ [k EXCEPT !.written = @ + 1].entry = k.entry
            /\ [k EXCEPT !.eos = TRUE, !.client = FALSE].entry = k.entry
            /\ [k EXCEPT !.ended = @ + 1, !.saving = NoPath].entry = k.entry
            /\ [k EXCEPT !.client = FALSE].entry = k.entry
            /\ [k EXCEPT !.saving = NoPath, !.entry = NoEntry].entry = NoEntry
            /\ [k EXCEPT !.xfer = FALSE, !.entry = NoEntry, !.saving = NoPath,
                          !.cut = TRUE].entry = NoEntry
        <5> HIDE DEF k
        <5> QED BY <3>3 DEF Conn
      <4> QED BY <1>4, <2>3, <4>1 DEF Stream, Break, WriteFile, FinishSending, EndFile,
                                      ClientFails, RejectFile, XferFails
    <3>5. EntriesKept
      BY <3>1, <3>2, <3>4
    <3> QED BY <1>1, <1>4, <2>3, <3>5, StreamRows
  <2> QED BY <2>1, <2>2, <2>3
<1>5. CASE Environment
  <2>1. pendingInbound' = pendingInbound \/ pendingInbound' = <<>>
    BY <1>5 DEF Environment, PeerAppears, PeerDropped, LoseFrames, RestartS, RestartR, receiverVars
  <2>2. \A d \in DOMAIN conns' : conns'[d].entry # NoEntry =>
           d \in DOMAIN conns /\ conns'[d].entry = conns[d].entry
    <3>1. \A d \in DOMAIN conns :
             /\ [conns[d] EXCEPT !.client = FALSE].entry = conns[d].entry
             /\ [conns[d] EXCEPT !.xfer = FALSE, !.saving = NoPath, !.entry = NoEntry,
                                 !.cut = @ \/ conns[d].xfer].entry = NoEntry
      BY EntryFacts, Elements DEF Conn
    <3> QED BY <1>5, <3>1 DEF Environment, PeerAppears, PeerDropped, LoseFrames, RestartS, RestartR
  <2> QED BY <1>1, <1>5, <2>1, <2>2, EnvironmentRows
<1>6. CASE UNCHANGED vars
  <2>1. recv' = recv /\ pendingInbound' = pendingInbound /\ conns' = conns
    BY <1>6 DEF vars, receiverVars
  <2> QED BY <1>1, <2>1 DEF RowsMove
<1> QED BY <1>2, <1>3, <1>4, <1>5, <1>6 DEF Next

(* No entry is in two places at once.                                      *)
THEOREM OwnedOnce == Spec => []EntryOwnedOnce
<1>1. EntriesInv /\ [Next]_vars => EntriesInv'
  BY EntriesNext
<1>2. EntriesInv => EntryOwnedOnce
  BY DEF EntriesInv
<1> QED BY <1>1, <1>2, InitEntries, PTL DEF Spec

(* Every entry stands for an accepted, unfinished row.                     *)
THEOREM EntriesStand == Spec => []EntriesAccepted
<1>1. EntriesInv /\ [Next]_vars => EntriesInv'
  BY EntriesNext
<1>2. EntriesInv => EntriesAccepted
  BY DEF EntriesInv
<1> QED BY <1>1, <1>2, InitEntries, PTL DEF Spec

(* R's rows move only along the lifecycle, whatever connections do.        *)
THEOREM ReceiverMoves == Spec => ReceiverLifecycle
<1>1. EntriesInv /\ [Next]_vars => EntriesInv'
  BY EntriesNext
<1> DEFINE Lifecycle == \A r \in DOMAIN recv :
          recv'[r].status # recv[r].status => <<recv[r].status, recv'[r].status>> \in Moves
<1>2. EntriesInv /\ [Next]_vars => [Lifecycle]_vars
  <2> SUFFICES ASSUME EntriesInv, Next PROVE Lifecycle
    OBVIOUS
  <2>1. \E moves \in SUBSET Moves : RowsMove(moves)
    <3>1. CASE Click
      BY <3>1, ClickRows
    <3>2. CASE Route
      BY <3>2, RouteRows
    <3>3. ASSUME NEW c \in Tids, Stream(c) \/ Break(c)
          PROVE  \E moves \in SUBSET Moves : RowsMove(moves)
      BY <3>3, StreamRows, FinishRows DEF Moves, Finish
    <3>4. CASE Environment
      BY <3>4, EnvironmentRows
    <3> QED BY <3>1, <3>2, <3>3, <3>4 DEF Next
  <2> QED BY <2>1 DEF RowsMove
<1>3. [][Lifecycle]_vars => ReceiverLifecycle
  <2>1. [Lifecycle]_vars => [\A r \in DOMAIN recv :
          recv'[r].status # recv[r].status =>
             <<recv[r].status, recv'[r].status>> \in
                {<<"WaitingAccept", "Transferring">>, <<"WaitingAccept", "Denied">>,
                 <<"Transferring", "Done">>,
                 <<"Denied", "RequestAgain">>, <<"Done", "RequestAgain">>}]_vars
    BY DEF Moves
  <2> QED BY <2>1, PTL DEF ReceiverLifecycle
<1> QED BY <1>1, <1>2, <1>3, InitEntries, PTL DEF Spec

-----------------------------------------------------------------------------
(* The ids that travel, and consent: an answer on the wire names a row of  *)
(* R and the offer that row came from, and unless it is a rejection the    *)
(* row has been granted.                                                   *)
RepliesEcho ==
  \A i \in DOMAIN toSend :
     /\ toSend[i].local \in DOMAIN recv
     /\ recv[toSend[i].local].remote = toSend[i].id
     /\ toSend[i].type # "FileReject" => recv[toSend[i].local].status \in Granted

RemotesKnown == \A r \in DOMAIN recv : recv[r].remote \in DOMAIN sent

EchoInv == EntriesInv /\ EchoMatches /\ RepliesEcho /\ RemotesKnown

LEMMA EchoFacts ==
  ASSUME EchoInv
  PROVE  /\ EntriesInv /\ TypeOK
         /\ \A c \in DOMAIN conns : /\ conns[c].declared \in DOMAIN recv
                                   /\ recv[conns[c].declared].remote = conns[c].offer
         /\ \A i \in DOMAIN toSend :
              /\ toSend[i].local \in DOMAIN recv
              /\ recv[toSend[i].local].remote = toSend[i].id
              /\ toSend[i].type # "FileReject" => recv[toSend[i].local].status \in Granted
         /\ \A r \in DOMAIN recv : recv[r].remote \in DOMAIN sent
  BY DEF EchoInv, EntriesInv, EchoMatches, RepliesEcho, RemotesKnown

(* The rows of R move, in any step.                                        *)
LEMMA NextRows ==
  ASSUME EntriesInv, [Next]_vars
  PROVE  RowsMove(Moves)
<1>1. \A moves \in SUBSET Moves : RowsMove(moves) => RowsMove(Moves)
  BY DEF RowsMove
<1>2. CASE Click
  BY <1>1, <1>2, ClickRows
<1>3. CASE Route
  BY <1>1, <1>3, RouteRows
<1>4. ASSUME NEW c \in Tids, Stream(c) \/ Break(c)
      PROVE  RowsMove(Moves)
  BY <1>1, <1>4, StreamRows, FinishRows DEF Moves, Finish
<1>5. CASE Environment
  BY <1>1, <1>5, EnvironmentRows
<1>6. CASE UNCHANGED vars
  BY <1>6 DEF vars, receiverVars, RowsMove
<1> QED BY <1>2, <1>3, <1>4, <1>5, <1>6 DEF Next

(* S's rows are never removed.                                             *)
LEMMA SentKept ==
  ASSUME TypeOK, [Next]_vars
  PROVE  DOMAIN sent \subseteq DOMAIN sent'
<1>1. DOMAIN sent = 1..Len(sent) /\ Len(sent) \in Nat
  BY Elements
<1>2. \A id, status, path : DOMAIN UpdateMessage(sent, id, status, path) = DOMAIN sent
  BY DEF UpdateMessage
<1>3. DOMAIN ClearPeer(sent) = DOMAIN sent
  BY DEF ClearPeer
<1>4. \A row : DOMAIN sent \subseteq DOMAIN Append(sent, row)
  <2>1. ASSUME NEW row PROVE DOMAIN sent \subseteq DOMAIN Append(sent, row)
    <3>1. sent \in Seq(OfferRow \union {row})
      BY SeqMonotonic DEF TypeOK
    <3> QED BY <1>1, <3>1, AppendProperties, LenProperties
  <2> QED BY <2>1
<1>5. CASE Click
  BY <1>3, <1>4, <1>5 DEF Click, SendOffer, AddMessage, AcceptTransfer, DenyTransfer,
                          RequestAgain, DeleteHistory, Answer, senderVars
<1>6. CASE Route
  BY <1>2, <1>6 DEF Route, RouteFileRequest, RouteFileAccept, RouteFileReject,
                    RouteRequestAgain, StartClient, senderVars
<1>7. ASSUME NEW c \in Tids, Stream(c) \/ Break(c)
      PROVE  DOMAIN sent \subseteq DOMAIN sent'
  <2>1. CASE WriteFile(c) \/ FinishSending(c)
    BY <1>2, <2>1 DEF WriteFile, FinishSending
  <2>2. CASE ~(WriteFile(c) \/ FinishSending(c))
    BY <1>7, <2>2 DEF Stream, Break, BeginFile, EndFile, FinishBatch, ClientFails, RejectFile,
                      XferFails, senderVars
  <2> QED BY <2>1, <2>2
<1>8. CASE Environment
  BY <1>3, <1>8 DEF Environment, PeerAppears, PeerDropped, LoseFrames, RestartS, RestartR,
                    senderVars
<1>9. CASE UNCHANGED vars
  BY <1>9 DEF vars, senderVars
<1> QED BY <1>5, <1>6, <1>7, <1>8, <1>9 DEF Next

(* An answer on the wire was there before, or its row has just moved.      *)
NewReply(f, r) ==
  /\ r \in DOMAIN recv /\ f.local = r /\ f.id = recv[r].remote
  /\ f.type # "FileReject" => recv'[r].status \in Granted

LEMMA NextReplies ==
  ASSUME EchoInv, [Next]_vars
  PROVE  \A i \in DOMAIN toSend' : \/ \E j \in DOMAIN toSend : toSend'[i] = toSend[j]
                                   \/ \E r : NewReply(toSend'[i], r)
<1> DEFINE Kept == \A i \in DOMAIN toSend' : \E j \in DOMAIN toSend : toSend'[i] = toSend[j]
           Goal == \A i \in DOMAIN toSend' : \/ \E j \in DOMAIN toSend : toSend'[i] = toSend[j]
                                            \/ \E r : NewReply(toSend'[i], r)
<1>1. toSend \in Seq(Reply)
  BY EchoFacts DEF TypeOK
<1>2. ASSUME NEW r \in Rows, NEW status \in RecvStatus, NEW type, Answer(r, status, type),
             Present(recv, r), type # "FileReject" => status \in Granted
      PROVE  Goal
  <2> DEFINE f == [type |-> type, id |-> recv[r].remote, local |-> r]
  <2>1. f.local = r /\ f.id = recv[r].remote /\ f.type = type /\ toSend' = Append(toSend, f)
    BY <1>2 DEF Answer
  <2> HIDE DEF f
  <2>2. r \in DOMAIN recv /\ recv[r] \in RecvRow /\ DOMAIN recv = 1..Len(recv)
    BY <1>2, EchoFacts, Elements DEF Present
  <2>3. recv'[r].status = status
    <3>1. recv' = [recv EXCEPT ![r] = Updated(recv[r], status, recv[r].path)]
      BY <1>2 DEF Answer, UpdateMessage
    <3>2. Updated(recv[r], status, recv[r].path).status = status
      BY <2>2 DEF Updated, RecvRow
    <3> QED BY <2>2, <3>1, <3>2
  <2>4. NewReply(f, r)
    BY <1>2, <2>1, <2>2, <2>3 DEF NewReply
  <2>5. toSend \in Seq(Reply \union {f}) /\ f \in Reply \union {f}
    BY <1>1, SeqMonotonic
  <2>6. \A i \in DOMAIN toSend' : (i \in DOMAIN toSend /\ toSend'[i] = toSend[i]) \/ toSend'[i] = f
    BY <2>1, <2>5, AppendProperties, LenProperties
  <2> QED BY <2>4, <2>6
<1>3. CASE Click
  <2>1. ASSUME NEW r \in Rows, NEW dir \in Dirs, AcceptTransfer(r, dir) PROVE Goal
    BY <1>2, <2>1 DEF AcceptTransfer, Clickable, RecvStatus, Granted
  <2>2. ASSUME NEW r \in Rows, DenyTransfer(r) PROVE Goal
    BY <1>2, <2>2 DEF DenyTransfer, Clickable, RecvStatus, Granted
  <2>3. ASSUME NEW r \in Rows, RequestAgain(r) PROVE Goal
    BY <1>2, <2>3 DEF RequestAgain, Clickable, RecvStatus, Granted
  <2>4. (\E kind \in Kinds : SendOffer(kind)) \/ (\E a \in Apps : DeleteHistory(a)) => toSend' = toSend
    BY DEF SendOffer, DeleteHistory, netVars
  <2> QED BY <1>3, <2>1, <2>2, <2>3, <2>4 DEF Click
<1>4. CASE toSend # <<>> /\ toSend' = Tail(toSend)
  <2>1. \A i \in DOMAIN toSend' : i + 1 \in DOMAIN toSend /\ toSend'[i] = toSend[i + 1]
    BY <1>1, <1>4, HeadTailProperties, LenProperties
  <2> QED BY <2>1
<1>5. CASE Route
  <2>1. CASE RouteFileRequest
    BY <2>1 DEF RouteFileRequest
  <2>2. CASE RouteFileAccept \/ RouteFileReject \/ RouteRequestAgain
    BY <1>4, <2>2 DEF RouteFileAccept, RouteFileReject, RouteRequestAgain, TakeReply
  <2> QED BY <1>5, <2>1, <2>2 DEF Route
<1>6. ASSUME NEW c \in Tids, Stream(c) \/ Break(c)
      PROVE  Goal
  <2>1. toSend' = toSend
    BY <1>6 DEF Stream, Break, WriteFile, FinishSending, BeginFile, EndFile, FinishBatch,
                ClientFails, RejectFile, XferFails, netVars
  <2> QED BY <2>1
<1>7. CASE Environment
  <2>1. toSend' = toSend \/ toSend' = <<>> \/ toSend' \in Truncated(toSend)
    BY <1>7 DEF Environment, PeerAppears, PeerDropped, LoseFrames, RestartS, RestartR, netVars
  <2>2. ASSUME toSend' \in Truncated(toSend) PROVE Kept
    <3>1. /\ toSend' \in Seq(Reply) /\ Len(toSend') <= Len(toSend)
          /\ \A i \in DOMAIN toSend' : toSend'[i] = toSend[i]
      BY <1>1, <2>2, TruncatedFacts
    <3>2. DOMAIN toSend' = 1..Len(toSend') /\ DOMAIN toSend = 1..Len(toSend)
          /\ Len(toSend) \in Nat /\ Len(toSend') \in Nat
      BY <1>1, <3>1, LenProperties
    <3>3. \A i \in DOMAIN toSend' : i \in DOMAIN toSend
      BY <3>1, <3>2
    <3> QED BY <3>1, <3>3
  <2> QED BY <2>1, <2>2
<1>8. CASE UNCHANGED vars
  BY <1>8 DEF vars, netVars
<1> QED BY <1>3, <1>5, <1>6, <1>7, <1>8 DEF Next

(* A connection was there before, or is the one an answer asks for.        *)
LEMMA NextConns ==
  ASSUME EchoInv, [Next]_vars
  PROVE  /\ \A d \in DOMAIN conns :
               d \in DOMAIN conns' /\ conns'[d].offer = conns[d].offer
         /\ \A d \in DOMAIN conns' :
               \/ /\ d \in DOMAIN conns /\ conns'[d].offer = conns[d].offer
                  /\ conns'[d].declared = conns[d].declared
               \/ \E i \in DOMAIN toSend : /\ toSend[i].type # "FileReject"
                                          /\ conns'[d].offer = toSend[i].id
                                          /\ conns'[d].declared = toSend[i].local
<1> DEFINE Same == /\ DOMAIN conns' = DOMAIN conns
                   /\ \A d \in DOMAIN conns : /\ conns'[d].offer = conns[d].offer
                                            /\ conns'[d].declared = conns[d].declared
           Goal == /\ \A d \in DOMAIN conns :
                         d \in DOMAIN conns' /\ conns'[d].offer = conns[d].offer
                   /\ \A d \in DOMAIN conns' :
                         \/ /\ d \in DOMAIN conns /\ conns'[d].offer = conns[d].offer
                            /\ conns'[d].declared = conns[d].declared
                         \/ \E i \in DOMAIN toSend : /\ toSend[i].type # "FileReject"
                                                    /\ conns'[d].offer = toSend[i].id
                                                    /\ conns'[d].declared = toSend[i].local
<1>1. Same => Goal
  OBVIOUS
<1>2. CASE conns' = conns
  BY <1>1, <1>2
<1>3. CASE Click
  <2>1. conns' = conns
    BY <1>3 DEF Click, SendOffer, AcceptTransfer, DenyTransfer, RequestAgain, DeleteHistory, Answer
  <2> QED BY <1>2, <2>1
<1>4. ASSUME NEW type, type # "FileReject", TakeReply(type),
             StartClient(Head(toSend).id, Head(toSend).local)
      PROVE  Goal
  <2> DEFINE f == Head(toSend)
             k == [offer |-> f.id, declared |-> f.local, client |-> TRUE, written |-> 0,
                   eos |-> FALSE, xfer |-> TRUE, cut |-> FALSE, begun |-> 0, ended |-> 0,
                   saving |-> NoPath, entry |-> NoEntry, placed |-> {}]
  <2>1. (conns' = conns \/ conns' = Append(conns, k)) /\ k.offer = f.id /\ k.declared = f.local
    BY <1>4 DEF StartClient
  <2> HIDE DEF k
  <2>2. 1 \in DOMAIN toSend /\ f = toSend[1] /\ f.type # "FileReject"
    BY <1>4, EchoFacts, EmptySeq, LenProperties DEF TakeReply, TypeOK
  <2>3. conns \in Seq(Conn \union {k}) /\ k \in Conn \union {k}
    BY EchoFacts, SeqMonotonic DEF TypeOK
  <2> HIDE DEF f
  <2>4. CASE conns' = Append(conns, k)
    <3>1. /\ \A d \in DOMAIN conns : d \in DOMAIN conns' /\ conns'[d] = conns[d]
          /\ \A d \in DOMAIN conns' : d \in DOMAIN conns \/ conns'[d] = k
      BY <2>3, <2>4, AppendProperties, LenProperties
    <3> QED BY <2>1, <2>2, <3>1
  <2> QED BY <1>2, <2>1, <2>4
<1>5. CASE Route
  <2>1. CASE RouteFileAccept
    BY <1>2, <1>4, <2>1 DEF RouteFileAccept
  <2>2. CASE RouteRequestAgain
    BY <1>2, <1>4, <2>2 DEF RouteRequestAgain
  <2>3. CASE RouteFileRequest \/ RouteFileReject
    BY <1>2, <2>3 DEF RouteFileRequest, RouteFileReject
  <2> QED BY <1>5, <2>1, <2>2, <2>3 DEF Route
<1>6. ASSUME NEW c \in Tids, Stream(c) \/ Break(c)
      PROVE  Goal
  <2>1. c \in DOMAIN conns
    BY <1>6 DEF Stream, Break, WriteFile, FinishSending, BeginFile, EndFile, FinishBatch,
                ClientFails, RejectFile, XferFails
  <2> DEFINE k == conns[c]
             Ids(new) == new.offer = k.offer /\ new.declared = k.declared
  <2>2. k \in Conn
    BY <2>1, EchoFacts, Elements
  <2>3. PICK new : conns' = [conns EXCEPT ![c] = new] /\ Ids(new)
    <3>1. /\ Ids([k EXCEPT !.written = @ + 1])
          /\ Ids([k EXCEPT !.eos = TRUE, !.client = FALSE])
          /\ \A r : Ids([k EXCEPT !.begun = @ + 1, !.saving = downloadDir,
                                   !.placed = @ \union {downloadDir}, !.entry = r])
          /\ Ids([k EXCEPT !.ended = @ + 1, !.saving = NoPath])
          /\ Ids([k EXCEPT !.xfer = FALSE, !.entry = NoEntry])
          /\ Ids([k EXCEPT !.client = FALSE])
          /\ Ids([k EXCEPT !.saving = NoPath, !.entry = NoEntry])
          /\ Ids([k EXCEPT !.xfer = FALSE, !.entry = NoEntry, !.saving = NoPath, !.cut = TRUE])
      <4> HIDE DEF k
      <4> QED BY <2>2 DEF Conn
    <3>2. CASE BeginFile(c)
      <4>1. PICK r : conns' = [conns EXCEPT ![c] =
                       [k EXCEPT !.begun = @ + 1, !.saving = downloadDir,
                                 !.placed = @ \union {downloadDir}, !.entry = r]]
        BY <3>2 DEF BeginFile
      <4> QED BY <3>1, <4>1
    <3>3. CASE ~BeginFile(c)
      BY <1>6, <3>1, <3>3 DEF Stream, Break, WriteFile, FinishSending, EndFile, FinishBatch,
                              ClientFails, RejectFile, XferFails
    <3> QED BY <3>2, <3>3
  <2>4. Same
    BY <2>1, <2>3
  <2> QED BY <1>1, <2>4
<1>7. CASE Environment
  <2>1. \A d \in DOMAIN conns :
          /\ [conns[d] EXCEPT !.client = FALSE].offer = conns[d].offer
          /\ [conns[d] EXCEPT !.client = FALSE].declared = conns[d].declared
          /\ [conns[d] EXCEPT !.xfer = FALSE, !.saving = NoPath, !.entry = NoEntry,
                              !.cut = @ \/ conns[d].xfer].offer
               = conns[d].offer
          /\ [conns[d] EXCEPT !.xfer = FALSE, !.saving = NoPath, !.entry = NoEntry,
                              !.cut = @ \/ conns[d].xfer].declared
               = conns[d].declared
    BY EchoFacts, Elements DEF Conn
  <2>2. Same
    BY <1>7, <2>1 DEF Environment, PeerAppears, PeerDropped, LoseFrames, RestartS, RestartR
  <2> QED BY <1>1, <2>2
<1>8. CASE UNCHANGED vars
  BY <1>2, <1>8 DEF vars
<1> QED BY <1>3, <1>5, <1>6, <1>7, <1>8 DEF Next

LEMMA InitEcho == Init => EchoInv
<1> SUFFICES ASSUME Init PROVE EchoMatches /\ RepliesEcho /\ RemotesKnown
  BY InitEntries DEF EchoInv
<1>1. DOMAIN conns = {} /\ DOMAIN toSend = {} /\ DOMAIN recv = {}
  BY DEF Init
<1> QED BY <1>1 DEF EchoMatches, RepliesEcho, RemotesKnown

LEMMA EchoNext ==
  ASSUME EchoInv, [Next]_vars
  PROVE  EchoInv'
<1>1. EntriesInv'
  BY EchoFacts, EntriesNext
<1>2. RowsMove(Moves)
  BY EchoFacts, NextRows
<1>3. ASSUME NEW r \in DOMAIN recv
      PROVE  /\ r \in DOMAIN recv' /\ recv'[r].remote = recv[r].remote
             /\ recv[r].status \in Granted => recv'[r].status \in Granted
  BY <1>2 DEF RowsMove, Moves, Granted
<1>4. EchoMatches'
  <2> SUFFICES ASSUME NEW d \in DOMAIN conns'
               PROVE  /\ conns'[d].declared \in DOMAIN recv'
                      /\ recv'[conns'[d].declared].remote = conns'[d].offer
    BY DEF EchoMatches
  <2>1. CASE /\ d \in DOMAIN conns /\ conns'[d].offer = conns[d].offer
             /\ conns'[d].declared = conns[d].declared
    <3>1. conns[d].declared \in DOMAIN recv /\ recv[conns[d].declared].remote = conns[d].offer
      BY <2>1, EchoFacts
    <3> QED BY <1>3, <2>1, <3>1
  <2>2. ASSUME NEW i \in DOMAIN toSend,
               conns'[d].offer = toSend[i].id, conns'[d].declared = toSend[i].local
        PROVE  /\ conns'[d].declared \in DOMAIN recv'
               /\ recv'[conns'[d].declared].remote = conns'[d].offer
    <3>1. toSend[i].local \in DOMAIN recv /\ recv[toSend[i].local].remote = toSend[i].id
      BY EchoFacts
    <3> QED BY <1>3, <2>2, <3>1
  <2> QED BY <2>1, <2>2, NextConns
<1>5. RepliesEcho'
  <2> SUFFICES ASSUME NEW i \in DOMAIN toSend'
               PROVE  /\ toSend'[i].local \in DOMAIN recv'
                      /\ recv'[toSend'[i].local].remote = toSend'[i].id
                      /\ toSend'[i].type # "FileReject" =>
                            recv'[toSend'[i].local].status \in Granted
    BY DEF RepliesEcho
  <2>1. ASSUME NEW j \in DOMAIN toSend, toSend'[i] = toSend[j]
        PROVE  /\ toSend'[i].local \in DOMAIN recv'
               /\ recv'[toSend'[i].local].remote = toSend'[i].id
               /\ toSend'[i].type # "FileReject" =>
                     recv'[toSend'[i].local].status \in Granted
    <3>1. /\ toSend[j].local \in DOMAIN recv /\ recv[toSend[j].local].remote = toSend[j].id
          /\ toSend[j].type # "FileReject" => recv[toSend[j].local].status \in Granted
      BY EchoFacts
    <3> QED BY <1>3, <2>1, <3>1
  <2>2. ASSUME NEW r, NewReply(toSend'[i], r)
        PROVE  /\ toSend'[i].local \in DOMAIN recv'
               /\ recv'[toSend'[i].local].remote = toSend'[i].id
               /\ toSend'[i].type # "FileReject" =>
                     recv'[toSend'[i].local].status \in Granted
    <3>1. /\ r \in DOMAIN recv /\ toSend'[i].local = r /\ toSend'[i].id = recv[r].remote
          /\ toSend'[i].type # "FileReject" => recv'[r].status \in Granted
      BY <2>2 DEF NewReply
    <3> QED BY <1>3, <3>1
  <2> QED BY <2>1, <2>2, NextReplies
<1>6. RemotesKnown'
  <2>1. DOMAIN sent \subseteq DOMAIN sent' /\ \A r \in DOMAIN recv : recv[r].remote \in DOMAIN sent
    BY EchoFacts, SentKept
  <2> QED BY <1>2, <2>1 DEF RemotesKnown, RowsMove
<1> QED BY <1>1, <1>4, <1>5, <1>6 DEF EchoInv

(* Every data connection is stamped with R's id of the offer it carries.   *)
THEOREM EchoCorrect == Spec => []EchoMatches
<1>1. EchoInv /\ [Next]_vars => EchoInv'
  BY EchoNext
<1>2. EchoInv => EchoMatches
  BY EchoFacts DEF EchoInv
<1> QED BY <1>1, <1>2, InitEcho, PTL DEF Spec

-----------------------------------------------------------------------------
(* FileOffer implements Consent.                                           *)
PhaseOf == [s \in Rows |-> Phase(s)]

LEMMA KnownRows ==
  ASSUME EchoInv
  PROVE  /\ DOMAIN sent \subseteq Rows
         /\ \A s : Streamed(s) \/ Answered(s, RecvStatus) => s \in DOMAIN sent
         /\ Granted \subseteq RecvStatus /\ {"Denied"} \subseteq RecvStatus
<1>1. DOMAIN sent \subseteq Rows
  <2>1. Len(sent) \in 0..MaxOffers /\ DOMAIN sent = 1..Len(sent)
    BY EchoFacts, Elements DEF TypeOK
  <2> QED BY <2>1, BoundsAssumption DEF Rows
<1>2. ASSUME NEW s, Streamed(s)
      PROVE  s \in DOMAIN sent
  BY <1>2, EchoFacts DEF Streamed
<1>3. ASSUME NEW s, Answered(s, RecvStatus)
      PROVE  s \in DOMAIN sent
  BY <1>3, EchoFacts DEF Answered
<1> QED BY <1>1, <1>2, <1>3 DEF Granted, RecvStatus

(* What Phase reads, for one offer.                                        *)
PhaseKept(s) ==
  /\ Streamed(s)' <=> Streamed(s)
  /\ Answered(s, Granted)' <=> Answered(s, Granted)
  /\ Answered(s, {"Denied"})' <=> Answered(s, {"Denied"})
  /\ s \in DOMAIN sent' <=> s \in DOMAIN sent

LEMMA KeptPhase ==
  ASSUME NEW s, PhaseKept(s)
  PROVE  Phase(s)' = Phase(s)
  BY DEF PhaseKept, Phase

(* A step that changes the phase of one offer.                             *)
LEMMA PhaseMove ==
  ASSUME NEW s \in Rows, NEW from, NEW to,
         \A t \in Rows \ {s} : Phase(t)' = Phase(t), Phase(s) \in from, Phase(s)' = to
  PROVE  Consented!Move(s, from, to)
<1>1. PhaseOf' = [PhaseOf EXCEPT ![s] = to]
  BY DEF PhaseOf
<1>2. PhaseOf[s] \in from
  BY DEF PhaseOf
<1> QED BY <1>1, <1>2 DEF PhaseOf, Consented!Move

LEMMA PhaseStutter ==
  ASSUME \A t \in Rows : PhaseKept(t)
  PROVE  PhaseOf' = PhaseOf
  BY KeptPhase DEF PhaseOf

(* Rows that keep their status, or end a transfer, change no phase.        *)
LEMMA AnsweredKept ==
  ASSUME EchoInv, RowsMove({}) \/ RowsMove(Finish), NEW s
  PROVE  /\ Answered(s, Granted)' <=> Answered(s, Granted)
         /\ Answered(s, {"Denied"})' <=> Answered(s, {"Denied"})
<1>1. ASSUME NEW r \in DOMAIN recv
      PROVE  /\ r \in DOMAIN recv' /\ recv'[r].remote = recv[r].remote
             /\ recv[r].status \in Granted <=> recv'[r].status \in Granted
             /\ recv[r].status \in {"Denied"} <=> recv'[r].status \in {"Denied"}
  BY DEF RowsMove, Finish, Granted
<1>2. ASSUME NEW r \in DOMAIN recv', r \notin DOMAIN recv
      PROVE  recv'[r].status \notin Granted /\ recv'[r].status \notin {"Denied"}
  BY <1>2 DEF RowsMove, Granted
<1>3. Answered(s, Granted)' <=> \E r \in DOMAIN recv' : recv'[r].remote = s /\ recv'[r].status \in Granted
  BY DEF Answered, Granted
<1>4. Answered(s, {"Denied"})' <=> \E r \in DOMAIN recv' : recv'[r].remote = s /\ recv'[r].status \in {"Denied"}
  BY DEF Answered
<1>5. Answered(s, Granted)' <=> Answered(s, Granted)
  BY <1>1, <1>2, <1>3 DEF Answered
<1>6. Answered(s, {"Denied"})' <=> Answered(s, {"Denied"})
  BY <1>1, <1>2, <1>4 DEF Answered
<1> QED BY <1>5, <1>6

(* Connections that keep their offers stream the same offers.              *)
LEMMA StreamedKept ==
  ASSUME NEW s, DOMAIN conns' = DOMAIN conns,
         \A d \in DOMAIN conns : conns'[d].offer = conns[d].offer
  PROVE  Streamed(s)' <=> Streamed(s)
  BY DEF Streamed

(* A click on row r, seen from the offers.                                 *)
LEMMA AnswerPhase ==
  ASSUME EchoInv, NEW r \in DOMAIN recv, NEW status \in RecvStatus, NEW type,
         Answer(r, status, type), Present(recv, r), NEW s, s = recv[r].remote
  PROVE  /\ s \in Rows /\ s \in DOMAIN sent /\ s \in DOMAIN sent'
         /\ \A t \in Rows \ {s} : PhaseKept(t)
         /\ Streamed(s)' <=> Streamed(s)
         /\ status \in Granted => Answered(s, Granted)'
         /\ status = "Denied" /\ recv[r].status = "WaitingAccept" =>
               Answered(s, {"Denied"})' /\ (Answered(s, Granted)' <=> Answered(s, Granted))
<1>1. sent' = sent /\ conns' = conns
  BY DEF Answer, senderVars
<1>2. /\ DOMAIN recv' = DOMAIN recv
      /\ \A x \in DOMAIN recv : recv'[x].remote = recv[x].remote
      /\ \A x \in DOMAIN recv : x # r => recv'[x] = recv[x]
  BY EchoFacts, AnswerRows
<1>3. recv'[r].status = status
  <2>1. recv' = [recv EXCEPT ![r] = Updated(recv[r], status, recv[r].path)]
    BY DEF Answer, UpdateMessage
  <2>2. recv[r] \in RecvRow
    BY EchoFacts, Elements
  <2>3. Updated(recv[r], status, recv[r].path).status = status
    BY <2>2 DEF Updated, RecvRow
  <2> QED BY <2>1, <2>3
<1>4. s \in DOMAIN sent /\ s \in Rows
  BY EchoFacts, KnownRows
<1>5. \A t : Streamed(t)' <=> Streamed(t)
  BY <1>1 DEF Streamed
<1> DEFINE Now(t, statuses) == \E x \in DOMAIN recv' : recv'[x].remote = t /\ recv'[x].status \in statuses
<1>6. \A t : /\ Answered(t, Granted)' <=> Now(t, Granted)
             /\ Answered(t, {"Denied"})' <=> Now(t, {"Denied"})
  BY DEF Answered, Granted
<1>7. \A t \in Rows \ {s} : PhaseKept(t)
  <2> SUFFICES ASSUME NEW t, t # s PROVE PhaseKept(t)
    OBVIOUS
  <2>1. \A x \in DOMAIN recv : recv[x].remote = t => recv'[x] = recv[x]
    BY <1>2
  <2>2. Answered(t, Granted)' <=> Answered(t, Granted)
    BY <1>2, <1>6, <2>1 DEF Answered
  <2>3. Answered(t, {"Denied"})' <=> Answered(t, {"Denied"})
    BY <1>2, <1>6, <2>1 DEF Answered
  <2> QED BY <1>1, <1>5, <2>2, <2>3 DEF PhaseKept
<1>8. ASSUME status \in Granted
      PROVE  Answered(s, Granted)'
  <2>1. r \in DOMAIN recv' /\ recv'[r].remote = s /\ recv'[r].status \in Granted
    BY <1>2, <1>3, <1>8
  <2> QED BY <1>6, <2>1
<1>9. ASSUME status = "Denied", recv[r].status = "WaitingAccept"
      PROVE  Answered(s, {"Denied"})' /\ (Answered(s, Granted)' <=> Answered(s, Granted))
  <2>1. r \in DOMAIN recv' /\ recv'[r].remote = s /\ recv'[r].status \in {"Denied"}
    BY <1>2, <1>3, <1>9
  <2>2. recv[r].status \notin Granted /\ recv'[r].status \notin Granted
    BY <1>3, <1>9 DEF Granted
  <2>3. \A x \in DOMAIN recv : x # r => recv'[x].status = recv[x].status
    BY <1>2
  <2>4. Now(s, Granted) <=> Answered(s, Granted)
    BY <1>2, <2>2, <2>3 DEF Answered
  <2> QED BY <1>6, <2>1, <2>4
<1> HIDE DEF Now
<1> QED BY <1>1, <1>4, <1>5, <1>7, <1>8, <1>9

LEMMA AnswerMove ==
  ASSUME EchoInv, NEW r \in DOMAIN recv, NEW status \in RecvStatus, NEW type,
         Answer(r, status, type), Present(recv, r),
         \/ status \in Granted
         \/ status = "Denied" /\ recv[r].status = "WaitingAccept"
  PROVE  Consented!Next \/ PhaseOf' = PhaseOf
<1>1. PICK s : s = recv[r].remote
  OBVIOUS
<1>2. /\ s \in Rows /\ s \in DOMAIN sent /\ s \in DOMAIN sent'
      /\ \A t \in Rows \ {s} : PhaseKept(t)
      /\ Streamed(s)' <=> Streamed(s)
      /\ status \in Granted => Answered(s, Granted)'
      /\ status = "Denied" /\ recv[r].status = "WaitingAccept" =>
            Answered(s, {"Denied"})' /\ (Answered(s, Granted)' <=> Answered(s, Granted))
  BY <1>1, AnswerPhase
<1>3. \A t \in Rows \ {s} : Phase(t)' = Phase(t)
  BY <1>2, KeptPhase
<1>4. \/ Phase(s)' = Phase(s)
      \/ Phase(s) \in {"offered", "refused"} /\ Phase(s)' = "granted"
      \/ Phase(s) \in {"offered"} /\ Phase(s)' = "refused"
  BY <1>2 DEF Phase
<1>5. CASE Phase(s)' = Phase(s)
  BY <1>3, <1>5 DEF PhaseOf
<1>6. CASE Phase(s) \in {"offered", "refused"} /\ Phase(s)' = "granted"
  <2>1. Consented!Grant(s)
    BY <1>2, <1>3, <1>6, PhaseMove DEF Consented!Grant
  <2> QED BY <1>2, <2>1 DEF Consented!Next
<1>7. CASE Phase(s) \in {"offered"} /\ Phase(s)' = "refused"
  <2>1. Consented!Refuse(s)
    BY <1>2, <1>3, <1>7, PhaseMove DEF Consented!Refuse
  <2> QED BY <1>2, <2>1 DEF Consented!Next
<1> QED BY <1>4, <1>5, <1>6, <1>7

LEMMA OfferMove ==
  ASSUME EchoInv, NEW kind \in Kinds, SendOffer(kind)
  PROVE  Consented!Next
<1> PICK s : s = Len(sent) + 1
  OBVIOUS
<1>1. PICK row : sent' = Append(sent, row)
  BY DEF SendOffer, AddMessage
<1>2. DOMAIN sent' = DOMAIN sent \union {s} /\ s \notin DOMAIN sent
  <2>1. sent \in Seq(OfferRow \union {row})
    BY EchoFacts, SeqMonotonic DEF TypeOK
  <2>2. DOMAIN sent = 1..Len(sent) /\ Len(sent) \in Nat
    BY EchoFacts, Elements
  <2>3. DOMAIN Append(sent, row) = 1..(Len(sent) + 1)
    BY <2>1, AppendProperties, LenProperties
  <2> QED BY <1>1, <2>2, <2>3
<1>3. s \in Rows
  <2>1. Len(sent) < MaxOffers /\ Len(sent) \in Nat
    BY EchoFacts, Elements DEF SendOffer
  <2> QED BY <2>1, BoundsAssumption DEF Rows
<1>4. ~Streamed(s) /\ ~Answered(s, Granted) /\ ~Answered(s, {"Denied"})
  BY <1>2, KnownRows DEF Answered
<1>5. recv' = recv /\ conns' = conns
  BY DEF SendOffer, receiverVars
<1>6. \A t : /\ Streamed(t)' <=> Streamed(t)
             /\ Answered(t, Granted)' <=> Answered(t, Granted)
             /\ Answered(t, {"Denied"})' <=> Answered(t, {"Denied"})
  BY <1>5 DEF Streamed, Answered, Granted
<1>7. Phase(s) \in {"none"} /\ Phase(s)' = "offered"
  BY <1>2, <1>4, <1>6 DEF Phase
<1>8. \A t \in Rows \ {s} : Phase(t)' = Phase(t)
  BY <1>2, <1>6, KeptPhase DEF PhaseKept
<1>9. Consented!Offer(s)
  BY <1>3, <1>7, <1>8, PhaseMove DEF Consented!Offer
<1> QED BY <1>3, <1>9 DEF Consented!Next

LEMMA RouteMove ==
  ASSUME EchoInv, Route, DOMAIN sent' = DOMAIN sent
  PROVE  Consented!Next \/ PhaseOf' = PhaseOf
<1>1. \A t : /\ Answered(t, Granted)' <=> Answered(t, Granted)
             /\ Answered(t, {"Denied"})' <=> Answered(t, {"Denied"})
  BY EchoFacts, RouteRows, AnsweredKept
<1>2. CASE conns' = conns
  <2>1. \A t : Streamed(t)' <=> Streamed(t)
    BY <1>2 DEF Streamed
  <2> QED BY <1>1, <2>1, PhaseStutter DEF PhaseKept
<1>3. CASE conns' # conns
  <2> PICK f, s : f = Head(toSend) /\ s = f.id
    OBVIOUS
  <2> DEFINE k == [offer |-> s, declared |-> f.local, client |-> TRUE, written |-> 0,
                   eos |-> FALSE, xfer |-> TRUE, cut |-> FALSE, begun |-> 0, ended |-> 0,
                   saving |-> NoPath, entry |-> NoEntry, placed |-> {}]
  <2>1. /\ toSend # <<>> /\ f.type # "FileReject"
        /\ conns' = Append(conns, k)
    <3>1. CASE RouteFileAccept
      BY <1>3, <3>1 DEF RouteFileAccept, TakeReply, StartClient
    <3>2. CASE RouteRequestAgain
      BY <1>3, <3>2 DEF RouteRequestAgain, TakeReply, StartClient
    <3> QED BY <1>3, <3>1, <3>2 DEF Route, RouteFileRequest, RouteFileReject
  <2>2. k.offer = s
    OBVIOUS
  <2> HIDE DEF k
  <2>3. 1 \in DOMAIN toSend /\ f = toSend[1]
    BY <2>1, EchoFacts, EmptySeq, LenProperties DEF TypeOK
  <2>4. f.local \in DOMAIN recv /\ recv[f.local].remote = s /\ recv[f.local].status \in Granted
    BY <2>1, <2>3, EchoFacts
  <2>5. Answered(s, Granted) /\ s \in Rows
    BY <2>4, EchoFacts, KnownRows DEF Answered
  <2>6. /\ \A d \in DOMAIN conns : d \in DOMAIN conns' /\ conns'[d] = conns[d]
        /\ \A d \in DOMAIN conns' : d \in DOMAIN conns \/ conns'[d] = k
        /\ \E d \in DOMAIN conns' : conns'[d] = k
    <3>1. conns \in Seq(Conn \union {k}) /\ k \in Conn \union {k}
      BY EchoFacts, SeqMonotonic DEF TypeOK
    <3> QED BY <2>1, <3>1, AppendProperties, LenProperties
  <2>7. Streamed(s)' /\ \A t \in Rows \ {s} : Streamed(t)' <=> Streamed(t)
    BY <2>2, <2>6 DEF Streamed
  <2>8. \A t \in Rows \ {s} : Phase(t)' = Phase(t)
    BY <1>1, <2>7, KeptPhase DEF PhaseKept
  <2>9. Phase(s)' = "streamed" /\ Phase(s) \in {"streamed", "granted"}
    BY <2>5, <2>7 DEF Phase
  <2>10. CASE Phase(s) = "granted"
    <3>1. Consented!Stream(s)
      BY <2>5, <2>8, <2>9, <2>10, PhaseMove DEF Consented!Stream
    <3> QED BY <2>5, <3>1 DEF Consented!Next
  <2>11. CASE Phase(s) = "streamed"
    BY <2>8, <2>9, <2>11 DEF PhaseOf
  <2> QED BY <2>9, <2>10, <2>11
<1> QED BY <1>2, <1>3

LEMMA ConsentNext ==
  ASSUME EchoInv, [Next]_vars
  PROVE  Consented!Next \/ PhaseOf' = PhaseOf
<1>1. \A id, status, path : DOMAIN UpdateMessage(sent, id, status, path) = DOMAIN sent
  BY DEF UpdateMessage
<1>2. DOMAIN ClearPeer(sent) = DOMAIN sent
  BY DEF ClearPeer
<1>3. ASSUME DOMAIN sent' = DOMAIN sent, RowsMove({}) \/ RowsMove(Finish),
             DOMAIN conns' = DOMAIN conns,
             \A d \in DOMAIN conns : conns'[d].offer = conns[d].offer
      PROVE  PhaseOf' = PhaseOf
  BY <1>3, AnsweredKept, StreamedKept, PhaseStutter DEF PhaseKept
<1>4. \A d \in DOMAIN conns : d \in DOMAIN conns' /\ conns'[d].offer = conns[d].offer
  BY NextConns
<1>5. CASE Click
  <2>1. ASSUME NEW r \in Rows, NEW dir \in Dirs, AcceptTransfer(r, dir)
        PROVE  Consented!Next \/ PhaseOf' = PhaseOf
    BY <2>1, AnswerMove DEF AcceptTransfer, Clickable, Present, Granted, RecvStatus
  <2>2. ASSUME NEW r \in Rows, DenyTransfer(r)
        PROVE  Consented!Next \/ PhaseOf' = PhaseOf
    BY <2>2, AnswerMove DEF DenyTransfer, Clickable, Present, RecvStatus
  <2>3. ASSUME NEW r \in Rows, RequestAgain(r)
        PROVE  Consented!Next \/ PhaseOf' = PhaseOf
    BY <2>3, AnswerMove DEF RequestAgain, Clickable, Present, Granted, RecvStatus
  <2>4. ASSUME NEW a \in Apps, DeleteHistory(a)
        PROVE  PhaseOf' = PhaseOf
    <3>1. conns' = conns /\ DOMAIN sent' = DOMAIN sent /\ (recv' = recv \/ recv' = ClearPeer(recv))
      BY <1>2, <2>4 DEF DeleteHistory
    <3>2. recv \in Seq(RecvRow) /\ DOMAIN ClearPeer(recv) = DOMAIN recv
      BY EchoFacts DEF ClearPeer, TypeOK
    <3>3. RowsMove({})
      BY <3>1, <3>2, ClearReceived DEF RowsMove
    <3> QED BY <1>3, <3>1, <3>3
  <2> QED BY <1>5, <2>1, <2>2, <2>3, <2>4, OfferMove DEF Click
<1>6. CASE Route
  <2>1. DOMAIN sent' = DOMAIN sent
    BY <1>1, <1>6 DEF Route, RouteFileRequest, RouteFileAccept, RouteFileReject,
                      RouteRequestAgain, StartClient, senderVars
  <2> QED BY <1>6, <2>1, RouteMove
<1>7. ASSUME NEW c \in Tids, Stream(c) \/ Break(c)
      PROVE  PhaseOf' = PhaseOf
  <2>1. DOMAIN sent' = DOMAIN sent
    <3>1. CASE WriteFile(c) \/ FinishSending(c)
      BY <1>1, <3>1 DEF WriteFile, FinishSending
    <3>2. CASE ~(WriteFile(c) \/ FinishSending(c))
      BY <1>7, <3>2 DEF Stream, Break, BeginFile, EndFile, FinishBatch, ClientFails, RejectFile,
                        XferFails, senderVars
    <3> QED BY <3>1, <3>2
  <2>2. RowsMove({}) \/ RowsMove(Finish)
    BY <1>7, EchoFacts, StreamRows, FinishRows
  <2>3. DOMAIN conns' = DOMAIN conns
    BY <1>7 DEF Stream, Break, WriteFile, FinishSending, BeginFile, EndFile, FinishBatch,
                ClientFails, RejectFile, XferFails
  <2> QED BY <1>3, <1>4, <2>1, <2>2, <2>3
<1>8. CASE Environment
  <2>1. DOMAIN sent' = DOMAIN sent /\ DOMAIN conns' = DOMAIN conns
    BY <1>2, <1>8 DEF Environment, PeerAppears, PeerDropped, LoseFrames, RestartS, RestartR,
                      senderVars
  <2>2. RowsMove({})
    BY <1>8, EchoFacts, EnvironmentRows
  <2> QED BY <1>3, <1>4, <2>1, <2>2
<1>9. CASE UNCHANGED vars
  <2>1. sent' = sent /\ recv' = recv /\ conns' = conns
    BY <1>9 DEF vars, senderVars, receiverVars
  <2>2. RowsMove({})
    BY <2>1 DEF RowsMove
  <2> QED BY <1>3, <2>1, <2>2
<1> QED BY <1>5, <1>6, <1>7, <1>8, <1>9 DEF Next

LEMMA ConsentInit == Init => Consented!Init
<1> SUFFICES ASSUME Init PROVE Consented!Init
  OBVIOUS
<1>1. DOMAIN conns = {} /\ DOMAIN recv = {} /\ DOMAIN sent = {}
  BY DEF Init
<1>2. \A s : Phase(s) = "none"
  BY <1>1 DEF Phase, Streamed, Answered
<1> QED BY <1>2 DEF Consented!Init

(* Nothing is streamed that R's user did not accept or ask for again.      *)
THEOREM ConsentCorrect == Spec => DataOnlyByConsent
<1>1. EchoInv /\ [Next]_vars => EchoInv'
  BY EchoNext
<1>2. EchoInv /\ [Next]_vars => [Consented!Next]_([s \in Rows |-> Phase(s)])
  BY ConsentNext DEF PhaseOf
<1> QED BY <1>1, <1>2, InitEcho, ConsentInit, PTL DEF Spec, DataOnlyByConsent, Consented!Spec

-----------------------------------------------------------------------------
(* Offers in the order in which S made them: those R has a row for come    *)
(* before those on their way, and these before those in the outbox.        *)
Rise(q) == \A i, j \in DOMAIN q : i < j => q[i] < q[j]
Below(p, q) == \A i \in DOMAIN p, j \in DOMAIN q : p[i] < q[j]

Remotes == [r \in DOMAIN recv |-> recv[r].remote]

Rising == /\ Rise(Remotes) /\ Rise(toRecv) /\ Rise(outbox)
          /\ Below(Remotes, toRecv) /\ Below(Remotes, outbox) /\ Below(toRecv, outbox)
          /\ online["S"] => outbox = <<>>

(* t is cut out of q, which leaves the order as it is.                     *)
Cut(t, q) == \E d \in Nat : \A i \in DOMAIN t : i + d \in DOMAIN q /\ t[i] = q[i + d]

LEMMA CutFacts ==
  ASSUME NEW t \in Seq(Nat), NEW q \in Seq(Nat), Cut(t, q)
  PROVE  /\ Rise(q) => Rise(t)
         /\ \A p : Below(p, q) => Below(p, t)
         /\ \A p : Below(q, p) => Below(t, p)
<1>1. PICK d \in Nat : \A i \in DOMAIN t : i + d \in DOMAIN q /\ t[i] = q[i + d]
  BY DEF Cut
<1>2. DOMAIN t = 1..Len(t) /\ DOMAIN q = 1..Len(q)
  BY LenProperties
<1>3. \A i, j \in DOMAIN t : i < j => i + d < j + d
  BY <1>2
<1> QED BY <1>1, <1>3 DEF Rise, Below

LEMMA CutCases ==
  ASSUME NEW T, NEW q \in Seq(T)
  PROVE  /\ Cut(q, q) /\ Cut(<<>>, q)
         /\ \A t \in Truncated(q) : Cut(t, q)
         /\ q # <<>> => Cut(Tail(q), q)
<1>1. DOMAIN q = 1..Len(q) /\ Len(q) \in Nat
  BY LenProperties
<1>2. Cut(q, q) /\ Cut(<<>>, q)
  <2>1. \A i \in DOMAIN q : i + 0 \in DOMAIN q /\ q[i] = q[i + 0]
    BY <1>1
  <2>2. DOMAIN <<>> = {}
    OBVIOUS
  <2> QED BY <2>1, <2>2 DEF Cut
<1>3. ASSUME NEW t \in Truncated(q) PROVE Cut(t, q)
  <2>1. t \in Seq(T) /\ Len(t) <= Len(q) /\ \A i \in DOMAIN t : t[i] = q[i]
    BY TruncatedFacts
  <2>2. DOMAIN t = 1..Len(t) /\ Len(t) \in Nat
    BY <2>1, LenProperties
  <2>3. \A i \in DOMAIN t : i + 0 \in DOMAIN q /\ t[i] = q[i + 0]
    BY <1>1, <2>1, <2>2
  <2> QED BY <2>3 DEF Cut
<1>4. ASSUME q # <<>> PROVE Cut(Tail(q), q)
  <2>1. Tail(q) \in Seq(T) /\ Len(Tail(q)) = Len(q) - 1 /\ \A i \in 1..Len(Tail(q)) : Tail(q)[i] = q[i + 1]
    BY <1>4, HeadTailProperties
  <2>2. DOMAIN Tail(q) = 1..Len(Tail(q))
    BY <2>1, LenProperties
  <2>3. \A i \in DOMAIN Tail(q) : i + 1 \in DOMAIN q /\ Tail(q)[i] = q[i + 1]
    BY <1>1, <2>1, <2>2
  <2> QED BY <2>3 DEF Cut
<1> QED BY <1>2, <1>3, <1>4

LEMMA AppendRises ==
  ASSUME NEW q \in Seq(Nat), NEW n \in Nat, \A i \in DOMAIN q : q[i] < n
  PROVE  /\ Rise(q) => Rise(Append(q, n))
         /\ \A p : Below(p, q) /\ (\A i \in DOMAIN p : p[i] < n) => Below(p, Append(q, n))
         /\ \A p : Below(q, p) /\ (\A i \in DOMAIN p : n < p[i]) => Below(Append(q, n), p)
<1>1. PICK r : r = Append(q, n)
  OBVIOUS
<1>2. /\ DOMAIN q = 1..Len(q) /\ Len(q) \in Nat /\ DOMAIN r = 1..(Len(q) + 1)
      /\ \A i \in 1..Len(q) : r[i] = q[i]
      /\ r[Len(q) + 1] = n
  BY <1>1, AppendProperties, LenProperties
<1>3. \A i \in DOMAIN r : \/ i \in DOMAIN q /\ r[i] = q[i] /\ i < Len(q) + 1
                          \/ i = Len(q) + 1 /\ r[i] = n
  BY <1>2
<1>4. Rise(q) => Rise(r)
  <2> SUFFICES ASSUME Rise(q), NEW i \in DOMAIN r, NEW j \in DOMAIN r, i < j PROVE r[i] < r[j]
    BY DEF Rise
  <2>1. i \in DOMAIN q /\ r[i] = q[i]
    BY <1>2, <1>3
  <2>2. CASE j \in DOMAIN q /\ r[j] = q[j]
    BY <2>1, <2>2 DEF Rise
  <2>3. CASE r[j] = n
    BY <2>1, <2>3
  <2> QED BY <1>3, <2>2, <2>3
<1>5. \A p : Below(p, q) /\ (\A i \in DOMAIN p : p[i] < n) => Below(p, r)
  BY <1>3 DEF Below
<1>6. \A p : Below(q, p) /\ (\A i \in DOMAIN p : n < p[i]) => Below(r, p)
  BY <1>3 DEF Below
<1> QED BY <1>1, <1>4, <1>5, <1>6

LEMMA ConcatRises ==
  ASSUME NEW p \in Seq(Nat), NEW q \in Seq(Nat)
  PROVE  /\ Rise(p) /\ Rise(q) /\ Below(p, q) => Rise(p \o q)
         /\ \A r : Below(r, p) /\ Below(r, q) => Below(r, p \o q)
<1>1. PICK r : r = p \o q
  OBVIOUS
<1>2. /\ Len(p) \in Nat /\ Len(q) \in Nat /\ DOMAIN p = 1..Len(p) /\ DOMAIN q = 1..Len(q)
      /\ DOMAIN r = 1..(Len(p) + Len(q))
      /\ \A i \in 1..(Len(p) + Len(q)) : r[i] = IF i <= Len(p) THEN p[i] ELSE q[i - Len(p)]
  BY <1>1, LenProperties, ConcatProperties
<1>3. \A i \in DOMAIN r : \/ i \in DOMAIN p /\ r[i] = p[i]
                          \/ i - Len(p) \in DOMAIN q /\ r[i] = q[i - Len(p)] /\ Len(p) < i
  BY <1>2
<1>4. ASSUME Rise(p), Rise(q), Below(p, q) PROVE Rise(r)
  <2> SUFFICES ASSUME NEW i \in DOMAIN r, NEW j \in DOMAIN r, i < j PROVE r[i] < r[j]
    BY DEF Rise
  <2>1. i \in Nat /\ j \in Nat
    BY <1>2
  <2>2. CASE i \in DOMAIN p /\ r[i] = p[i] /\ j \in DOMAIN p /\ r[j] = p[j]
    BY <1>4, <2>2 DEF Rise
  <2>3. CASE i \in DOMAIN p /\ r[i] = p[i] /\ j - Len(p) \in DOMAIN q /\ r[j] = q[j - Len(p)]
    BY <1>4, <2>3 DEF Below
  <2>4. CASE /\ i - Len(p) \in DOMAIN q /\ r[i] = q[i - Len(p)] /\ Len(p) < i
             /\ j - Len(p) \in DOMAIN q /\ r[j] = q[j - Len(p)]
    <3>1. i - Len(p) < j - Len(p)
      BY <1>2, <2>1
    <3> QED BY <1>4, <2>4, <3>1 DEF Rise
  <2>5. ~(Len(p) < i /\ j \in DOMAIN p)
    BY <1>2, <2>1
  <2> QED BY <1>3, <2>2, <2>3, <2>4, <2>5
<1>5. \A x : Below(x, p) /\ Below(x, q) => Below(x, r)
  BY <1>3 DEF Below
<1> QED BY <1>1, <1>4, <1>5

(* Only a FileRequest adds a row to R's store.                             *)
LEMMA RecvKept ==
  ASSUME [Next]_vars, ~RouteFileRequest
  PROVE  DOMAIN recv' = DOMAIN recv
<1>1. \A id, status, path : DOMAIN UpdateMessage(recv, id, status, path) = DOMAIN recv
  BY DEF UpdateMessage
<1>2. DOMAIN ClearPeer(recv) = DOMAIN recv
  BY DEF ClearPeer
<1>3. CASE Click
  BY <1>1, <1>2, <1>3 DEF Click, SendOffer, AcceptTransfer, DenyTransfer, RequestAgain,
                          DeleteHistory, Answer, receiverVars
<1>4. CASE Route
  BY <1>4 DEF Route, RouteFileAccept, RouteFileReject, RouteRequestAgain, TakeReply, receiverVars
<1>5. ASSUME NEW c \in Tids, Stream(c) \/ Break(c)
      PROVE  DOMAIN recv' = DOMAIN recv
  <2>1. CASE EndFile(c) \/ RejectFile(c) \/ FinishBatch(c)
    BY <1>1, <2>1 DEF EndFile, RejectFile, FinishBatch, UpdateEntry
  <2>2. CASE WriteFile(c) \/ FinishSending(c) \/ BeginFile(c) \/ ClientFails(c) \/ XferFails(c)
    BY <2>2 DEF WriteFile, FinishSending, BeginFile, ClientFails, XferFails, receiverVars
  <2> QED BY <1>5, <2>1, <2>2 DEF Stream, Break
<1>6. CASE Environment
  BY <1>2, <1>6 DEF Environment, PeerAppears, PeerDropped, LoseFrames, RestartS, RestartR,
                    receiverVars
<1>7. CASE UNCHANGED vars
  BY <1>7 DEF vars, receiverVars
<1> QED BY <1>3, <1>4, <1>5, <1>6, <1>7 DEF Next

(* Every id in the lane is an offer that S has made.                       *)
LEMMA LaneTypes ==
  ASSUME EchoInv
  PROVE  /\ toRecv \in Seq(Nat) /\ outbox \in Seq(Nat) /\ Remotes \in Seq(Nat)
         /\ DOMAIN sent = 1..Len(sent) /\ Len(sent) \in Nat
         /\ \A i \in DOMAIN toRecv : toRecv[i] \in DOMAIN sent
         /\ \A i \in DOMAIN outbox : outbox[i] \in DOMAIN sent
         /\ \A r \in DOMAIN Remotes : Remotes[r] \in DOMAIN sent
         /\ DOMAIN Remotes = DOMAIN recv /\ \A r \in DOMAIN recv : Remotes[r] = recv[r].remote
<1>1. /\ toRecv \in Seq(DOMAIN sent) /\ outbox \in Seq(DOMAIN sent)
      /\ DOMAIN sent = 1..Len(sent) /\ Len(sent) \in Nat /\ DOMAIN sent \subseteq Nat
      /\ DOMAIN recv = 1..Len(recv) /\ Len(recv) \in Nat
  BY EchoFacts, Elements DEF TypeOK
<1>2. Remotes \in [1..Len(recv) -> Nat]
  BY <1>1, EchoFacts DEF Remotes
<1>3. Remotes \in Seq(Nat)
  BY <1>1, <1>2, FunctionIsSeq
<1>4. /\ \A i \in DOMAIN toRecv : toRecv[i] \in DOMAIN sent
      /\ \A i \in DOMAIN outbox : outbox[i] \in DOMAIN sent
  BY <1>1, ElementOfSeq, LenProperties
<1>5. toRecv \in Seq(Nat) /\ outbox \in Seq(Nat)
  BY <1>1, SeqMonotonic
<1> QED BY <1>1, <1>3, <1>4, <1>5, EchoFacts DEF Remotes

LEMMA RisingFrame ==
  ASSUME EchoInv, EchoInv', Rising,
         DOMAIN recv' = DOMAIN recv, \A r \in DOMAIN recv : recv'[r].remote = recv[r].remote,
         Cut(toRecv', toRecv), outbox' = outbox, online'["S"] => online["S"]
  PROVE  Rising'
<1>1. Remotes' = Remotes
  BY DEF Remotes
<1>2. toRecv \in Seq(Nat) /\ toRecv' \in Seq(Nat) /\ outbox \in Seq(Nat) /\ Remotes \in Seq(Nat)
  <2>1. toRecv' \in Seq(DOMAIN sent') /\ DOMAIN sent' \subseteq Nat
    BY EchoFacts, Elements DEF EchoInv, EntriesInv, TypeOK
  <2>2. toRecv' \in Seq(Nat)
    BY <2>1, SeqMonotonic
  <2> QED BY <2>2, LaneTypes
<1>3. /\ Rise(toRecv) => Rise(toRecv')
      /\ Below(Remotes, toRecv) => Below(Remotes, toRecv')
      /\ Below(toRecv, outbox) => Below(toRecv', outbox)
  BY <1>2, CutFacts
<1> QED BY <1>1, <1>3 DEF Rising

LEMMA RisingNext ==
  ASSUME EchoInv, EchoInv', Rising, [Next]_vars
  PROVE  Rising'
<1>0. /\ toRecv \in Seq(Nat) /\ outbox \in Seq(Nat) /\ Remotes \in Seq(Nat)
      /\ DOMAIN sent = 1..Len(sent) /\ Len(sent) \in Nat /\ Len(sent) + 1 \in Nat
      /\ \A i \in DOMAIN toRecv : toRecv[i] < Len(sent) + 1
      /\ \A i \in DOMAIN outbox : outbox[i] < Len(sent) + 1
      /\ \A r \in DOMAIN Remotes : Remotes[r] < Len(sent) + 1
  BY LaneTypes
<1>1. \A r \in DOMAIN recv : recv'[r].remote = recv[r].remote
  BY EchoFacts, NextRows DEF RowsMove
<1>2. \A p : Below(p, <<>>) /\ Rise(<<>>) /\ Below(<<>>, p)
  BY DEF Below, Rise
<1>3. ASSUME NEW kind \in Kinds, SendOffer(kind) PROVE Rising'
  <2>0. Remotes' = Remotes /\ online' = online
    BY <1>3 DEF SendOffer, Remotes, receiverVars
  <2>1. CASE online["S"] /\ toRecv' = Append(toRecv, Len(sent) + 1) /\ outbox' = outbox
    <3>1. outbox = <<>>
      BY <2>1 DEF Rising
    <3>2. Rise(toRecv') /\ Below(Remotes, toRecv')
      BY <1>0, <2>1, AppendRises DEF Rising
    <3> QED BY <1>2, <2>0, <2>1, <3>1, <3>2 DEF Rising
  <2>2. CASE ~online["S"] /\ toRecv' = toRecv /\ outbox' = Append(outbox, Len(sent) + 1)
    <3>1. Rise(outbox') /\ Below(Remotes, outbox') /\ Below(toRecv, outbox')
      BY <1>0, <2>2, AppendRises DEF Rising
    <3> QED BY <2>0, <2>2, <3>1 DEF Rising
  <2>3. CASE UNCHANGED <<toRecv, outbox>>
    BY <2>0, <2>3 DEF Rising
  <2> QED BY <1>3, <2>1, <2>2, <2>3 DEF SendOffer
<1>4. CASE RouteFileRequest
  <2> DEFINE s == Head(toRecv)
  <2>1. /\ toRecv # <<>> /\ toRecv' = Tail(toRecv) /\ outbox' = outbox /\ online' = online
        /\ s = toRecv[1] /\ 1 \in DOMAIN toRecv /\ s \in Nat
    BY <1>0, <1>4, EmptySeq, LenProperties, ElementOfSeq DEF RouteFileRequest, senderVars
  <2>2. Remotes' = Append(Remotes, s)
    <3>1. /\ DOMAIN recv' = 1..(Len(recv) + 1) /\ DOMAIN recv = 1..Len(recv) /\ Len(recv) \in Nat
          /\ \A r \in DOMAIN recv : recv'[r] = recv[r]
          /\ recv'[Len(recv) + 1].remote = s
      BY <1>4, EchoFacts, RequestRows
    <3>2. Len(Remotes) = Len(recv) /\ DOMAIN Remotes = 1..Len(recv)
      BY <1>0, <3>1, LaneTypes, LenProperties
    <3>3. PICK new : new = Append(Remotes, s)
      OBVIOUS
    <3>4. /\ new \in Seq(Nat) /\ Len(new) = Len(recv) + 1
          /\ \A i \in 1..Len(recv) : new[i] = Remotes[i]
          /\ new[Len(recv) + 1] = s
      BY <1>0, <2>1, <3>2, <3>3, AppendProperties
    <3>5. /\ Remotes' \in Seq(Nat) /\ DOMAIN Remotes' = DOMAIN recv'
          /\ \A r \in DOMAIN recv' : Remotes'[r] = recv'[r].remote
      <4>1. Remotes' = [r \in DOMAIN recv' |-> recv'[r].remote]
        BY DEF Remotes
      <4>2. ASSUME NEW r \in DOMAIN recv' PROVE recv'[r].remote \in Nat
        <5>1. \A x \in DOMAIN recv : recv[x].remote \in DOMAIN sent
          BY EchoFacts
        <5>2. CASE r \in DOMAIN recv
          BY <1>0, <3>1, <5>1, <5>2
        <5>3. CASE r = Len(recv) + 1
          BY <2>1, <3>1, <5>3
        <5> QED BY <3>1, <5>2, <5>3
      <4>3. PICK f : f = [r \in 1..(Len(recv) + 1) |-> recv'[r].remote]
        OBVIOUS
      <4>4. f \in [1..(Len(recv) + 1) -> Nat]
        BY <3>1, <4>2, <4>3
      <4>5. Len(recv) + 1 \in Nat
        BY <3>1
      <4>6. f \in Seq(Nat)
        BY <4>4, <4>5, FunctionIsSeq
      <4>7. Remotes' = f
        BY <3>1, <4>1, <4>3
      <4> QED BY <3>1, <4>3, <4>6, <4>7
    <3>6. Len(Remotes') = Len(recv) + 1
      BY <3>1, <3>5, LenProperties
    <3>7. \A r \in DOMAIN recv : Remotes[r] = recv[r].remote
      BY LaneTypes
    <3>8. ASSUME NEW i \in 1..(Len(recv) + 1)
          PROVE  Remotes'[i] = new[i]
      <4>1. Remotes'[i] = recv'[i].remote
        BY <3>1, <3>5
      <4>2. CASE i \in 1..Len(recv)
        BY <3>1, <3>4, <3>7, <4>1, <4>2
      <4>3. CASE i = Len(recv) + 1
        BY <3>1, <3>4, <4>1, <4>3
      <4> QED BY <3>1, <4>2, <4>3
    <3> QED BY <3>3, <3>4, <3>5, <3>6, <3>8, SeqEqual
  <2>3. Cut(toRecv', toRecv) /\ toRecv' \in Seq(Nat)
    BY <1>0, <2>1, CutCases, HeadTailProperties
  <2>4. Rise(toRecv') /\ Below(Remotes, toRecv') /\ Below(toRecv', outbox)
    BY <1>0, <2>3, CutFacts DEF Rising
  <2>5. \A i \in DOMAIN toRecv' : s < toRecv'[i]
    <3>1. Len(toRecv) \in Nat /\ DOMAIN toRecv = 1..Len(toRecv)
      BY <1>0, LenProperties
    <3>2. Len(toRecv') = Len(toRecv) - 1 /\ \A i \in 1..Len(toRecv') : toRecv'[i] = toRecv[i + 1]
      BY <1>0, <2>1, HeadTailProperties
    <3>3. DOMAIN toRecv' = 1..Len(toRecv')
      BY <2>3, LenProperties
    <3>4. \A i \in DOMAIN toRecv' : i + 1 \in DOMAIN toRecv /\ 1 < i + 1 /\ toRecv'[i] = toRecv[i + 1]
      BY <3>1, <3>2, <3>3
    <3> QED BY <2>1, <3>4 DEF Rising, Rise
  <2>6. \A i \in DOMAIN outbox : s < outbox[i]
    BY <2>1 DEF Rising, Below
  <2>7. \A r \in DOMAIN Remotes : Remotes[r] < s
    BY <2>1 DEF Rising, Below
  <2> HIDE DEF s
  <2>8. Rise(Remotes') /\ Below(Remotes', toRecv') /\ Below(Remotes', outbox)
    BY <1>0, <2>1, <2>2, <2>4, <2>5, <2>6, <2>7, AppendRises DEF Rising
  <2> QED BY <2>1, <2>4, <2>8 DEF Rising
<1>5. CASE PeerAppears("S")
  <2>1. toRecv' = toRecv \o outbox /\ outbox' = <<>> /\ Remotes' = Remotes
    BY <1>5 DEF PeerAppears, receiverVars, Remotes
  <2>2. Rise(toRecv') /\ Below(Remotes, toRecv')
    BY <1>0, <2>1, ConcatRises DEF Rising
  <2> QED BY <1>2, <2>1, <2>2 DEF Rising
<1>6. ASSUME ~RouteFileRequest, ~PeerAppears("S"), \A kind \in Kinds : ~SendOffer(kind)
      PROVE  Rising'
  <2>1. DOMAIN recv' = DOMAIN recv
    BY <1>6, RecvKept
  <2>2. /\ \/ toRecv' = toRecv \/ toRecv' = <<>> \/ toRecv' \in Truncated(toRecv)
        /\ outbox' = outbox /\ (online'["S"] => online["S"])
    <3>1. CASE Click
      BY <1>6, <3>1 DEF Click, AcceptTransfer, DenyTransfer, RequestAgain, DeleteHistory, Answer,
                        senderVars, netVars
    <3>2. CASE Route
      BY <1>6, <3>2 DEF Route, RouteFileAccept, RouteFileReject, RouteRequestAgain, TakeReply
    <3>3. ASSUME NEW c \in Tids, Stream(c) \/ Break(c)
          PROVE  UNCHANGED <<toRecv, outbox, online>>
      BY <3>3 DEF Stream, Break, WriteFile, FinishSending, BeginFile, EndFile, FinishBatch,
                  ClientFails, RejectFile, XferFails, senderVars, netVars
    <3>4. CASE Environment
      <4>1. online \in [Apps -> BOOLEAN]
        BY EchoFacts DEF TypeOK
      <4>2. CASE PeerAppears("R")
        BY <4>1, <4>2 DEF PeerAppears, Apps
      <4>3. CASE (\E a \in Apps : PeerDropped(a)) \/ RestartS \/ RestartR
        BY <4>1, <4>3 DEF PeerDropped, RestartS, RestartR, Apps, senderVars, netVars
      <4>4. CASE LoseFrames
        BY <4>4 DEF LoseFrames, senderVars
      <4> QED BY <1>6, <3>4, <4>2, <4>3, <4>4 DEF Environment, Apps
    <3>5. CASE UNCHANGED vars
      BY <3>5 DEF vars, senderVars, netVars
    <3> QED BY <3>1, <3>2, <3>3, <3>4, <3>5 DEF Next
  <2>3. Cut(toRecv', toRecv)
    BY <1>0, <2>2, CutCases
  <2> QED BY <1>1, <2>1, <2>2, <2>3, RisingFrame
<1> QED BY <1>3, <1>4, <1>5, <1>6

-----------------------------------------------------------------------------
(* The answers on their way to S: a row is answered once, by an Accept or  *)
(* a Deny, and asked for again at most once after that.                    *)
First(f) == f.type # "RequestAgain"

RepliesOrdered ==
  \A i \in DOMAIN toSend :
     /\ First(toSend[i]) => recv[toSend[i].local].status # "WaitingAccept"
     /\ ~First(toSend[i]) => recv[toSend[i].local].status = "RequestAgain"
     /\ \A j \in DOMAIN toSend : i < j /\ toSend[i].id = toSend[j].id =>
           First(toSend[i]) /\ ~First(toSend[j])

LEMMA SameRow ==
  ASSUME EchoInv, Rising, NEW r \in DOMAIN recv, NEW x \in DOMAIN recv,
         recv[r].remote = recv[x].remote
  PROVE  r = x
<1>1. r \in Nat /\ x \in Nat
  BY EchoFacts, Elements
<1>2. DOMAIN Remotes = DOMAIN recv /\ Remotes[r] = recv[r].remote /\ Remotes[x] = recv[x].remote
  BY LaneTypes
<1>3. Remotes[r] \in Nat /\ Remotes[x] \in Nat
  BY <1>2, LaneTypes, ElementOfSeq, LenProperties
<1>4. ~(r < x) /\ ~(x < r)
  BY <1>2, <1>3 DEF Rising, Rise
<1> QED BY <1>1, <1>4

(* A click on row r that sends f.                                          *)
Clicked(r, f) ==
  /\ r \in DOMAIN recv /\ f.local = r /\ f.id = recv[r].remote /\ f \in Reply
  /\ toSend' = Append(toSend, f)
  /\ \/ First(f) /\ recv[r].status = "WaitingAccept" /\ recv'[r].status # "WaitingAccept"
     \/ /\ ~First(f) /\ recv[r].status \in {"Done", "Denied"}
        /\ recv'[r].status = "RequestAgain"

LEMMA AnswerClicked ==
  ASSUME EchoInv, NEW r \in Rows, NEW status \in RecvStatus,
         NEW type \in {"FileAccept", "FileReject", "RequestAgain"},
         Answer(r, status, type), Present(recv, r),
         \/ /\ type # "RequestAgain" /\ recv[r].status = "WaitingAccept"
            /\ status # "WaitingAccept"
         \/ /\ type = "RequestAgain" /\ recv[r].status \in {"Done", "Denied"}
            /\ status = "RequestAgain"
  PROVE  \E f : Clicked(r, f) /\ f.type = type
<1> DEFINE f == [type |-> type, id |-> recv[r].remote, local |-> r]
<1>1. r \in DOMAIN recv /\ recv[r] \in RecvRow /\ r \in Nat
  BY EchoFacts, Elements DEF Present
<1>2. f.local = r /\ f.id = recv[r].remote /\ f.type = type /\ f \in Reply
  BY <1>1 DEF Reply, RecvRow
<1>3. toSend' = Append(toSend, f)
  BY DEF Answer
<1> HIDE DEF f
<1>4. recv'[r].status = status
  <2>1. recv' = [recv EXCEPT ![r] = Updated(recv[r], status, recv[r].path)]
    BY DEF Answer, UpdateMessage
  <2>2. Updated(recv[r], status, recv[r].path).status = status
    BY <1>1 DEF Updated, RecvRow
  <2> QED BY <1>1, <2>1, <2>2
<1> QED BY <1>1, <1>2, <1>3, <1>4 DEF Clicked, First

LEMMA NextSend ==
  ASSUME EchoInv, [Next]_vars
  PROVE  Cut(toSend', toSend) \/ \E r, f : Clicked(r, f)
<1>0. toSend \in Seq(Reply)
  BY EchoFacts DEF TypeOK
<1>1. ASSUME NEW r \in Rows, NEW status \in RecvStatus,
             NEW type \in {"FileAccept", "FileReject", "RequestAgain"},
             Answer(r, status, type), Present(recv, r),
             \/ /\ type # "RequestAgain" /\ recv[r].status = "WaitingAccept"
                /\ status # "WaitingAccept"
             \/ /\ type = "RequestAgain" /\ recv[r].status \in {"Done", "Denied"}
                /\ status = "RequestAgain"
      PROVE  \E f : Clicked(r, f)
  BY <1>1, AnswerClicked
<1>2. CASE Click
  <2>1. ASSUME NEW r \in Rows, NEW dir \in Dirs, AcceptTransfer(r, dir)
        PROVE  \E f : Clicked(r, f)
    BY <1>1, <2>1 DEF AcceptTransfer, Clickable, RecvStatus
  <2>2. ASSUME NEW r \in Rows, DenyTransfer(r) PROVE \E f : Clicked(r, f)
    BY <1>1, <2>2 DEF DenyTransfer, Clickable, RecvStatus
  <2>3. ASSUME NEW r \in Rows, RequestAgain(r) PROVE \E f : Clicked(r, f)
    BY <1>1, <2>3 DEF RequestAgain, Clickable, RecvStatus
  <2>4. (\E kind \in Kinds : SendOffer(kind)) \/ (\E a \in Apps : DeleteHistory(a)) => toSend' = toSend
    BY DEF SendOffer, DeleteHistory, netVars
  <2> QED BY <1>0, <1>2, <2>1, <2>2, <2>3, <2>4, CutCases DEF Click
<1>3. CASE Route
  <2>1. toSend' = toSend \/ (toSend # <<>> /\ toSend' = Tail(toSend))
    BY <1>3 DEF Route, RouteFileRequest, RouteFileAccept, RouteFileReject, RouteRequestAgain,
                TakeReply
  <2> QED BY <1>0, <2>1, CutCases
<1>4. ASSUME NEW c \in Tids, Stream(c) \/ Break(c)
      PROVE  toSend' = toSend
  BY <1>4 DEF Stream, Break, WriteFile, FinishSending, BeginFile, EndFile, FinishBatch,
              ClientFails, RejectFile, XferFails, netVars
<1>5. CASE Environment
  <2>1. toSend' = toSend \/ toSend' = <<>> \/ toSend' \in Truncated(toSend)
    BY <1>5 DEF Environment, PeerAppears, PeerDropped, LoseFrames, RestartS, RestartR, netVars
  <2> QED BY <1>0, <2>1, CutCases
<1>6. CASE UNCHANGED vars
  <2>1. toSend' = toSend
    BY <1>6 DEF vars, netVars
  <2> QED BY <1>0, <2>1, CutCases
<1> QED BY <1>0, <1>2, <1>3, <1>4, <1>5, <1>6, CutCases DEF Next

(* A row keeps what the answers on the wire need of it.                    *)
LEMMA RowStays ==
  ASSUME EchoInv, [Next]_vars, NEW r \in DOMAIN recv
  PROVE  /\ r \in DOMAIN recv' /\ recv'[r].remote = recv[r].remote
         /\ recv[r].status # "WaitingAccept" => recv'[r].status # "WaitingAccept"
         /\ recv[r].status = "RequestAgain" => recv'[r].status = "RequestAgain"
  BY EchoFacts, NextRows DEF RowsMove, Moves

LEMMA RepliesNext ==
  ASSUME EchoInv, Rising, RepliesOrdered, [Next]_vars
  PROVE  RepliesOrdered'
<1> DEFINE Held(f) == /\ First(f) => recv'[f.local].status # "WaitingAccept"
                      /\ ~First(f) => recv'[f.local].status = "RequestAgain"
           Apart(f, g) == f.id = g.id => First(f) /\ ~First(g)
<1>1. SUFFICES /\ \A i \in DOMAIN toSend' : Held(toSend'[i])
               /\ \A i, j \in DOMAIN toSend' : i < j => Apart(toSend'[i], toSend'[j])
  BY DEF RepliesOrdered, First
<1>2. ASSUME NEW i \in DOMAIN toSend PROVE Held(toSend[i])
  <2>1. toSend[i].local \in DOMAIN recv
    BY EchoFacts
  <2> QED BY <2>1, RowStays DEF RepliesOrdered
<1>3. \A i, j \in DOMAIN toSend : i < j => Apart(toSend[i], toSend[j])
  BY DEF RepliesOrdered
<1>4. toSend \in Seq(Reply) /\ DOMAIN toSend = 1..Len(toSend) /\ Len(toSend) \in Nat
  BY EchoFacts, LenProperties DEF TypeOK
<1>5. CASE Cut(toSend', toSend)
  <2>1. PICK d \in Nat : \A i \in DOMAIN toSend' : i + d \in DOMAIN toSend /\ toSend'[i] = toSend[i + d]
    BY <1>5 DEF Cut
  <2>2. \A i \in DOMAIN toSend' : Held(toSend'[i])
    BY <1>2, <2>1
  <2>3. DOMAIN toSend' \subseteq Nat
    <3>1. toSend' \in Seq(Reply)
      BY EchoFacts, EchoNext DEF EchoInv, EntriesInv, TypeOK
    <3> QED BY <3>1, LenProperties
  <2>4. ASSUME NEW i \in DOMAIN toSend', NEW j \in DOMAIN toSend', i < j
        PROVE  Apart(toSend'[i], toSend'[j])
    <3>1. i + d < j + d /\ i + d \in DOMAIN toSend /\ j + d \in DOMAIN toSend
      BY <2>1, <2>3, <2>4
    <3>2. Apart(toSend[i + d], toSend[j + d])
      BY <1>3, <3>1
    <3> QED BY <2>1, <3>2
  <2> QED BY <2>2, <2>4
<1>6. ASSUME NEW r, NEW f, Clicked(r, f)
      PROVE  /\ \A i \in DOMAIN toSend' : Held(toSend'[i])
             /\ \A i, j \in DOMAIN toSend' : i < j => Apart(toSend'[i], toSend'[j])
  <2>1. /\ DOMAIN toSend' = 1..(Len(toSend) + 1)
        /\ \A i \in DOMAIN toSend : toSend'[i] = toSend[i]
        /\ toSend'[Len(toSend) + 1] = f
    BY <1>4, <1>6, AppendProperties, LenProperties DEF Clicked
  <2>2. Held(f)
    BY <1>6 DEF Clicked
  <2>3. ASSUME NEW i \in DOMAIN toSend PROVE Apart(toSend[i], f)
    <3>1. toSend[i].local \in DOMAIN recv /\ recv[toSend[i].local].remote = toSend[i].id
      BY EchoFacts
    <3>2. toSend[i].id = f.id => toSend[i].local = r
      BY <1>6, <3>1, SameRow DEF Clicked
    <3>3. /\ First(toSend[i]) => recv[toSend[i].local].status # "WaitingAccept"
          /\ ~First(toSend[i]) => recv[toSend[i].local].status = "RequestAgain"
      BY DEF RepliesOrdered
    <3> QED BY <1>6, <3>2, <3>3 DEF Clicked
  <2>4. \A i \in DOMAIN toSend' : i \in DOMAIN toSend \/ i = Len(toSend) + 1
    BY <1>4, <2>1
  <2>5. \A i \in DOMAIN toSend' : Held(toSend'[i])
    BY <1>2, <2>1, <2>2, <2>4
  <2>6. ASSUME NEW i \in DOMAIN toSend', NEW j \in DOMAIN toSend', i < j
        PROVE  Apart(toSend'[i], toSend'[j])
    <3>1. i \in DOMAIN toSend
      BY <1>4, <2>1, <2>6
    <3>2. CASE j \in DOMAIN toSend
      BY <1>3, <2>1, <2>6, <3>1, <3>2
    <3>3. CASE j = Len(toSend) + 1
      BY <2>1, <2>3, <3>1, <3>3
    <3> QED BY <2>4, <3>2, <3>3
  <2> QED BY <2>5, <2>6
<1> HIDE DEF Held, Apart
<1> QED BY <1>1, <1>5, <1>6, NextSend

-----------------------------------------------------------------------------
(* An offer that R's user has still to answer, or whose first answer S has *)
(* still to see; and, if it waits in the outbox, has not left S yet.       *)
OnWay(s)   == \E i \in DOMAIN toRecv : toRecv[i] = s
Shown(s)   == \E r \in DOMAIN recv : recv[r].remote = s /\ recv[r].status = "WaitingAccept"
Replied(s) == \E i \in DOMAIN toSend : toSend[i].id = s /\ First(toSend[i])
Queued(s)  == \E i \in DOMAIN outbox : outbox[i] = s

Asked(s)   == OnWay(s) \/ Shown(s) \/ Replied(s)
Waiting(s) == Asked(s) \/ Queued(s)

(* What a step does to the lane of offers.                                 *)
LEMMA NextLane ==
  ASSUME EchoInv, [Next]_vars
  PROVE  \/ Cut(toRecv', toRecv) /\ outbox' = outbox
         \/ /\ Len(sent') = Len(sent) + 1
            /\ \/ toRecv' = Append(toRecv, Len(sent) + 1) /\ outbox' = outbox
               \/ toRecv' = toRecv /\ outbox' = Append(outbox, Len(sent) + 1)
         \/ PeerAppears("S")
<1>0. toRecv \in Seq(Nat)
  BY LaneTypes
<1>1. CASE Click
  <2>1. ASSUME NEW kind \in Kinds, SendOffer(kind)
        PROVE  \/ UNCHANGED <<toRecv, outbox>>
               \/ /\ Len(sent') = Len(sent) + 1
                  /\ \/ toRecv' = Append(toRecv, Len(sent) + 1) /\ outbox' = outbox
                     \/ toRecv' = toRecv /\ outbox' = Append(outbox, Len(sent) + 1)
    <3>1. PICK row : sent' = Append(sent, row)
      BY <2>1 DEF SendOffer, AddMessage
    <3>2. sent \in Seq(OfferRow \union {row})
      BY EchoFacts, SeqMonotonic DEF TypeOK
    <3>3. Len(sent') = Len(sent) + 1
      BY <3>1, <3>2, AppendProperties
    <3> QED BY <2>1, <3>3 DEF SendOffer
  <2>2. (~\E kind \in Kinds : SendOffer(kind)) => UNCHANGED <<toRecv, outbox>>
    BY <1>1 DEF Click, AcceptTransfer, DenyTransfer, RequestAgain, DeleteHistory, Answer,
                senderVars, netVars
  <2> QED BY <1>0, <2>1, <2>2, CutCases
<1>2. CASE Route
  <2>1. (toRecv' = toRecv \/ (toRecv # <<>> /\ toRecv' = Tail(toRecv))) /\ outbox' = outbox
    BY <1>2 DEF Route, RouteFileRequest, RouteFileAccept, RouteFileReject, RouteRequestAgain,
                TakeReply, senderVars
  <2> QED BY <1>0, <2>1, CutCases
<1>3. ASSUME NEW c \in Tids, Stream(c) \/ Break(c)
      PROVE  UNCHANGED <<toRecv, outbox>>
  BY <1>3 DEF Stream, Break, WriteFile, FinishSending, BeginFile, EndFile, FinishBatch,
              ClientFails, RejectFile, XferFails, senderVars, netVars
<1>4. CASE Environment /\ ~PeerAppears("S")
  <2>1. /\ toRecv' = toRecv \/ toRecv' = <<>> \/ toRecv' \in Truncated(toRecv)
        /\ outbox' = outbox
    BY <1>4 DEF Environment, Apps, PeerAppears, PeerDropped, LoseFrames, RestartS, RestartR,
                senderVars, netVars
  <2> QED BY <1>0, <2>1, CutCases
<1>5. CASE UNCHANGED vars
  <2>1. UNCHANGED <<toRecv, outbox>>
    BY <1>5 DEF vars, senderVars, netVars
  <2> QED BY <1>0, <2>1, CutCases
<1> QED BY <1>0, <1>1, <1>2, <1>3, <1>4, <1>5, CutCases DEF Next

(* An offer is asked for again only from the outbox.                       *)
LEMMA AskedBefore ==
  ASSUME EchoInv, RepliesOrdered, [Next]_vars, NEW s \in DOMAIN sent
  PROVE  /\ Asked(s)' => Asked(s) \/ (Queued(s) /\ PeerAppears("S"))
         /\ Queued(s)' => Queued(s)
<1>0. DOMAIN sent = 1..Len(sent) /\ Len(sent) \in Nat /\ s < Len(sent) + 1
  BY LaneTypes
<1>1. toRecv \in Seq(Nat) /\ outbox \in Seq(Nat) /\ toSend \in Seq(Reply)
  BY EchoFacts, LaneTypes DEF TypeOK
<1>2. Replied(s)' => Replied(s) \/ Shown(s)
  <2>1. ASSUME Cut(toSend', toSend), Replied(s)' PROVE Replied(s)
    <3>1. PICK d \in Nat : \A i \in DOMAIN toSend' : i + d \in DOMAIN toSend /\ toSend'[i] = toSend[i + d]
      BY <2>1 DEF Cut
    <3>2. PICK i \in DOMAIN toSend' : toSend'[i].id = s /\ First(toSend'[i])
      BY <2>1 DEF Replied, First
    <3> QED BY <3>1, <3>2 DEF Replied
  <2>2. ASSUME NEW r, NEW f, Clicked(r, f), Replied(s)' PROVE Replied(s) \/ Shown(s)
    <3>1. \A i \in DOMAIN toSend' : (i \in DOMAIN toSend /\ toSend'[i] = toSend[i]) \/ toSend'[i] = f
      BY <1>1, <2>2, AppendProperties, LenProperties DEF Clicked
    <3>2. PICK i \in DOMAIN toSend' : toSend'[i].id = s /\ First(toSend'[i])
      BY <2>2 DEF Replied, First
    <3> QED BY <2>2, <3>1, <3>2 DEF Replied, Shown, Clicked
  <2> QED BY <2>1, <2>2, NextSend
<1>3. Shown(s)' => Shown(s) \/ OnWay(s)
  <2> SUFFICES ASSUME NEW r \in DOMAIN recv', recv'[r].remote = s, recv'[r].status = "WaitingAccept"
               PROVE  Shown(s) \/ OnWay(s)
    BY DEF Shown
  <2>1. CASE r \in DOMAIN recv
    BY <2>1, RowStays DEF Shown
  <2>2. CASE r \notin DOMAIN recv
    <3>1. RouteFileRequest
      BY <2>2, RecvKept
    <3>2. s = Head(toRecv)
      BY <2>2, <3>1, EchoFacts, RequestRows
    <3>3. 1 \in DOMAIN toRecv /\ s = toRecv[1]
      BY <1>1, <3>1, <3>2, EmptySeq, LenProperties DEF RouteFileRequest
    <3> QED BY <3>3 DEF OnWay
  <2> QED BY <2>1, <2>2
<1>4. /\ OnWay(s)' => OnWay(s) \/ (Queued(s) /\ PeerAppears("S"))
      /\ Queued(s)' => Queued(s)
  <2>1. ASSUME Cut(toRecv', toRecv), OnWay(s)' PROVE OnWay(s)
    <3>1. PICK d \in Nat : \A i \in DOMAIN toRecv' : i + d \in DOMAIN toRecv /\ toRecv'[i] = toRecv[i + d]
      BY <2>1 DEF Cut
    <3> QED BY <2>1, <3>1 DEF OnWay
  <2>2. ASSUME NEW q \in Seq(Nat)
        PROVE  \A i \in DOMAIN Append(q, Len(sent) + 1) :
                  Append(q, Len(sent) + 1)[i] = s => i \in DOMAIN q /\ q[i] = s
    <3>1. PICK n, p : n = Len(sent) + 1 /\ p = Append(q, n)
      OBVIOUS
    <3>2. n \in Nat /\ n # s
      BY <1>0, <3>1
    <3>3. /\ DOMAIN p = 1..(Len(q) + 1) /\ DOMAIN q = 1..Len(q) /\ Len(q) \in Nat
          /\ p[Len(q) + 1] = n /\ \A i \in 1..Len(q) : p[i] = q[i]
      BY <3>1, <3>2, AppendProperties, LenProperties
    <3>4. \A i \in DOMAIN p : p[i] = s => i \in DOMAIN q /\ q[i] = s
      BY <3>2, <3>3
    <3> QED BY <3>1, <3>4
  <2>3. CASE PeerAppears("S")
    <3>1. toRecv' = toRecv \o outbox /\ outbox' = <<>>
      BY <2>3 DEF PeerAppears
    <3>2. PICK p : p = toRecv \o outbox
      OBVIOUS
    <3>3. \A i \in DOMAIN p : \/ i \in DOMAIN toRecv /\ p[i] = toRecv[i]
                              \/ i - Len(toRecv) \in DOMAIN outbox /\ p[i] = outbox[i - Len(toRecv)]
      BY <1>1, <3>2, ConcatProperties, LenProperties
    <3>4. OnWay(s)' => OnWay(s) \/ Queued(s)
      BY <3>1, <3>2, <3>3 DEF OnWay, Queued
    <3>5. ~Queued(s)'
      BY <3>1 DEF Queued
    <3> QED BY <2>3, <3>4, <3>5
  <2>4. CASE Cut(toRecv', toRecv) /\ outbox' = outbox
    BY <2>1, <2>4 DEF Queued
  <2>5. CASE toRecv' = Append(toRecv, Len(sent) + 1) /\ outbox' = outbox
    BY <1>1, <2>2, <2>5 DEF OnWay, Queued
  <2>6. CASE toRecv' = toRecv /\ outbox' = Append(outbox, Len(sent) + 1)
    BY <1>1, <2>2, <2>6 DEF OnWay, Queued
  <2> QED BY <2>3, <2>4, <2>5, <2>6, NextLane
<1>5. Asked(s)' => OnWay(s)' \/ Shown(s)' \/ Replied(s)'
  BY DEF Asked
<1> QED BY <1>2, <1>3, <1>4, <1>5 DEF Asked

(* Once the answer is taken off the wire the offer is not waiting.         *)
LEMMA TakenReply ==
  ASSUME EchoInv, EchoInv', Rising, RepliesOrdered, NEW type, TakeReply(type),
         UNCHANGED <<recv, toRecv, outbox>>, NEW f, f = Head(toSend), NEW s, s = f.id
  PROVE  /\ f \in Reply /\ f.type = type /\ 1 \in DOMAIN toSend /\ f = toSend[1]
         /\ s \in DOMAIN sent /\ f.local \in DOMAIN recv /\ recv[f.local].remote = s
         /\ ~Waiting(s)'
         /\ First(f) => Asked(s)
<1>1. toSend # <<>> /\ f.type = type /\ toSend' = Tail(toSend) /\ toSend \in Seq(Reply)
  BY EchoFacts DEF TakeReply, TypeOK
<1>2. /\ 1 \in DOMAIN toSend /\ f = toSend[1] /\ f \in Reply
      /\ \A i \in DOMAIN toSend' : i + 1 \in DOMAIN toSend /\ toSend'[i] = toSend[i + 1] /\ 1 < i + 1
  <2>1. /\ DOMAIN toSend = 1..Len(toSend) /\ Len(toSend) \in Nat /\ Len(toSend) # 0
    BY <1>1, EmptySeq, LenProperties
  <2>2. /\ toSend' \in Seq(Reply) /\ Len(toSend') = Len(toSend) - 1
        /\ \A i \in 1..Len(toSend') : toSend'[i] = toSend[i + 1]
        /\ f = toSend[1] /\ f \in Reply
    BY <1>1, HeadTailProperties
  <2>3. DOMAIN toSend' = 1..Len(toSend')
    BY <2>2, LenProperties
  <2> QED BY <2>1, <2>2, <2>3
<1>3. f.local \in DOMAIN recv /\ recv[f.local].remote = s /\ s \in DOMAIN sent
  BY <1>2, EchoFacts
<1>4. ~Replied(s)'
  <2> SUFFICES ASSUME NEW i \in DOMAIN toSend', toSend'[i].id = s PROVE ~First(toSend'[i])
    BY DEF Replied, First
  <2>1. i + 1 \in DOMAIN toSend /\ toSend'[i] = toSend[i + 1] /\ 1 < i + 1
    BY <1>2
  <2>2. \A j \in DOMAIN toSend : 1 < j /\ toSend[1].id = toSend[j].id => ~First(toSend[j])
    BY <1>2 DEF RepliesOrdered
  <2> QED BY <1>2, <2>1, <2>2
<1>5. recv[f.local].status # "WaitingAccept"
  BY <1>2 DEF RepliesOrdered
<1>6. ~Shown(s)'
  BY <1>3, <1>5, SameRow DEF Shown
<1>7. ~OnWay(s)' /\ ~Queued(s)'
  <2>1. f.local \in DOMAIN Remotes /\ Remotes[f.local] = s /\ s \in Nat
    BY <1>3, LaneTypes
  <2> QED BY <2>1 DEF OnWay, Queued, Rising, Below
<1>8. ~Waiting(s)'
  BY <1>4, <1>6, <1>7 DEF Waiting, Asked
<1>9. First(f) => Asked(s)
  BY <1>2 DEF Asked, Replied
<1> QED BY <1>1, <1>2, <1>3, <1>8, <1>9

-----------------------------------------------------------------------------
(* S's side: an offer that is still waiting has its first status and no    *)
(* connection; an offer has at most one connection, ever, and its row has  *)
(* given up its path then, so that it is not started again.                *)
Unanswered ==
  \A s \in DOMAIN sent : Waiting(s) => /\ sent[s].status \in {"WaitingAccept", "Pending"}
                                       /\ \A c \in DOMAIN conns : conns[c].offer # s

OneConnection == \A c, d \in DOMAIN conns : c # d => conns[c].offer # conns[d].offer

Carried ==
  \A c \in DOMAIN conns :
     Present(sent, conns[c].offer) =>
        /\ sent[conns[c].offer].path = NoPath
        /\ conns[c].client => sent[conns[c].offer].status = "Transferring"

LifeInv == EchoInv /\ Rising /\ RepliesOrdered /\ Unanswered /\ OneConnection /\ Carried

LEMMA UpdatedOffer ==
  ASSUME TypeOK, NEW id, NEW status, NEW path, sent' = UpdateMessage(sent, id, status, path)
  PROVE  /\ DOMAIN sent' = DOMAIN sent
         /\ \A s \in DOMAIN sent : s # id => sent'[s] = sent[s]
         /\ Present(sent, id) => sent'[id].status = status /\ sent'[id].path = path
         /\ ~Present(sent, id) => sent' = sent
         /\ \A s : Present(sent', s) <=> Present(sent, s)
<1>1. CASE ~Present(sent, id)
  BY <1>1 DEF UpdateMessage
<1>2. CASE Present(sent, id)
  <2>1. id \in DOMAIN sent /\ sent[id] \in OfferRow
    BY <1>2, Elements DEF Present
  <2>2. sent' = [sent EXCEPT ![id] = Updated(sent[id], status, path)]
    BY <1>2 DEF UpdateMessage
  <2>3. PICK row : row = Updated(sent[id], status, path)
    OBVIOUS
  <2>4. row.status = status /\ row.path = path /\ row.deleted = sent[id].deleted
    BY <2>1, <2>3 DEF Updated, OfferRow
  <2>5. DOMAIN sent' = DOMAIN sent /\ sent'[id] = row /\ \A s \in DOMAIN sent : s # id => sent'[s] = sent[s]
    BY <2>1, <2>2, <2>3
  <2> QED BY <1>2, <2>1, <2>4, <2>5 DEF Present
<1> QED BY <1>1, <1>2

(* Steps that report on no offer.                                          *)
Quiet ==
  /\ \A s \in DOMAIN sent :
        /\ sent'[s].status = sent[s].status
        /\ Present(sent', s) => Present(sent, s) /\ sent'[s].path = sent[s].path
  /\ \A s \in DOMAIN sent' :
        s \notin DOMAIN sent => sent'[s].status \in {"WaitingAccept", "Pending"}
  /\ DOMAIN conns' = DOMAIN conns
  /\ \A c \in DOMAIN conns : conns'[c].client => conns[c].client

LEMMA QuietStep ==
  ASSUME EchoInv, [Next]_vars
  PROVE  \/ Quiet
         \/ RouteFileAccept \/ RouteFileReject \/ RouteRequestAgain
         \/ \E c \in Tids : WriteFile(c) \/ FinishSending(c)
<1>0. sent \in Seq(OfferRow) /\ TypeOK
  BY EchoFacts DEF TypeOK
<1> DEFINE SentQuiet ==
             /\ \A s \in DOMAIN sent :
                   /\ sent'[s].status = sent[s].status
                   /\ Present(sent', s) => Present(sent, s) /\ sent'[s].path = sent[s].path
             /\ \A s \in DOMAIN sent' :
                   s \notin DOMAIN sent => sent'[s].status \in {"WaitingAccept", "Pending"}
<1>1. sent' = sent \/ sent' = ClearPeer(sent) => SentQuiet
  <2>1. DOMAIN ClearPeer(sent) = DOMAIN sent /\ \A s \in DOMAIN sent : ClearPeer(sent)[s] = Deleted(sent[s])
    BY DEF ClearPeer
  <2>2. \A s \in DOMAIN sent : Deleted(sent[s]).deleted /\ Deleted(sent[s]).status = sent[s].status
    BY <1>0, Elements DEF Deleted, OfferRow
  <2> QED BY <2>1, <2>2 DEF Present
<1>2. ASSUME NEW kind \in Kinds, SendOffer(kind) PROVE Quiet
  <2> DEFINE row(status) == [kind |-> kind, status |-> status, path |-> Local, deleted |-> FALSE]
  <2>1. PICK status \in {"WaitingAccept", "Pending"} : sent' = Append(sent, row(status))
    BY <1>2 DEF SendOffer, AddMessage
  <2>2. row(status).status = status
    OBVIOUS
  <2> HIDE DEF row
  <2>3. sent \in Seq(OfferRow \union {row(status)}) /\ row(status) \in OfferRow \union {row(status)}
    BY <1>0, SeqMonotonic
  <2>4. /\ \A s \in DOMAIN sent : sent'[s] = sent[s] /\ s \in DOMAIN sent'
        /\ \A s \in DOMAIN sent' : s \notin DOMAIN sent => sent'[s] = row(status)
    BY <2>1, <2>3, AppendProperties, LenProperties
  <2>5. SentQuiet
    BY <2>1, <2>2, <2>4 DEF Present
  <2>6. conns' = conns
    BY <1>2 DEF SendOffer
  <2> QED BY <2>5, <2>6 DEF Quiet
<1>3. CASE Click
  <2>1. (~\E kind \in Kinds : SendOffer(kind)) =>
           conns' = conns /\ (sent' = sent \/ sent' = ClearPeer(sent))
    BY <1>3 DEF Click, AcceptTransfer, DenyTransfer, RequestAgain, DeleteHistory, Answer, senderVars
  <2> QED BY <1>1, <1>2, <2>1 DEF Quiet
<1>4. CASE RouteFileRequest
  <2>1. sent' = sent /\ conns' = conns
    BY <1>4 DEF RouteFileRequest, senderVars
  <2> QED BY <1>1, <2>1 DEF Quiet
<1>5. ASSUME NEW c \in Tids, Stream(c) \/ Break(c), ~WriteFile(c), ~FinishSending(c)
      PROVE  Quiet
  <2>1. c \in DOMAIN conns /\ sent' = sent
    BY <1>5 DEF Stream, Break, BeginFile, EndFile, FinishBatch, ClientFails, RejectFile, XferFails,
                senderVars
  <2> DEFINE k == conns[c]
  <2>2. k \in Conn
    BY <2>1, EchoFacts, Elements
  <2>3. PICK new : conns' = [conns EXCEPT ![c] = new] /\ (new.client => k.client)
    <3>1. /\ \A r : [k EXCEPT !.begun = @ + 1, !.saving = downloadDir,
                              !.placed = @ \union {downloadDir}, !.entry = r].client = k.client
          /\ [k EXCEPT !.ended = @ + 1, !.saving = NoPath].client = k.client
          /\ [k EXCEPT !.xfer = FALSE, !.entry = NoEntry].client = k.client
          /\ [k EXCEPT !.client = FALSE].client = FALSE
          /\ [k EXCEPT !.saving = NoPath, !.entry = NoEntry].client = k.client
          /\ [k EXCEPT !.xfer = FALSE, !.entry = NoEntry, !.saving = NoPath,
                        !.cut = TRUE].client = k.client
      <4> HIDE DEF k
      <4> QED BY <2>2 DEF Conn
    <3>2. CASE BeginFile(c)
      <4>1. PICK r : conns' = [conns EXCEPT ![c] =
                       [k EXCEPT !.begun = @ + 1, !.saving = downloadDir,
                                 !.placed = @ \union {downloadDir}, !.entry = r]]
        BY <3>2 DEF BeginFile
      <4> QED BY <3>1, <4>1
    <3>3. CASE ~BeginFile(c)
      BY <1>5, <3>1, <3>3 DEF Stream, Break, EndFile, FinishBatch, ClientFails, RejectFile, XferFails
    <3> QED BY <3>2, <3>3
  <2>4. /\ DOMAIN conns' = DOMAIN conns
        /\ \A d \in DOMAIN conns : conns'[d].client => conns[d].client
    BY <2>1, <2>3
  <2> QED BY <1>1, <2>1, <2>4 DEF Quiet
<1>6. CASE Environment
  <2>1. \A d \in DOMAIN conns :
          /\ [conns[d] EXCEPT !.client = FALSE].client = FALSE
          /\ [conns[d] EXCEPT !.xfer = FALSE, !.saving = NoPath, !.entry = NoEntry,
                              !.cut = @ \/ conns[d].xfer].client
               = conns[d].client
    BY EchoFacts, Elements DEF Conn
  <2>2. /\ DOMAIN conns' = DOMAIN conns
        /\ \A d \in DOMAIN conns : conns'[d].client => conns[d].client
    BY <1>6, <2>1 DEF Environment, PeerAppears, PeerDropped, LoseFrames, RestartS, RestartR
  <2>3. sent' = sent \/ sent' = ClearPeer(sent)
    BY <1>6 DEF Environment, PeerAppears, PeerDropped, LoseFrames, RestartS, RestartR, senderVars
  <2> QED BY <1>1, <2>2, <2>3 DEF Quiet
<1>7. CASE UNCHANGED vars
  <2>1. sent' = sent /\ conns' = conns
    BY <1>7 DEF vars, senderVars
  <2> QED BY <1>1, <2>1 DEF Quiet
<1> QED BY <1>3, <1>4, <1>5, <1>6, <1>7 DEF Next, Route

(* What an answer about offer s does, when S acts on it.                   *)
Opened(s) == \E n : /\ n \notin DOMAIN conns /\ DOMAIN conns' = DOMAIN conns \union {n}
                    /\ \A d \in DOMAIN conns : conns'[d] = conns[d]
                    /\ conns'[n].offer = s

Acted(s) == \E status : /\ sent' = UpdateMessage(sent, s, status, NoPath)
                        /\ conns' = conns \/ (status = "Transferring" /\ Opened(s))

LEMMA Started ==
  ASSUME TypeOK, NEW s, NEW local, StartClient(s, local)
  PROVE  Acted(s)
<1> DEFINE k == [offer |-> s, declared |-> local, client |-> TRUE, written |-> 0,
                 eos |-> FALSE, xfer |-> TRUE, cut |-> FALSE, begun |-> 0, ended |-> 0,
                 saving |-> NoPath, entry |-> NoEntry, placed |-> {}]
<1>1. k.offer = s
  OBVIOUS
<1>2. \E status : /\ sent' = UpdateMessage(sent, s, status, NoPath)
                  /\ conns' = conns \/ (status = "Transferring" /\ conns' = Append(conns, k))
  BY DEF StartClient
<1> HIDE DEF k
<1>3. ASSUME conns' = Append(conns, k) PROVE Opened(s)
  <2>1. conns \in Seq(Conn \union {k}) /\ k \in Conn \union {k}
    BY SeqMonotonic DEF TypeOK
  <2>2. /\ DOMAIN conns' = 1..(Len(conns) + 1) /\ DOMAIN conns = 1..Len(conns) /\ Len(conns) \in Nat
        /\ \A d \in DOMAIN conns : conns'[d] = conns[d]
        /\ conns'[Len(conns) + 1] = k
    BY <1>3, <2>1, AppendProperties, LenProperties
  <2>3. Len(conns) + 1 \notin DOMAIN conns /\ DOMAIN conns' = DOMAIN conns \union {Len(conns) + 1}
    BY <2>2
  <2> QED BY <1>1, <2>2, <2>3 DEF Opened
<1> QED BY <1>2, <1>3 DEF Acted

LEMMA LifeFacts ==
  ASSUME LifeInv
  PROVE  /\ EchoInv /\ Rising /\ RepliesOrdered /\ TypeOK
         /\ \A s \in DOMAIN sent : Waiting(s) =>
               /\ sent[s].status \in {"WaitingAccept", "Pending"}
               /\ \A c \in DOMAIN conns : conns[c].offer # s
         /\ \A c, d \in DOMAIN conns : c # d => conns[c].offer # conns[d].offer
         /\ \A c \in DOMAIN conns : Present(sent, conns[c].offer) =>
               /\ sent[conns[c].offer].path = NoPath
               /\ conns[c].client => sent[conns[c].offer].status = "Transferring"
         /\ \A c \in DOMAIN conns : conns[c].offer \in DOMAIN sent
  BY EchoFacts DEF LifeInv, Unanswered, OneConnection, Carried

LEMMA WaitedBefore ==
  ASSUME EchoInv, RepliesOrdered, [Next]_vars, NEW s \in DOMAIN sent, Waiting(s)'
  PROVE  Waiting(s)
<1>1. Asked(s)' \/ Queued(s)'
  BY DEF Waiting
<1> QED BY <1>1, AskedBefore DEF Waiting

LEMMA QuietLife ==
  ASSUME LifeInv, [Next]_vars, Quiet
  PROVE  Unanswered' /\ OneConnection' /\ Carried'
<1>1. /\ DOMAIN conns' = DOMAIN conns
      /\ \A c \in DOMAIN conns : conns'[c].offer = conns[c].offer /\ conns[c].offer \in DOMAIN sent
  BY LifeFacts, NextConns DEF Quiet
<1>2. ASSUME NEW s \in DOMAIN sent', Waiting(s)'
      PROVE  /\ sent'[s].status \in {"WaitingAccept", "Pending"}
             /\ \A c \in DOMAIN conns' : conns'[c].offer # s
  <2>1. CASE s \in DOMAIN sent
    <3>1. Waiting(s)
      BY <1>2, <2>1, LifeFacts, WaitedBefore
    <3> QED BY <1>1, <2>1, <3>1, LifeFacts DEF Quiet
  <2>2. CASE s \notin DOMAIN sent
    BY <1>1, <2>2 DEF Quiet
  <2> QED BY <2>1, <2>2
<1>3. Unanswered'
  <2>1. \A s \in DOMAIN sent' : Waiting(s)' =>
           /\ sent'[s].status \in {"WaitingAccept", "Pending"}
           /\ \A c \in DOMAIN conns' : conns'[c].offer # s
    BY <1>2
  <2> QED BY <2>1 DEF Unanswered
<1>4. OneConnection'
  BY <1>1, LifeFacts DEF OneConnection
<1>5. Carried'
  BY <1>1, LifeFacts DEF Carried, Quiet
<1> QED BY <1>3, <1>4, <1>5

LEMMA ReplyTaken ==
  ASSUME LifeInv, EchoInv', RouteFileAccept \/ RouteFileReject \/ RouteRequestAgain,
         NEW f, f = Head(toSend), NEW s, s = f.id
  PROVE  /\ f \in Reply /\ toSend # <<>> /\ s \in DOMAIN sent /\ ~Waiting(s)'
         /\ \/ UNCHANGED <<sent, conns>>
            \/ Acted(s) /\ \A c \in DOMAIN conns : conns[c].offer # s
         /\ \/ f.type = "RequestAgain"
            \/ Asked(s) /\ sent[s].status \in {"WaitingAccept", "Pending"}
<1>1. PICK type : TakeReply(type)
  BY DEF RouteFileAccept, RouteFileReject, RouteRequestAgain
<1>2. toSend # <<>> /\ UNCHANGED <<recv, toRecv, outbox>> /\ f.type = type
  BY <1>1 DEF TakeReply, receiverVars
<1>3. f \in Reply /\ s \in DOMAIN sent /\ ~Waiting(s)' /\ (First(f) => Asked(s))
  BY <1>1, <1>2, LifeFacts, TakenReply
<1>4. ASSUME First(f)
      PROVE  /\ sent[s].status \in {"WaitingAccept", "Pending"}
             /\ \A c \in DOMAIN conns : conns[c].offer # s
  BY <1>3, <1>4, LifeFacts DEF Waiting
<1>5. CASE RouteFileAccept
  <2>1. First(f)
    BY <1>5 DEF RouteFileAccept, TakeReply, First
  <2>2. UNCHANGED <<sent, conns>> \/ Acted(s)
    BY <1>5, LifeFacts, Started DEF RouteFileAccept
  <2> QED BY <1>2, <1>3, <1>4, <2>1, <2>2
<1>6. CASE RouteFileReject
  <2>1. First(f)
    BY <1>6 DEF RouteFileReject, TakeReply, First
  <2>2. UNCHANGED <<sent, conns>> \/ Acted(s)
    BY <1>6 DEF RouteFileReject, Acted
  <2> QED BY <1>2, <1>3, <1>4, <2>1, <2>2
<1>7. CASE RouteRequestAgain
  <2>1. f.type = "RequestAgain"
    BY <1>7 DEF RouteRequestAgain, TakeReply
  <2>2. UNCHANGED <<sent, conns>> \/ (Acted(s) /\ Present(sent, s) /\ sent[s].path # NoPath)
    BY <1>7, LifeFacts, Started DEF RouteRequestAgain
  <2>3. Present(sent, s) /\ sent[s].path # NoPath => \A c \in DOMAIN conns : conns[c].offer # s
    BY LifeFacts
  <2> QED BY <1>2, <1>3, <2>1, <2>2, <2>3
<1> QED BY <1>5, <1>6, <1>7

LEMMA ActedLife ==
  ASSUME LifeInv, [Next]_vars, NEW s \in DOMAIN sent, Acted(s), ~Waiting(s)',
         \A c \in DOMAIN conns : conns[c].offer # s
  PROVE  Unanswered' /\ OneConnection' /\ Carried'
<1>1. PICK status : /\ sent' = UpdateMessage(sent, s, status, NoPath)
                    /\ conns' = conns \/ (status = "Transferring" /\ Opened(s))
  BY DEF Acted
<1>2. /\ DOMAIN sent' = DOMAIN sent
      /\ \A t \in DOMAIN sent : t # s => sent'[t] = sent[t]
      /\ Present(sent, s) => sent'[s].status = status /\ sent'[s].path = NoPath
      /\ \A t : Present(sent', t) <=> Present(sent, t)
  BY <1>1, LifeFacts, UpdatedOffer
<1> PICK new : new = DOMAIN conns' \ DOMAIN conns
  OBVIOUS
<1>3. /\ new # {} => status = "Transferring"
      /\ \A c, d \in new : c = d
      /\ DOMAIN conns' = DOMAIN conns \union new
      /\ \A d \in DOMAIN conns : conns'[d] = conns[d]
      /\ \A d \in new : conns'[d].offer = s
  <2>1. CASE conns' = conns
    BY <2>1
  <2>2. CASE status = "Transferring" /\ Opened(s)
    BY <2>2 DEF Opened
  <2> QED BY <1>1, <2>1, <2>2
<1>4. Unanswered'
  <2>1. ASSUME NEW t \in DOMAIN sent', Waiting(t)'
        PROVE  /\ sent'[t].status \in {"WaitingAccept", "Pending"}
               /\ \A c \in DOMAIN conns' : conns'[c].offer # t
    <3>1. t # s
      BY <2>1
    <3>2. t \in DOMAIN sent /\ Waiting(t)
      BY <1>2, <2>1, LifeFacts, WaitedBefore
    <3>3. /\ sent[t].status \in {"WaitingAccept", "Pending"}
          /\ \A c \in DOMAIN conns : conns[c].offer # t
      BY <3>2, LifeFacts
    <3> QED BY <1>2, <1>3, <3>1, <3>2, <3>3
  <2> QED BY <2>1 DEF Unanswered
<1>5. OneConnection'
  BY <1>3, LifeFacts DEF OneConnection
<1>6. Carried'
  <2> SUFFICES ASSUME NEW c \in DOMAIN conns', Present(sent', conns'[c].offer)
               PROVE  /\ sent'[conns'[c].offer].path = NoPath
                      /\ conns'[c].client => sent'[conns'[c].offer].status = "Transferring"
    BY DEF Carried
  <2>1. CASE c \in DOMAIN conns
    BY <1>2, <1>3, <2>1, LifeFacts
  <2>2. CASE c \in new
    BY <1>2, <1>3, <2>2
  <2> QED BY <1>3, <2>1, <2>2
<1> QED BY <1>4, <1>5, <1>6

(* Progress and end of a connection, as S reports them.                    *)
LEMMA SendLife ==
  ASSUME LifeInv, [Next]_vars, NEW c \in Tids, WriteFile(c) \/ FinishSending(c)
  PROVE  Unanswered' /\ OneConnection' /\ Carried'
<1> PICK k, s : k = conns[c] /\ s = k.offer
  OBVIOUS
<1>1. c \in DOMAIN conns /\ k \in Conn /\ k.client /\ s \in DOMAIN sent
  BY LifeFacts, Elements DEF WriteFile, FinishSending
<1>2. PICK new, status : /\ conns' = [conns EXCEPT ![c] = new] /\ new.offer = s
                         /\ sent' = UpdateMessage(sent, s, status, NoPath)
                         /\ status = "Transferring" \/ ~new.client
  <2>1. /\ [k EXCEPT !.written = @ + 1].offer = s
        /\ [k EXCEPT !.eos = TRUE, !.client = FALSE].offer = s
        /\ ~[k EXCEPT !.eos = TRUE, !.client = FALSE].client
    BY <1>1 DEF Conn
  <2>2. CASE WriteFile(c)
    BY <2>1, <2>2 DEF WriteFile
  <2>3. CASE FinishSending(c)
    BY <2>1, <2>3 DEF FinishSending
  <2> QED BY <2>2, <2>3
<1>3. /\ DOMAIN sent' = DOMAIN sent
      /\ \A t \in DOMAIN sent : t # s => sent'[t] = sent[t]
      /\ Present(sent, s) => sent'[s].status = status /\ sent'[s].path = NoPath
      /\ \A t : Present(sent', t) <=> Present(sent, t)
  BY <1>2, LifeFacts, UpdatedOffer
<1>4. /\ DOMAIN conns' = DOMAIN conns
      /\ \A d \in DOMAIN conns : conns'[d].offer = conns[d].offer
      /\ \A d \in DOMAIN conns : d # c => conns'[d] = conns[d]
      /\ status = "Transferring" \/ ~conns'[c].client
  BY <1>1, <1>2
<1>5. Unanswered'
  <2>1. ASSUME NEW t \in DOMAIN sent', Waiting(t)'
        PROVE  /\ sent'[t].status \in {"WaitingAccept", "Pending"}
               /\ \A d \in DOMAIN conns' : conns'[d].offer # t
    <3>1. t \in DOMAIN sent /\ Waiting(t)
      BY <1>3, <2>1, LifeFacts, WaitedBefore
    <3>2. /\ sent[t].status \in {"WaitingAccept", "Pending"}
          /\ \A d \in DOMAIN conns : conns[d].offer # t
      BY <3>1, LifeFacts
    <3> QED BY <1>1, <1>3, <1>4, <3>1, <3>2
  <2> QED BY <2>1 DEF Unanswered
<1>6. OneConnection'
  BY <1>4, LifeFacts DEF OneConnection
<1>7. Carried'
  <2> SUFFICES ASSUME NEW d \in DOMAIN conns', Present(sent', conns'[d].offer)
               PROVE  /\ sent'[conns'[d].offer].path = NoPath
                      /\ conns'[d].client => sent'[conns'[d].offer].status = "Transferring"
    BY DEF Carried
  <2>1. CASE d = c
    BY <1>1, <1>3, <1>4, <2>1
  <2>2. CASE d # c
    <3>1. conns[d].offer # s /\ conns[d].offer \in DOMAIN sent
      BY <1>1, <1>4, <2>2, LifeFacts
    <3> QED BY <1>3, <1>4, <2>2, <3>1, LifeFacts
  <2> QED BY <2>1, <2>2
<1> QED BY <1>5, <1>6, <1>7

LEMMA LifeNext ==
  ASSUME LifeInv, [Next]_vars
  PROVE  LifeInv'
<1>1. EchoInv'
  BY LifeFacts, EchoNext
<1>2. Rising'
  BY <1>1, LifeFacts, RisingNext
<1>3. RepliesOrdered'
  BY LifeFacts, RepliesNext
<1>4. Unanswered' /\ OneConnection' /\ Carried'
  <2>1. CASE RouteFileAccept \/ RouteFileReject \/ RouteRequestAgain
    <3> PICK f, s : f = Head(toSend) /\ s = f.id
      OBVIOUS
    <3>1. /\ s \in DOMAIN sent /\ ~Waiting(s)'
          /\ \/ UNCHANGED <<sent, conns>>
             \/ Acted(s) /\ \A c \in DOMAIN conns : conns[c].offer # s
      BY <1>1, <2>1, ReplyTaken
    <3>2. UNCHANGED <<sent, conns>> => Quiet
      BY DEF Quiet, Present
    <3> QED BY <3>1, <3>2, QuietLife, ActedLife
  <2> QED BY <2>1, LifeFacts, QuietStep, QuietLife, SendLife
<1> QED BY <1>1, <1>2, <1>3, <1>4 DEF LifeInv

LEMMA InitLife == Init => LifeInv
<1> SUFFICES ASSUME Init PROVE Rising /\ RepliesOrdered /\ Unanswered /\ OneConnection /\ Carried
  BY InitEcho DEF LifeInv
<1>1. /\ DOMAIN conns = {} /\ DOMAIN toSend = {} /\ DOMAIN recv = {} /\ DOMAIN sent = {}
      /\ DOMAIN toRecv = {} /\ DOMAIN outbox = {} /\ outbox = <<>>
  BY DEF Init
<1>2. DOMAIN Remotes = {}
  BY <1>1 DEF Remotes
<1>3. Rising
  BY <1>1, <1>2 DEF Rising, Rise, Below
<1> QED BY <1>1, <1>3 DEF RepliesOrdered, Unanswered, OneConnection, Carried

(* An offer gets one data connection, ever, whatever is asked for again:   *)
(* starting it gives up the path that a RequestAgain would need.           *)
THEOREM OneConnectionEach == Spec => []OneConnection
<1>1. LifeInv /\ [Next]_vars => LifeInv'
  BY LifeNext
<1>2. LifeInv => OneConnection
  BY DEF LifeInv
<1> QED BY <1>1, <1>2, InitLife, PTL DEF Spec

(* An offer moves only on its answer, or when its one connection ends.     *)
THEOREM SenderMoves == Spec => SenderLifecycle
<1>1. LifeInv /\ [Next]_vars => LifeInv'
  BY LifeNext
<1> DEFINE Allowed(s) ==
             \/ sent[s].status \in {"WaitingAccept", "Pending"}
                  /\ toSend # <<>> /\ Head(toSend).id = s
             \/ sent[s].status = "Transferring" /\ sent'[s].status = "Done"
             \/ toSend # <<>> /\ Head(toSend) = [type |-> "RequestAgain", id |-> s,
                                                 local |-> Head(toSend).local]
           Lifecycle == \A s \in DOMAIN sent : sent'[s].status # sent[s].status => Allowed(s)
<1>2. LifeInv /\ [Next]_vars => [Lifecycle]_vars
  <2> SUFFICES ASSUME LifeInv, Next, NEW s \in DOMAIN sent, sent'[s].status # sent[s].status
               PROVE  Allowed(s)
    OBVIOUS
  <2>1. CASE Quiet
    BY <2>1 DEF Quiet
  <2>2. CASE RouteFileAccept \/ RouteFileReject \/ RouteRequestAgain
    <3> PICK f, t : f = Head(toSend) /\ t = f.id
      OBVIOUS
    <3>1. EchoInv'
      BY LifeFacts, EchoNext
    <3>2. /\ f \in Reply /\ toSend # <<>>
          /\ UNCHANGED <<sent, conns>> \/ Acted(t)
          /\ f.type = "RequestAgain" \/ sent[t].status \in {"WaitingAccept", "Pending"}
      BY <2>2, <3>1, ReplyTaken
    <3>3. s = t
      BY <3>2, LifeFacts, UpdatedOffer DEF Acted
    <3>4. f.type = "RequestAgain" =>
             Head(toSend) = [type |-> "RequestAgain", id |-> s, local |-> Head(toSend).local]
      BY <3>2, <3>3 DEF Reply
    <3> QED BY <3>2, <3>3, <3>4
  <2>3. ASSUME NEW c \in Tids, WriteFile(c) \/ FinishSending(c)
        PROVE  Allowed(s)
    <3> PICK k, t : k = conns[c] /\ t = k.offer
      OBVIOUS
    <3>1. PICK status \in {"Transferring", "Done"} : sent' = UpdateMessage(sent, t, status, NoPath)
      BY <2>3 DEF WriteFile, FinishSending
    <3>2. s = t /\ Present(sent, t) /\ sent'[s].status = status
      BY <3>1, LifeFacts, UpdatedOffer
    <3>3. sent[s].status = "Transferring"
      BY <2>3, <3>2, LifeFacts DEF WriteFile, FinishSending
    <3> QED BY <3>2, <3>3
  <2> QED BY <2>1, <2>2, <2>3, LifeFacts, QuietStep
<1>3. [][Lifecycle]_vars => SenderLifecycle
  BY PTL DEF SenderLifecycle
<1> QED BY <1>1, <1>2, <1>3, InitLife, PTL DEF Spec

-----------------------------------------------------------------------------
(* Without faults: every offer that is being asked is pending at S, every  *)
(* answered one has given up its path, every Accept on the wire has its    *)
(* entry pending at R, and a connection takes just that entry.             *)
InPending(r) == \E i \in DOMAIN pendingInbound : pendingInbound[i] = r

Undeleted == /\ \A s \in DOMAIN sent : ~sent[s].deleted
             /\ \A r \in DOMAIN recv : ~recv[r].deleted

AskedPending == \A s \in DOMAIN sent : Asked(s) => s \in pendingOffers

AnsweredOnce == \A r \in DOMAIN recv :
                   ~Asked(recv[r].remote) => sent[recv[r].remote].path = NoPath

AcceptsPending == \A i \in DOMAIN toSend :
                     toSend[i].type = "FileAccept" => InPending(toSend[i].local)

Carries(c) ==
  LET k == conns[c]
  IN /\ k.begun <= k.written /\ k.written <= FilesOf(k)
     /\ k.cut \/ k.begun = k.ended + (IF k.saving = NoPath THEN 0 ELSE 1)
     /\ k.eos => ~k.client /\ k.written = FilesOf(k) /\ sent[k.offer].status = "Done"
     /\ k.xfer => /\ ~k.cut /\ (k.client \/ k.eos)
                  /\ k.begun = 0 => k.entry = NoEntry /\ InPending(k.declared)
                  /\ k.begun > 0 => k.entry = k.declared
     /\ ~k.xfer => k.entry = NoEntry /\ k.eos /\ (k.cut \/ k.ended = FilesOf(k))

(* R has read the sentinel of this connection.                             *)
Complete(k) == ~k.xfer /\ ~k.cut

DoneRows == \A r \in DOMAIN recv : recv[r].status = "Done" =>
               \E c \in DOMAIN conns :
                  conns[c].declared = r /\ Complete(conns[c])

Matching == /\ Undeleted /\ AskedPending /\ AnsweredOnce /\ AcceptsPending
            /\ \A c \in DOMAIN conns : Carries(c)
            /\ DoneRows

MatchInv == LifeInv /\ (faults = 0 => Matching)

(* What a step leaves alone, seen from Carries, AnsweredOnce and DoneRows. *)
LEMMA CarriesKept ==
  ASSUME NEW c \in DOMAIN conns, Carries(c), conns'[c] = conns[c],
         sent'[conns[c].offer].kind = sent[conns[c].offer].kind,
         sent[conns[c].offer].status = "Done" => sent'[conns[c].offer].status = "Done",
         conns[c].xfer /\ conns[c].begun = 0 /\ InPending(conns[c].declared) =>
            \E i \in DOMAIN pendingInbound' : pendingInbound'[i] = conns[c].declared
  PROVE  Carries(c)'
<1> PICK k : k = conns[c]
  OBVIOUS
<1>1. conns'[c] = k /\ FilesOf(k)' = FilesOf(k)
  BY DEF FilesOf
<1>2. InPending(k.declared)' <=> \E i \in DOMAIN pendingInbound' : pendingInbound'[i] = k.declared
  BY DEF InPending
<1> QED BY <1>1, <1>2 DEF Carries

LEMMA AnsweredOnceKept ==
  ASSUME EchoInv, AnsweredOnce,
         \A t \in DOMAIN sent : /\ Asked(t) => Asked(t)' \/ sent'[t].path = NoPath
                                /\ sent'[t].path \in {sent[t].path, NoPath},
         \A r \in DOMAIN recv : recv'[r].remote = recv[r].remote,
         \A r \in DOMAIN recv' : r \in DOMAIN recv \/
            \E t : t = recv'[r].remote /\ Asked(t)'
  PROVE  AnsweredOnce'
<1> SUFFICES ASSUME NEW r \in DOMAIN recv', NEW t, t = recv'[r].remote, ~Asked(t)'
             PROVE  sent'[t].path = NoPath
  BY DEF AnsweredOnce
<1>1. r \in DOMAIN recv
  OBVIOUS
<1>2. recv[r].remote = t /\ t \in DOMAIN sent
  BY <1>1, EchoFacts
<1>3. ~Asked(t) => sent[t].path = NoPath
  BY <1>1, <1>2 DEF AnsweredOnce
<1> QED BY <1>2, <1>3

LEMMA DoneRowsKept ==
  ASSUME DoneRows,
         \A r \in DOMAIN recv' : recv'[r].status = "Done" => r \in DOMAIN recv /\ recv[r].status = "Done",
         \A c \in DOMAIN conns : /\ c \in DOMAIN conns' /\ conns'[c].declared = conns[c].declared
                                 /\ Complete(conns[c]) => Complete(conns'[c])
  PROVE  DoneRows'
  BY DEF DoneRows

(* A row of R after an update.                                             *)
LEMMA UpdatedReceived ==
  ASSUME TypeOK, NEW id, NEW status, NEW path, recv' = UpdateMessage(recv, id, status, path)
  PROVE  /\ DOMAIN recv' = DOMAIN recv
         /\ \A r \in DOMAIN recv : r # id => recv'[r] = recv[r]
         /\ \A r \in DOMAIN recv : /\ recv'[r].status \in {recv[r].status, status}
                                   /\ recv'[r].remote = recv[r].remote
                                   /\ recv'[r].deleted = recv[r].deleted
<1>1. CASE ~Present(recv, id)
  BY <1>1 DEF UpdateMessage
<1>2. CASE Present(recv, id)
  <2>1. id \in DOMAIN recv /\ recv[id] \in RecvRow
    BY <1>2, Elements DEF Present
  <2>2. recv' = [recv EXCEPT ![id] = Updated(recv[id], status, path)]
    BY <1>2 DEF UpdateMessage
  <2>3. PICK row : row = Updated(recv[id], status, path)
    OBVIOUS
  <2>4. row.status = status /\ row.remote = recv[id].remote /\ row.deleted = recv[id].deleted
    BY <2>1, <2>3 DEF Updated, RecvRow
  <2>5. DOMAIN recv' = DOMAIN recv /\ recv'[id] = row /\ \A s \in DOMAIN recv : s # id => recv'[s] = recv[s]
    BY <2>1, <2>2, <2>3
  <2> QED BY <1>2, <2>1, <2>4, <2>5
<1> QED BY <1>1, <1>2

LEMMA UpdatedKind ==
  ASSUME TypeOK, NEW id, NEW status, NEW path, sent' = UpdateMessage(sent, id, status, path),
         NEW s \in DOMAIN sent
  PROVE  sent'[s].kind = sent[s].kind /\ sent'[s].deleted = sent[s].deleted
         /\ sent'[s].path \in {sent[s].path, path}
<1>1. \A row \in OfferRow : /\ Updated(row, status, path).kind = row.kind
                            /\ Updated(row, status, path).deleted = row.deleted
                            /\ Updated(row, status, path).path = path
  BY DEF Updated, OfferRow
<1>2. sent[s] \in OfferRow
  BY Elements
<1>3. sent'[s] = sent[s] \/ sent'[s] = Updated(sent[s], status, path)
  BY DEF UpdateMessage, Present
<1> QED BY <1>1, <1>2, <1>3

(* Asked is only given up by an answer that S takes.                       *)
LEMMA AskedSame ==
  ASSUME UNCHANGED <<toRecv, recv, toSend>>, NEW t
  PROVE  Asked(t)' <=> Asked(t)
  BY DEF Asked, OnWay, Shown, Replied, First

LEMMA AppendKeeps ==
  ASSUME NEW T, NEW q \in Seq(T), NEW e \in T
  PROVE  /\ \A i \in DOMAIN q : i \in DOMAIN Append(q, e) /\ Append(q, e)[i] = q[i]
         /\ \E i \in DOMAIN Append(q, e) : Append(q, e)[i] = e
         /\ \A i \in DOMAIN Append(q, e) : i \in DOMAIN q \/ Append(q, e)[i] = e
  BY AppendProperties, LenProperties

LEMMA ClickAsked ==
  ASSUME EchoInv, NEW r, NEW f, Clicked(r, f), toRecv' = toRecv,
         \A x \in DOMAIN recv : x # r => x \in DOMAIN recv' /\ recv'[x] = recv[x],
         NEW t, Asked(t)
  PROVE  Asked(t)'
<1>1. toSend \in Seq(Reply) /\ f \in Reply /\ toSend' = Append(toSend, f)
  BY EchoFacts DEF TypeOK, Clicked
<1>2. /\ \A i \in DOMAIN toSend : i \in DOMAIN toSend' /\ toSend'[i] = toSend[i]
      /\ \E i \in DOMAIN toSend' : toSend'[i] = f
  BY <1>1, AppendKeeps
<1>3. OnWay(t) => OnWay(t)'
  BY DEF OnWay
<1>4. Replied(t) => Replied(t)'
  BY <1>2 DEF Replied, First
<1>5. Shown(t) => Shown(t)' \/ Replied(t)'
  <2> SUFFICES ASSUME NEW x \in DOMAIN recv, recv[x].remote = t, recv[x].status = "WaitingAccept"
               PROVE  Shown(t)' \/ Replied(t)'
    BY DEF Shown
  <2>1. CASE x = r
    BY <1>2, <2>1 DEF Clicked, Replied, First
  <2>2. CASE x # r
    BY <2>2 DEF Shown
  <2> QED BY <2>1, <2>2
<1> QED BY <1>3, <1>4, <1>5 DEF Asked

LEMMA RequestAsked ==
  ASSUME EchoInv, RouteFileRequest
  PROVE  /\ \A t : Asked(t) => Asked(t)'
         /\ \A r \in DOMAIN recv' : r \in DOMAIN recv \/ \E t : t = recv'[r].remote /\ Asked(t)'
<1> PICK h, n : h = Head(toRecv) /\ n = Len(recv) + 1
  OBVIOUS
<1>1. /\ DOMAIN recv' = 1..n /\ DOMAIN recv = 1..Len(recv) /\ Len(recv) \in Nat
      /\ \A r \in DOMAIN recv : recv'[r] = recv[r]
      /\ recv'[n].status = "WaitingAccept" /\ recv'[n].remote = h
  BY EchoFacts, RequestRows
<1>2. n \in DOMAIN recv' /\ \A r \in DOMAIN recv' : r \in DOMAIN recv \/ r = n
  BY <1>1
<1>3. Shown(h)'
  BY <1>1, <1>2 DEF Shown
<1>4. toRecv # <<>> /\ toRecv' = Tail(toRecv) /\ toSend' = toSend
  BY DEF RouteFileRequest
<1>5. \A i \in DOMAIN toRecv : toRecv[i] = h \/ \E j \in DOMAIN toRecv' : toRecv'[j] = toRecv[i]
  <2>1. toRecv \in Seq(Nat)
    BY LaneTypes
  <2>2. /\ DOMAIN toRecv = 1..Len(toRecv) /\ Len(toRecv) \in Nat
        /\ toRecv' \in Seq(Nat) /\ Len(toRecv') = Len(toRecv) - 1 /\ h = toRecv[1]
        /\ \A i \in 1..Len(toRecv') : toRecv'[i] = toRecv[i + 1]
    BY <1>4, <2>1, HeadTailProperties, LenProperties
  <2>3. DOMAIN toRecv' = 1..Len(toRecv')
    BY <2>2, LenProperties
  <2>4. \A i \in DOMAIN toRecv : i # 1 =>
           i - 1 \in DOMAIN toRecv' /\ toRecv'[i - 1] = toRecv[(i - 1) + 1] /\ (i - 1) + 1 = i
    BY <2>2, <2>3
  <2> QED BY <2>2, <2>4
<1>6. \A t : OnWay(t) => OnWay(t)' \/ Shown(t)'
  <2>1. ASSUME NEW t, NEW i \in DOMAIN toRecv, toRecv[i] = t
        PROVE  OnWay(t)' \/ Shown(t)'
    <3>1. CASE t = h
      BY <1>3, <3>1
    <3>2. CASE \E j \in DOMAIN toRecv' : toRecv'[j] = t
      BY <3>2 DEF OnWay
    <3> QED BY <1>5, <2>1, <3>1, <3>2
  <2> QED BY <2>1 DEF OnWay
<1>7. \A t : Shown(t) => Shown(t)'
  BY <1>1, <1>2 DEF Shown
<1>8. \A t : Replied(t) => Replied(t)'
  BY <1>4 DEF Replied, First
<1>9. \A t : Shown(t)' \/ OnWay(t)' \/ Replied(t)' => Asked(t)'
  BY DEF Asked
<1>10. \A t : Asked(t) => Asked(t)'
  BY <1>6, <1>7, <1>8, <1>9 DEF Asked
<1> QED BY <1>1, <1>2, <1>3, <1>9, <1>10

LEMMA TakenAsked ==
  ASSUME EchoInv, Rising, RepliesOrdered, NEW type, TakeReply(type), UNCHANGED <<recv, toRecv>>,
         NEW f, f = Head(toSend), NEW s, s = f.id
  PROVE  /\ \A t : Asked(t) => Asked(t)' \/ (First(f) /\ t = s)
         /\ ~First(f) => ~Asked(s)
<1>1. toSend # <<>> /\ toSend' = Tail(toSend) /\ toSend \in Seq(Reply)
  BY EchoFacts DEF TakeReply, TypeOK
<1>2. /\ 1 \in DOMAIN toSend /\ f = toSend[1]
      /\ \A i \in DOMAIN toSend : i # 1 => 1 < i /\ \E j \in DOMAIN toSend' : toSend'[j] = toSend[i]
  <2>1. /\ DOMAIN toSend = 1..Len(toSend) /\ Len(toSend) \in Nat /\ Len(toSend) # 0
    BY <1>1, EmptySeq, LenProperties
  <2>2. /\ toSend' \in Seq(Reply) /\ Len(toSend') = Len(toSend) - 1 /\ f = toSend[1]
        /\ \A i \in 1..Len(toSend') : toSend'[i] = toSend[i + 1]
    BY <1>1, HeadTailProperties
  <2>3. DOMAIN toSend' = 1..Len(toSend')
    BY <2>2, LenProperties
  <2>4. \A i \in DOMAIN toSend : i # 1 =>
           1 < i /\ i - 1 \in DOMAIN toSend' /\ toSend'[i - 1] = toSend[(i - 1) + 1] /\ (i - 1) + 1 = i
    BY <2>1, <2>2, <2>3
  <2> QED BY <2>1, <2>2, <2>4
<1>3. \A t : (OnWay(t)' <=> OnWay(t)) /\ (Shown(t)' <=> Shown(t))
  BY DEF OnWay, Shown
<1>4. ASSUME NEW t, NEW i \in DOMAIN toSend, toSend[i].id = t, First(toSend[i])
      PROVE  Replied(t)' \/ (First(f) /\ t = s)
  <2>1. CASE i = 1
    BY <1>2, <1>4, <2>1
  <2>2. CASE i # 1
    BY <1>2, <1>4, <2>2 DEF Replied, First
  <2> QED BY <2>1, <2>2
<1>5. \A t : Asked(t) => Asked(t)' \/ (First(f) /\ t = s)
  <2>1. \A t : Replied(t) => Replied(t)' \/ (First(f) /\ t = s)
    BY <1>4 DEF Replied
  <2>2. \A t : Shown(t)' \/ OnWay(t)' \/ Replied(t)' => Asked(t)'
    BY DEF Asked
  <2> QED BY <1>3, <2>1, <2>2 DEF Asked
<1>6. ASSUME ~First(f), Asked(s) PROVE FALSE
  <2>1. f.local \in DOMAIN recv /\ recv[f.local].remote = s /\ s \in Nat
    BY <1>2, EchoFacts, LaneTypes
  <2>2. recv[f.local].status = "RequestAgain"
    BY <1>2, <1>6 DEF RepliesOrdered
  <2>3. ~Shown(s)
    BY <2>1, <2>2, SameRow DEF Shown
  <2>4. ~OnWay(s)
    <3>1. f.local \in DOMAIN Remotes /\ Remotes[f.local] = s
      BY <2>1, LaneTypes
    <3> QED BY <2>1, <3>1 DEF OnWay, Rising, Below
  <2>5. ~Replied(s)
    <3>1. \A i \in DOMAIN toSend : 1 < i /\ toSend[1].id = toSend[i].id => First(toSend[1])
      BY <1>2 DEF RepliesOrdered
    <3> QED BY <1>2, <1>6, <3>1 DEF Replied
  <2> QED BY <1>6, <2>3, <2>4, <2>5 DEF Asked
<1> QED BY <1>5, <1>6

LEMMA MatchFacts ==
  ASSUME LifeInv, Matching
  PROVE  /\ LifeInv /\ EchoInv /\ Rising /\ RepliesOrdered /\ TypeOK
         /\ \A s \in DOMAIN sent : Present(sent, s) /\ (Asked(s) => s \in pendingOffers)
         /\ \A r \in DOMAIN recv : ~recv[r].deleted
         /\ \A c \in DOMAIN conns : Carries(c)
         /\ AnsweredOnce /\ AcceptsPending /\ DoneRows
  BY LifeFacts DEF Matching, Undeleted, AskedPending, Present

(* AskedPending and Undeleted, for steps that add no row to S's store.     *)
LEMMA PendingKept ==
  ASSUME LifeInv, Matching, [Next]_vars, DOMAIN sent' = DOMAIN sent, ~PeerAppears("S"),
         \A s \in DOMAIN sent : Asked(s)' /\ s \in pendingOffers => s \in pendingOffers'
  PROVE  AskedPending'
<1>1. \A s \in DOMAIN sent : Asked(s)' => Asked(s)
  BY MatchFacts, AskedBefore
<1> QED BY <1>1, MatchFacts DEF AskedPending

LEMMA NotAppears ==
  ASSUME TypeOK, online' = online, NEW a \in Apps
  PROVE  ~PeerAppears(a)
<1>1. online \in [Apps -> BOOLEAN]
  BY DEF TypeOK
<1> QED BY <1>1 DEF PeerAppears

LEMMA OfferMatching ==
  ASSUME LifeInv, Matching, [Next]_vars, NEW kind \in Kinds, SendOffer(kind)
  PROVE  Matching'
<1> PICK n : n = Len(sent) + 1
  OBVIOUS
<1> DEFINE row(status) == [kind |-> kind, status |-> status, path |-> Local, deleted |-> FALSE]
<1>1. PICK status \in {"WaitingAccept", "Pending"} : sent' = Append(sent, row(status))
  BY DEF SendOffer, AddMessage
<1>2. ~row(status).deleted
  OBVIOUS
<1> HIDE DEF row
<1>3. /\ DOMAIN sent' = DOMAIN sent \union {n} /\ n \notin DOMAIN sent
      /\ \A s \in DOMAIN sent : sent'[s] = sent[s]
      /\ ~sent'[n].deleted
  <2>1. sent \in Seq(OfferRow \union {row(status)}) /\ row(status) \in OfferRow \union {row(status)}
    BY MatchFacts, SeqMonotonic DEF TypeOK
  <2>2. DOMAIN sent = 1..Len(sent) /\ Len(sent) \in Nat
    BY MatchFacts, LaneTypes
  <2>3. /\ DOMAIN sent' = 1..(Len(sent) + 1) /\ \A s \in DOMAIN sent : sent'[s] = sent[s]
        /\ sent'[n] = row(status)
    BY <1>1, <2>1, <2>2, AppendProperties, LenProperties
  <2> QED BY <1>2, <2>2, <2>3
<1>4. UNCHANGED <<recv, pendingInbound, toSend, conns, online>>
  BY DEF SendOffer, receiverVars
<1>5. Undeleted'
  BY <1>3, <1>4, MatchFacts DEF Undeleted, Present
<1>6. AskedPending'
  <2>1. ASSUME NEW s \in DOMAIN sent, Asked(s)' PROVE s \in pendingOffers'
    <3>1. ~PeerAppears("S")
      BY <1>4, MatchFacts, NotAppears DEF Apps
    <3>2. s \in pendingOffers
      BY <2>1, <3>1, MatchFacts, AskedBefore
    <3> QED BY <3>2 DEF SendOffer
  <2>2. ASSUME Asked(n)' PROVE n \in pendingOffers'
    <3>1. CASE n \in pendingOffers'
      BY <3>1
    <3>2. CASE toRecv' = toRecv
      <4>1. Asked(n)
        BY <1>4, <2>2, <3>2, AskedSame
      <4>2. n \in DOMAIN sent
        <5>1. \A s : OnWay(s) \/ Shown(s) => s \in DOMAIN sent
          BY MatchFacts, LaneTypes, EchoFacts DEF OnWay, Shown
        <5>2. \A s : Replied(s) => s \in DOMAIN sent
          BY MatchFacts, EchoFacts DEF Replied
        <5> QED BY <4>1, <5>1, <5>2 DEF Asked
      <4> QED BY <1>3, <4>2
    <3> QED BY <3>1, <3>2 DEF SendOffer
  <2> QED BY <1>3, <2>1, <2>2 DEF AskedPending
<1>7. AnsweredOnce'
  <2>1. \A i \in DOMAIN toRecv : i \in DOMAIN toRecv' /\ toRecv'[i] = toRecv[i]
    <3>1. PICK q : q = Append(toRecv, n)
      OBVIOUS
    <3>2. toRecv \in Seq(Nat) /\ n \in Nat
      BY MatchFacts, LaneTypes
    <3>3. \A i \in DOMAIN toRecv : i \in DOMAIN q /\ q[i] = toRecv[i]
      BY <3>1, <3>2, AppendKeeps
    <3>4. toRecv' = toRecv \/ toRecv' = q
      BY <3>1 DEF SendOffer
    <3> QED BY <3>3, <3>4
  <2>2. ASSUME NEW t, Asked(t) PROVE Asked(t)'
    <3>1. OnWay(t) => OnWay(t)'
      BY <2>1 DEF OnWay
    <3>2. (Shown(t) => Shown(t)') /\ (Replied(t) => Replied(t)')
      BY <1>4 DEF Shown, Replied, First
    <3> QED BY <2>2, <3>1, <3>2 DEF Asked
  <2> QED BY <1>3, <1>4, <2>2, MatchFacts, AnsweredOnceKept
<1>8. AcceptsPending'
  BY <1>4, MatchFacts DEF AcceptsPending, InPending
<1>9. ASSUME NEW c \in DOMAIN conns' PROVE Carries(c)'
  <2>1. c \in DOMAIN conns /\ conns[c].offer \in DOMAIN sent
    BY <1>4, MatchFacts, LifeFacts
  <2> QED BY <1>3, <1>4, <2>1, MatchFacts, CarriesKept DEF InPending
<1>10. DoneRows'
  BY <1>4, MatchFacts DEF DoneRows
<1> QED BY <1>5, <1>6, <1>7, <1>8, <1>9, <1>10 DEF Matching

LEMMA AnswerMatching ==
  ASSUME LifeInv, Matching, [Next]_vars, NEW r \in Rows, NEW status \in RecvStatus \ {"Done"},
         NEW type, Answer(r, status, type), Present(recv, r), NEW f, Clicked(r, f),
         \/ pendingInbound' = pendingInbound /\ f.type # "FileAccept"
         \/ pendingInbound' = Append(pendingInbound, r)
  PROVE  Matching'
<1>1. /\ recv' = UpdateMessage(recv, r, status, recv[r].path)
      /\ UNCHANGED <<sent, outbox, pendingOffers, online, toRecv, conns>>
  BY DEF Answer, senderVars
<1>2. /\ DOMAIN recv' = DOMAIN recv
      /\ \A x \in DOMAIN recv : x # r => recv'[x] = recv[x]
      /\ \A x \in DOMAIN recv : /\ recv'[x].status \in {recv[x].status, status}
                                /\ recv'[x].remote = recv[x].remote
                                /\ recv'[x].deleted = recv[x].deleted
  BY <1>1, MatchFacts, UpdatedReceived
<1>3. /\ \A i \in DOMAIN pendingInbound : i \in DOMAIN pendingInbound' /\ pendingInbound'[i] = pendingInbound[i]
      /\ f.type = "FileAccept" => \E i \in DOMAIN pendingInbound' : pendingInbound'[i] = r
  <2>1. pendingInbound \in Seq(Nat) /\ r \in Nat
    BY MatchFacts DEF TypeOK, Rows
  <2>2. CASE pendingInbound' = Append(pendingInbound, r)
    BY <2>1, <2>2, AppendKeeps
  <2>3. CASE pendingInbound' = pendingInbound /\ f.type # "FileAccept"
    BY <2>3
  <2> QED BY <2>2, <2>3
<1>4. Undeleted'
  BY <1>1, <1>2, MatchFacts DEF Undeleted, Present
<1>5. AskedPending'
  <2>1. ~PeerAppears("S")
    BY <1>1, MatchFacts, NotAppears DEF Apps
  <2> QED BY <1>1, <2>1, PendingKept
<1>6. AnsweredOnce'
  <2>1. \A t : Asked(t) => Asked(t)'
    BY <1>1, <1>2, MatchFacts, ClickAsked
  <2> QED BY <1>1, <1>2, <2>1, MatchFacts, AnsweredOnceKept
<1>7. AcceptsPending'
  <2>1. toSend \in Seq(Reply) /\ f \in Reply /\ toSend' = Append(toSend, f) /\ f.local = r
    BY MatchFacts DEF TypeOK, Clicked
  <2>2. \A i \in DOMAIN toSend' : (i \in DOMAIN toSend /\ toSend'[i] = toSend[i]) \/ toSend'[i] = f
    BY <2>1, AppendKeeps
  <2>3. \A x : InPending(x) => InPending(x)'
    BY <1>3 DEF InPending
  <2>4. \A i \in DOMAIN toSend : toSend[i].type = "FileAccept" => InPending(toSend[i].local)
    BY MatchFacts DEF AcceptsPending
  <2>5. f.type = "FileAccept" => InPending(r)'
    BY <1>3 DEF InPending
  <2> SUFFICES ASSUME NEW i \in DOMAIN toSend', NEW x, x = toSend'[i].local,
                      toSend'[i].type = "FileAccept"
               PROVE  InPending(x)'
    BY DEF AcceptsPending, InPending
  <2> QED BY <2>1, <2>2, <2>3, <2>4, <2>5
<1>8. ASSUME NEW c \in DOMAIN conns' PROVE Carries(c)'
  BY <1>1, <1>3, MatchFacts, CarriesKept DEF InPending
<1>9. DoneRows'
  BY <1>1, <1>2, MatchFacts, DoneRowsKept
<1> QED BY <1>4, <1>5, <1>6, <1>7, <1>8, <1>9 DEF Matching

LEMMA ClickMatching ==
  ASSUME LifeInv, Matching, [Next]_vars, NEW r \in Rows,
         (\E dir \in Dirs : AcceptTransfer(r, dir)) \/ DenyTransfer(r) \/ RequestAgain(r)
  PROVE  Matching'
<1>1. ASSUME NEW status \in RecvStatus \ {"Done"},
             NEW type \in {"FileAccept", "FileReject", "RequestAgain"},
             Answer(r, status, type), Present(recv, r),
             \/ /\ type # "RequestAgain" /\ recv[r].status = "WaitingAccept"
                /\ status # "WaitingAccept"
             \/ /\ type = "RequestAgain" /\ recv[r].status \in {"Done", "Denied"}
                /\ status = "RequestAgain",
             \/ pendingInbound' = pendingInbound /\ type # "FileAccept"
             \/ pendingInbound' = Append(pendingInbound, r)
      PROVE  Matching'
  <2>1. PICK f : Clicked(r, f) /\ f.type = type
    BY <1>1, MatchFacts, AnswerClicked
  <2> QED BY <1>1, <2>1, AnswerMatching
<1>2. ASSUME NEW dir \in Dirs, AcceptTransfer(r, dir) PROVE Matching'
  BY <1>1, <1>2 DEF AcceptTransfer, Clickable, RecvStatus
<1>3. ASSUME DenyTransfer(r) PROVE Matching'
  BY <1>1, <1>3 DEF DenyTransfer, Clickable, RecvStatus
<1>4. ASSUME RequestAgain(r) PROVE Matching'
  BY <1>1, <1>4 DEF RequestAgain, Clickable, RecvStatus
<1> QED BY <1>2, <1>3, <1>4

LEMMA RequestMatching ==
  ASSUME LifeInv, Matching, [Next]_vars, RouteFileRequest
  PROVE  Matching'
<1>1. UNCHANGED <<sent, outbox, pendingOffers, pendingInbound, online, toSend, conns>>
  BY DEF RouteFileRequest, senderVars
<1> PICK n : n = Len(recv) + 1
  OBVIOUS
<1>2. /\ \A r \in DOMAIN recv' : r \in DOMAIN recv \/ r = n
      /\ \A r \in DOMAIN recv : r \in DOMAIN recv' /\ recv'[r] = recv[r]
      /\ recv'[n].status = "WaitingAccept" /\ ~recv'[n].deleted
  <2>1. /\ DOMAIN recv' = 1..n /\ DOMAIN recv = 1..Len(recv) /\ Len(recv) \in Nat
        /\ \A r \in DOMAIN recv : recv'[r] = recv[r]
        /\ recv'[n].status = "WaitingAccept" /\ ~recv'[n].deleted
    BY MatchFacts, RequestRows
  <2> QED BY <2>1
<1>3. Undeleted'
  BY <1>1, <1>2, MatchFacts DEF Undeleted, Present
<1>4. AskedPending'
  <2>1. ~PeerAppears("S")
    BY <1>1, MatchFacts, NotAppears DEF Apps
  <2> QED BY <1>1, <2>1, PendingKept
<1>5. AnsweredOnce'
  BY <1>1, <1>2, MatchFacts, RequestAsked, AnsweredOnceKept
<1>6. AcceptsPending'
  BY <1>1, MatchFacts DEF AcceptsPending, InPending
<1>7. ASSUME NEW c \in DOMAIN conns' PROVE Carries(c)'
  BY <1>1, MatchFacts, CarriesKept DEF InPending
<1>8. DoneRows'
  BY <1>1, <1>2, MatchFacts, DoneRowsKept
<1> QED BY <1>3, <1>4, <1>5, <1>6, <1>7, <1>8 DEF Matching

NewConn(s, local) == [offer |-> s, declared |-> local, client |-> TRUE, written |-> 0,
                      eos |-> FALSE, xfer |-> TRUE, cut |-> FALSE, begun |-> 0, ended |-> 0,
                      saving |-> NoPath, entry |-> NoEntry, placed |-> {}]

(* The answer to a pending offer always counts, and there is none to ask   *)
(* for again.                                                              *)
LEMMA ReplyEffect ==
  ASSUME LifeInv, Matching, EchoInv', RouteFileAccept \/ RouteFileReject \/ RouteRequestAgain,
         NEW f, f = Head(toSend), NEW s, s = f.id
  PROVE  \/ ~First(f) /\ UNCHANGED <<sent, conns, pendingOffers>>
         \/ /\ First(f) /\ pendingOffers' = pendingOffers \ {s}
            /\ \E status : sent' = UpdateMessage(sent, s, status, NoPath)
            /\ conns' = conns \/ (f.type = "FileAccept" /\ conns' = Append(conns, NewConn(s, f.local)))
<1>1. PICK type : TakeReply(type)
  BY DEF RouteFileAccept, RouteFileReject, RouteRequestAgain
<1>2. UNCHANGED <<recv, toRecv, outbox>>
  BY <1>1 DEF TakeReply, receiverVars
<1>3. /\ f.type = type /\ s \in DOMAIN sent /\ f.local \in DOMAIN recv /\ recv[f.local].remote = s
      /\ First(f) => Asked(s)
  BY <1>1, <1>2, MatchFacts, TakenReply
<1>4. First(f) => s \in pendingOffers
  BY <1>3, MatchFacts
<1>5. CASE RouteFileAccept
  <2>1. f.type = "FileAccept" /\ First(f)
    BY <1>5 DEF RouteFileAccept, TakeReply, First
  <2>2. pendingOffers' = pendingOffers \ {s} /\ StartClient(s, f.local)
    BY <1>4, <1>5, <2>1 DEF RouteFileAccept
  <2> QED BY <2>1, <2>2 DEF StartClient, NewConn
<1>6. CASE RouteFileReject
  <2>1. First(f)
    BY <1>6 DEF RouteFileReject, TakeReply, First
  <2> QED BY <1>4, <1>6, <2>1 DEF RouteFileReject
<1>7. CASE RouteRequestAgain
  <2>1. ~First(f)
    BY <1>7 DEF RouteRequestAgain, TakeReply, First
  <2>2. ~Asked(s)
    BY <1>1, <1>2, <2>1, MatchFacts, TakenAsked
  <2>3. sent[s].path = NoPath
    BY <1>3, <2>2, MatchFacts DEF AnsweredOnce
  <2> QED BY <1>7, <2>1, <2>3 DEF RouteRequestAgain
<1> QED BY <1>5, <1>6, <1>7

LEMMA FilesPositive ==
  ASSUME NEW kind
  PROVE  Files(kind) \in Nat \ {0}
  BY BoundsAssumption DEF Files

LEMMA ReplyMatching ==
  ASSUME LifeInv, Matching, EchoInv', [Next]_vars,
         RouteFileAccept \/ RouteFileReject \/ RouteRequestAgain
  PROVE  Matching'
<1> PICK f, s : f = Head(toSend) /\ s = f.id
  OBVIOUS
<1>1. PICK type : TakeReply(type)
  BY DEF RouteFileAccept, RouteFileReject, RouteRequestAgain
<1>2. /\ UNCHANGED <<recv, toRecv, outbox, pendingInbound, online>>
      /\ toSend # <<>> /\ toSend' = Tail(toSend)
  BY <1>1 DEF TakeReply, receiverVars
<1>3. /\ s \in DOMAIN sent /\ 1 \in DOMAIN toSend /\ f = toSend[1] /\ f.local \in DOMAIN recv
      /\ recv[f.local].remote = s /\ ~Waiting(s)' /\ (First(f) => Asked(s))
  BY <1>1, <1>2, MatchFacts, TakenReply
<1>4. \A t : Asked(t) => Asked(t)' \/ (First(f) /\ t = s)
  BY <1>1, <1>2, MatchFacts, TakenAsked
<1>5. \/ ~First(f) /\ UNCHANGED <<sent, conns, pendingOffers>>
      \/ /\ First(f) /\ pendingOffers' = pendingOffers \ {s}
         /\ \E status : sent' = UpdateMessage(sent, s, status, NoPath)
         /\ conns' = conns \/ (f.type = "FileAccept" /\ conns' = Append(conns, NewConn(s, f.local)))
  BY ReplyEffect
<1>6. /\ DOMAIN sent' = DOMAIN sent
      /\ \A t \in DOMAIN sent : t # s => sent'[t] = sent[t]
      /\ First(f) => sent'[s].path = NoPath
      /\ \A t \in DOMAIN sent : /\ sent'[t].kind = sent[t].kind
                                /\ sent'[t].deleted = sent[t].deleted
                                /\ sent'[t].path \in {sent[t].path, NoPath}
  <2>1. CASE ~First(f) /\ UNCHANGED <<sent, conns, pendingOffers>>
    BY <2>1
  <2>2. ASSUME NEW status, sent' = UpdateMessage(sent, s, status, NoPath)
        PROVE  /\ DOMAIN sent' = DOMAIN sent
               /\ \A t \in DOMAIN sent : t # s => sent'[t] = sent[t]
               /\ sent'[s].path = NoPath
               /\ \A t \in DOMAIN sent : /\ sent'[t].kind = sent[t].kind
                                         /\ sent'[t].deleted = sent[t].deleted
                                         /\ sent'[t].path \in {sent[t].path, NoPath}
    BY <1>3, <2>2, MatchFacts, UpdatedOffer, UpdatedKind
  <2> QED BY <1>5, <2>1, <2>2
<1>7. Undeleted'
  BY <1>2, <1>6, MatchFacts DEF Undeleted, Present
<1>8. AskedPending'
  <2>1. ~PeerAppears("S")
    BY <1>2, MatchFacts, NotAppears DEF Apps
  <2>2. ~Asked(s)'
    BY <1>3 DEF Waiting
  <2> QED BY <1>5, <1>6, <2>1, <2>2, PendingKept
<1>9. AnsweredOnce'
  BY <1>2, <1>4, <1>6, MatchFacts, AnsweredOnceKept
<1>10. AcceptsPending'
  <2>1. toSend \in Seq(Reply)
    BY MatchFacts DEF TypeOK
  <2>2. PICK d \in Nat : \A i \in DOMAIN toSend' : i + d \in DOMAIN toSend /\ toSend'[i] = toSend[i + d]
    BY <1>2, <2>1, CutCases DEF Cut
  <2> QED BY <1>2, <2>2, MatchFacts DEF AcceptsPending, InPending
<1>11. CASE conns' = conns
  <2>1. ASSUME NEW c \in DOMAIN conns' PROVE Carries(c)'
    <3>1. c \in DOMAIN conns /\ conns[c].offer \in DOMAIN sent
      BY <1>11, MatchFacts, LifeFacts
    <3>2. sent'[conns[c].offer].status = sent[conns[c].offer].status
      <4>1. CASE conns[c].offer = s
        <5>1. ~First(f)
          BY <1>3, <3>1, <4>1, LifeFacts DEF Waiting
        <5> QED BY <1>5, <5>1
      <4> QED BY <1>6, <3>1, <4>1
    <3> QED BY <1>2, <1>6, <1>11, <3>1, <3>2, MatchFacts, CarriesKept DEF InPending
  <2>2. DoneRows'
    BY <1>2, <1>11, MatchFacts DEF DoneRows
  <2> QED BY <1>7, <1>8, <1>9, <1>10, <2>1, <2>2 DEF Matching
<1>12. CASE conns' # conns
  <2> PICK k, n : k = NewConn(s, f.local) /\ n = Len(conns) + 1
    OBVIOUS
  <2>1. First(f) /\ f.type = "FileAccept" /\ conns' = Append(conns, k)
    BY <1>5, <1>12
  <2>2. /\ \A d \in DOMAIN conns' : d \in DOMAIN conns \/ d = n
        /\ \A d \in DOMAIN conns : d \in DOMAIN conns' /\ conns'[d] = conns[d]
        /\ conns'[n] = k
    <3>1. conns \in Seq(Conn \union {k}) /\ k \in Conn \union {k}
      BY MatchFacts, SeqMonotonic DEF TypeOK
    <3> QED BY <2>1, <3>1, AppendProperties, LenProperties
  <2>3. ASSUME NEW c \in DOMAIN conns PROVE Carries(c)'
    <3>1. conns[c].offer \in DOMAIN sent /\ conns[c].offer # s
      BY <1>3, <2>1, LifeFacts DEF Waiting
    <3> QED BY <1>2, <1>6, <2>2, <3>1, MatchFacts, CarriesKept DEF InPending
  <2>4. Carries(n)'
    <3>1. \E i \in DOMAIN pendingInbound : pendingInbound[i] = f.local
      BY <1>3, <2>1, MatchFacts DEF AcceptsPending, InPending
    <3>2. /\ k.begun = 0 /\ k.written = 0 /\ k.ended = 0 /\ k.saving = NoPath /\ ~k.eos /\ k.xfer
          /\ ~k.cut
          /\ k.client /\ k.entry = NoEntry /\ k.declared = f.local
      BY DEF NewConn
    <3>3. FilesOf(k)' \in Nat \ {0}
      BY FilesPositive DEF FilesOf
    <3>4. InPending(k.declared)'
      BY <1>2, <3>1, <3>2 DEF InPending
    <3> QED BY <2>2, <3>2, <3>3, <3>4 DEF Carries
  <2>5. DoneRows'
    BY <1>2, <2>2, MatchFacts, DoneRowsKept
  <2> QED BY <1>7, <1>8, <1>9, <1>10, <2>2, <2>3, <2>4, <2>5 DEF Matching
<1> QED BY <1>11, <1>12

LEMMA AppearsMatching ==
  ASSUME LifeInv, Matching, [Next]_vars, NEW a \in Apps, PeerAppears(a)
  PROVE  Matching'
<1>1. UNCHANGED <<sent, recv, pendingInbound, toSend, conns>>
  BY DEF PeerAppears, receiverVars
<1>2. \/ UNCHANGED <<toRecv, pendingOffers>>
      \/ toRecv' = toRecv \o outbox /\ pendingOffers' = pendingOffers \union ToSet(outbox)
  BY DEF PeerAppears
<1>3. \A t : Queued(t) => t \in ToSet(outbox)
  BY DEF Queued, ToSet
<1>4. AskedPending'
  <2>1. ASSUME UNCHANGED <<toRecv, pendingOffers>> PROVE AskedPending'
    <3>1. \A s \in DOMAIN sent : Asked(s)' => Asked(s)
      BY <1>1, <2>1, AskedSame
    <3> QED BY <1>1, <2>1, <3>1, MatchFacts DEF AskedPending
  <2>2. ASSUME pendingOffers' = pendingOffers \union ToSet(outbox) PROVE AskedPending'
    <3>1. \A s \in DOMAIN sent : Asked(s)' => Asked(s) \/ Queued(s)
      BY MatchFacts, AskedBefore
    <3> QED BY <1>1, <1>3, <2>2, <3>1, MatchFacts DEF AskedPending
  <2> QED BY <1>2, <2>1, <2>2
<1>5. AnsweredOnce'
  <2>1. \A i \in DOMAIN toRecv : i \in DOMAIN toRecv' /\ toRecv'[i] = toRecv[i]
    <3>1. toRecv \in Seq(Nat) /\ outbox \in Seq(Nat)
      BY MatchFacts, LaneTypes
    <3>2. PICK p : p = toRecv \o outbox
      OBVIOUS
    <3>3. \A i \in DOMAIN toRecv : i \in DOMAIN p /\ p[i] = toRecv[i]
      BY <3>1, <3>2, ConcatProperties, LenProperties
    <3> QED BY <1>2, <3>2, <3>3
  <2>2. ASSUME NEW t, Asked(t) PROVE Asked(t)'
    <3>1. OnWay(t) => OnWay(t)'
      BY <2>1 DEF OnWay
    <3>2. (Shown(t) => Shown(t)') /\ (Replied(t) => Replied(t)')
      BY <1>1 DEF Shown, Replied, First
    <3> QED BY <2>2, <3>1, <3>2 DEF Asked
  <2> QED BY <1>1, <2>2, MatchFacts, AnsweredOnceKept
<1>6. Undeleted' /\ AcceptsPending' /\ DoneRows'
  BY <1>1, MatchFacts DEF Undeleted, Present, AcceptsPending, InPending, DoneRows
<1>7. ASSUME NEW c \in DOMAIN conns' PROVE Carries(c)'
  BY <1>1, MatchFacts, CarriesKept DEF InPending
<1> QED BY <1>4, <1>5, <1>6, <1>7 DEF Matching

(* The parts that a connection's progress does not touch.                  *)
LEMMA StreamFrame ==
  ASSUME LifeInv, Matching, [Next]_vars, UNCHANGED <<toRecv, toSend, online, pendingOffers>>,
         DOMAIN sent' = DOMAIN sent, DOMAIN recv' = DOMAIN recv,
         \A s \in DOMAIN sent : /\ sent'[s].deleted = sent[s].deleted
                                /\ sent'[s].path \in {sent[s].path, NoPath},
         \A r \in DOMAIN recv : /\ recv'[r].deleted = recv[r].deleted
                                /\ recv'[r].remote = recv[r].remote
                                /\ recv'[r].status = "WaitingAccept" <=> recv[r].status = "WaitingAccept"
  PROVE  Undeleted' /\ AskedPending' /\ AnsweredOnce'
<1>1. Undeleted'
  BY MatchFacts DEF Undeleted, Present
<1>2. ~PeerAppears("S")
  BY MatchFacts, NotAppears DEF Apps
<1>3. AskedPending'
  BY <1>2, PendingKept
<1>4. ASSUME NEW t, Asked(t) PROVE Asked(t)'
  <2>1. (OnWay(t) => OnWay(t)') /\ (Replied(t) => Replied(t)')
    BY DEF OnWay, Replied, First
  <2>2. Shown(t) => Shown(t)'
    BY DEF Shown
  <2> QED BY <1>4, <2>1, <2>2 DEF Asked
<1>5. AnsweredOnce'
  BY <1>4, MatchFacts, AnsweredOnceKept
<1> QED BY <1>1, <1>3, <1>5

LEMMA SendMatching ==
  ASSUME LifeInv, Matching, [Next]_vars, NEW c \in Tids, WriteFile(c) \/ FinishSending(c)
  PROVE  Matching'
<1> PICK k, s : k = conns[c] /\ s = k.offer
  OBVIOUS
<1>1. c \in DOMAIN conns /\ k \in Conn /\ k.client /\ s \in DOMAIN sent /\ Carries(c) /\ Present(sent, s)
  BY MatchFacts, LifeFacts, Elements DEF WriteFile, FinishSending
<1>2. UNCHANGED <<recv, pendingInbound, toRecv, toSend, online, pendingOffers>>
  BY DEF WriteFile, FinishSending, receiverVars, netVars
<1>3. /\ k.begun <= k.written /\ k.written <= FilesOf(k) /\ ~k.eos
      /\ k.begun = k.ended + (IF k.saving = NoPath THEN 0 ELSE 1)
      /\ k.xfer /\ ~k.cut /\ (k.begun = 0 => k.entry = NoEntry /\ InPending(k.declared))
      /\ (k.begun > 0 => k.entry = k.declared)
      /\ k.begun \in Nat /\ k.written \in Nat
  <2>1. k.begun \in Nat /\ k.written \in Nat
    BY <1>1 DEF Conn
  <2> QED BY <1>1, <2>1 DEF Carries
<1>4. PICK new, status :
        /\ conns' = [conns EXCEPT ![c] = new]
        /\ sent' = UpdateMessage(sent, s, status, NoPath)
        /\ new.begun = k.begun /\ new.ended = k.ended /\ new.saving = k.saving /\ new.xfer = k.xfer
        /\ new.cut = k.cut
        /\ new.entry = k.entry /\ new.declared = k.declared /\ new.offer = s
        /\ \/ /\ new.client /\ ~new.eos /\ new.written = k.written + 1 /\ k.written < FilesOf(k)
           \/ /\ ~new.client /\ new.eos /\ new.written = k.written /\ k.written = FilesOf(k)
              /\ status = "Done"
  <2>1. CASE WriteFile(c)
    <3> PICK new : new = [k EXCEPT !.written = @ + 1]
      OBVIOUS
    <3>1. /\ new.begun = k.begun /\ new.ended = k.ended /\ new.saving = k.saving /\ new.xfer = k.xfer
          /\ new.entry = k.entry /\ new.declared = k.declared /\ new.offer = s /\ new.cut = k.cut
          /\ new.client /\ ~new.eos /\ new.written = k.written + 1
      BY <1>1, <1>3 DEF Conn
    <3> QED BY <2>1, <3>1 DEF WriteFile
  <2>2. CASE FinishSending(c)
    <3> PICK new : new = [k EXCEPT !.eos = TRUE, !.client = FALSE]
      OBVIOUS
    <3>1. /\ new.begun = k.begun /\ new.ended = k.ended /\ new.saving = k.saving /\ new.xfer = k.xfer
          /\ new.entry = k.entry /\ new.declared = k.declared /\ new.offer = s /\ new.cut = k.cut
          /\ ~new.client /\ new.eos /\ new.written = k.written
      BY <1>1 DEF Conn
    <3> QED BY <2>2, <3>1 DEF FinishSending
  <2> QED BY <2>1, <2>2
<1>5. /\ DOMAIN sent' = DOMAIN sent
      /\ \A t \in DOMAIN sent : t # s => sent'[t] = sent[t]
      /\ sent'[s].status = status
      /\ \A t \in DOMAIN sent : /\ sent'[t].kind = sent[t].kind
                                /\ sent'[t].deleted = sent[t].deleted
                                /\ sent'[t].path \in {sent[t].path, NoPath}
  BY <1>1, <1>4, MatchFacts, UpdatedOffer, UpdatedKind
<1>6. /\ DOMAIN conns' = DOMAIN conns /\ conns'[c] = new
      /\ \A d \in DOMAIN conns : d # c => conns'[d] = conns[d]
  BY <1>1, <1>4
<1>7. Undeleted' /\ AskedPending' /\ AnsweredOnce'
  BY <1>2, <1>5, StreamFrame
<1>8. AcceptsPending'
  BY <1>2, MatchFacts DEF AcceptsPending, InPending
<1>9. ASSUME NEW d \in DOMAIN conns, d # c PROVE Carries(d)'
  <2>1. conns[d].offer \in DOMAIN sent /\ conns[d].offer # s
    BY <1>1, <1>9, LifeFacts
  <2> QED BY <1>2, <1>5, <1>6, <1>9, <2>1, MatchFacts, CarriesKept DEF InPending
<1>10. Carries(c)'
  <2>1. FilesOf(new)' = FilesOf(k)
    BY <1>1, <1>4, <1>5 DEF FilesOf
  <2>2. (k.begun = 0 => InPending(new.declared)')
    BY <1>2, <1>3, <1>4 DEF InPending
  <2>3. FilesOf(k) \in Nat
    BY FilesPositive DEF FilesOf
  <2>4. /\ new.begun <= new.written /\ new.written <= FilesOf(k)
        /\ new.begun = new.ended + (IF new.saving = NoPath THEN 0 ELSE 1)
        /\ new.eos => ~new.client /\ new.written = FilesOf(k) /\ sent'[s].status = "Done"
        /\ new.xfer /\ ~new.cut /\ (new.client \/ new.eos)
        /\ new.begun = 0 => new.entry = NoEntry
        /\ new.begun > 0 => new.entry = new.declared
    BY <1>3, <1>4, <1>5, <2>3
  <2> QED BY <1>4, <1>6, <2>1, <2>2, <2>4 DEF Carries
<1>11. DoneRows'
  <2>1. \A d \in DOMAIN conns : /\ d \in DOMAIN conns' /\ conns'[d].declared = conns[d].declared
                                /\ Complete(conns[d]) => Complete(conns'[d])
    BY <1>4, <1>6 DEF Complete
  <2> QED BY <1>2, <2>1, MatchFacts, DoneRowsKept
<1> QED BY <1>6, <1>7, <1>8, <1>9, <1>10, <1>11 DEF Matching

LEMMA BeginMatching ==
  ASSUME LifeInv, Matching, [Next]_vars, NEW c \in Tids, BeginFile(c)
  PROVE  Matching'
<1> PICK k, own : k = conns[c] /\ own = k.declared
  OBVIOUS
<1>1. /\ c \in DOMAIN conns /\ k \in Conn /\ Carries(c) /\ k.xfer /\ k.saving = NoPath /\ k.begun < k.written
      /\ own \in DOMAIN recv /\ own # NoEntry /\ downloadDir \in Dirs /\ downloadDir # NoPath
  <2>1. c \in DOMAIN conns /\ k.xfer /\ k.saving = NoPath /\ k.begun < k.written
    BY DEF BeginFile
  <2>2. own \in DOMAIN recv /\ own # NoEntry
    BY <2>1, MatchFacts, EchoFacts, EntryFacts
  <2>3. downloadDir \in Dirs /\ downloadDir # NoPath
    BY MatchFacts, DirsAssumption DEF TypeOK
  <2> QED BY <2>1, <2>2, <2>3, MatchFacts, Elements
<1>2. UNCHANGED <<sent, recv, toRecv, toSend, online, pendingOffers>>
  BY DEF BeginFile, senderVars, netVars
<1>3. /\ k.written <= FilesOf(k) /\ k.begun = k.ended + 0 /\ k.begun \in Nat /\ k.written \in Nat
      /\ k.ended \in Nat /\ ~k.cut
      /\ k.eos => ~k.client /\ k.written = FilesOf(k) /\ sent[k.offer].status = "Done"
      /\ k.client \/ k.eos
      /\ k.begun = 0 => k.entry = NoEntry /\ InPending(own)
      /\ k.begun > 0 => k.entry = own
  <2>1. k.begun \in Nat /\ k.written \in Nat /\ k.ended \in Nat
    BY <1>1 DEF Conn
  <2> QED BY <1>1, <2>1 DEF Carries
<1>4. PICK new : /\ conns' = [conns EXCEPT ![c] = new] /\ new.entry = own
                 /\ new = [k EXCEPT !.begun = @ + 1, !.saving = downloadDir,
                                    !.placed = @ \union {downloadDir}, !.entry = own]
                 /\ \/ pendingInbound' = pendingInbound
                    \/ \E i \in DOMAIN pendingInbound :
                          pendingInbound[i] = own /\ pendingInbound' = RemoveAt(pendingInbound, i)
  <2>0. \A e : [k EXCEPT !.begun = @ + 1, !.saving = downloadDir,
                         !.placed = @ \union {downloadDir}, !.entry = e].entry = e
    BY <1>1 DEF Conn
  <2>1. CASE k.begun = 0
    <3>1. k.entry = NoEntry /\ InPending(own)
      BY <1>3, <2>1
    <3>2. EntryPlace(k) # {} /\ \A i \in EntryPlace(k) : i \in DOMAIN pendingInbound /\ pendingInbound[i] = own
      <4>1. pendingInbound \in Seq(Nat) /\ DOMAIN pendingInbound \subseteq Nat
        BY MatchFacts, LenProperties DEF TypeOK
      <4>2. PICK j \in DOMAIN pendingInbound : pendingInbound[j] = own
        BY <3>1 DEF InPending
      <4>3. \A i \in DOMAIN pendingInbound : pendingInbound[i] = own => i = j
        BY <4>2, MatchFacts, EchoFacts, EntryFacts
      <4>4. EntryPlace(k) = {j}
        BY <4>1, <4>2, <4>3 DEF EntryPlace
      <4> QED BY <4>2, <4>4
    <3>3. PICK i \in EntryPlace(k) :
            /\ conns' = [conns EXCEPT ![c] =
                 [k EXCEPT !.begun = @ + 1, !.saving = downloadDir,
                           !.placed = @ \union {downloadDir}, !.entry = pendingInbound[i]]]
            /\ pendingInbound' = RemoveAt(pendingInbound, i)
      BY <3>1, <3>2 DEF BeginFile
    <3> QED BY <2>0, <3>2, <3>3
  <2>2. CASE k.begun > 0
    <3>1. k.entry = own
      BY <1>3, <2>2
    <3>2. conns' = [conns EXCEPT ![c] =
                 [k EXCEPT !.begun = @ + 1, !.saving = downloadDir,
                           !.placed = @ \union {downloadDir}, !.entry = own]]
          /\ pendingInbound' = pendingInbound
      BY <1>1, <3>1 DEF BeginFile
    <3> QED BY <2>0, <3>2
  <2>3. k.begun = 0 \/ k.begun > 0
    BY <1>3
  <2> QED BY <2>1, <2>2, <2>3
<1>5. /\ new.begun = k.begun + 1 /\ new.saving = downloadDir /\ new.ended = k.ended
      /\ new.written = k.written /\ new.eos = k.eos /\ new.client = k.client /\ new.xfer
      /\ new.cut = k.cut
      /\ new.offer = k.offer /\ new.declared = own
  BY <1>1, <1>4 DEF Conn
<1>6. /\ DOMAIN conns' = DOMAIN conns /\ conns'[c] = new
      /\ \A d \in DOMAIN conns : d # c => conns'[d] = conns[d]
  BY <1>1, <1>4
<1>7. \A r : r # own /\ InPending(r) =>
         \E i \in DOMAIN pendingInbound' : pendingInbound'[i] = r
  <2>1. CASE pendingInbound' = pendingInbound
    BY <2>1 DEF InPending
  <2>2. ASSUME NEW i \in DOMAIN pendingInbound, pendingInbound[i] = own,
               pendingInbound' = RemoveAt(pendingInbound, i),
               NEW j \in DOMAIN pendingInbound, pendingInbound[j] # own
        PROVE  \E x \in DOMAIN pendingInbound' : pendingInbound'[x] = pendingInbound[j]
    <3> PICK q : q = RemoveAt(pendingInbound, i)
      OBVIOUS
    <3>1. pendingInbound \in Seq(Nat)
      BY MatchFacts DEF TypeOK
    <3>2. /\ q \in Seq(Nat) /\ Len(q) = Len(pendingInbound) - 1
          /\ \A x \in 1..(Len(pendingInbound) - 1) :
                q[x] = IF x < i THEN pendingInbound[x] ELSE pendingInbound[x + 1]
      BY <3>1, RemoveAtFacts
    <3>3. /\ DOMAIN q = 1..(Len(pendingInbound) - 1)
          /\ DOMAIN pendingInbound = 1..Len(pendingInbound) /\ Len(pendingInbound) \in Nat
      BY <3>1, <3>2, LenProperties
    <3>4. CASE j < i
      <4>1. j \in DOMAIN q /\ q[j] = pendingInbound[j]
        BY <3>2, <3>3, <3>4
      <4> QED BY <2>2, <4>1
    <3>5. CASE i < j
      <4>1. j - 1 \in DOMAIN q /\ ~(j - 1 < i) /\ (j - 1) + 1 = j
        BY <3>3, <3>5
      <4>2. q[j - 1] = pendingInbound[j]
        BY <3>2, <3>3, <4>1
      <4> QED BY <2>2, <4>1, <4>2
    <3>6. j < i \/ i < j
      BY <2>2, <3>3
    <3> QED BY <3>4, <3>5, <3>6
  <2> QED BY <1>4, <2>1, <2>2 DEF InPending
<1>8. Undeleted' /\ AskedPending' /\ AnsweredOnce'
  BY <1>2, StreamFrame
<1>9. AcceptsPending'
  <2> SUFFICES ASSUME NEW i \in DOMAIN toSend, NEW r, r = toSend[i].local, toSend[i].type = "FileAccept"
               PROVE  \E x \in DOMAIN pendingInbound' : pendingInbound'[x] = r
    BY <1>2 DEF AcceptsPending, InPending
  <2>1. recv[r].remote = toSend[i].id /\ toSend[i].id \in DOMAIN sent
    BY MatchFacts, EchoFacts
  <2>2. Waiting(toSend[i].id)
    BY DEF Waiting, Asked, Replied, First
  <2>3. recv[own].remote = k.offer /\ k.offer # toSend[i].id
    BY <1>1, <2>1, <2>2, LifeFacts, EchoFacts
  <2>4. r # own
    BY <2>1, <2>3
  <2>5. InPending(r)
    BY MatchFacts DEF AcceptsPending
  <2> QED BY <1>7, <2>4, <2>5
<1>10. ASSUME NEW d \in DOMAIN conns, d # c PROVE Carries(d)'
  <2>1. conns[d].declared # own
    <3>1. recv[conns[d].declared].remote = conns[d].offer /\ recv[own].remote = k.offer
      BY <1>1, MatchFacts, EchoFacts
    <3>2. conns[d].offer # k.offer
      BY <1>1, <1>10, LifeFacts
    <3> QED BY <3>1, <3>2
  <2> QED BY <1>2, <1>6, <1>7, <1>10, <2>1, MatchFacts, CarriesKept
<1>11. Carries(c)'
  <2>1. FilesOf(new)' = FilesOf(k)
    BY <1>2, <1>5 DEF FilesOf
  <2>2. FilesOf(k) \in Nat
    BY FilesPositive DEF FilesOf
  <2>3. /\ new.begun <= new.written /\ new.written <= FilesOf(k) /\ new.begun # 0
        /\ new.begun = new.ended + (IF new.saving = NoPath THEN 0 ELSE 1)
        /\ new.eos => ~new.client /\ new.written = FilesOf(k) /\ sent'[new.offer].status = "Done"
        /\ ~new.cut /\ (new.client \/ new.eos)
        /\ new.entry = new.declared
    BY <1>1, <1>2, <1>3, <1>4, <1>5, <2>2
  <2> QED BY <1>5, <1>6, <2>1, <2>3 DEF Carries
<1>12. DoneRows'
  <2>1. \A d \in DOMAIN conns : /\ d \in DOMAIN conns' /\ conns'[d].declared = conns[d].declared
                                /\ Complete(conns[d]) => Complete(conns'[d])
    BY <1>1, <1>5, <1>6 DEF Complete
  <2> QED BY <1>2, <2>1, MatchFacts, DoneRowsKept
<1> QED BY <1>6, <1>8, <1>9, <1>10, <1>11, <1>12 DEF Matching

(* The end of a file, and of all files: R's row is updated.                *)
LEMMA EndMatching ==
  ASSUME LifeInv, Matching, [Next]_vars, NEW c \in Tids, EndFile(c) \/ FinishBatch(c)
  PROVE  Matching'
<1> PICK k, own : k = conns[c] /\ own = k.declared
  OBVIOUS
<1>1. c \in DOMAIN conns /\ k \in Conn /\ Carries(c) /\ k.xfer
  BY MatchFacts, Elements DEF EndFile, FinishBatch
<1>2. UNCHANGED <<sent, toRecv, toSend, online, pendingOffers, pendingInbound>>
  BY DEF EndFile, FinishBatch, senderVars, netVars
<1>3. /\ k.begun <= k.written /\ k.written <= FilesOf(k)
      /\ k.begun = k.ended + (IF k.saving = NoPath THEN 0 ELSE 1)
      /\ k.eos => ~k.client /\ k.written = FilesOf(k) /\ sent[k.offer].status = "Done"
      /\ ~k.cut /\ (k.client \/ k.eos)
      /\ k.begun = 0 => k.entry = NoEntry /\ InPending(own)
      /\ k.begun > 0 => k.entry = own
      /\ k.begun \in Nat /\ k.ended \in Nat /\ k.written \in Nat
  <2>1. k.begun \in Nat /\ k.ended \in Nat /\ k.written \in Nat
    BY <1>1 DEF Conn
  <2> QED BY <1>1, <2>1 DEF Carries
<1>4. PICK new, status :
        /\ conns' = [conns EXCEPT ![c] = new]
        /\ recv' = recv \/ \E path : recv' = UpdateMessage(recv, k.entry, status, path)
        /\ new.offer = k.offer /\ new.declared = own /\ new.written = k.written
        /\ new.begun = k.begun /\ new.eos = k.eos /\ new.client = k.client /\ new.saving = NoPath
        /\ new.cut = k.cut
        /\ \/ /\ status = "Transferring" /\ new.xfer /\ new.entry = k.entry
              /\ new.ended = k.ended + 1 /\ k.saving # NoPath
           \/ /\ status = "Done" /\ ~new.xfer /\ new.entry = NoEntry /\ new.ended = k.ended
              /\ k.saving = NoPath /\ k.eos /\ k.begun = k.written
  <2>1. CASE EndFile(c)
    <3> PICK new : new = [k EXCEPT !.ended = @ + 1, !.saving = NoPath]
      OBVIOUS
    <3>1. /\ new.offer = k.offer /\ new.declared = own /\ new.written = k.written
          /\ new.begun = k.begun /\ new.eos = k.eos /\ new.client = k.client /\ new.saving = NoPath
          /\ new.xfer /\ new.entry = k.entry /\ new.ended = k.ended + 1 /\ new.cut = k.cut
      BY <1>1 DEF Conn
    <3>2. /\ conns' = [conns EXCEPT ![c] = new] /\ k.saving # NoPath
          /\ recv' = recv \/ \E path : recv' = UpdateMessage(recv, k.entry, "Transferring", path)
      BY <2>1 DEF EndFile, UpdateEntry
    <3> QED BY <3>1, <3>2
  <2>2. CASE FinishBatch(c)
    <3> PICK new : new = [k EXCEPT !.xfer = FALSE, !.entry = NoEntry]
      OBVIOUS
    <3>1. k.saving = NoPath /\ k.eos /\ k.begun = k.written
      BY <2>2 DEF FinishBatch
    <3>2. /\ new.offer = k.offer /\ new.declared = own /\ new.written = k.written
          /\ new.begun = k.begun /\ new.eos = k.eos /\ new.client = k.client /\ new.saving = NoPath
          /\ ~new.xfer /\ new.entry = NoEntry /\ new.ended = k.ended /\ new.cut = k.cut
      BY <1>1, <3>1 DEF Conn
    <3>3. /\ conns' = [conns EXCEPT ![c] = new]
          /\ recv' = recv \/ \E path : recv' = UpdateMessage(recv, k.entry, "Done", path)
      BY <2>2 DEF FinishBatch, UpdateEntry
    <3> QED BY <3>1, <3>2, <3>3
  <2> QED BY <2>1, <2>2
<1>5. /\ DOMAIN recv' = DOMAIN recv
      /\ \A r \in DOMAIN recv : r # k.entry => recv'[r] = recv[r]
      /\ \A r \in DOMAIN recv : /\ recv'[r].status \in {recv[r].status, status}
                                /\ recv'[r].remote = recv[r].remote
                                /\ recv'[r].deleted = recv[r].deleted
  BY <1>4, MatchFacts, UpdatedReceived
<1>6. /\ DOMAIN conns' = DOMAIN conns /\ conns'[c] = new
      /\ \A d \in DOMAIN conns : d # c => conns'[d] = conns[d]
  BY <1>1, <1>4
<1>7. \A r \in DOMAIN recv : recv'[r].status = "WaitingAccept" <=> recv[r].status = "WaitingAccept"
  <2>1. k.entry \in DOMAIN recv => recv[k.entry].status = "Transferring"
    BY <1>1, MatchFacts, EchoFacts, EntryFacts
  <2>2. status \in {"Transferring", "Done"}
    BY <1>4
  <2> QED BY <1>5, <2>1, <2>2
<1>8. Undeleted' /\ AskedPending' /\ AnsweredOnce'
  BY <1>2, <1>5, <1>7, StreamFrame
<1>9. AcceptsPending'
  BY <1>2, MatchFacts DEF AcceptsPending, InPending
<1>10. ASSUME NEW d \in DOMAIN conns, d # c PROVE Carries(d)'
  BY <1>2, <1>6, <1>10, MatchFacts, CarriesKept DEF InPending
<1>11. Carries(c)'
  <2>1. FilesOf(new)' = FilesOf(k)
    BY <1>2, <1>4 DEF FilesOf
  <2>2. InPending(own)' <=> InPending(own)
    BY <1>2 DEF InPending
  <2>3. FilesOf(k) \in Nat
    BY FilesPositive DEF FilesOf
  <2>4. /\ new.begun <= new.written /\ new.written <= FilesOf(k)
        /\ new.begun = new.ended + 0
        /\ new.eos => ~new.client /\ new.written = FilesOf(k) /\ sent'[new.offer].status = "Done"
        /\ new.xfer => /\ ~new.cut /\ (new.client \/ new.eos)
                       /\ new.begun = 0 => new.entry = NoEntry /\ InPending(own)
                       /\ new.begun > 0 => new.entry = new.declared
        /\ ~new.xfer => new.entry = NoEntry /\ new.eos /\ new.ended = FilesOf(k)
    BY <1>2, <1>3, <1>4, <2>3
  <2> QED BY <1>4, <1>6, <2>1, <2>2, <2>4 DEF Carries
<1>12. DoneRows'
  <2> SUFFICES ASSUME NEW r \in DOMAIN recv', recv'[r].status = "Done"
               PROVE  \E d \in DOMAIN conns' : conns'[d].declared = r /\ Complete(conns'[d])
    BY DEF DoneRows
  <2>1. \A d \in DOMAIN conns : /\ conns'[d].declared = conns[d].declared
                                /\ Complete(conns[d]) => Complete(conns'[d])
    BY <1>1, <1>4, <1>6 DEF Complete
  <2>2. CASE recv[r].status = "Done"
    <3>1. PICK d \in DOMAIN conns : conns[d].declared = r /\ Complete(conns[d])
      BY <1>5, <2>2, MatchFacts DEF DoneRows
    <3> QED BY <1>6, <2>1, <3>1
  <2>3. CASE recv[r].status # "Done"
    <3>1. status = "Done" /\ r = k.entry
      BY <1>5, <2>3
    <3>2. Complete(new)
      BY <1>3, <1>4, <3>1 DEF Complete
    <3>3. k.begun > 0
      <4>1. k.begun = k.written /\ k.eos
        BY <1>4, <3>1
      <4>2. FilesOf(k) \in Nat \ {0}
        BY FilesPositive DEF FilesOf
      <4> QED BY <1>3, <4>1, <4>2
    <3>4. own = r
      BY <1>3, <3>1, <3>3
    <3> QED BY <1>1, <1>4, <1>6, <3>2, <3>4
  <2> QED BY <2>2, <2>3
<1> QED BY <1>6, <1>8, <1>9, <1>10, <1>11, <1>12 DEF Matching

(* S's client is gone, and R's side of the connection ends before it has   *)
(* read everything: the row and the entries stay as they are.              *)
LEMMA CutMatching ==
  ASSUME LifeInv, Matching, [Next]_vars, faults' = 0, NEW c \in Tids, XferFails(c)
  PROVE  Matching'
<1> PICK k : k = conns[c]
  OBVIOUS
<1>1. c \in DOMAIN conns /\ k \in Conn /\ Carries(c) /\ k.xfer
  BY MatchFacts, Elements DEF XferFails
<1>2. UNCHANGED <<sent, recv, toRecv, toSend, online, pendingOffers, pendingInbound>>
  BY DEF XferFails, senderVars, receiverVars, netVars
<1>3. ~k.client
  <2>1. faults \in Nat
    BY MatchFacts, BoundsAssumption DEF TypeOK
  <2> QED BY <2>1 DEF XferFails, Fault
<1>4. PICK new : /\ conns' = [conns EXCEPT ![c] = new]
                 /\ new.offer = k.offer /\ new.declared = k.declared /\ new.begun = k.begun
                 /\ new.written = k.written /\ new.eos = k.eos /\ new.client = k.client
                 /\ ~new.xfer /\ new.cut /\ new.entry = NoEntry
  <2> PICK new : new = [k EXCEPT !.xfer = FALSE, !.entry = NoEntry, !.saving = NoPath, !.cut = TRUE]
    OBVIOUS
  <2>1. /\ new.offer = k.offer /\ new.declared = k.declared /\ new.begun = k.begun
        /\ new.written = k.written /\ new.eos = k.eos /\ new.client = k.client
        /\ ~new.xfer /\ new.cut /\ new.entry = NoEntry
    BY <1>1 DEF Conn
  <2> QED BY <2>1 DEF XferFails
<1>5. /\ DOMAIN conns' = DOMAIN conns /\ conns'[c] = new
      /\ \A d \in DOMAIN conns : d # c => conns'[d] = conns[d]
  BY <1>1, <1>4
<1>6. Undeleted' /\ AskedPending' /\ AnsweredOnce'
  BY <1>2, StreamFrame
<1>7. AcceptsPending'
  BY <1>2, MatchFacts DEF AcceptsPending, InPending
<1>8. ASSUME NEW d \in DOMAIN conns, d # c PROVE Carries(d)'
  BY <1>2, <1>5, <1>8, MatchFacts, CarriesKept DEF InPending
<1>9. Carries(c)'
  <2>1. FilesOf(new)' = FilesOf(k)
    BY <1>2, <1>4 DEF FilesOf
  <2>2. /\ new.begun <= new.written /\ new.written <= FilesOf(k)
        /\ ~new.client /\ new.eos /\ new.written = FilesOf(k) /\ sent'[new.offer].status = "Done"
    BY <1>1, <1>2, <1>3, <1>4 DEF Carries
  <2> QED BY <1>4, <1>5, <2>1, <2>2 DEF Carries
<1>10. DoneRows'
  <2>1. \A d \in DOMAIN conns : /\ d \in DOMAIN conns' /\ conns'[d].declared = conns[d].declared
                                /\ Complete(conns[d]) => Complete(conns'[d])
    BY <1>1, <1>4, <1>5 DEF Complete
  <2> QED BY <1>2, <2>1, MatchFacts, DoneRowsKept
<1> QED BY <1>5, <1>6, <1>7, <1>8, <1>9, <1>10 DEF Matching

(* While nothing has failed only these steps are left.                     *)
LEMMA FaultFree ==
  ASSUME LifeInv, faults = 0 => Matching, [Next]_vars, faults' = 0
  PROVE  /\ Matching
         /\ \/ \E kind \in Kinds : SendOffer(kind)
            \/ \E r \in Rows : \/ \E dir \in Dirs : AcceptTransfer(r, dir)
                               \/ DenyTransfer(r) \/ RequestAgain(r)
            \/ Route
            \/ \E c \in Tids : Stream(c) \/ XferFails(c)
            \/ \E a \in Apps : PeerAppears(a)
            \/ UNCHANGED vars
<1>1. faults \in Nat /\ faults + 1 # 0
  BY LifeFacts, BoundsAssumption DEF TypeOK
<1>2. ~Fault
  BY <1>1 DEF Fault
<1>3. faults' = faults
  <2>1. CASE Click
    BY <1>2, <2>1 DEF Click, SendOffer, AcceptTransfer, DenyTransfer, RequestAgain, DeleteHistory, Answer
  <2>2. CASE Route
    BY <2>2 DEF Route, RouteFileRequest, RouteFileAccept, RouteFileReject, RouteRequestAgain, TakeReply
  <2>3. ASSUME NEW c \in Tids, Stream(c) \/ Break(c) PROVE faults' = faults
    BY <1>2, <2>3 DEF Stream, Break, WriteFile, FinishSending, BeginFile, EndFile, FinishBatch,
                      ClientFails, RejectFile, XferFails
  <2>4. CASE Environment
    BY <1>2, <2>4 DEF Environment, PeerAppears, PeerDropped, LoseFrames, RestartS, RestartR
  <2>5. CASE UNCHANGED vars
    BY <2>5 DEF vars
  <2> QED BY <2>1, <2>2, <2>3, <2>4, <2>5 DEF Next
<1>4. Matching
  BY <1>3
<1>5. ASSUME NEW c \in Tids, Break(c) PROVE XferFails(c)
  <2>1. c \in DOMAIN conns
    BY <1>5 DEF Break, ClientFails, RejectFile, XferFails
  <2>2. conns[c].client => conns[c].xfer
    BY <1>4, <2>1, MatchFacts DEF Carries
  <2> QED BY <1>2, <1>5, <2>2 DEF Break, ClientFails, RejectFile
<1>6. ASSUME NEW a \in Apps PROVE ~DeleteHistory(a) /\ ~PeerDropped(a)
  BY <1>2 DEF DeleteHistory, PeerDropped
<1>7. ~LoseFrames /\ ~RestartS /\ ~RestartR
  BY <1>2 DEF LoseFrames, RestartS, RestartR
<1> QED BY <1>4, <1>5, <1>6, <1>7 DEF Next, Click, Environment

LEMMA MatchNext ==
  ASSUME MatchInv, [Next]_vars
  PROVE  MatchInv'
<1>1. LifeInv /\ LifeInv' /\ EchoInv'
  BY LifeNext DEF MatchInv, LifeInv
<1>2. SUFFICES ASSUME faults' = 0 PROVE Matching'
  BY <1>1 DEF MatchInv
<1>3. Matching
  BY <1>2, FaultFree DEF MatchInv
<1>4. CASE Route
  BY <1>1, <1>3, <1>4, RequestMatching, ReplyMatching DEF Route
<1>5. ASSUME NEW c \in Tids, Stream(c) PROVE Matching'
  BY <1>1, <1>3, <1>5, SendMatching, BeginMatching, EndMatching DEF Stream
<1>6. ASSUME NEW c \in Tids, XferFails(c) PROVE Matching'
  BY <1>1, <1>2, <1>3, <1>6, CutMatching
<1>7. CASE UNCHANGED vars
  <2>1. UNCHANGED <<sent, recv, pendingOffers, pendingInbound, toRecv, toSend, conns>>
    BY <1>7 DEF vars, senderVars, receiverVars, netVars
  <2> QED BY <1>3, <2>1 DEF Matching, Undeleted, AskedPending, AnsweredOnce, AcceptsPending, InPending,
                            Carries, FilesOf, DoneRows, Complete, Asked, OnWay, Shown, Replied, First
<1> QED BY <1>1, <1>2, <1>3, <1>4, <1>5, <1>6, <1>7, FaultFree, OfferMatching, ClickMatching,
           AppearsMatching
        DEF MatchInv

LEMMA InitMatch == Init => MatchInv
<1> SUFFICES ASSUME Init PROVE Matching
  BY InitLife DEF MatchInv
<1>1. /\ DOMAIN conns = {} /\ DOMAIN toSend = {} /\ DOMAIN recv = {} /\ DOMAIN sent = {}
  BY DEF Init
<1> QED BY <1>1 DEF Matching, Undeleted, AskedPending, AnsweredOnce, AcceptsPending, DoneRows

(* Without faults a connection reports on its own row, and a row that is   *)
(* Done has all its files and a sender that is Done too.                   *)
THEOREM MatchedProperly == Spec => []MatchedWithoutFaults
<1>1. MatchInv /\ [Next]_vars => MatchInv'
  BY MatchNext
<1>2. MatchInv => MatchedWithoutFaults
  <2> SUFFICES ASSUME LifeInv, Matching PROVE MatchedWithoutFaults
    BY DEF MatchInv, MatchedWithoutFaults
  <2>1. ASSUME NEW c \in DOMAIN conns PROVE conns[c].entry \in {NoEntry, conns[c].declared}
    <3>1. conns[c].begun \in Nat
      BY LifeFacts, Elements DEF Conn
    <3> QED BY <3>1, MatchFacts DEF Carries
  <2>2. ASSUME NEW r \in DOMAIN recv, recv[r].status = "Done"
        PROVE  /\ \E c \in DOMAIN conns : conns[c].declared = r /\ conns[c].ended = FilesOf(conns[c])
               /\ sent[recv[r].remote].status = "Done"
    <3>1. PICK c \in DOMAIN conns : conns[c].declared = r /\ Complete(conns[c])
      BY <2>2, MatchFacts DEF DoneRows
    <3>2. /\ conns[c].ended = FilesOf(conns[c]) /\ sent[conns[c].offer].status = "Done"
      BY <3>1, MatchFacts DEF Carries, Complete
    <3>3. recv[r].remote = conns[c].offer
      BY <3>1, LifeFacts, EchoFacts
    <3> QED BY <3>1, <3>2, <3>3
  <2> QED BY <2>1, <2>2 DEF MatchedWithoutFaults
<1> QED BY <1>1, <1>2, InitMatch, PTL DEF Spec
=============================================================================
