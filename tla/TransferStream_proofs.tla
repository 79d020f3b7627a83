----------------------- MODULE TransferStream_proofs -----------------------
(***************************************************************************)
(* Proofs about TransferStream: types, that the stream is never out of     *)
(* step, and that Done means complete, for any batch of files of any       *)
(* sizes, any room in the kernel and any number of failures.               *)
(***************************************************************************)
EXTENDS TransferStream, SequenceTheorems, TLAPS

(* Where a reader of the stream is: in which file, with how many chunks of *)
(* it to come, or lost, after a chunk that nothing announced.              *)
Cursor == [file : Nat, left : Nat, lost : BOOLEAN]
At(f, n) == [file |-> f, left |-> n, lost |-> FALSE]
Lost == [file |-> 0, left |-> 0, lost |-> TRUE]

(* A reader at c of files of these sizes takes the frame t, and is at d;   *)
(* one of the files may have grown.                                        *)
Follows(sizes, grown, c, t, d) ==
    \/ c = Lost /\ d = Lost
    \/ c = At(0, 0) /\ t = Id /\ d = c
    \/ /\ c = At(c.file, 0) /\ c.file < Len(sizes)
       /\ t = Header(c.file + 1) /\ d = At(c.file + 1, sizes[c.file + 1])
    \/ c = At(c.file, c.left) /\ c.left > 0 /\ t.frame = "chunk" /\ d = At(c.file, c.left - 1)
    \/ c = At(c.file, 0) /\ t.frame = "chunk" /\ grown /\ d = Lost
    \/ c = At(Len(sizes), 0) /\ t = Eos /\ d = c

(* The frames q lead from c to d.                                          *)
Path(sizes, grown, q, c, d) ==
    \E p \in [0..Len(q) -> Cursor] :
        /\ p[0] = c /\ p[Len(q)] = d
        /\ \A i \in 1..Len(q) : Follows(sizes, grown, p[i - 1], q[i], p[i])

Sizes == [f \in Files |-> Size(f)]
Grown == Drifted("grown")

(* What R may still read.                                                  *)
Wire == IF link = "up" THEN net \o txbuf ELSE net

Count(n) == [f \in 1..n |-> f]

(* R is at c: all the files before it are complete, if its entry says so.  *)
Reads(c) ==
    /\ left = c.left /\ (xfer = "garbled" <=> c = Lost)
    /\ left > 0 => receiving = c.file /\ c.file \in Files
    /\ entry = "pending" => c.file = 0 /\ left = 0 /\ got = <<>>
    /\ entry = "mapped" /\ xfer = "open" =>
          got = Count(IF left > 0 THEN c.file - 1 ELSE c.file)

(* The files taken from the batch; those to come are the others, in order. *)
Opened == Len(batch) - Len(pending)
InTurn == Len(pending) <= Len(batch) /\ \A i \in DOMAIN pending : pending[i] = Opened + i

(* What the client is about to do.                                         *)
BetweenFiles == /\ ~hashing /\ file = 0
                /\ \E rest \in {<<>>, <<"sendNextChunk">>} : posted = Append(rest, "sendCurrentHeader")
Hashing == /\ hashing /\ ~headerSent /\ file = Opened /\ file # 0 /\ sent = 0 /\ Size(file) > 0
           /\ posted = <<>>
InFile == /\ ~hashing /\ headerSent /\ file = Opened /\ file # 0 /\ sent < Size(file)
          /\ posted \in {<<>>, <<"sendNextChunk">>}
Ended == ~hashing /\ file = 0 /\ pending = <<>> /\ posted = <<"delete">>

Phases ==
    /\ sock = "new" => file = 0 /\ ~hashing /\ posted \in {<<>>, <<"delete">>}
    /\ sock = "connecting" => file = 0 /\ ~hashing /\ posted = <<>> /\ Opened = 0
    /\ sock \in {"new", "connecting"} => txbuf = <<>> /\ net = <<>>
    /\ sock = "connected" => BetweenFiles \/ Hashing \/ InFile \/ Ended
    /\ sock = "closing" => Ended
    /\ sock \in {"gone", "destroyed"} => file = 0 /\ pending = <<>>

(* What the client has written leads to d.                                 *)
Writes(d) ==
    /\ sock \in {"new", "connecting"} => d = At(0, 0)
    /\ sock = "connected" /\ BetweenFiles => d = At(Opened, 0)
    /\ sock = "connected" /\ Hashing => d = At(Opened - 1, 0)
    /\ sock = "connected" /\ InFile => d = At(Opened, Size(file) - sent)

Wrote(d) == link = "up" => d = Lost \/ Writes(d)

(* As long as R reads, what is on the wire leads from where it is to where *)
(* the client is.                                                          *)
InStep == xfer \in {"open", "garbled"} =>
             \E c, d \in Cursor : Reads(c) /\ Path(Sizes, Grown, Wire, c, d) /\ Wrote(d)

DoneAtEnd == recvRow = "Done" => xfer = "finished"

StreamInv == /\ TypeOK /\ Phases /\ InTurn /\ InStep
             /\ NeverGarbled /\ DoneAtEnd /\ DoneIsComplete

-----------------------------------------------------------------------------
(* Paths along any frames.                                                 *)
LEMMA PathEmpty ==
  ASSUME NEW z, NEW g, NEW c \in Cursor
  PROVE  Path(z, g, <<>>, c, c)
<1>1. Len(<<>>) = 0
  BY EmptySeq
<1> DEFINE p == [i \in 0..0 |-> c]
<1>2. p \in [0..Len(<<>>) -> Cursor] /\ p[0] = c /\ 1..Len(<<>>) = {}
  BY <1>1
<1> HIDE DEF p
<1> QED BY <1>1, <1>2 DEF Path

LEMMA PathAppend ==
  ASSUME NEW z, NEW g, NEW S, NEW q \in Seq(S), NEW t \in S,
         NEW c \in Cursor, NEW d \in Cursor, NEW e \in Cursor,
         Path(z, g, q, c, d), Follows(z, g, d, t, e)
  PROVE  Path(z, g, Append(q, t), c, e)
<1> DEFINE r == Append(q, t)
<1>1. Len(r) = Len(q) + 1 /\ Len(q) \in Nat
      /\ (\A i \in 1..Len(q) : r[i] = q[i]) /\ r[Len(q) + 1] = t
  BY AppendProperties, LenProperties
<1>2. PICK p \in [0..Len(q) -> Cursor] :
        /\ p[0] = c /\ p[Len(q)] = d
        /\ \A i \in 1..Len(q) : Follows(z, g, p[i - 1], q[i], p[i])
  BY DEF Path
<1> DEFINE s == [i \in 0..(Len(q) + 1) |-> IF i <= Len(q) THEN p[i] ELSE e]
<1> HIDE DEF r
<1>3. s \in [0..Len(r) -> Cursor] /\ s[0] = c /\ s[Len(r)] = e
  BY <1>1, <1>2
<1>4. ASSUME NEW i \in 1..Len(r) PROVE Follows(z, g, s[i - 1], r[i], s[i])
  <2>1. CASE i <= Len(q)
    <3>1. s[i - 1] = p[i - 1] /\ s[i] = p[i] /\ r[i] = q[i] /\ i \in 1..Len(q)
      BY <2>1, <1>1
    <3> QED BY <3>1, <1>2
  <2>2. CASE i = Len(q) + 1
    <3>1. s[i - 1] = d /\ s[i] = e /\ r[i] = t
      BY <2>2, <1>1, <1>2
    <3> QED BY <3>1
  <2> QED BY <2>1, <2>2, <1>1
<1> HIDE DEF s
<1>5. Path(z, g, r, c, e)
  BY <1>3, <1>4 DEF Path
<1> QED BY <1>5 DEF r

LEMMA PathTail ==
  ASSUME NEW z, NEW g, NEW S, NEW q \in Seq(S), q # <<>>,
         NEW c \in Cursor, NEW d \in Cursor, Path(z, g, q, c, d)
  PROVE  \E e \in Cursor : Follows(z, g, c, Head(q), e) /\ Path(z, g, Tail(q), e, d)
<1>1. /\ Len(Tail(q)) = Len(q) - 1 /\ Len(q) \in Nat \ {0} /\ Head(q) = q[1]
      /\ \A i \in 1..Len(Tail(q)) : Tail(q)[i] = q[i + 1]
  BY HeadTailProperties, LenProperties, EmptySeq
<1>2. PICK p \in [0..Len(q) -> Cursor] :
        /\ p[0] = c /\ p[Len(q)] = d
        /\ \A i \in 1..Len(q) : Follows(z, g, p[i - 1], q[i], p[i])
  BY DEF Path
<1> DEFINE r == Tail(q)
           s == [i \in 0..Len(r) |-> p[i + 1]]
<1>3. Follows(z, g, c, Head(q), p[1]) /\ p[1] \in Cursor
  <2>1. 1 \in 1..Len(q) /\ 1 \in 0..Len(q) /\ 1 - 1 = 0
    BY <1>1
  <2>2. Follows(z, g, p[1 - 1], q[1], p[1])
    BY <2>1, <1>2
  <2> QED BY <2>1, <2>2, <1>1, <1>2
<1>4. s \in [0..Len(r) -> Cursor] /\ s[0] = p[1] /\ s[Len(r)] = d
  BY <1>1, <1>2
<1>5. ASSUME NEW i \in 1..Len(r) PROVE Follows(z, g, s[i - 1], r[i], s[i])
  <2>1. s[i - 1] = p[(i + 1) - 1] /\ s[i] = p[i + 1] /\ r[i] = q[i + 1] /\ i + 1 \in 1..Len(q)
    BY <1>1
  <2> QED BY <2>1, <1>2
<1> HIDE DEF s
<1>6. Path(z, g, r, p[1], d)
  <2> HIDE DEF r
  <2> QED BY <1>4, <1>5 DEF Path
<1> QED BY <1>3, <1>6

LEMMA PathCut ==
  ASSUME NEW z, NEW g, NEW S, NEW q \in Seq(S), NEW n \in 0..Len(q),
         NEW c \in Cursor, NEW d \in Cursor, Path(z, g, q, c, d)
  PROVE  \E e \in Cursor : Path(z, g, SubSeq(q, 1, n), c, e)
<1> DEFINE r == SubSeq(q, 1, n)
<1>1. /\ Len(q) \in Nat /\ n \in Nat /\ n <= Len(q)
      /\ Len(r) = n /\ \A i \in 1..n : r[i] = q[i]
  <2>1. Len(q) \in Nat /\ n \in Int /\ \A i \in 1..n : q[i] \in S
    BY LenProperties, ElementOfSeq
  <2>2. /\ Len(r) = IF 1 <= n THEN n - 1 + 1 ELSE 0
        /\ \A i \in 1..(n - 1 + 1) : r[i] = q[1 + i - 1]
    BY <2>1, SubSeqProperties
  <2> HIDE DEF r
  <2> QED BY <2>1, <2>2
<1>2. PICK p \in [0..Len(q) -> Cursor] :
        /\ p[0] = c /\ p[Len(q)] = d
        /\ \A i \in 1..Len(q) : Follows(z, g, p[i - 1], q[i], p[i])
  BY DEF Path
<1> DEFINE s == [i \in 0..n |-> p[i]]
<1> HIDE DEF r
<1>3. s \in [0..Len(r) -> Cursor] /\ s[0] = c /\ p[n] \in Cursor /\ s[Len(r)] = p[n]
  BY <1>1, <1>2
<1>4. ASSUME NEW i \in 1..Len(r) PROVE Follows(z, g, s[i - 1], r[i], s[i])
  <2>1. s[i - 1] = p[i - 1] /\ s[i] = p[i] /\ r[i] = q[i] /\ i \in 1..Len(q)
    BY <1>1
  <2> QED BY <2>1, <1>2
<1> HIDE DEF s
<1>5. Path(z, g, r, c, p[n])
  BY <1>3, <1>4 DEF Path
<1> QED BY <1>3, <1>5 DEF r

(* A path stays one when a file has grown.                                 *)
LEMMA PathGrown ==
  ASSUME NEW z, NEW g, NEW h, g => h, NEW q, NEW c, NEW d, Path(z, g, q, c, d)
  PROVE  Path(z, h, q, c, d)
<1>1. PICK p \in [0..Len(q) -> Cursor] :
        /\ p[0] = c /\ p[Len(q)] = d
        /\ \A i \in 1..Len(q) : Follows(z, g, p[i - 1], q[i], p[i])
  BY DEF Path
<1>2. ASSUME NEW x, NEW t, NEW y, Follows(z, g, x, t, y) PROVE Follows(z, h, x, t, y)
  BY <1>2, Zenon DEF Follows
<1>3. \A i \in 1..Len(q) : Follows(z, h, p[i - 1], q[i], p[i])
  BY <1>1, <1>2
<1> QED BY <1>1, <1>3 DEF Path

-----------------------------------------------------------------------------
(* The batch, the frames, and what type correctness says of them.          *)
LEMMA BatchFacts ==
  ASSUME TypeOK
  PROVE  /\ Len(batch) \in Nat /\ Files = 1..Len(batch)
         /\ \A f \in Files : Size(f) \in Nat /\ Sizes[f] = Size(f)
         /\ Len(Sizes) = Len(batch)
<1>1. batch \in Seq([dir : BOOLEAN, size : Nat])
  BY BatchesAssumption DEF TypeOK
<1>2. Len(batch) \in Nat /\ Files = 1..Len(batch)
  BY <1>1, LenProperties DEF Files
<1>3. \A f \in Files : batch[f] \in [dir : BOOLEAN, size : Nat]
  BY <1>1, <1>2, ElementOfSeq
<1>4. \A f \in Files : Size(f) \in Nat
  BY <1>3 DEF Size
<1>5. Sizes \in [1..Len(batch) -> Nat]
  BY <1>2, <1>4 DEF Sizes
<1>6. Len(Sizes) = Len(batch)
  <2>1. Sizes \in Seq(Nat)
    BY <1>2, <1>5
  <2>2. DOMAIN Sizes = 1..Len(Sizes) /\ Len(Sizes) \in Nat
    BY <2>1, LenProperties
  <2>3. 1..Len(Sizes) = 1..Len(batch)
    BY <2>2, <1>5
  <2> QED BY <2>2, <2>3, <1>2
<1> QED BY <1>2, <1>4, <1>6 DEF Sizes

LEMMA FrameFacts ==
  /\ Id \in Frames /\ Eos \in Frames
  /\ \A f \in Files : Header(f) \in Frames /\ \A ok \in BOOLEAN : Chunk(f, ok) \in Frames
  /\ \A t \in Frames : \/ t = Id \/ t = Eos
                       \/ \E f \in Files : t = Header(f)
                       \/ \E f \in Files, ok \in BOOLEAN : t = Chunk(f, ok)
  BY DEF Frames

LEMMA Kinds ==
  /\ Id.frame = "id" /\ Eos.frame = "eos"
  /\ \A f : Header(f).frame = "header" /\ Header(f).file = f
  /\ \A f, ok : Chunk(f, ok).frame = "chunk" /\ Chunk(f, ok).ok = ok
  BY DEF Id, Eos, Header, Chunk

LEMMA Cursors ==
  /\ Lost \in Cursor /\ \A f, n \in Nat : At(f, n) \in Cursor
  /\ \A f, n \in Nat : At(f, n) # Lost /\ At(f, n).file = f /\ At(f, n).left = n
  BY DEF Lost, At, Cursor

LEMMA Types ==
  ASSUME TypeOK
  PROVE  /\ pending \in Seq(Files) /\ txbuf \in Seq(Frames) /\ net \in Seq(Frames)
         /\ Wire \in Seq(Frames) /\ Len(pending) \in Nat /\ DOMAIN pending = 1..Len(pending)
         /\ Opened \in Int
         /\ posted \in Seq({"sendCurrentHeader", "sendNextChunk", "delete"})
         /\ got \in Seq(Files)
<1>1. pending \in Seq(Files) /\ txbuf \in Seq(Frames) /\ net \in Seq(Frames)
      /\ posted \in Seq({"sendCurrentHeader", "sendNextChunk", "delete"}) /\ got \in Seq(Files)
  BY DEF TypeOK
<1>2. net \o txbuf \in Seq(Frames)
  BY <1>1, ConcatProperties
<1>3. Len(pending) \in Nat /\ DOMAIN pending = 1..Len(pending)
  BY <1>1, LenProperties
<1> QED BY <1>1, <1>2, <1>3, BatchFacts DEF Wire, Opened

(* Fault counts.                                                           *)
LEMMA FaultType ==
  ASSUME faults \in 0..MaxFaults, Fault
  PROVE  faults' \in 0..MaxFaults
  BY BoundsAssumption DEF Fault

(* What stands while the batch is the same.                                *)
LEMMA SameBatch ==
  ASSUME batch' = batch
  PROVE  /\ Files' = Files /\ Sizes' = Sizes /\ Frames' = Frames
         /\ \A f \in Files : Size(f)' = Size(f)
<1>1. Files' = Files /\ \A f : Size(f)' = Size(f)
  BY DEF Files, Size
<1>2. Frames' = Frames
  BY <1>1 DEF Frames
<1> QED BY <1>1, <1>2 DEF Sizes

LEMMA SameDrift ==
  ASSUME batch' = batch, drift' = drift
  PROVE  Grown' = Grown
  BY SameBatch DEF Grown, Drifted

LEMMA ConcatTail ==
  ASSUME NEW S, NEW q \in Seq(S), NEW r \in Seq(S), q # <<>>
  PROVE  q \o r # <<>> /\ Head(q \o r) = Head(q) /\ Tail(q \o r) = Tail(q) \o r
<1>1. /\ q \o r \in Seq(S) /\ Len(q \o r) = Len(q) + Len(r)
      /\ Len(q) \in Nat \ {0} /\ Len(r) \in Nat
      /\ \A i \in 1..Len(q) + Len(r) : (q \o r)[i] = IF i <= Len(q) THEN q[i] ELSE r[i - Len(q)]
  BY ConcatProperties, EmptySeq, LenProperties
<1>2. q \o r # <<>>
  BY <1>1, EmptySeq
<1>3. Head(q \o r) = Head(q)
  BY <1>1, <1>2
<1>4. Tail(q) \in Seq(S) /\ Len(Tail(q)) = Len(q) - 1
      /\ \A i \in 1..Len(q) - 1 : Tail(q)[i] = q[i + 1]
  BY <1>1, HeadTailProperties
<1>5. /\ Tail(q \o r) \in Seq(S) /\ Len(Tail(q \o r)) = Len(q) + Len(r) - 1
      /\ \A i \in 1..Len(q) + Len(r) - 1 : Tail(q \o r)[i] = (q \o r)[i + 1]
  BY <1>1, <1>2, HeadTailProperties
<1>6. /\ Tail(q) \o r \in Seq(S) /\ Len(Tail(q) \o r) = Len(q) - 1 + Len(r)
      /\ \A i \in 1..Len(q) - 1 + Len(r) :
            (Tail(q) \o r)[i] = IF i <= Len(q) - 1 THEN Tail(q)[i] ELSE r[i - (Len(q) - 1)]
  BY <1>4, ConcatProperties
<1>7. ASSUME NEW i \in 1..Len(Tail(q \o r)) PROVE Tail(q \o r)[i] = (Tail(q) \o r)[i]
  <2>1. i \in 1..Len(q) + Len(r) - 1 /\ i + 1 \in 1..Len(q) + Len(r)
    BY <1>1, <1>5
  <2>2. CASE i <= Len(q) - 1
    BY <2>1, <2>2, <1>1, <1>4, <1>5, <1>6
  <2>3. CASE i > Len(q) - 1
    <3>1. (i + 1) - Len(q) = i - (Len(q) - 1)
      BY <2>1, <1>1
    <3> QED BY <2>1, <2>3, <3>1, <1>1, <1>5, <1>6
  <2> QED BY <2>1, <2>2, <2>3, <1>1
<1>8. Tail(q \o r) = Tail(q) \o r
  <2>1. Len(Tail(q \o r)) = Len(Tail(q) \o r)
    BY <1>1, <1>5, <1>6
  <2> QED BY <2>1, <1>5, <1>6, <1>7, SeqEqual
<1> QED BY <1>2, <1>3, <1>8

-----------------------------------------------------------------------------
(* R at the next frame.                                                    *)
LEMMA AtHead ==
  ASSUME StreamInv, net # <<>>, xfer \in {"open", "garbled"}
  PROVE  /\ Head(net) \in Frames
         /\ \E c, e, d \in Cursor :
               /\ Reads(c) /\ Follows(Sizes, Grown, c, Head(net), e)
               /\ Path(Sizes, Grown, Tail(Wire), e, d) /\ Wrote(d)
<1>1. net \in Seq(Frames) /\ txbuf \in Seq(Frames) /\ Wire \in Seq(Frames)
  BY Types DEF StreamInv
<1>2. Wire # <<>> /\ Head(Wire) = Head(net) /\ Head(net) \in Frames
  BY <1>1, ConcatTail, HeadTailProperties DEF Wire
<1>3. PICK c \in Cursor, d \in Cursor : Reads(c) /\ Path(Sizes, Grown, Wire, c, d) /\ Wrote(d)
  BY DEF StreamInv, InStep
<1>4. PICK e \in Cursor : /\ Follows(Sizes, Grown, c, Head(Wire), e)
                          /\ Path(Sizes, Grown, Tail(Wire), e, d)
  BY <1>1, <1>2, <1>3, PathTail
<1> QED BY <1>2, <1>3, <1>4

LEMMA ReadOn ==
  ASSUME StreamInv, UNCHANGED <<clientVars, link>>, net # <<>>, net' = Tail(net),
         NEW e \in Cursor, NEW d \in Cursor,
         Path(Sizes, Grown, Tail(Wire), e, d), Wrote(d), Reads(e)'
  PROVE  Phases' /\ InTurn' /\ InStep'
<1>1. net \in Seq(Frames) /\ txbuf \in Seq(Frames)
  BY Types DEF StreamInv
<1>2. Wire' = Tail(Wire)
  BY <1>1, ConcatTail DEF Wire, clientVars
<1>3. Sizes' = Sizes /\ Grown' = Grown
  BY SameBatch, SameDrift DEF clientVars
<1>4. Wrote(d)'
  BY DEF Wrote, Writes, BetweenFiles, Hashing, InFile, Opened, Size, clientVars
<1>5. sock \notin {"new", "connecting"}
  BY DEF StreamInv, Phases
<1>6. Phases' /\ InTurn'
  BY <1>5 DEF StreamInv, Phases, InTurn, BetweenFiles, Hashing, InFile, Ended, Opened, Size, clientVars
<1>7. Path(Sizes', Grown', Wire', e, d)
  BY <1>2, <1>3
<1> QED BY <1>4, <1>6, <1>7 DEF InStep

(* R aborts.                                                               *)
LEMMA AbortKeeps ==
  ASSUME StreamInv, xfer \in {"open", "garbled"}, Abort, UNCHANGED clientVars,
         faults' \in 0..MaxFaults
  PROVE  StreamInv'
<1>1. TypeOK'
  <2>1. <<>> \in Seq(Frames)
    BY EmptySeq
  <2> QED BY <2>1, SameBatch DEF StreamInv, TypeOK, Links, Abort, clientVars
<1>2. Phases' /\ InTurn'
  BY DEF StreamInv, Phases, InTurn, BetweenFiles, Hashing, InFile, Ended, Opened, Size, clientVars, Abort
<1>3. InStep' /\ NeverGarbled'
  BY DEF InStep, NeverGarbled, Abort
<1>4. DoneAtEnd' /\ DoneIsComplete'
  BY DEF StreamInv, DoneAtEnd, DoneIsComplete, Abort
<1> QED BY <1>1, <1>2, <1>3, <1>4 DEF StreamInv

(* What the next frame says of where R is.                                 *)
LEMMA Followed ==
  ASSUME NEW c \in Cursor, NEW t, NEW e, c # Lost, Follows(Sizes, Grown, c, t, e)
  PROVE  /\ t.frame = "id" => e = c
         /\ t.frame = "header" => /\ c = At(c.file, 0) /\ c.file < Len(Sizes)
                                  /\ t = Header(c.file + 1) /\ e = At(c.file + 1, Sizes[c.file + 1])
         /\ c.left > 0 => t.frame = "chunk" /\ e = At(c.file, c.left - 1)
         /\ c.left = 0 /\ t.frame = "chunk" => Grown /\ e = Lost
         /\ t.frame = "eos" => c = At(Len(Sizes), 0)
<1>1. c.left \in Nat /\ c.file \in Nat /\ Id # Eos
  BY Kinds DEF Cursor
<1>2. \A f, n : At(f, n).left = n
  BY DEF At
<1> QED BY <1>1, <1>2, Kinds DEF Follows

LEMMA CountFacts ==
  /\ Count(0) = <<>>
  /\ \A n \in Nat : Count(n) \in Seq(Nat) /\ Append(Count(n), n + 1) = Count(n + 1)
<1>1. ASSUME NEW n \in Nat PROVE Count(n) \in Seq(Nat) /\ Len(Count(n)) = n
  <2>1. Count(n) \in [1..n -> Nat]
    BY DEF Count
  <2> QED BY <2>1, SeqDef, LenProperties
<1>2. Count(0) = <<>>
  BY <1>1, EmptySeq
<1>3. ASSUME NEW n \in Nat PROVE Append(Count(n), n + 1) = Count(n + 1)
  <2> DEFINE r == Append(Count(n), n + 1)
  <2>1. /\ r \in Seq(Nat) /\ Len(r) = n + 1
        /\ (\A i \in 1..n : r[i] = Count(n)[i]) /\ r[n + 1] = n + 1
    <3>1. Count(n) \in Seq(Nat) /\ Len(Count(n)) = n /\ n + 1 \in Nat
      BY <1>1
    <3> QED BY <3>1, AppendProperties
  <2>2. Count(n + 1) \in Seq(Nat) /\ Len(Count(n + 1)) = n + 1
    BY <1>1
  <2> HIDE DEF r
  <2>3. \A i \in 1..n : Count(n)[i] = i
    BY DEF Count
  <2>4. ASSUME NEW i \in 1..Len(r) PROVE r[i] = Count(n + 1)[i]
    <3>1. Count(n + 1)[i] = i
      BY <2>1 DEF Count
    <3>2. r[i] = i
      BY <2>1, <2>3
    <3> QED BY <3>1, <3>2
  <2>5. r = Count(n + 1)
    BY <2>1, <2>2, <2>4, SeqEqual
  <2> QED BY <2>5 DEF r
<1> QED BY <1>1, <1>2, <1>3

LEMMA ReceiveIdKeeps ==
  ASSUME StreamInv, xfer = "open", net # <<>>, ReceiveId, UNCHANGED clientVars
  PROVE  StreamInv'
<1>1. PICK c \in Cursor, e \in Cursor, d \in Cursor :
        /\ Reads(c) /\ Follows(Sizes, Grown, c, Head(net), e)
        /\ Path(Sizes, Grown, Tail(Wire), e, d) /\ Wrote(d)
  BY AtHead
<1>2. e = c
  <2>1. c # Lost /\ Head(net) = Id
    BY <1>1 DEF Reads, ReceiveId
  <2>2. Head(net).frame = "id"
    BY <2>1, Kinds
  <2> QED BY <1>1, <2>1, <2>2, Followed
<1>3. Reads(e)'
  BY <1>1, <1>2, SameBatch DEF Reads, ReceiveId, serverVars, clientVars
<1>4. Phases' /\ InTurn' /\ InStep'
  BY <1>1, <1>3, ReadOn DEF ReceiveId
<1>5. TypeOK'
  <2>1. Tail(net) \in Seq(Frames)
    BY Types, HeadTailProperties DEF StreamInv
  <2> QED BY <2>1, SameBatch DEF StreamInv, TypeOK, ReceiveId, serverVars, clientVars
<1>6. NeverGarbled' /\ DoneAtEnd' /\ DoneIsComplete'
  BY SameBatch DEF StreamInv, NeverGarbled, DoneAtEnd, DoneIsComplete, ReceiveId, serverVars
<1> QED BY <1>4, <1>5, <1>6 DEF StreamInv

LEMMA ReceiveHeaderKeeps ==
  ASSUME StreamInv, xfer = "open", net # <<>>, ReceiveHeader, UNCHANGED clientVars
  PROVE  StreamInv'
<1>1. PICK c \in Cursor, e \in Cursor, d \in Cursor :
        /\ Reads(c) /\ Follows(Sizes, Grown, c, Head(net), e)
        /\ Path(Sizes, Grown, Tail(Wire), e, d) /\ Wrote(d)
  BY AtHead
<1> DEFINE f == Head(net).file
<1>2. /\ c = At(c.file, 0) /\ f = c.file + 1 /\ f \in Files /\ e = At(f, Size(f))
      /\ c # Lost /\ c.file \in Nat /\ Size(f) \in Nat /\ left = 0
  <2>1. c # Lost /\ Head(net).frame = "header" /\ left = 0
    BY <1>1 DEF Reads, ReceiveHeader
  <2>2. /\ c = At(c.file, 0) /\ c.file < Len(Sizes) /\ Head(net) = Header(c.file + 1)
        /\ e = At(c.file + 1, Sizes[c.file + 1])
    BY <1>1, <2>1, Followed
  <2>3. c.file \in Nat /\ f = c.file + 1
    BY <2>2, Kinds DEF Cursor
  <2> QED BY <2>1, <2>2, <2>3, BatchFacts DEF StreamInv
<1> HIDE DEF f
<1>3. Tail(net) \in Seq(Frames) /\ Append(got, f) \in Seq(Files)
  BY <1>2, Types, HeadTailProperties, AppendProperties DEF StreamInv
<1>4. entry \in {"pending", "mapped"} => got = Count(c.file)
  <2>1. entry = "pending" => c.file = 0 /\ got = <<>>
    BY <1>1 DEF Reads
  <2>2. entry = "mapped" => got = Count(c.file)
    BY <1>1, <1>2 DEF Reads
  <2> QED BY <2>1, <2>2, CountFacts
<1>5. Append(Count(c.file), f) = Count(f)
  BY <1>2, CountFacts
<1>6. e # Lost /\ e.file = f /\ e.left = Size(f)
  BY <1>2 DEF At, Lost
<1> DEFINE mapped == IF entry = "pending" THEN "mapped" ELSE entry
<1>7. mapped \in {"mapped", "gone"} /\ (mapped = "mapped" => entry \in {"pending", "mapped"})
  BY DEF StreamInv, TypeOK
<1>8. Files' = Files /\ Frames' = Frames
  BY SameBatch DEF clientVars
<1>9. ASSUME Size(f) = 0, got' = Append(got, f), entry' = mapped, net' = Tail(net),
             UNCHANGED <<xfer, receiving, left, intact, recvRow, link, faults>>
      PROVE  StreamInv'
  <2>1. Reads(e)'
    BY <1>2, <1>4, <1>5, <1>6, <1>7, <1>9 DEF Reads
  <2>2. Phases' /\ InTurn' /\ InStep'
    BY <1>1, <1>9, <2>1, ReadOn
  <2>3. TypeOK'
    BY <1>3, <1>7, <1>8, <1>9 DEF StreamInv, TypeOK, clientVars
  <2>4. NeverGarbled' /\ DoneAtEnd' /\ DoneIsComplete'
    BY <1>9 DEF StreamInv, NeverGarbled, DoneAtEnd, DoneIsComplete
  <2> QED BY <2>2, <2>3, <2>4 DEF StreamInv
<1>10. ASSUME Size(f) > 0, receiving' = f, left' = Size(f), intact' = TRUE, entry' = mapped,
              net' = Tail(net), UNCHANGED <<xfer, got, recvRow, link, faults>>
       PROVE  StreamInv'
  <2>1. Reads(e)'
    BY <1>2, <1>4, <1>6, <1>7, <1>8, <1>10 DEF Reads
  <2>2. Phases' /\ InTurn' /\ InStep'
    BY <1>1, <1>10, <2>1, ReadOn
  <2>3. TypeOK'
    BY <1>2, <1>3, <1>7, <1>8, <1>10 DEF StreamInv, TypeOK, clientVars
  <2>4. NeverGarbled' /\ DoneAtEnd' /\ DoneIsComplete'
    BY <1>10 DEF StreamInv, NeverGarbled, DoneAtEnd, DoneIsComplete
  <2> QED BY <2>2, <2>3, <2>4 DEF StreamInv
<1>11. ASSUME Fault, Abort PROVE StreamInv'
  <2>1. faults' \in 0..MaxFaults
    BY <1>11, FaultType DEF StreamInv, TypeOK
  <2> QED BY <1>11, <2>1, AbortKeeps
<1> QED BY <1>9, <1>10, <1>11 DEF ReceiveHeader, f

LEMMA ReceiveChunkKeeps ==
  ASSUME StreamInv, xfer = "open", net # <<>>, ReceiveChunk, UNCHANGED clientVars
  PROVE  StreamInv'
<1>1. PICK c \in Cursor, e \in Cursor, d \in Cursor :
        /\ Reads(c) /\ Follows(Sizes, Grown, c, Head(net), e)
        /\ Path(Sizes, Grown, Tail(Wire), e, d) /\ Wrote(d)
  BY AtHead
<1>2. /\ e = At(c.file, left - 1) /\ c.file \in Files /\ receiving = c.file
      /\ c.left = left /\ left \in Nat /\ left > 0 /\ entry \in {"mapped", "gone"}
  <2>1. c # Lost /\ left = c.left /\ left > 0 /\ left \in Nat
        /\ receiving = c.file /\ c.file \in Files /\ entry # "pending"
    BY <1>1 DEF Reads, ReceiveChunk, StreamInv, TypeOK
  <2>2. e = At(c.file, c.left - 1)
    BY <1>1, <2>1, Followed
  <2> QED BY <2>1, <2>2 DEF StreamInv, TypeOK
<1>3. c.file \in Nat /\ e # Lost /\ e.file = c.file /\ e.left = left - 1
  BY <1>2, BatchFacts DEF At, Lost, StreamInv
<1>4. Tail(net) \in Seq(Frames) /\ Append(got, c.file) \in Seq(Files)
  BY <1>2, Types, HeadTailProperties, AppendProperties DEF StreamInv
<1>5. entry = "mapped" => /\ got = Count(c.file - 1)
                          /\ Append(got, c.file) = Count(c.file)
  <2>1. entry = "mapped" => got = Count(c.file - 1)
    BY <1>1, <1>2 DEF Reads
  <2>2. c.file - 1 \in Nat /\ (c.file - 1) + 1 = c.file
    BY <1>2, BatchFacts DEF StreamInv
  <2>3. Append(Count(c.file - 1), (c.file - 1) + 1) = Count((c.file - 1) + 1)
    BY <2>2, CountFacts
  <2> QED BY <2>1, <2>2, <2>3
<1>6. Files' = Files /\ Frames' = Frames
  BY SameBatch DEF clientVars
<1>7. Reads(e)' /\ got' \in Seq(Files) /\ entry' \in {"mapped", "gone"}
      /\ receiving' \in {0} \union Files /\ left' \in Nat /\ intact' \in BOOLEAN
  <2> DEFINE ok == intact /\ Head(net).frame = "chunk" /\ Head(net).ok
  <2>0. /\ left' = left - 1 /\ intact' = ok
        /\ left = 1 => FinishFile(receiving, ok) /\ receiving' = 0
        /\ left # 1 => UNCHANGED <<got, entry, receiving>>
        /\ xfer' = "open"
    BY DEF ReceiveChunk
  <2>1. intact' \in BOOLEAN
    BY <2>0
  <2> HIDE DEF ok
  <2>2. CASE left = 1
    <3>1. FinishFile(c.file, ok) /\ receiving' = 0 /\ left' = 0
      BY <2>0, <2>2, <1>2
    <3>2. CASE got' = Append(got, c.file) /\ UNCHANGED entry
      <4>1. Reads(e)'
        BY <2>0, <2>2, <3>1, <3>2, <1>2, <1>3, <1>5 DEF Reads
      <4> QED BY <4>1, <2>1, <3>1, <3>2, <1>2, <1>4
    <3>3. CASE entry' = "gone" /\ UNCHANGED got
      <4>1. Reads(e)'
        BY <2>0, <2>2, <3>1, <3>3, <1>2, <1>3 DEF Reads
      <4> QED BY <4>1, <2>1, <3>1, <3>3 DEF StreamInv, TypeOK
    <3> QED BY <3>1, <3>2, <3>3 DEF FinishFile
  <2>3. CASE left # 1
    <3>1. left' > 0 /\ left' \in Nat /\ UNCHANGED <<got, entry, receiving>>
      BY <2>0, <2>3, <1>2
    <3>2. Reads(e)'
      BY <2>0, <3>1, <1>2, <1>3, <1>5, <1>6 DEF Reads
    <3> QED BY <2>1, <3>1, <3>2, <1>2 DEF StreamInv, TypeOK
  <2> QED BY <2>2, <2>3
<1>8. net' = Tail(net) /\ UNCHANGED <<xfer, recvRow, link, faults>>
  BY DEF ReceiveChunk
<1>9. Phases' /\ InTurn' /\ InStep'
  BY <1>1, <1>7, <1>8, ReadOn
<1>10. TypeOK'
  BY <1>4, <1>6, <1>7, <1>8 DEF StreamInv, TypeOK, clientVars
<1>11. NeverGarbled' /\ DoneAtEnd' /\ DoneIsComplete'
  BY <1>8 DEF StreamInv, NeverGarbled, DoneAtEnd, DoneIsComplete
<1> QED BY <1>9, <1>10, <1>11 DEF StreamInv

LEMMA ReceiveGarbageKeeps ==
  ASSUME StreamInv, xfer \in {"open", "garbled"}, net # <<>>, ReceiveGarbage, UNCHANGED clientVars
  PROVE  StreamInv'
<1>1. PICK c \in Cursor, e \in Cursor, d \in Cursor :
        /\ Reads(c) /\ Follows(Sizes, Grown, c, Head(net), e)
        /\ Path(Sizes, Grown, Tail(Wire), e, d) /\ Wrote(d)
  BY AtHead
<1>2. CASE Abort
  <2>1. faults' \in 0..MaxFaults
    BY DEF StreamInv, TypeOK, ReceiveGarbage
  <2> QED BY <1>2, <2>1, AbortKeeps
<1>3. ASSUME xfer' = "garbled", net' = Tail(net),
             UNCHANGED <<receiving, left, intact, got, entry, recvRow, link>>
      PROVE  StreamInv'
  <2>1. e = Lost /\ Grown /\ left = 0
    <3>1. left = 0 /\ c.left = 0 /\ (xfer = "garbled" \/ Head(net).frame = "chunk")
      BY <1>1 DEF ReceiveGarbage, Reads
    <3>2. CASE xfer = "garbled"
      <4>1. c = Lost
        BY <1>1, <3>2 DEF Reads
      <4>2. e = Lost
        BY <1>1, <4>1 DEF Follows, At, Lost
      <4> QED BY <3>1, <3>2, <4>2 DEF StreamInv, NeverGarbled, Grown
    <3>3. CASE xfer # "garbled"
      <4>1. c # Lost /\ Head(net).frame = "chunk"
        BY <1>1, <3>1, <3>3 DEF Reads
      <4> QED BY <1>1, <3>1, <4>1, Followed
    <3> QED BY <3>2, <3>3
  <2>2. Reads(e)'
    <3>1. Lost.left = 0 /\ Lost.file = 0
      BY DEF Lost
    <3>2. entry = "pending" => got = <<>>
      BY <1>1 DEF Reads
    <3> QED BY <1>3, <2>1, <3>1, <3>2 DEF Reads
  <2>3. Phases' /\ InTurn' /\ InStep'
    BY <1>1, <1>3, <2>2, ReadOn
  <2>4. TypeOK'
    <3>1. Tail(net) \in Seq(Frames) /\ faults' = faults
      BY Types, HeadTailProperties DEF StreamInv, ReceiveGarbage
    <3> QED BY <1>3, <3>1, SameBatch DEF StreamInv, TypeOK, clientVars
  <2>5. NeverGarbled'
    <3>1. Grown' = Grown
      BY SameDrift DEF clientVars
    <3> QED BY <2>1, <3>1 DEF NeverGarbled, Grown
  <2>6. DoneAtEnd' /\ DoneIsComplete'
    BY <1>3, SameBatch DEF StreamInv, DoneAtEnd, DoneIsComplete, clientVars
  <2> QED BY <2>3, <2>4, <2>5, <2>6 DEF StreamInv
<1> QED BY <1>2, <1>3 DEF ReceiveGarbage

LEMMA ReceiveEosKeeps ==
  ASSUME StreamInv, xfer = "open", net # <<>>, ReceiveEos, UNCHANGED clientVars
  PROVE  StreamInv'
<1>1. PICK c \in Cursor, e \in Cursor, d \in Cursor :
        /\ Reads(c) /\ Follows(Sizes, Grown, c, Head(net), e)
        /\ Path(Sizes, Grown, Tail(Wire), e, d) /\ Wrote(d)
  BY AtHead
<1>2. c.file = Len(batch) /\ left = 0
  <2>1. c # Lost /\ Head(net).frame = "eos" /\ left = 0
    BY <1>1, Kinds DEF Reads, ReceiveEos
  <2>2. c = At(Len(Sizes), 0)
    BY <1>1, <2>1, Followed
  <2> QED BY <2>1, <2>2, BatchFacts DEF At, StreamInv
<1>3. entry = "mapped" => got = [f \in Files |-> f]
  <2>1. entry = "mapped" => got = Count(Len(batch))
    BY <1>1, <1>2 DEF Reads
  <2> QED BY <2>1 DEF Count, Files
<1>4. Tail(net) \in Seq(Frames) /\ Files' = Files /\ Frames' = Frames
  BY Types, HeadTailProperties, SameBatch DEF StreamInv, clientVars
<1>5. TypeOK'
  BY <1>4 DEF StreamInv, TypeOK, Links, ReceiveEos, clientVars
<1>6. sock \notin {"new", "connecting"}
  BY DEF StreamInv, Phases
<1>7. Phases' /\ InTurn'
  BY <1>6 DEF StreamInv, Phases, InTurn, BetweenFiles, Hashing, InFile, Ended, Opened, Size, clientVars
<1>8. InStep' /\ NeverGarbled' /\ DoneAtEnd'
  BY DEF InStep, NeverGarbled, DoneAtEnd, ReceiveEos
<1>9. DoneIsComplete'
  BY <1>3, <1>4 DEF StreamInv, DoneIsComplete, DoneAtEnd, ReceiveEos
<1> QED BY <1>5, <1>7, <1>8, <1>9 DEF StreamInv

(* What R reads.                                                           *)
LEMMA ReceiveKeeps == ASSUME StreamInv, Receive PROVE StreamInv'
  BY ReceiveIdKeeps, ReceiveHeaderKeeps, ReceiveChunkKeeps, ReceiveGarbageKeeps, ReceiveEosKeeps
     DEF Receive

LEMMA PeerClosedKeeps == ASSUME StreamInv, PeerClosed PROVE StreamInv'
<1>1. faults' \in 0..MaxFaults
  BY DEF StreamInv, TypeOK, PeerClosed
<1> QED BY <1>1, AbortKeeps DEF PeerClosed

-----------------------------------------------------------------------------
(* What is posted.                                                         *)
Events == {"sendCurrentHeader", "sendNextChunk", "delete"}

LEMMA EventFacts ==
  /\ <<>> \in Seq(Events)
  /\ \A x \in Events : <<x>> \in Seq(Events) /\ Append(<<>>, x) = <<x>>
  /\ \A q \in Seq(Events) : /\ \A x \in Events : Append(q, x) \in Seq(Events)
                            /\ q # <<>> => Tail(q) \in Seq(Events)
  /\ \A x \in Events : Tail(<<x>>) = <<>> /\ Head(<<x>>) = x /\ <<x>> # <<>>
  /\ \A q \in Seq(Events), x \in Events :
        /\ Append(q, x) # <<>>
        /\ Head(Append(q, x)) = IF q = <<>> THEN x ELSE Head(q)
        /\ Tail(Append(q, x)) = IF q = <<>> THEN <<>> ELSE Append(Tail(q), x)
<1>1. <<>> \in Seq(Events)
  BY EmptySeq
<1>2. ASSUME NEW x \in Events PROVE <<x>> \in Seq(Events) /\ Append(<<>>, x) = <<x>>
  OBVIOUS
<1>3. ASSUME NEW q \in Seq(Events)
      PROVE  /\ \A x \in Events : Append(q, x) \in Seq(Events)
             /\ q # <<>> => Tail(q) \in Seq(Events)
  BY <1>3, AppendProperties, HeadTailProperties
<1>4. ASSUME NEW x \in Events PROVE Tail(<<x>>) = <<>> /\ Head(<<x>>) = x /\ <<x>> # <<>>
  OBVIOUS
<1>5. ASSUME NEW q \in Seq(Events), NEW x \in Events
      PROVE  /\ Append(q, x) # <<>>
             /\ Head(Append(q, x)) = IF q = <<>> THEN x ELSE Head(q)
             /\ Tail(Append(q, x)) = IF q = <<>> THEN <<>> ELSE Append(Tail(q), x)
  BY <1>5, AppendProperties, HeadTailAppend
<1> QED BY <1>1, <1>2, <1>3, <1>4, <1>5

(* What the client does, seen from its types.                              *)
LEMMA ClientTyped ==
  ASSUME TypeOK, UNCHANGED <<batch, drift, serverVars>>,
         pending' \in Seq(Files), file' \in {0} \union Files, sent' \in Nat,
         headerSent' \in BOOLEAN, hashing' \in BOOLEAN, posted' \in Seq(Events),
         sock' \in {"new", "connecting", "connected", "closing", "gone", "destroyed"},
         sendRow' \in {"Transferring", "Done"}, failed' \in BOOLEAN,
         txbuf' \in Seq(Frames), net' \in Seq(Frames), link' \in Links,
         faults' \in 0..MaxFaults
  PROVE  TypeOK'
  BY SameBatch DEF TypeOK, Events, serverVars

(* What the client does, seen from the stream.                             *)
LEMMA ClientMoves ==
  ASSUME StreamInv, TypeOK', Phases', InTurn', UNCHANGED <<batch, drift, serverVars>>,
         \A c, d \in Cursor : Path(Sizes, Grown, Wire, c, d) /\ Wrote(d) =>
            \E e \in Cursor : Path(Sizes, Grown, Wire', c, e) /\ Wrote(e)'
  PROVE  StreamInv'
<1>1. Files' = Files /\ Sizes' = Sizes /\ Grown' = Grown
  BY SameBatch, SameDrift
<1>2. ASSUME xfer \in {"open", "garbled"} PROVE InStep'
  <2>1. PICK c \in Cursor, d \in Cursor : Reads(c) /\ Path(Sizes, Grown, Wire, c, d) /\ Wrote(d)
    BY <1>2 DEF StreamInv, InStep
  <2>2. PICK e \in Cursor : Path(Sizes, Grown, Wire', c, e) /\ Wrote(e)'
    BY <2>1
  <2>3. Reads(c)'
    BY <1>1, <2>1 DEF Reads, serverVars
  <2>4. Path(Sizes', Grown', Wire', c, e)
    BY <1>1, <2>2
  <2> QED BY <2>1, <2>2, <2>3, <2>4 DEF InStep
<1>3. InStep'
  BY <1>2 DEF InStep, serverVars
<1>4. NeverGarbled' /\ DoneAtEnd' /\ DoneIsComplete'
  BY <1>1 DEF StreamInv, NeverGarbled, DoneAtEnd, DoneIsComplete, Grown, serverVars
<1> QED BY <1>3, <1>4 DEF StreamInv

LEMMA ClientStill ==
  ASSUME StreamInv, TypeOK', Phases', InTurn', UNCHANGED <<batch, drift, serverVars>>,
         Wire' = Wire, \A d \in Cursor : Wrote(d) => Wrote(d)'
  PROVE  StreamInv'
<1>1. \A c, d \in Cursor : Path(Sizes, Grown, Wire, c, d) /\ Wrote(d) =>
         \E e \in Cursor : Path(Sizes, Grown, Wire', c, e) /\ Wrote(e)'
  OBVIOUS
<1> QED BY <1>1, ClientMoves

LEMMA WireCut ==
  ASSUME StreamInv, TypeOK', Phases', InTurn', UNCHANGED <<batch, drift, serverVars>>,
         link' # "up", NEW n \in 0..Len(Wire), Wire' = SubSeq(Wire, 1, n)
  PROVE  StreamInv'
<1>1. Wire \in Seq(Frames)
  BY Types DEF StreamInv
<1>2. ASSUME NEW c \in Cursor, NEW d \in Cursor, Path(Sizes, Grown, Wire, c, d)
      PROVE  \E e \in Cursor : Path(Sizes, Grown, Wire', c, e) /\ Wrote(e)'
  <2>1. PICK e \in Cursor : Path(Sizes, Grown, SubSeq(Wire, 1, n), c, e)
    BY <1>1, <1>2, PathCut
  <2> QED BY <2>1 DEF Wrote
<1> QED BY <1>2, ClientMoves

(* No files to come.                                                       *)
LEMMA NoneLeft ==
  ASSUME TypeOK, batch' = batch, pending' = <<>>
  PROVE  InTurn' /\ pending' \in Seq(Files) /\ Opened' = Len(batch)
<1>1. Len(<<>>) = 0 /\ DOMAIN <<>> = {} /\ <<>> \in Seq(Files)
  BY EmptySeq, LenProperties
<1>2. Len(batch) \in Nat
  BY BatchFacts
<1> QED BY <1>1, <1>2 DEF InTurn, Opened

LEMMA StartKeeps == ASSUME StreamInv, Start PROVE StreamInv'
<1>1. /\ sock = "new" /\ posted = <<>> /\ file = 0 /\ ~hashing /\ txbuf = <<>> /\ net = <<>>
      /\ UNCHANGED <<batch, hashing, txbuf, drift, serverVars, net, link, faults>>
  BY DEF StreamInv, Phases, Start
<1>2. Wire' = Wire /\ Files' = Files /\ Frames' = Frames
  BY <1>1, SameBatch DEF Wire
<1>3. CASE batch = <<>>
  <2>1. /\ posted' = <<"delete">> /\ file' = 0 /\ sent' = 0 /\ headerSent' = FALSE /\ pending' = <<>>
        /\ sendRow' = "Done" /\ UNCHANGED <<failed, sock>> /\ posted' \in Seq(Events)
    BY <1>3, EventFacts DEF Start, Finished, Cleanup, Events
  <2>2. TypeOK'
    BY <1>1, <1>2, <2>1, EmptySeq DEF StreamInv, TypeOK, Events, serverVars
  <2>3. Phases'
    BY <1>1, <2>1 DEF Phases
  <2>4. InTurn'
    BY <1>1, <2>1, NoneLeft DEF StreamInv
  <2>5. \A d \in Cursor : Wrote(d) => Wrote(d)'
    BY <1>1, <2>1 DEF Wrote, Writes
  <2> QED BY <1>1, <1>2, <2>2, <2>3, <2>4, <2>5, ClientStill
<1>4. CASE batch # <<>>
  <2>1. /\ sock' = "connecting" /\ pending' = [i \in Files |-> i]
        /\ UNCHANGED <<file, sent, headerSent, posted, sendRow, failed>>
    BY <1>4 DEF Start
  <2>2. pending' \in Seq(Files) /\ Len(pending') = Len(batch) /\ Len(batch) \in Nat
        /\ DOMAIN pending' = 1..Len(batch) /\ \A i \in 1..Len(batch) : pending'[i] = i
    <3>1. Len(batch) \in Nat /\ Files = 1..Len(batch)
      BY BatchFacts DEF StreamInv
    <3>2. pending' \in [1..Len(batch) -> Files]
      BY <2>1, <3>1
    <3> QED BY <2>1, <3>1, <3>2, SeqDef, LenProperties
  <2>3. TypeOK'
    BY <1>1, <1>2, <2>1, <2>2 DEF StreamInv, TypeOK, Events, serverVars
  <2>4. Opened' = 0 /\ InTurn'
    BY <1>1, <2>2 DEF Opened, InTurn
  <2>5. Phases'
    BY <1>1, <2>1, <2>4 DEF Phases
  <2>6. \A d \in Cursor : Wrote(d) => Wrote(d)'
    BY <1>1, <2>1 DEF Wrote, Writes
  <2> QED BY <1>1, <1>2, <2>3, <2>4, <2>5, <2>6, ClientStill
<1> QED BY <1>3, <1>4

(* The file that comes next.                                               *)
LEMMA NextFile ==
  ASSUME TypeOK, InTurn, pending # <<>>
  PROVE  /\ Head(pending) = Opened + 1 /\ Head(pending) \in Files /\ Size(Head(pending)) \in Nat
         /\ Opened \in Nat /\ Opened < Len(batch) /\ Len(batch) \in Nat
         /\ (batch' = batch /\ pending' = Tail(pending)) =>
               pending' \in Seq(Files) /\ Opened' = Opened + 1 /\ InTurn'
<1>1. /\ pending \in Seq(Files) /\ Len(pending) \in Nat \ {0} /\ DOMAIN pending = 1..Len(pending)
      /\ Len(batch) \in Nat /\ Files = 1..Len(batch)
  BY Types, BatchFacts, EmptySeq, LenProperties
<1>2. /\ Tail(pending) \in Seq(Files) /\ Len(Tail(pending)) = Len(pending) - 1
      /\ (\A i \in 1..Len(pending) - 1 : Tail(pending)[i] = pending[i + 1])
      /\ Head(pending) = pending[1] /\ Head(pending) \in Files
      /\ DOMAIN Tail(pending) = 1..Len(Tail(pending))
  BY <1>1, HeadTailProperties, LenProperties
<1>3. Head(pending) = Opened + 1 /\ Opened \in Nat /\ Opened < Len(batch)
  BY <1>1, <1>2 DEF InTurn, Opened
<1>4. ASSUME batch' = batch, pending' = Tail(pending)
      PROVE  pending' \in Seq(Files) /\ Opened' = Opened + 1 /\ InTurn'
  <2>1. Opened' = Opened + 1 /\ pending' \in Seq(Files)
    BY <1>1, <1>2, <1>4 DEF Opened
  <2>2. ASSUME NEW i \in 1..Len(pending) - 1 PROVE pending'[i] = Opened' + i
    <3>1. i + 1 \in DOMAIN pending /\ pending'[i] = pending[i + 1]
      BY <1>1, <1>2, <1>4
    <3>2. pending[i + 1] = Opened + (i + 1)
      BY <3>1 DEF InTurn
    <3> QED BY <2>1, <3>1, <3>2, <1>3
  <2> QED BY <2>1, <2>2, <1>1, <1>2, <1>4 DEF InTurn
<1> QED BY <1>1, <1>2, <1>3, <1>4, BatchFacts

(* A frame at the end of the buffer is one at the end of the wire.         *)
LEMMA MovedAppend ==
  ASSUME NEW S, NEW q \in Seq(S), NEW r \in Seq(S), NEW t \in S
  PROVE  q \o Append(r, t) = Append(q \o r, t)
<1>1. PICK one \in Seq(S) : one = <<t>>
  <2>1. <<t>> \in Seq(S)
    OBVIOUS
  <2> QED BY <2>1, Zenon
<1>2. Append(r, t) = r \o one
  BY <1>1, AppendIsConcat
<1>3. q \o r \in Seq(S) /\ Append(q \o r, t) = (q \o r) \o one
  BY <1>1, AppendIsConcat, ConcatProperties
<1> QED BY <1>2, <1>3, ConcatAssociative

LEMMA Regroup ==
  ASSUME NEW S, NEW q \in Seq(S), NEW r \in Seq(S), NEW t \in Seq(S)
  PROVE  q \o r \in Seq(S) /\ (q \o r) \o t = q \o (r \o t)
<1>1. (q \o r) \o t = q \o (r \o t)
  BY ConcatAssociative
<1> QED BY <1>1, ConcatProperties

(* What the kernel takes of the buffer stays on the wire.                  *)
LEMMA Flushed ==
  ASSUME NEW S, NEW r \in Seq(S), NEW n \in 0..Len(r)
  PROVE  \E s \in Seq(S), t \in Seq(S) :
            s = SubSeq(r, 1, n) /\ t = SubSeq(r, n + 1, Len(r)) /\ s \o t = r
<1>1. Len(r) \in Nat /\ n \in Int /\ n + 1 \in Int /\ 1 \in Int
  BY LenProperties
<1>2. (\A i \in 1..n : r[i] \in S) /\ (\A i \in n + 1..Len(r) : r[i] \in S)
  BY <1>1, ElementOfSeq
<1>3. SubSeq(r, 1, n) \in Seq(S) /\ SubSeq(r, n + 1, Len(r)) \in Seq(S)
  BY <1>1, <1>2, SubSeqProperties
<1>4. SubSeq(r, 1, n) \o SubSeq(r, n + 1, Len(r)) = r
  <2>1. 1 \in 1..Len(r) + 1 /\ n \in 1 - 1..Len(r) /\ Len(r) \in n..Len(r)
    BY <1>1
  <2>2. SubSeq(r, 1, n) \o SubSeq(r, n + 1, Len(r)) = SubSeq(r, 1, Len(r))
    BY <2>1, ConcatAdjacentSubSeq
  <2> QED BY <2>2, SubSeqFull
<1> QED BY <1>3, <1>4, Zenon

LEMMA KernelTakes ==
  ASSUME net \in Seq(Frames), NEW r \in Seq(Frames), NEW n \in 0..Len(r)
  PROVE  net' = net \o SubSeq(r, 1, n) =>
            /\ net' \in Seq(Frames) /\ SubSeq(r, n + 1, Len(r)) \in Seq(Frames)
            /\ net' \o SubSeq(r, n + 1, Len(r)) = net \o r
<1>1. PICK s \in Seq(Frames), t \in Seq(Frames) :
        s = SubSeq(r, 1, n) /\ t = SubSeq(r, n + 1, Len(r)) /\ s \o t = r
  BY Flushed
<1>2. net \o s \in Seq(Frames) /\ (net \o s) \o t = net \o (s \o t)
  BY Regroup, SMTT(40)
<1>3. ASSUME net' = net \o SubSeq(r, 1, n)
      PROVE  net' \in Seq(Frames) /\ net' \o t = net \o r
  <2>1. net' = net \o s
    BY <1>1, <1>3, Zenon
  <2>2. s \o t = r
    BY <1>1
  <2> QED BY <1>2, <2>1, <2>2
<1> QED BY <1>1, <1>3, Zenon

(* The frames that may be written at each place.                           *)
LEMMA StepHeader ==
  ASSUME TypeOK, NEW n \in Nat, n < Len(batch)
  PROVE  Follows(Sizes, Grown, At(n, 0), Header(n + 1), At(n + 1, Size(n + 1)))
<1>1. n < Len(Sizes) /\ Sizes[n + 1] = Size(n + 1)
  BY BatchFacts
<1>2. At(n, 0).file = n
  BY DEF At
<1> QED BY <1>1, <1>2 DEF Follows

LEMMA StepEos ==
  ASSUME TypeOK
  PROVE  Follows(Sizes, Grown, At(Len(batch), 0), Eos, At(Len(batch), 0))
<1>1. Len(Sizes) = Len(batch)
  BY BatchFacts
<1> QED BY <1>1 DEF Follows

LEMMA StepChunk ==
  ASSUME NEW n \in Nat, NEW m \in Nat \ {0}, NEW f, NEW ok
  PROVE  Follows(Sizes, Grown, At(n, m), Chunk(f, ok), At(n, m - 1))
<1>1. At(n, m).file = n /\ At(n, m).left = m /\ Chunk(f, ok).frame = "chunk"
  BY DEF At, Chunk
<1> QED BY <1>1 DEF Follows

(* The client moves on to the next file, after the frames in buf.          *)
LEMMA SendHeaderKeeps ==
  ASSUME StreamInv, NEW buf \in Seq(Frames), SendHeader(buf, <<>>),
         ~hashing, file = 0, sock' = "connected", UNCHANGED <<batch, serverVars, link>>,
         link = "up" => \A c, d \in Cursor : Path(Sizes, Grown, Wire, c, d) /\ Wrote(d) =>
            \E e \in Cursor : Path(Sizes, Grown, net \o buf, c, e) /\ (e = Lost \/ e = At(Opened, 0))
  PROVE  StreamInv'
<1>0. PICK f : f = Head(pending)
  OBVIOUS
<1>1. /\ f = Opened + 1 /\ f \in Files /\ Size(f) \in Nat
      /\ Opened \in Nat /\ Opened < Len(batch) /\ f \in Nat
      /\ pending' = Tail(pending) =>
            pending' \in Seq(Files) /\ Opened' = Opened + 1 /\ InTurn'
  BY <1>0, NextFile DEF StreamInv, SendHeader
<1>2. /\ Files' = Files /\ Sizes' = Sizes /\ Frames' = Frames
      /\ \A x \in Files : Size(x)' = Size(x)
  BY SameBatch
<1>3. net \in Seq(Frames) /\ net \o buf \in Seq(Frames) /\ net' = net /\ Header(f) \in Frames
      /\ pending # <<>>
  BY <1>1, Types, ConcatProperties, FrameFacts DEF StreamInv, SendHeader
<1>5. CASE SendBare(f, buf, <<>>)
  <2>1. /\ txbuf' = Append(buf, Header(f)) /\ file' = 0 /\ sent' = 0 /\ headerSent' = TRUE
        /\ pending' = Tail(pending) /\ posted' = Append(<<>>, "sendCurrentHeader")
        /\ Size(f) = 0 /\ UNCHANGED <<hashing, drift, sendRow, failed, faults>>
    BY <1>5 DEF SendBare
  <2>2. TypeOK'
    <3>1. txbuf' \in Seq(Frames) /\ posted' \in Seq(Events)
      BY <2>1, <1>3, AppendProperties, EventFacts DEF Events
    <3> QED BY <3>1, <2>1, <1>1, <1>2, <1>3 DEF StreamInv, TypeOK, Events, serverVars
  <2>3. BetweenFiles'
    BY <2>1 DEF BetweenFiles
  <2>4. Phases'
    BY <2>3 DEF Phases
  <2>5. ~Hashing' /\ ~InFile'
    BY <2>1 DEF Hashing, InFile
  <2>6. ASSUME NEW c \in Cursor, NEW d \in Cursor, Path(Sizes, Grown, Wire, c, d), Wrote(d)
        PROVE  \E e \in Cursor : Path(Sizes, Grown, Wire', c, e) /\ Wrote(e)'
    <3>1. CASE link # "up"
      <4>1. Wire' = Wire
        BY <3>1, <1>3 DEF Wire
      <4> QED BY <2>6, <3>1, <4>1 DEF Wrote
    <3>2. CASE link = "up"
      <4>1. PICK e \in Cursor : Path(Sizes, Grown, net \o buf, c, e) /\ (e = Lost \/ e = At(Opened, 0))
        BY <2>6, <3>2
      <4>2. Wire' = Append(net \o buf, Header(f))
        BY <3>2, <2>1, <1>3, MovedAppend DEF Wire
      <4>3. CASE e = Lost
        <5>1. Follows(Sizes, Grown, e, Header(f), Lost) /\ Lost \in Cursor
          BY <4>3, Cursors DEF Follows
        <5>2. Path(Sizes, Grown, Wire', c, Lost)
          BY <4>1, <4>2, <5>1, <1>3, PathAppend
        <5> QED BY <5>1, <5>2 DEF Wrote
      <4>4. CASE e = At(Opened, 0)
        <5>1. Follows(Sizes, Grown, e, Header(f), At(f, 0)) /\ At(f, 0) \in Cursor
          BY <4>4, <2>1, <1>1, StepHeader, Cursors DEF StreamInv
        <5>2. Path(Sizes, Grown, Wire', c, At(f, 0))
          BY <4>1, <4>2, <5>1, <1>3, PathAppend
        <5>3. Wrote(At(f, 0))'
          <6>1. Opened' = f
            BY <1>1, <2>1
          <6> QED BY <6>1, <2>1, <2>5, <1>2, <1>1 DEF Wrote, Writes, At
        <5> QED BY <5>1, <5>2, <5>3
      <4> QED BY <4>1, <4>3, <4>4
    <3> QED BY <3>1, <3>2
  <2> QED BY <2>1, <2>2, <2>4, <2>6, <1>1, ClientMoves
<1>6. ASSUME txbuf' = buf, UNCHANGED drift, TypeOK', Phases', InTurn', ~BetweenFiles', ~InFile',
             Hashing' => Opened' = Opened + 1
      PROVE  StreamInv'
  <2>1. ASSUME NEW c \in Cursor, NEW d \in Cursor, Path(Sizes, Grown, Wire, c, d), Wrote(d)
        PROVE  \E e \in Cursor : Path(Sizes, Grown, Wire', c, e) /\ Wrote(e)'
    <3>1. CASE link # "up"
      <4>1. Wire' = Wire
        BY <3>1, <1>3 DEF Wire
      <4> QED BY <2>1, <3>1, <4>1 DEF Wrote
    <3>2. CASE link = "up"
      <4>1. PICK e \in Cursor : Path(Sizes, Grown, net \o buf, c, e) /\ (e = Lost \/ e = At(Opened, 0))
        BY <2>1, <3>2
      <4>2. Wire' = net \o buf
        BY <3>2, <1>3, <1>6 DEF Wire
      <4>3. Hashing' => (Opened - 1)' = Opened
        BY <1>6, <1>1
      <4>4. Wrote(e)'
        BY <4>1, <4>3, <1>6 DEF Wrote, Writes
      <4> QED BY <4>1, <4>2, <4>4
    <3> QED BY <3>1, <3>2
  <2> QED BY <2>1, <1>6, ClientMoves
<1>7. CASE OpenFile(f, buf, <<>>)
  <2>1. /\ txbuf' = buf /\ file' = f /\ sent' = 0 /\ headerSent' = FALSE /\ hashing' = TRUE
        /\ pending' = Tail(pending) /\ posted' = <<>> /\ Size(f) > 0
        /\ UNCHANGED <<drift, sendRow, failed, faults>>
    BY <1>7 DEF OpenFile
  <2>2. TypeOK'
    BY <2>1, <1>1, <1>2, <1>3, EventFacts DEF StreamInv, TypeOK, Events, serverVars
  <2>3. Hashing' /\ ~BetweenFiles' /\ ~InFile'
    <3>1. Opened' = f /\ f # 0 /\ Size(f)' > 0
      BY <1>1, <1>2, <2>1 DEF Size
    <3> QED BY <2>1, <3>1 DEF Hashing, BetweenFiles, InFile, Size
  <2>4. Phases' /\ InTurn' /\ Opened' = Opened + 1
    BY <2>1, <2>3, <1>1 DEF Phases
  <2> QED BY <2>1, <2>2, <2>3, <2>4, <1>6
<1>8. CASE OpenFails(f, buf, <<>>)
  <2>1. /\ txbuf' = buf /\ file' = 0 /\ sent' = 0 /\ headerSent' = FALSE /\ pending' = <<>>
        /\ failed' = TRUE /\ posted' = Append(<<>>, "delete")
        /\ UNCHANGED <<hashing, drift, sendRow>> /\ Fault
    BY <1>8 DEF OpenFails, Failed, Cleanup
  <2>2. posted' = <<"delete">> /\ posted' \in Seq(Events)
    BY <2>1, EventFacts DEF Events
  <2>3. InTurn' /\ pending' \in Seq(Files)
    BY <2>1, NoneLeft DEF StreamInv
  <2>4. faults' \in 0..MaxFaults
    BY <2>1, FaultType DEF StreamInv, TypeOK
  <2>5. TypeOK'
    BY <2>1, <2>2, <2>3, <2>4, <1>2, <1>3 DEF StreamInv, TypeOK, Events, serverVars
  <2>6. Ended'
    BY <2>1, <2>2 DEF Ended
  <2>7. ~BetweenFiles' /\ ~InFile' /\ ~Hashing'
    <3>1. ASSUME NEW rest \in {<<>>, <<"sendNextChunk">>}, <<"delete">> = Append(rest, "sendCurrentHeader")
          PROVE  FALSE
      <4>1. Head(Append(rest, "sendCurrentHeader")) \in {"sendCurrentHeader", "sendNextChunk"}
        BY EventFacts DEF Events
      <4>2. Head(<<"delete">>) = "delete"
        BY EventFacts DEF Events
      <4> QED BY <4>1, <4>2, <3>1
    <3> QED BY <2>1, <2>2, <3>1 DEF BetweenFiles, InFile, Hashing
  <2>8. Phases'
    BY <2>6 DEF Phases
  <2> QED BY <2>1, <2>3, <2>5, <2>7, <2>8, <1>6
<1> QED BY <1>0, <1>5, <1>7, <1>8 DEF SendHeader

LEMMA ConnectedKeeps == ASSUME StreamInv, Connected PROVE StreamInv'
<1>1. /\ sock = "connecting" /\ link = "up" /\ sock' = "connected" /\ posted = <<>>
      /\ SendHeader(<<Id>>, <<>>) /\ UNCHANGED <<batch, serverVars, link>>
      /\ ~hashing /\ file = 0 /\ txbuf = <<>> /\ net = <<>> /\ Opened = 0
  BY DEF StreamInv, Phases, Connected
<1>2. PICK buf \in Seq(Frames) : buf = <<Id>>
  <2>1. Id \in Frames
    BY FrameFacts
  <2>2. <<Id>> \in Seq(Frames)
    BY <2>1
  <2> QED BY <2>2, Zenon
<1>3. buf = Append(<<>>, Id) /\ Id \in Frames /\ <<>> \in Seq(Frames)
  BY <1>2, FrameFacts, EmptySeq
<1>4. Wire = <<>> /\ net \o buf = Append(Wire, Id)
  BY <1>1, <1>3, ConcatEmptySeq DEF Wire
<1>5. ASSUME NEW c \in Cursor, NEW d \in Cursor, Path(Sizes, Grown, Wire, c, d), Wrote(d)
      PROVE  \E e \in Cursor : Path(Sizes, Grown, net \o buf, c, e) /\ (e = Lost \/ e = At(Opened, 0))
  <2>1. d = Lost \/ d = At(0, 0)
    BY <1>1, <1>5 DEF Wrote, Writes
  <2>2. Follows(Sizes, Grown, d, Id, d)
    BY <2>1 DEF Follows
  <2>3. Path(Sizes, Grown, net \o buf, c, d)
    BY <1>3, <1>4, <1>5, <2>2, PathAppend
  <2> QED BY <1>1, <2>1, <2>3
<1>6. SendHeader(buf, <<>>)
  BY <1>1, <1>2
<1> QED BY <1>1, <1>5, <1>6, SendHeaderKeeps

(* The end of the stream.                                                  *)
LEMMA SendEosKeeps ==
  ASSUME StreamInv, NEW rest \in Seq(Events), SendEos(rest), UNCHANGED <<batch, serverVars, link>>,
         file = 0, sock = "connected" => ~hashing /\ rest = <<>> /\ BetweenFiles,
         sock \notin {"new", "connecting", "closing"}
  PROVE  StreamInv'
<1>1. /\ pending = <<>> /\ sendRow' = "Done" /\ posted' = Append(rest, "delete")
      /\ file' = 0 /\ sent' = 0 /\ headerSent' = FALSE /\ pending' = <<>>
      /\ UNCHANGED <<failed, hashing, drift, faults>>
  BY DEF SendEos, Finished, Cleanup
<1>2. /\ Files' = Files /\ Frames' = Frames /\ InTurn' /\ pending' \in Seq(Files)
      /\ Opened = Len(batch) /\ Opened' = Len(batch) /\ posted' \in Seq(Events)
  <2>1. Len(<<>>) = 0 /\ Len(batch) \in Nat
    BY EmptySeq, BatchFacts DEF StreamInv
  <2> QED BY <1>1, <2>1, SameBatch, NoneLeft, EventFacts DEF StreamInv, Events, Opened
<1>3. sock = "connected" => Ended'
  BY <1>1, EventFacts DEF Ended, Events
<1>4. CASE sock = "connected" /\ link = "up"
  <2>0. PICK all \in Seq(Frames) : all = Append(txbuf, Eos)
    BY Types, FrameFacts, AppendProperties DEF StreamInv
  <2>1. net \in Seq(Frames) /\ txbuf \in Seq(Frames) /\ Eos \in Frames
    BY Types, FrameFacts DEF StreamInv
  <2>2. PICK n \in 0..Len(all) : /\ net' = net \o SubSeq(all, 1, n)
                                 /\ txbuf' = SubSeq(all, n + 1, Len(all))
    BY <1>4, <2>0 DEF SendEos
  <2>3. sock' = "closing"
    BY <1>4 DEF SendEos
  <2>4. net' \in Seq(Frames) /\ txbuf' \in Seq(Frames) /\ net' \o txbuf' = net \o all
    BY <2>1, <2>2, KernelTakes
  <2>5. TypeOK'
    BY <1>1, <1>2, <2>3, <2>4 DEF StreamInv, TypeOK, Events, serverVars
  <2>6. Phases'
    BY <1>3, <1>4, <2>3 DEF Phases
  <2>7. Wire' = Append(Wire, Eos) /\ Wire \in Seq(Frames)
    <3>1. net \o all = Append(net \o txbuf, Eos)
      BY <2>0, <2>1, MovedAppend
    <3> QED BY <1>4, <2>4, <3>1, Types DEF Wire, StreamInv
  <2>8. ASSUME NEW c \in Cursor, NEW d \in Cursor, Path(Sizes, Grown, Wire, c, d), Wrote(d)
        PROVE  \E e \in Cursor : Path(Sizes, Grown, Wire', c, e) /\ Wrote(e)'
    <3>1. d = Lost \/ d = At(Len(batch), 0)
      BY <1>2, <1>4, <2>8 DEF Wrote, Writes
    <3>2. Follows(Sizes, Grown, d, Eos, d)
      BY <3>1, StepEos DEF Follows, StreamInv
    <3>3. Path(Sizes, Grown, Wire', c, d)
      BY <2>1, <2>7, <2>8, <3>2, PathAppend
    <3>4. Wrote(d)'
      BY <2>3 DEF Wrote, Writes
    <3> QED BY <3>3, <3>4
  <2> QED BY <1>1, <1>2, <2>5, <2>6, <2>8, ClientMoves
<1>5. CASE ~(sock = "connected" /\ link = "up")
  <2>1. UNCHANGED <<net, txbuf, sock>> /\ Wire' = Wire
    BY <1>5 DEF SendEos, Wire
  <2>2. TypeOK'
    BY <1>1, <1>2, <2>1, ClientTyped DEF StreamInv, TypeOK
  <2>3. Phases'
    BY <1>1, <1>3, <2>1 DEF Phases
  <2>4. \A d \in Cursor : Wrote(d)'
    BY <1>5, <2>1 DEF Wrote, Writes
  <2> QED BY <1>1, <1>2, <2>1, <2>2, <2>3, <2>4, ClientStill
<1> QED BY <1>4, <1>5

LEMMA SendCurrentHeaderKeeps == ASSUME StreamInv, SendCurrentHeader PROVE StreamInv'
<1>1. /\ posted # <<>> /\ Head(posted) = "sendCurrentHeader" /\ posted \in Seq(Events)
      /\ UNCHANGED <<batch, serverVars, link>>
  BY DEF SendCurrentHeader, StreamInv, TypeOK, Events
<1>2. PICK rest \in Seq(Events) : rest = Tail(posted)
  BY <1>1, EventFacts, Zenon
<1>3. Head(<<"delete">>) = "delete" /\ Head(<<"sendNextChunk">>) = "sendNextChunk"
  BY EventFacts DEF Events
<1>4. sock \notin {"new", "connecting", "closing"}
  BY <1>1, <1>3 DEF StreamInv, Phases, Ended
<1>5. sock = "connected" => BetweenFiles /\ rest = <<>> /\ ~hashing /\ file = 0
  <2>1. sock = "connected" => BetweenFiles
    BY <1>1, <1>3 DEF StreamInv, Phases, Hashing, InFile, Ended
  <2>2. ASSUME BetweenFiles PROVE rest = <<>>
    <3>1. PICK r \in {<<>>, <<"sendNextChunk">>} : posted = Append(r, "sendCurrentHeader")
      BY <2>2 DEF BetweenFiles
    <3>2. r \in Seq(Events) /\ "sendCurrentHeader" \in Events /\ (r # <<>> => Head(r) = "sendNextChunk")
      BY <3>1, EventFacts DEF Events
    <3>3. Head(posted) = IF r = <<>> THEN "sendCurrentHeader" ELSE Head(r)
      BY <3>1, <3>2, EventFacts
    <3>4. r = <<>>
      BY <1>1, <3>2, <3>3
    <3> QED BY <1>2, <3>1, <3>2, <3>4, EventFacts
  <2> QED BY <2>1, <2>2 DEF BetweenFiles
<1>6. file = 0
  BY <1>4, <1>5 DEF StreamInv, Phases, TypeOK
<1>7. CASE SendEos(Tail(posted))
  BY <1>1, <1>2, <1>4, <1>5, <1>6, <1>7, SendEosKeeps
<1>8. CASE SendHeader(txbuf, Tail(posted)) /\ UNCHANGED sock
  <2>1. sock = "connected"
    <3>1. pending # <<>>
      BY <1>8 DEF SendHeader
    <3> QED BY <3>1, <1>4 DEF StreamInv, Phases, TypeOK
  <2>2. SendHeader(txbuf, <<>>) /\ sock' = "connected" /\ txbuf \in Seq(Frames)
    BY <1>2, <1>5, <1>8, <2>1, Types DEF StreamInv
  <2>3. ASSUME link = "up", NEW c \in Cursor, NEW d \in Cursor,
               Path(Sizes, Grown, Wire, c, d), Wrote(d)
        PROVE  \E e \in Cursor : Path(Sizes, Grown, net \o txbuf, c, e) /\ (e = Lost \/ e = At(Opened, 0))
    <3>1. d = Lost \/ d = At(Opened, 0)
      BY <1>5, <2>1, <2>3 DEF Wrote, Writes
    <3> QED BY <2>3, <3>1 DEF Wire
  <2> QED BY <1>1, <1>5, <2>1, <2>2, <2>3, SendHeaderKeeps
<1> QED BY <1>7, <1>8 DEF SendCurrentHeader

LEMMA HashReadyKeeps == ASSUME StreamInv, HashReady PROVE StreamInv'
<1>1. /\ hashing /\ hashing' = FALSE /\ Files' = Files /\ Frames' = Frames
      /\ UNCHANGED <<batch, pending, file, sent, sock, drift, sendRow, failed, serverVars, net,
                     link, faults>>
  BY SameBatch DEF HashReady
<1>2. Opened' = Opened /\ InTurn'
  BY <1>1 DEF StreamInv, InTurn, Opened
<1>3. CASE sock # "connected"
  <2>1. UNCHANGED <<txbuf, headerSent, posted>> /\ Wire' = Wire
    BY <1>1, <1>3 DEF HashReady, Wire
  <2>2. TypeOK'
    BY <1>1, <2>1, ClientTyped DEF StreamInv, TypeOK, Events
  <2>3. sock \in {"gone", "destroyed"}
    BY <1>1, <1>3 DEF StreamInv, TypeOK, Phases, Ended
  <2>4. Phases'
    BY <1>1, <2>3 DEF StreamInv, Phases
  <2>5. \A d \in Cursor : Wrote(d)'
    BY <1>1, <2>3 DEF Wrote, Writes
  <2> QED BY <1>1, <1>2, <2>1, <2>2, <2>4, <2>5, ClientStill
<1>4. CASE sock = "connected"
  <2>1. Hashing
    BY <1>1, <1>4 DEF StreamInv, Phases, BetweenFiles, InFile, Ended
  <2>2. /\ txbuf' = Append(txbuf, Header(file)) /\ headerSent' = TRUE
        /\ posted' = Append(<<>>, "sendNextChunk")
    BY <1>1, <1>4, <2>1 DEF HashReady, Hashing
  <2>3. /\ file \in Files /\ file = Opened /\ sent = 0 /\ Size(file) \in Nat /\ Size(file) > 0
        /\ file \in Nat /\ file - 1 \in Nat /\ file - 1 < Len(batch)
    BY <2>1, BatchFacts DEF StreamInv, TypeOK, Hashing
  <2>4. /\ txbuf \in Seq(Frames) /\ net \in Seq(Frames) /\ Wire \in Seq(Frames)
        /\ Header(file) \in Frames /\ posted' = <<"sendNextChunk">> /\ posted' \in Seq(Events)
    BY <2>2, <2>3, Types, FrameFacts, EventFacts DEF StreamInv, Events
  <2>5. TypeOK'
    <3>1. txbuf' \in Seq(Frames)
      BY <2>2, <2>4, AppendProperties
    <3> QED BY <1>1, <2>2, <2>4, <3>1, ClientTyped DEF StreamInv, TypeOK
  <2>6. InFile' /\ Size(file)' = Size(file)
    BY <1>1, <1>2, <2>2, <2>3, <2>4 DEF InFile, Size
  <2>7. Phases'
    BY <1>1, <1>4, <2>6 DEF Phases
  <2>8. ASSUME NEW c \in Cursor, NEW d \in Cursor, Path(Sizes, Grown, Wire, c, d), Wrote(d)
        PROVE  \E e \in Cursor : Path(Sizes, Grown, Wire', c, e) /\ Wrote(e)'
    <3>1. CASE link # "up"
      <4>1. Wire' = Wire /\ Wrote(d)'
        BY <1>1, <3>1 DEF Wire, Wrote
      <4> QED BY <2>8, <4>1
    <3>2. CASE link = "up"
      <4>1. Wire' = Append(Wire, Header(file))
        BY <1>1, <2>2, <2>4, <3>2, MovedAppend DEF Wire
      <4>2. PICK e \in Cursor : /\ Follows(Sizes, Grown, d, Header(file), e)
                                /\ e = Lost \/ e = At(Opened, Size(file) - sent)
        <5>1. CASE d = Lost
          BY <5>1, Cursors DEF Follows
        <5>2. CASE d = At(Opened - 1, 0)
          <6>1. Follows(Sizes, Grown, At(file - 1, 0), Header((file - 1) + 1),
                        At((file - 1) + 1, Size((file - 1) + 1)))
            BY <2>3, StepHeader DEF StreamInv
          <6>2. (file - 1) + 1 = file /\ Size(file) - sent = Size(file)
            BY <2>3
          <6>3. At(file, Size(file)) \in Cursor
            BY <2>3, Cursors
          <6> QED BY <2>3, <5>2, <6>1, <6>2, <6>3
        <5> QED BY <1>4, <2>1, <2>8, <3>2, <5>1, <5>2 DEF Wrote, Writes
      <4>3. Path(Sizes, Grown, Wire', c, e)
        BY <2>4, <2>8, <4>1, <4>2, PathAppend
      <4>4. ~BetweenFiles' /\ ~Hashing'
        BY <1>1, <2>2, <2>3 DEF BetweenFiles, Hashing
      <4>5. Wrote(e)'
        BY <1>1, <1>2, <1>4, <2>6, <4>2, <4>4 DEF Wrote, Writes
      <4> QED BY <4>3, <4>5
    <3> QED BY <3>1, <3>2
  <2> QED BY <1>1, <1>2, <2>5, <2>7, <2>8, ClientMoves
<1> QED BY <1>3, <1>4

LEMMA TwoMore ==
  ASSUME NEW S, NEW q \in Seq(S), NEW x \in S
  PROVE  q \o <<x>> \o <<>> = Append(q, x) /\ q \o <<x>> \o <<x>> = Append(Append(q, x), x)
<1>1. PICK r \in Seq(S) : r = q \o <<x>> /\ r = Append(q, x)
  BY AppendIsConcat, AppendProperties
<1>2. r \o <<>> = r /\ r \o <<x>> = Append(r, x)
  BY <1>1, AppendIsConcat, ConcatEmptySeq
<1> QED BY <1>1, <1>2

LEMMA WireWritten ==
  ASSUME NEW r \in Seq(Frames), NEW x \in Frames
  PROVE  net' \in Seq(Frames) /\ link' = link /\ net' \o r = Wire /\ link = "up" =>
            /\ txbuf' = Append(r, x) => Wire' = Append(Wire, x)
            /\ txbuf' = Append(Append(r, x), x) => Wire' = Append(Append(Wire, x), x)
<1>1. ASSUME NEW q \in Seq(Frames), NEW w, q \o r = w
      PROVE  q \o Append(r, x) = Append(w, x) /\ q \o Append(Append(r, x), x) = Append(Append(w, x), x)
  <2>1. Append(r, x) \in Seq(Frames)
    BY AppendProperties
  <2>2. q \o Append(r, x) = Append(q \o r, x)
    BY MovedAppend
  <2>3. q \o Append(Append(r, x), x) = Append(q \o Append(r, x), x)
    BY <2>1, MovedAppend
  <2> QED BY <1>1, <2>2, <2>3
<1>2. ASSUME net' \in Seq(Frames), link' = link, net' \o r = Wire, link = "up"
      PROVE  Wire' = net' \o txbuf'
  BY <1>2 DEF Wire
<1> QED BY <1>1, <1>2

(* The chunk x, or more than was announced, is written in the file f.      *)
LEMMA ChunkWritten ==
  ASSUME StreamInv, TypeOK', Phases', InTurn',
         NEW f \in Nat, NEW m \in Nat, NEW ok, NEW x \in Frames,
         sock = "connected", InFile, file \in Files, f = file, m = Size(file) - sent - 1,
         x = Chunk(file, ok),
         link = "up" => Wire' = IF sent + 1 = Size(file) /\ drift[file] = "grown"
                                THEN Append(Append(Wire, x), x) ELSE Append(Wire, x),
         link # "up" => Wire' = Wire,
         UNCHANGED <<batch, drift, serverVars, link>>,
         \A e \in Cursor : e = Lost \/ e = At(f, m) => Wrote(e)'
  PROVE  StreamInv'
<1>1. /\ Wire \in Seq(Frames) /\ Append(Wire, x) \in Seq(Frames)
      /\ f = Opened /\ sent \in Nat /\ Size(file) \in Nat /\ sent < Size(file)
      /\ m + 1 = Size(file) - sent
  <2>1. Wire \in Seq(Frames) /\ Append(Wire, x) \in Seq(Frames)
    BY Types, AppendProperties DEF StreamInv
  <2>2. sent \in Nat /\ Size(file) \in Nat
    BY BatchFacts DEF StreamInv, TypeOK
  <2>3. file = Opened /\ sent < Size(file)
    BY DEF InFile
  <2> QED BY <2>1, <2>2, <2>3
<1>2. x.frame = "chunk" /\ At(f, m) \in Cursor /\ Lost \in Cursor
  BY Kinds, Cursors
<1>3. ~BetweenFiles /\ ~Hashing
  BY DEF BetweenFiles, Hashing, InFile
<1>4. ASSUME NEW c \in Cursor, NEW d \in Cursor, Path(Sizes, Grown, Wire, c, d), Wrote(d)
      PROVE  \E e \in Cursor : Path(Sizes, Grown, Wire', c, e) /\ Wrote(e)'
  <2>1. CASE link # "up"
    <3>1. Wire' = Wire /\ Wrote(d)'
      BY <2>1 DEF Wrote
    <3> QED BY <1>4, <3>1
  <2>2. CASE link = "up"
    <3>1. d = Lost \/ d = At(f, m + 1)
      <4>1. d = Lost \/ d = At(Opened, Size(file) - sent)
        BY <1>4, <2>2 DEF Wrote, Writes
      <4> QED BY <1>1, <4>1
    <3>2. PICK e \in Cursor : /\ Follows(Sizes, Grown, d, x, e)
                              /\ e = Lost \/ e = At(f, m)
      <4>1. CASE d = Lost
        BY <1>2, <4>1 DEF Follows
      <4>2. CASE d = At(f, m + 1)
        <5>1. Follows(Sizes, Grown, At(f, m + 1), x, At(f, (m + 1) - 1))
          BY StepChunk
        <5>2. (m + 1) - 1 = m
          OBVIOUS
        <5> QED BY <1>2, <4>2, <5>1, <5>2
      <4> QED BY <3>1, <4>1, <4>2
    <3>3. Path(Sizes, Grown, Append(Wire, x), c, e)
      BY <1>1, <1>4, <3>2, PathAppend
    <3>4. CASE ~(sent + 1 = Size(file) /\ drift[file] = "grown")
      <4>1. Wire' = Append(Wire, x)
        BY <2>2, <3>4
      <4> QED BY <3>2, <3>3, <4>1
    <3>5. CASE sent + 1 = Size(file) /\ drift[file] = "grown"
      <4>1. Wire' = Append(Append(Wire, x), x)
        BY <2>2, <3>5
      <4>2. Follows(Sizes, Grown, e, x, Lost)
        <5>0. m = 0
          BY <1>1, <3>5
        <5>1. Grown
          BY <3>5, Zenon DEF Grown, Drifted
        <5>2. At(f, 0).file = f
          BY DEF At
        <5> QED BY <1>2, <3>2, <5>0, <5>1, <5>2 DEF Follows
      <4>3. Path(Sizes, Grown, Wire', c, Lost)
        BY <1>1, <1>2, <3>2, <3>3, <4>1, <4>2, PathAppend
      <4> QED BY <1>2, <4>3
    <3> QED BY <3>4, <3>5
  <2> QED BY <2>1, <2>2
<1> QED BY <1>4, ClientMoves

(* A chunk, if one may be written.                                         *)
LEMMA NextChunkKeeps ==
  ASSUME StreamInv, NEW buf \in Seq(Frames), NEW rest \in Seq(Events), NextChunk(buf, rest),
         net' \in Seq(Frames), link = "up" => net' \o buf = Wire, link # "up" => net' = net,
         UNCHANGED <<batch, pending, headerSent, hashing, sock, drift, failed, serverVars, link,
                     faults>>,
         sock \notin {"new", "connecting"},
         MayWrite(buf) => /\ sock = "connected" /\ InFile
                          /\ rest \in {<<>>, <<"sendNextChunk">>},
         posted' = rest /\ UNCHANGED <<sent, file>> =>
            Phases' /\ \A d \in Cursor : Wrote(d) => Wrote(d)'
  PROVE  StreamInv'
<1>1. Files' = Files /\ Frames' = Frames /\ Opened' = Opened /\ InTurn'
  BY SameBatch DEF StreamInv, InTurn, Opened
<1>2. Wire \in Seq(Frames) /\ net \in Seq(Frames)
  BY Types DEF StreamInv
<1>3. CASE ~MayWrite(buf)
  <2>1. txbuf' = buf /\ posted' = rest /\ UNCHANGED <<sent, file, sendRow>>
    BY <1>3 DEF NextChunk
  <2>2. Wire' = Wire
    BY <2>1 DEF Wire
  <2>3. TypeOK'
    BY <1>1, <2>1, ClientTyped DEF StreamInv, TypeOK
  <2> QED BY <1>1, <2>1, <2>2, <2>3, ClientStill
<1>4. CASE MayWrite(buf)
  <2>1. /\ sock = "connected" /\ InFile /\ rest \in {<<>>, <<"sendNextChunk">>}
        /\ file \in Files /\ file # 0 /\ file = Opened /\ sent \in Nat /\ Size(file) \in Nat
        /\ sent < Size(file) /\ Opened \in Nat
    BY <1>4, BatchFacts, SMTT(40) DEF StreamInv, TypeOK, InFile
  <2>2. PICK x \in Frames, ok \in BOOLEAN : x = Chunk(file, drift[file] # "changed")
                                            /\ ok = (drift[file] # "changed")
    BY <2>1, FrameFacts
  <2>9. PICK f \in Nat, m \in Nat : f = file /\ m = Size(file) - sent - 1
    <3>1. file \in Nat /\ Size(file) - sent - 1 \in Nat
      BY <2>1
    <3> QED BY <3>1, Zenon
  <2> DEFINE last == sent + 1 = Size(file)
             more == last /\ drift[file] = "grown"
  <2>3. /\ txbuf' = buf \o <<x>> \o (IF more THEN <<x>> ELSE <<>>)
        /\ sent' = sent + 1 /\ file' = IF last THEN 0 ELSE file
        /\ posted' = IF last THEN Append(rest, "sendCurrentHeader") ELSE rest
        /\ sendRow' = "Transferring"
    BY <1>4, <2>2 DEF NextChunk
  <2>4. txbuf' = IF more THEN Append(Append(buf, x), x) ELSE Append(buf, x)
    BY <2>2, <2>3, TwoMore
  <2>5. txbuf' \in Seq(Frames) /\ posted' \in Seq(Events) /\ sent' \in Nat /\ file' \in {0} \union Files
    <3>1. Append(buf, x) \in Seq(Frames) /\ Append(Append(buf, x), x) \in Seq(Frames)
      BY <2>2, AppendProperties
    <3> QED BY <2>1, <2>3, <2>4, <3>1, EventFacts DEF Events
  <2>6. TypeOK'
    BY <1>1, <2>3, <2>5, ClientTyped DEF StreamInv, TypeOK
  <2>7. link = "up" => Wire' = IF more THEN Append(Append(Wire, x), x) ELSE Append(Wire, x)
    BY <2>4, WireWritten
  <2>8. link # "up" => Wire' = Wire
    BY DEF Wire
  <2>10. CASE last
    <3>1. BetweenFiles'
      BY <2>1, <2>3, <2>10 DEF BetweenFiles, InFile
    <3>2. Phases'
      BY <2>1, <3>1 DEF Phases
    <3>3. ~InFile' /\ ~Hashing'
      BY <2>1, <2>3, <2>10 DEF InFile, Hashing
    <3>4. \A e \in Cursor : e = Lost \/ e = At(f, m) => Wrote(e)'
      <4>1. m = 0 /\ f = Opened'
        BY <1>1, <2>1, <2>9, <2>10
      <4> QED BY <3>3, <4>1 DEF Wrote, Writes
    <3> QED BY <2>1, <2>2, <2>6, <2>7, <2>8, <2>9, <3>2, <3>4, <1>1, ChunkWritten, ZenonT(40)
  <2>11. CASE ~last
    <3>1. InFile' /\ file' = file /\ Size(file)' = Size(file) /\ sent' = sent + 1
      <4>1. file' = file /\ Size(file)' = Size(file) /\ sent + 1 < Size(file)
        BY <2>1, <2>3, <2>11 DEF Size
      <4> QED BY <1>1, <2>1, <2>3, <2>11, <4>1 DEF InFile
    <3>2. Phases'
      BY <2>1, <3>1 DEF Phases
    <3>3. ~BetweenFiles' /\ ~Hashing'
      BY <2>1, <3>1 DEF BetweenFiles, Hashing, InFile
    <3>4. \A e \in Cursor : e = Lost \/ e = At(f, m) => Wrote(e)'
      <4>1. m = (Size(file) - sent)' /\ f = Opened'
        BY <1>1, <2>1, <2>9, <3>1
      <4> QED BY <2>1, <3>3, <4>1 DEF Wrote, Writes
    <3> QED BY <2>1, <2>2, <2>6, <2>7, <2>8, <2>9, <3>2, <3>4, <1>1, ChunkWritten, ZenonT(40)
  <2> QED BY <2>10, <2>11
<1> QED BY <1>3, <1>4

LEMMA SendNextChunkKeeps == ASSUME StreamInv, SendNextChunk PROVE StreamInv'
<1>1. /\ posted # <<>> /\ Head(posted) = "sendNextChunk" /\ posted \in Seq(Events)
      /\ UNCHANGED <<batch, pending, headerSent, hashing, sock, drift, failed, serverVars, net,
                     link, faults>>
      /\ NextChunk(txbuf, Tail(posted))
  BY DEF SendNextChunk, StreamInv, TypeOK, Events
<1>2. PICK rest \in Seq(Events) : rest = Tail(posted)
  BY <1>1, EventFacts, Zenon
<1>3. /\ Head(<<"delete">>) = "delete" /\ Tail(<<"sendNextChunk">>) = <<>>
      /\ Append(<<>>, "sendCurrentHeader") # <<>>
      /\ Head(Append(<<>>, "sendCurrentHeader")) = "sendCurrentHeader"
      /\ Tail(Append(<<"sendNextChunk">>, "sendCurrentHeader")) = Append(<<>>, "sendCurrentHeader")
  BY EventFacts, ZenonT(40) DEF Events
<1>4. /\ sock \notin {"new", "connecting", "closing"}
      /\ sock = "connected" => BetweenFiles \/ InFile
      /\ sock \in {"gone", "destroyed"} => file = 0
  BY <1>1, <1>3 DEF StreamInv, Phases, Hashing, Ended
<1>5. InFile => rest = <<>>
  BY <1>1, <1>2, <1>3 DEF InFile
<1>6. BetweenFiles => rest = Append(<<>>, "sendCurrentHeader")
  BY <1>1, <1>2, <1>3 DEF BetweenFiles
<1>7. MayWrite(txbuf) => /\ sock = "connected" /\ InFile
                         /\ rest \in {<<>>, <<"sendNextChunk">>}
  BY <1>4, <1>5 DEF MayWrite, BetweenFiles, StreamInv, TypeOK
<1>8. ASSUME posted' = rest, UNCHANGED <<sent, file>>
      PROVE  Phases' /\ \A d \in Cursor : Wrote(d) => Wrote(d)'
  <2>1. /\ BetweenFiles => BetweenFiles'
        /\ InFile => InFile'
    BY <1>1, <1>5, <1>6, <1>8 DEF BetweenFiles, InFile, Size, Opened
  <2>2. Phases'
    BY <1>1, <1>4, <1>8, <2>1 DEF Phases, StreamInv
  <2>3. sock = "connected" => /\ BetweenFiles' => BetweenFiles
                              /\ InFile' => InFile
                              /\ ~Hashing'
    BY <1>1, <1>4, <1>8 DEF BetweenFiles, InFile, Hashing
  <2>4. ASSUME NEW d \in Cursor, Wrote(d) PROVE Wrote(d)'
    BY <1>1, <1>4, <1>8, <2>3, <2>4 DEF Wrote, Writes, Opened, Size
  <2> QED BY <2>2, <2>4
<1>9. net' \in Seq(Frames) /\ net' = net /\ txbuf \in Seq(Frames) /\ (link = "up" => net' \o txbuf = Wire)
  BY <1>1, Types DEF Wire, StreamInv
<1>10. NextChunk(txbuf, rest)
  BY <1>1, <1>2
<1> QED BY <1>1, <1>4, <1>7, <1>8, <1>9, <1>10, NextChunkKeeps

(* Nothing but what is buffered and what the kernel holds is different.    *)
LEMMA SamePhase ==
  ASSUME StreamInv, sock \notin {"new", "connecting"},
         UNCHANGED <<batch, pending, file, sent, headerSent, hashing, posted, sock, link>>
  PROVE  Phases' /\ InTurn' /\ \A d \in Cursor : Wrote(d) => Wrote(d)'
<1>1. Opened' = Opened /\ Size(file)' = Size(file) /\ InTurn'
  BY DEF StreamInv, InTurn, Opened, Size
<1>2. /\ BetweenFiles' = BetweenFiles /\ Hashing' = Hashing /\ InFile' = InFile /\ Ended' = Ended
  BY <1>1 DEF BetweenFiles, Hashing, InFile, Ended
<1>3. Phases'
  BY <1>1, <1>2 DEF StreamInv, Phases
<1>4. ASSUME NEW d \in Cursor, Wrote(d) PROVE Wrote(d)'
  BY <1>1, <1>2, <1>4 DEF Wrote, Writes
<1> QED BY <1>1, <1>3, <1>4

LEMMA BytesWrittenKeeps == ASSUME StreamInv, BytesWritten PROVE StreamInv'
<1>1. /\ sock \in {"connected", "closing"} /\ link = "up"
      /\ UNCHANGED <<batch, pending, headerSent, hashing, sock, drift, failed, serverVars, link,
                     faults>>
      /\ net \in Seq(Frames) /\ txbuf \in Seq(Frames) /\ posted \in Seq(Events)
  BY Types DEF BytesWritten, StreamInv, Events
<1>2. PICK n \in 0..Len(txbuf) : /\ net' = net \o SubSeq(txbuf, 1, n)
                                 /\ OnBytesWritten(SubSeq(txbuf, n + 1, Len(txbuf)))
  BY DEF BytesWritten
<1>3. PICK buf \in Seq(Frames) : buf = SubSeq(txbuf, n + 1, Len(txbuf))
  BY <1>1, <1>2, KernelTakes, Zenon
<1>4. net' \in Seq(Frames) /\ net' \o buf = Wire
  <2>1. net' \in Seq(Frames) /\ net' \o SubSeq(txbuf, n + 1, Len(txbuf)) = net \o txbuf
    BY <1>1, <1>2, KernelTakes
  <2> QED BY <1>1, <1>3, <2>1 DEF Wire
<1>5. OnBytesWritten(buf)
  BY <1>2, <1>3
<1>6. CASE headerSent /\ file # 0
  <2>1. sock = "connected" /\ InFile
    BY <1>1, <1>6 DEF StreamInv, Phases, BetweenFiles, Hashing, Ended
  <2>2. posted \in {<<>>, <<"sendNextChunk">>} /\ NextChunk(buf, posted)
    BY <1>5, <1>6, <2>1 DEF OnBytesWritten, InFile
  <2>3. posted' = posted /\ UNCHANGED <<sent, file>> =>
           Phases' /\ \A d \in Cursor : Wrote(d) => Wrote(d)'
    BY <1>1, SamePhase
  <2> QED BY <1>1, <1>4, <2>1, <2>2, <2>3, NextChunkKeeps
<1>7. CASE ~(headerSent /\ file # 0)
  <2>1. txbuf' = buf /\ UNCHANGED <<file, sent, posted, sendRow>>
    BY <1>5, <1>7 DEF OnBytesWritten
  <2>2. Wire' = Wire
    BY <1>1, <1>4, <2>1 DEF Wire
  <2>3. TypeOK'
    BY <1>1, <1>4, <2>1, ClientTyped DEF StreamInv, TypeOK
  <2>4. Phases' /\ InTurn' /\ \A d \in Cursor : Wrote(d) => Wrote(d)'
    BY <1>1, <2>1, SamePhase
  <2> QED BY <1>1, <2>2, <2>3, <2>4, ClientStill
<1> QED BY <1>6, <1>7

LEMMA Front ==
  ASSUME NEW S, NEW q \in Seq(S), NEW r \in Seq(S), NEW n \in 0..Len(q)
  PROVE  \E s \in Seq(S) : /\ s = SubSeq(q, 1, n) /\ s = SubSeq(q \o r, 1, n)
                           /\ Len(s) = n /\ n \in 0..Len(q \o r)
<1>1. /\ Len(q) \in Nat /\ Len(r) \in Nat /\ q \o r \in Seq(S) /\ Len(q \o r) = Len(q) + Len(r)
      /\ n \in Int /\ 1 \in Int
  BY LenProperties, ConcatProperties
<1>2. \A i \in 1..n : q[i] \in S
  BY <1>1, ElementOfSeq
<1>3. SubSeq(q, 1, n) \in Seq(S) /\ Len(SubSeq(q, 1, n)) = n
  BY <1>1, <1>2, SubSeqProperties
<1>4. SubSeq(q, 1, n) = SubSeq(q \o r, 1, n)
  <2>1. CASE n = 0
    <3>1. SubSeq(q, 1, n) = <<>> /\ SubSeq(q \o r, 1, n) = <<>>
      BY <1>1, <2>1, SubSeqEmpty
    <3> QED BY <3>1
  <2>2. CASE n # 0
    <3>1. 1 \in 1..Len(q) /\ n \in 1..Len(q)
      BY <1>1, <2>2
    <3> QED BY <3>1, SubSeqOfConcat1
  <2> QED BY <2>1, <2>2
<1>5. n \in 0..Len(q \o r)
  BY <1>1
<1> QED BY <1>3, <1>4, <1>5, Zenon

LEMMA SocketErrorKeeps == ASSUME StreamInv, SocketError PROVE StreamInv'
<1>1. /\ link # "up" /\ sock' = "gone" /\ txbuf' = <<>> /\ failed' = TRUE
      /\ file' = 0 /\ sent' = 0 /\ headerSent' = FALSE /\ pending' = <<>>
      /\ posted' = Append(posted, "delete") /\ sendRow' = sendRow
      /\ UNCHANGED <<batch, hashing, drift, serverVars, net, link, faults>>
  BY DEF SocketError, Failed, Cleanup
<1>2. InTurn' /\ pending' \in Seq(Files)
  BY <1>1, NoneLeft DEF StreamInv
<1>3. posted' \in Seq(Events)
  BY <1>1, Types, EventFacts DEF StreamInv, Events
<1>4. TypeOK'
  BY <1>1, <1>2, <1>3, EmptySeq, ClientTyped DEF StreamInv, TypeOK
<1>5. Phases'
  BY <1>1 DEF Phases
<1>6. Wire' = Wire /\ \A d \in Cursor : Wrote(d)'
  BY <1>1 DEF Wire, Wrote
<1> QED BY <1>1, <1>2, <1>4, <1>5, <1>6, ClientStill

LEMMA DeleteKeeps == ASSUME StreamInv, Delete PROVE StreamInv'
<1>1. /\ posted' = <<>> /\ sock' = "destroyed" /\ txbuf' = <<>> /\ hashing' = FALSE
      /\ link' = IF link = "up" /\ sock # "new" THEN "closed" ELSE link
      /\ file' = 0 /\ sent' = 0 /\ headerSent' = FALSE /\ pending' = <<>>
      /\ UNCHANGED <<batch, drift, sendRow, failed, serverVars, net, faults>>
  BY DEF Delete, Cleanup
<1>2. InTurn' /\ pending' \in Seq(Files)
  BY <1>1, NoneLeft DEF StreamInv
<1>3. TypeOK'
  <2>1. link' \in Links
    BY <1>1 DEF StreamInv, TypeOK, Links
  <2>2. posted' \in Seq(Events) /\ txbuf' \in Seq(Frames)
    BY <1>1, EventFacts, EmptySeq
  <2> QED BY <1>1, <1>2, <2>1, <2>2, ClientTyped DEF StreamInv, TypeOK
<1>4. Phases'
  BY <1>1 DEF Phases
<1>5. CASE link = "up" /\ sock # "new"
  <2>1. net \in Seq(Frames) /\ txbuf \in Seq(Frames) /\ Len(net) \in 0..Len(net)
    BY Types, LenProperties DEF StreamInv
  <2>2. PICK s \in Seq(Frames), n \in 0..Len(net \o txbuf) :
           s = SubSeq(net, 1, Len(net)) /\ s = SubSeq(net \o txbuf, 1, n)
    BY <2>1, Front
  <2>3. s = net
    BY <2>1, <2>2, SubSeqFull
  <2>4. Wire' = net /\ Wire = net \o txbuf /\ link' # "up"
    BY <1>1, <1>5 DEF Wire
  <2>5. n \in 0..Len(Wire) /\ Wire' = SubSeq(Wire, 1, n)
    BY <2>2, <2>3, <2>4
  <2> QED BY <1>1, <1>2, <1>3, <1>4, <2>4, <2>5, WireCut
<1>6. CASE link # "up" \/ sock = "new"
  <2>1. Wire' = Wire
    <3>1. CASE link # "up"
      BY <1>1, <3>1 DEF Wire
    <3>2. CASE sock = "new"
      <4>1. net = <<>> /\ txbuf = <<>>
        BY <3>2 DEF StreamInv, Phases
      <4> QED BY <1>1, <3>2, <4>1 DEF Wire
    <3> QED BY <1>6, <3>1, <3>2
  <2>2. \A d \in Cursor : Wrote(d)'
    BY <1>1 DEF Wrote, Writes
  <2> QED BY <1>1, <1>2, <1>3, <1>4, <2>1, <2>2, ClientStill
<1> QED BY <1>5, <1>6

LEMMA BreaksKeeps == ASSUME StreamInv, Breaks PROVE StreamInv'
<1>1. /\ link' # "up" /\ link' \in Links /\ UNCHANGED <<clientVars, serverVars>> /\ Fault
  BY DEF Breaks, Links
<1>2. PICK n \in 0..Len(net) : net' = SubSeq(net, 1, n)
  BY DEF Breaks
<1>3. net \in Seq(Frames) /\ txbuf \in Seq(Frames)
  BY Types DEF StreamInv
<1>4. PICK s \in Seq(Frames) : /\ s = SubSeq(net, 1, n) /\ s = SubSeq(net \o txbuf, 1, n)
                               /\ Len(s) = n /\ n \in 0..Len(net \o txbuf)
  BY <1>3, Front
<1>5. faults' \in 0..MaxFaults
  BY <1>1, FaultType DEF StreamInv, TypeOK
<1>6. TypeOK'
  <2>1. net' \in Seq(Frames)
    BY <1>2, <1>4
  <2> QED BY <1>1, <1>5, <2>1, ClientTyped DEF StreamInv, TypeOK, Events, clientVars
<1>7. Phases' /\ InTurn'
  <2>1. net = <<>> => net' = <<>>
    <3>1. net = <<>> => Len(s) = 0
      BY <1>4, EmptySeq
    <3>2. Len(s) = 0 => s = <<>>
      BY EmptySeq
    <3> QED BY <1>2, <1>4, <3>1, <3>2
  <2> QED BY <1>1, <2>1 DEF StreamInv, Phases, InTurn, BetweenFiles, Hashing, InFile, Ended, Opened,
                            Size, clientVars
<1>8. n \in 0..Len(Wire) /\ Wire' = SubSeq(Wire, 1, n)
  <2>1. Wire' = net'
    BY <1>1 DEF Wire
  <2>2. CASE link = "up"
    <3>1. Wire = net \o txbuf
      BY <2>2 DEF Wire
    <3> QED BY <1>2, <1>4, <2>1, <3>1
  <2>3. CASE link # "up"
    <3>1. Wire = net
      BY <2>3 DEF Wire
    <3> QED BY <1>2, <2>1, <3>1
  <2> QED BY <2>2, <2>3
<1> QED BY <1>1, <1>6, <1>7, <1>8, WireCut DEF clientVars

LEMMA DriftsKeeps == ASSUME StreamInv, Drifts PROVE StreamInv'
<1>1. /\ file # 0 /\ drift[file] = "none" /\ Fault
      /\ UNCHANGED <<batch, pending, file, sent, headerSent, hashing, posted, sock, txbuf,
                     sendRow, failed, serverVars, net, link>>
  BY DEF Drifts
<1>2. PICK x \in {"shrunk", "grown", "changed"} : drift' = [drift EXCEPT ![file] = x]
  BY DEF Drifts
<1>3. Files' = Files /\ Frames' = Frames /\ Sizes' = Sizes /\ file \in Files
  BY <1>1, SameBatch DEF StreamInv, TypeOK
<1>4. drift' \in [Files -> {"none", "shrunk", "grown", "changed"}]
  BY <1>2 DEF StreamInv, TypeOK
<1>5. faults' \in 0..MaxFaults
  BY <1>1, FaultType DEF StreamInv, TypeOK
<1>6. TypeOK'
  BY <1>1, <1>3, <1>4, <1>5 DEF StreamInv, TypeOK, serverVars
<1>7. Phases' /\ InTurn'
  BY <1>1 DEF StreamInv, Phases, InTurn, BetweenFiles, Hashing, InFile, Ended, Opened, Size
<1>8. Grown => Grown'
  <2>1. ASSUME NEW f \in Files, drift[f] = "grown" PROVE drift'[f] = "grown"
    <3>1. f # file
      BY <1>1, <2>1
    <3> QED BY <1>2, <1>3, <2>1, <3>1 DEF StreamInv, TypeOK
  <2> QED BY <1>3, <2>1 DEF Grown, Drifted
<1>9. Wire' = Wire /\ \A c : (Reads(c) => Reads(c)') /\ (Wrote(c) => Wrote(c)')
  <2>1. Wire' = Wire
    BY <1>1 DEF Wire
  <2>2. ASSUME NEW c, Reads(c) PROVE Reads(c)'
    BY <1>1, <1>3, <2>2 DEF Reads, serverVars
  <2>3. ASSUME NEW c, Wrote(c) PROVE Wrote(c)'
    BY <1>1, <2>3 DEF Wrote, Writes, BetweenFiles, Hashing, InFile, Opened, Size
  <2> QED BY <2>1, <2>2, <2>3
<1>10. InStep'
  <2>1. SUFFICES ASSUME xfer' \in {"open", "garbled"}
                 PROVE  \E c, d \in Cursor : (Reads(c) /\ Path(Sizes, Grown, Wire, c, d) /\ Wrote(d))'
    BY DEF InStep
  <2>2. PICK c \in Cursor, d \in Cursor : Reads(c) /\ Path(Sizes, Grown, Wire, c, d) /\ Wrote(d)
    BY <1>1, <2>1 DEF StreamInv, InStep, serverVars
  <2>3. Path(Sizes, Grown', Wire, c, d)
    BY <1>8, <2>2, PathGrown
  <2> QED BY <1>3, <1>9, <2>2, <2>3
<1>11. NeverGarbled' /\ DoneAtEnd' /\ DoneIsComplete'
  <2>1. xfer' = xfer /\ recvRow' = recvRow /\ got' = got
    BY <1>1 DEF serverVars
  <2>2. NeverGarbled'
    BY <1>8, <2>1 DEF StreamInv, NeverGarbled, Grown
  <2>3. DoneAtEnd' /\ DoneIsComplete'
    BY <1>3, <2>1 DEF StreamInv, DoneAtEnd, DoneIsComplete
  <2> QED BY <2>2, <2>3
<1> QED BY <1>6, <1>7, <1>10, <1>11 DEF StreamInv

-----------------------------------------------------------------------------
LEMMA InitStream == ASSUME Init PROVE StreamInv
<1>1. batch \in Seq([dir : BOOLEAN, size : Nat]) /\ Len(batch) \in Nat
  BY BatchesAssumption, LenProperties DEF Init
<1>2. TypeOK
  <2>1. <<>> \in Seq(Files) /\ <<>> \in Seq({"sendCurrentHeader", "sendNextChunk", "delete"})
        /\ <<>> \in Seq(Frames)
    BY EmptySeq
  <2>2. drift \in [Files -> {"none", "shrunk", "grown", "changed"}]
    BY DEF Init
  <2>3. /\ batch \in Batches /\ faults \in 0..MaxFaults /\ pending = <<>> /\ posted = <<>>
        /\ txbuf = <<>> /\ net = <<>> /\ got = <<>> /\ file = 0 /\ receiving = 0
        /\ sent \in Nat /\ left \in Nat
    BY BoundsAssumption DEF Init
  <2>4. /\ headerSent \in BOOLEAN /\ hashing \in BOOLEAN /\ failed \in BOOLEAN /\ intact \in BOOLEAN
        /\ sock = "new" /\ sendRow = "Transferring" /\ link = "up" /\ xfer = "open"
        /\ entry = "pending" /\ recvRow = "Transferring"
    BY DEF Init
  <2> QED BY <2>1, <2>2, <2>3, <2>4 DEF TypeOK, Links
<1>3. Phases /\ NeverGarbled /\ DoneAtEnd /\ DoneIsComplete
  BY DEF Init, Phases, NeverGarbled, DoneAtEnd, DoneIsComplete
<1>4. InTurn
  <2>1. Len(pending) = 0 /\ DOMAIN pending = {}
    BY EmptySeq DEF Init
  <2> QED BY <1>1, <2>1 DEF InTurn
<1>5. Wire = <<>>
  BY DEF Init, Wire
<1>6. Path(Sizes, Grown, <<>>, At(0, 0), At(0, 0)) /\ At(0, 0) \in Cursor
  BY PathEmpty, Cursors
<1>7. Reads(At(0, 0)) /\ Wrote(At(0, 0))
  <2>1. At(0, 0).file = 0 /\ At(0, 0).left = 0 /\ At(0, 0) # Lost
    BY Cursors
  <2>2. Reads(At(0, 0))
    BY <2>1 DEF Init, Reads
  <2>3. Wrote(At(0, 0))
    BY DEF Init, Wrote, Writes
  <2> QED BY <2>2, <2>3
<1>8. InStep
  BY <1>5, <1>6, <1>7 DEF InStep
<1> QED BY <1>2, <1>3, <1>4, <1>8 DEF StreamInv

LEMMA StepKeeps == ASSUME StreamInv, [Next]_vars PROVE StreamInv'
<1>1. CASE UNCHANGED vars
  <2>1. Files' = Files /\ Frames' = Frames /\ Sizes' = Sizes /\ Grown' = Grown /\ Wire' = Wire
    BY <1>1, SameBatch, SameDrift DEF vars, clientVars, Wire
  <2>2. TypeOK' /\ Phases' /\ InTurn'
    BY <1>1, <2>1 DEF vars, clientVars, serverVars, StreamInv, TypeOK, Phases, InTurn, BetweenFiles,
                      Hashing, InFile, Ended, Opened, Size
  <2>3. \A d \in Cursor : Wrote(d) => Wrote(d)'
    BY <1>1 DEF vars, clientVars, Wrote, Writes, BetweenFiles, Hashing, InFile, Opened, Size
  <2> QED BY <1>1, <2>1, <2>2, <2>3, ClientStill DEF vars, clientVars
<1>2. CASE Client
  BY <1>2, StartKeeps, ConnectedKeeps, SendCurrentHeaderKeeps, HashReadyKeeps, SendNextChunkKeeps,
     BytesWrittenKeeps, SocketErrorKeeps, DeleteKeeps DEF Client
<1>3. CASE Server
  BY <1>3, ReceiveKeeps, PeerClosedKeeps DEF Server
<1>4. CASE Breaks \/ Drifts
  BY <1>4, BreaksKeeps, DriftsKeeps
<1> QED BY <1>1, <1>2, <1>3, <1>4 DEF Next

LEMMA StreamInvariant == Spec => []StreamInv
<1>1. Init => StreamInv
  BY InitStream
<1>2. StreamInv /\ [Next]_vars => StreamInv'
  BY StepKeeps
<1> QED BY <1>1, <1>2, PTL DEF Spec

(* Every variable of the stream keeps its type, whatever is posted,        *)
(* buffered or lost (TransferClient.h, TransferServer.h).                  *)
THEOREM StreamTyped == Spec => []TypeOK
<1>1. StreamInv => TypeOK
  BY DEF StreamInv
<1> QED BY <1>1, StreamInvariant, PTL

(* R takes payload for a frame only when a file grew while it was read: in *)
(* whichever order the posted calls, bytesWritten and the watcher come,    *)
(* the frames written are those R expects (TransferClient.cpp:59-62, 216,  *)
(* 255-258, TransferServer.cpp:91-138).                                    *)
THEOREM StreamInStep == Spec => []NeverGarbled
<1>1. StreamInv => NeverGarbled
  BY DEF StreamInv
<1> QED BY <1>1, StreamInvariant, PTL

(* R's row is Done only when each file of the offer has been reported, in  *)
(* order and once, for any batch and any failures and changes of the files *)
(* (TransferServer.cpp:69-89, App.cpp:151-181).                            *)
THEOREM StreamDoneComplete == Spec => []DoneIsComplete
<1>1. StreamInv => DoneIsComplete
  BY DEF StreamInv
<1> QED BY <1>1, StreamInvariant, PTL

=============================================================================
