--------------------------- MODULE Presence_proofs ---------------------------
(***************************************************************************)
(* Proofs about Presence, for any peers, fingerprints, times and failures: *)
(* types, that everyone who must be asked about is, and that the peers     *)
(* taken to be online are those of the records.                            *)
(***************************************************************************)
EXTENDS Presence, SequenceTheorems, FiniteSetTheorems, TLAPS

(* Only readyRead ever waits for a dialog, so one dialog at most is open:  *)
(* the expire timer drops records, and nobody is left to be asked about by *)
(* that.  The peer it is about has been asked about, as long as it has a   *)
(* record.                                                                 *)
Alone == /\ Len(calls) <= 1
         /\ \A i \in DOMAIN calls :
               /\ calls[i].source = "readyRead"
               /\ calls[i].asking.id \in Ids(records) => calls[i].asking.id \in Prompted(asked)

(* When the expire timer has fired no record is older than Expire.         *)
Younger == ~due => \A i \in DOMAIN records : records[i].age <= Expire

Inv == TypeOK /\ NobodyMissed /\ OnlineIsRecorded /\ Alone /\ Younger

(* What a slot leaves behind: the invariant of its own variables.          *)
Settled == /\ NobodyMissed /\ OnlineIsRecorded /\ Alone
           /\ online \subseteq Peers /\ asked \subseteq Peers \X Prints /\ calls \in Seq(Call)

(* Nobody in recs is new: each is as in the records, but for the age.      *)
Familiar(r) == \E i \in DOMAIN records : records[i].id = r.id /\ records[i].print = r.print

IsUnique(recs) == \A i, j \in DOMAIN recs : recs[i].id = recs[j].id => i = j

-----------------------------------------------------------------------------
(* What removeIf keeps: the records at the places in kept, each once.      *)
LEMMA PlaceFacts ==
  ASSUME NEW n \in Nat, NEW kept \in SUBSET (1..n)
  PROVE  /\ Cardinality(kept) \in 0..n
         /\ Cardinality(kept) = n => kept = 1..n
         /\ \A k \in 1..Cardinality(kept) : Place(kept, k) \in kept
         /\ \A j, k \in 1..Cardinality(kept) : Place(kept, j) = Place(kept, k) => j = k
         /\ \A i \in kept : \E k \in 1..Cardinality(kept) : Place(kept, k) = i
<1> DEFINE upto(i) == {j \in kept : j <= i}
           rank == [i \in kept |-> Cardinality(upto(i))]
           size == Cardinality(kept)
<1>1. IsFiniteSet(1..n) /\ Cardinality(1..n) = n
  BY FS_Interval
<1>2. IsFiniteSet(kept) /\ size \in 0..n /\ (size = n => kept = 1..n)
  <2>1. IsFiniteSet(kept) /\ size <= n /\ (n = size => 1..n = kept)
    BY <1>1, FS_Subset
  <2>2. size \in Nat
    BY <2>1, FS_CardinalityType
  <2> QED BY <2>1, <2>2
<1>3. ASSUME NEW i \in kept PROVE rank[i] \in 1..size
  <2>1. upto(i) \in SUBSET kept /\ i \in upto(i)
    BY <1>3
  <2>2. IsFiniteSet(upto(i)) /\ Cardinality(upto(i)) <= size
    BY <2>1, <1>2, FS_Subset
  <2>3. Cardinality(upto(i)) \in Nat /\ Cardinality(upto(i)) # 0
    BY <2>1, <2>2, FS_CardinalityType, FS_EmptySet
  <2> QED BY <1>2, <2>2, <2>3
<1>4. ASSUME NEW i \in kept, NEW j \in kept, i < j PROVE rank[i] # rank[j]
  <2> \A k \in kept : k \in Int
    OBVIOUS
  <2>1. upto(i) \in SUBSET upto(j)
    <3>1. \A k \in kept : k <= i => k <= j
      BY <1>4
    <3> QED BY <3>1
  <2>2. j \notin upto(i) /\ j \in upto(j)
    BY <1>4
  <2>3. upto(j) \in SUBSET kept
    OBVIOUS
  <2>4. IsFiniteSet(upto(j))
    BY <2>3, <1>2, FS_Subset
  <2>5. Cardinality(upto(j)) # Cardinality(upto(i))
    BY <2>1, <2>2, <2>4, FS_Subset
  <2> QED BY <2>5
<1>5. ASSUME NEW i \in kept, NEW j \in kept, rank[i] = rank[j] PROVE i = j
  BY <1>4, <1>5
<1>6. rank \in Injection(kept, 1..size)
  BY <1>3, <1>5 DEF Injection, IsInjective
<1>7. IsFiniteSet(1..size) /\ Cardinality(1..size) = size
  BY <1>2, FS_Interval
<1>8. rank \in Surjection(kept, 1..size)
  BY <1>6, <1>7, FS_Injection
<1>9. ASSUME NEW k \in 1..size
      PROVE  Place(kept, k) \in kept /\ Cardinality(upto(Place(kept, k))) = k
  <2>1. \E i \in kept : Cardinality(upto(i)) = k
    BY <1>8 DEF Surjection
  <2> QED BY <2>1 DEF Place
<1>10. ASSUME NEW i \in kept PROVE \E k \in 1..size : Place(kept, k) = i
  <2>1. rank[i] \in 1..size
    BY <1>3
  <2>2. Place(kept, rank[i]) \in kept /\ rank[Place(kept, rank[i])] = rank[i]
    BY <2>1, <1>9
  <2> QED BY <2>1, <2>2, <1>5
<1> QED BY <1>2, <1>9, <1>10

(* Kept(recs, kept) is a part of recs, without repetition.                 *)
LEMMA KeptFacts ==
  ASSUME NEW recs \in Seq(Record), NEW kept \in SUBSET DOMAIN recs
  PROVE  /\ Kept(recs, kept) \in Seq(Record)
         /\ Len(Kept(recs, kept)) \in 0..Len(recs)
         /\ Len(Kept(recs, kept)) = Len(recs) => kept = DOMAIN recs
         /\ \A k \in DOMAIN Kept(recs, kept) : \E i \in kept : Kept(recs, kept)[k] = recs[i]
         /\ \A i \in kept : \E k \in DOMAIN Kept(recs, kept) : Kept(recs, kept)[k] = recs[i]
         /\ IsUnique(recs) => IsUnique(Kept(recs, kept))
<1>1. Len(recs) \in Nat /\ DOMAIN recs = 1..Len(recs)
  BY LenProperties
<1>2. CASE kept = DOMAIN recs
  BY <1>1, <1>2 DEF Kept
<1>3. CASE kept # DOMAIN recs
  <2> DEFINE n == Cardinality(kept)
             part == [k \in 1..n |-> recs[Place(kept, k)]]
  <2>1. Kept(recs, kept) = part
    BY <1>3 DEF Kept
  <2>2. /\ n \in 0..Len(recs) /\ n # Len(recs)
        /\ \A k \in 1..n : Place(kept, k) \in kept
        /\ \A j, k \in 1..n : Place(kept, j) = Place(kept, k) => j = k
        /\ \A i \in kept : \E k \in 1..n : Place(kept, k) = i
    BY <1>1, <1>3, PlaceFacts
  <2>3. \A i \in DOMAIN recs : recs[i] \in Record
    BY <1>1, ElementOfSeq
  <2>4. part \in [1..n -> Record]
    BY <2>2, <2>3
  <2>5. part \in Seq(Record) /\ Len(part) = n /\ DOMAIN part = 1..n
    BY <2>2, <2>4, SeqDef, LenProperties
  <2> HIDE DEF n
  <2> QED BY <2>1, <2>2, <2>5 DEF IsUnique
<1> QED BY <1>2, <1>3
-----------------------------------------------------------------------------
(* What type correctness says of the sequences.                            *)
LEMMA Elements ==
  ASSUME TypeOK
  PROVE  /\ DOMAIN records = 1..Len(records) /\ Len(records) \in Nat
         /\ \A i \in DOMAIN records : records[i] \in Record
         /\ DOMAIN calls = 1..Len(calls) /\ Len(calls) \in Nat
         /\ \A i \in DOMAIN calls : calls[i] \in Call
         /\ inbox # <<>> => Head(inbox) \in Datagram /\ Tail(inbox) \in Seq(Datagram)
  BY ElementOfSeq, LenProperties, HeadTailProperties DEF TypeOK

LEMMA PromptedFact == ASSUME NEW p, NEW f, NEW pairs, <<p, f>> \in pairs PROVE p \in Prompted(pairs)
  BY DEF Prompted

(* The loop of the slot opens a dialog about the first record that needs   *)
(* one, and nothing else.                                                  *)
LEMMA AskFacts ==
  ASSUME NEW snapshot \in Seq(Record), NEW source \in Sources,
         NEW trusted, NEW pairs \in SUBSET (Peers \X Prints),
         AskAbout(snapshot, source, trusted, pairs, <<>>)
  PROVE  /\ asked' \subseteq Peers \X Prints /\ pairs \subseteq asked'
         /\ calls' \in Seq(Call) /\ Len(calls') <= 1
         /\ \A i \in DOMAIN calls' : /\ calls'[i].source = source
                                     /\ calls'[i].asking.id \in Prompted(asked')
         /\ (\A i, j \in DOMAIN snapshot :
                MustAsk(snapshot[i], trusted, pairs) /\ MustAsk(snapshot[j], trusted, pairs) => i = j)
            => \A i \in DOMAIN snapshot : ~MustAsk(snapshot[i], trusted, asked')
<1> DEFINE open == {i \in DOMAIN snapshot : MustAsk(snapshot[i], trusted, pairs)}
<1>1. Len(snapshot) \in Nat /\ DOMAIN snapshot = 1..Len(snapshot)
      /\ \A i \in DOMAIN snapshot : snapshot[i] \in Record
  BY LenProperties, ElementOfSeq
<1>2. CASE open = {}
  <2>1. asked' = pairs /\ calls' = <<>>
    BY <1>2 DEF AskAbout
  <2> QED BY <2>1, <1>2, EmptySeq
<1>3. CASE open # {}
  <2>1. PICK i \in open :
           /\ asked' = pairs \union {<<snapshot[i].id, snapshot[i].print>>}
           /\ calls' = Append(<<>>, [source |-> source, asking |-> snapshot[i],
                                    rest |-> SubSeq(snapshot, i + 1, Len(snapshot))])
    BY <1>3 DEF AskAbout
  <2> DEFINE r == snapshot[i]
             rest == SubSeq(snapshot, i + 1, Len(snapshot))
             call == [source |-> source, asking |-> r, rest |-> rest]
  <2>2. r \in Record /\ r.print # NoPrint
    BY <1>1 DEF MustAsk
  <2>3. r.id \in Peers /\ r.print \in Prints
    BY <2>2 DEF Record, AnyPrint
  <2>4. rest \in Seq(Record)
    <3>1. \A j \in (i + 1)..Len(snapshot) : snapshot[j] \in Record
      BY <1>1
    <3> QED BY <3>1, <1>1, SubSeqProperties
  <2>5. call \in Call
    BY <2>2, <2>4 DEF Call
  <2> HIDE DEF call
  <2>6. /\ Append(<<>>, call) \in Seq(Call) /\ Len(Append(<<>>, call)) = 1
        /\ DOMAIN Append(<<>>, call) = 1..1 /\ Append(<<>>, call)[1] = call
    BY <2>5, EmptySeq, AppendProperties, LenProperties
  <2>7. calls' = Append(<<>>, call)
    BY <2>1 DEF call
  <2>8. asked' = pairs \union {<<r.id, r.print>>} /\ r.id \in Prompted(asked')
    BY <2>1, PromptedFact
  <2>9. pairs \subseteq asked' /\ asked' \subseteq Peers \X Prints
    BY <2>3, <2>8
  <2>10. ASSUME NEW j \in DOMAIN snapshot, MustAsk(snapshot[j], trusted, asked'),
                \A k, l \in open : k = l
         PROVE  FALSE
    <3>1. j \in open
      BY <2>9, <2>10 DEF MustAsk, Prompted
    <3>2. j = i
      BY <3>1, <2>10
    <3> QED BY <3>2, <2>8, <2>10 DEF MustAsk
  <2>11. call.source = source /\ call.asking.id = r.id
    BY DEF call
  <2>12. (\A k, l \in open : k = l)
         => \A j \in DOMAIN snapshot : ~MustAsk(snapshot[j], trusted, asked')
    BY <2>10
  <2>13. \A k \in DOMAIN calls' : calls'[k] = call
    BY <2>6, <2>7
  <2>14. /\ calls' \in Seq(Call) /\ Len(calls') <= 1
         /\ \A k \in DOMAIN calls' : /\ calls'[k].source = source
                                     /\ calls'[k].asking.id \in Prompted(asked')
    BY <2>6, <2>7, <2>8, <2>11, <2>13
  <2>15. ASSUME \A k, l \in DOMAIN snapshot :
                   MustAsk(snapshot[k], trusted, pairs) /\ MustAsk(snapshot[l], trusted, pairs) => k = l
         PROVE  \A j \in DOMAIN snapshot : ~MustAsk(snapshot[j], trusted, asked')
    BY <2>12, <2>15
  <2> QED BY <2>9, <2>14, <2>15
<1> QED BY <1>2, <1>3

LEMMA AskNobody ==
  ASSUME NEW snapshot, NEW source, NEW trusted, NEW pairs, NEW below,
         \A i \in DOMAIN snapshot : ~MustAsk(snapshot[i], trusted, pairs),
         AskAbout(snapshot, source, trusted, pairs, below)
  PROVE  asked' = pairs /\ calls' = below
  BY DEF AskAbout

(* What peersChanged forgets it forgets of peers that are gone.            *)
LEMMA ForgetFacts ==
  ASSUME NEW gone, NEW p, p \notin gone
  PROVE  p \in Prompted(asked) => p \in Prompted({a \in asked : a[1] \notin gone})
  BY DEF Prompted

LEMMA FamiliarFacts ==
  ASSUME Inv, NEW recs \in Seq(Record), NEW j \in DOMAIN recs, Familiar(recs[j])
  PROVE  /\ recs[j].id \in Ids(records)
         /\ ~MustAsk(recs[j], known, asked)
         /\ ~MustAsk(recs[j], known, {a \in asked : a[1] \notin online \ Ids(recs)})
<1>1. recs[j].id \in Ids(records) /\ ~MustAsk(recs[j], known, asked)
  BY DEF Familiar, Inv, NobodyMissed, MustAsk, Ids
<1>2. recs[j].id \notin online \ Ids(recs)
  BY DEF Ids
<1> QED BY <1>1, <1>2, ForgetFacts DEF MustAsk

LEMMA IdsFacts ==
  ASSUME NEW recs \in Seq(Record)
  PROVE  Ids(recs) \subseteq Peers /\ \A j \in DOMAIN recs : recs[j].id \in Ids(recs)
<1>1. \A j \in DOMAIN recs : recs[j] \in Record
  BY LenProperties, ElementOfSeq
<1>2. \A j \in DOMAIN recs : recs[j].id \in Peers
  BY <1>1 DEF Record
<1> QED BY <1>2 DEF Ids

(* A datagram makes news of one peer at most.                              *)
LEMMA NewsSettled ==
  ASSUME Inv, calls = <<>>, NEW p, NEW recs \in Seq(Record), IsUnique(recs),
         \A j \in DOMAIN recs : recs[j].id = p \/ Familiar(recs[j]),
         PeersChanged(recs, "readyRead"), records' = recs, known' = known
  PROVE  Settled'
<1> DEFINE pairs == {a \in asked : a[1] \notin online \ Ids(recs)}
<1>1. pairs \in SUBSET (Peers \X Prints)
  BY DEF Inv, TypeOK
<1>2. AskAbout(recs, "readyRead", known, pairs, <<>>) /\ online' = Ids(recs)
  BY DEF PeersChanged
<1> HIDE DEF pairs
<1>3. \A j \in DOMAIN recs : MustAsk(recs[j], known, pairs) => recs[j].id = p
  BY FamiliarFacts DEF pairs
<1>4. \A i, j \in DOMAIN recs :
         MustAsk(recs[i], known, pairs) /\ MustAsk(recs[j], known, pairs) => i = j
  BY <1>3 DEF IsUnique
<1>5. /\ asked' \subseteq Peers \X Prints
      /\ calls' \in Seq(Call) /\ Len(calls') <= 1
      /\ \A i \in DOMAIN calls' : /\ calls'[i].source = "readyRead"
                                  /\ calls'[i].asking.id \in Prompted(asked')
      /\ \A i \in DOMAIN recs : ~MustAsk(recs[i], known, asked')
  BY <1>1, <1>2, <1>4, AskFacts DEF Sources
<1>6. NobodyMissed' /\ Alone'
  BY <1>5 DEF NobodyMissed, Alone
<1>7. OnlineIsRecorded' /\ online' \subseteq Peers
  BY <1>2, IdsFacts DEF OnlineIsRecorded, IsUnique
<1> QED BY <1>5, <1>6, <1>7 DEF Settled

(* When records are dropped, there is nobody to ask about.                 *)
LEMMA DroppedSettled ==
  ASSUME Inv, NEW source, NEW recs \in Seq(Record), IsUnique(recs),
         \A j \in DOMAIN recs : Familiar(recs[j]),
         PeersChanged(recs, source), records' = recs, known' = known
  PROVE  Settled'
<1> DEFINE pairs == {a \in asked : a[1] \notin online \ Ids(recs)}
<1>1. AskAbout(recs, source, known, pairs, calls) /\ online' = Ids(recs)
  BY DEF PeersChanged
<1>2. \A j \in DOMAIN recs : ~MustAsk(recs[j], known, pairs)
  BY FamiliarFacts
<1>3. asked' = pairs /\ calls' = calls
  BY <1>1, <1>2, AskNobody
<1>4. NobodyMissed'
  BY <1>2, <1>3 DEF NobodyMissed
<1>5. OnlineIsRecorded' /\ online' \subseteq Peers
  BY <1>1, IdsFacts DEF OnlineIsRecorded, IsUnique
<1>6. Ids(recs) \subseteq Ids(records)
  BY FamiliarFacts DEF Ids
<1>7. \A i \in DOMAIN calls : calls[i].asking.id \in Ids(recs) => calls[i].asking.id \in Prompted(pairs)
  BY <1>6, ForgetFacts DEF Inv, Alone
<1>8. Alone'
  BY <1>3, <1>7 DEF Inv, Alone
<1>9. asked' \subseteq Peers \X Prints /\ calls' \in Seq(Call)
  BY <1>3 DEF Inv, TypeOK
<1> QED BY <1>4, <1>5, <1>8, <1>9 DEF Settled

LEMMA SameSettled ==
  ASSUME Inv, NEW recs \in Seq(Record), IsUnique(recs),
         \A j \in DOMAIN recs : Familiar(recs[j]), Ids(recs) = Ids(records),
         records' = recs, UNCHANGED <<online, asked, known, calls>>
  PROVE  Settled'
<1>1. NobodyMissed'
  BY FamiliarFacts DEF NobodyMissed
<1>2. OnlineIsRecorded' /\ Alone'
  BY DEF Inv, OnlineIsRecorded, IsUnique, Alone
<1> QED BY <1>1, <1>2 DEF Inv, TypeOK, Settled

-----------------------------------------------------------------------------
(* The steps.                                                              *)
LEMMA InitInv == Init => Inv
<1> SUFFICES ASSUME Init PROVE Inv
  OBVIOUS
<1>1. TypeOK
  <2>1. inbox \in Seq(Datagram) /\ records \in Seq(Record) /\ calls \in Seq(Call)
    BY EmptySeq DEF Init
  <2>2. known \in [Peers -> AnyPrint]
    BY DEF Init, AnyPrint
  <2>3. faults \in 0..MaxFaults
    BY BoundsAssumption DEF Init
  <2> QED BY <2>1, <2>2, <2>3 DEF Init, TypeOK
<1>2. NobodyMissed /\ OnlineIsRecorded /\ Alone /\ Younger
  BY EmptySeq DEF Init, NobodyMissed, OnlineIsRecorded, Ids, Alone, Younger
<1> QED BY <1>1, <1>2 DEF Inv

(* The parts of a list, after a removal.                                   *)
LEMMA KeptFamiliar ==
  ASSUME Inv, NEW kept \in SUBSET DOMAIN records
  PROVE  LET recs == Kept(records, kept) IN
         /\ recs \in Seq(Record) /\ IsUnique(recs)
         /\ \A j \in DOMAIN recs : Familiar(recs[j])
         /\ Ids(recs) = {records[i].id : i \in kept}
         /\ \A n : (\A i \in kept : records[i].age <= n) => \A j \in DOMAIN recs : recs[j].age <= n
         /\ Len(recs) < Len(records) \/ (kept = DOMAIN records /\ Ids(recs) = Ids(records))
<1> DEFINE recs == Kept(records, kept)
<1>1. records \in Seq(Record) /\ IsUnique(records) /\ Len(records) \in Nat
  BY LenProperties DEF Inv, TypeOK, OnlineIsRecorded, IsUnique
<1>2. /\ recs \in Seq(Record) /\ IsUnique(recs) /\ Len(recs) \in 0..Len(records)
      /\ Len(recs) = Len(records) => kept = DOMAIN records
      /\ \A k \in DOMAIN recs : \E i \in kept : recs[k] = records[i]
      /\ \A i \in kept : \E k \in DOMAIN recs : recs[k] = records[i]
  BY <1>1, KeptFacts
<1> HIDE DEF recs
<1>3. \A j \in DOMAIN recs : Familiar(recs[j])
  BY <1>2 DEF Familiar
<1>4. Ids(recs) = {records[i].id : i \in kept}
  BY <1>2 DEF Ids
<1>5. Len(recs) < Len(records) \/ (kept = DOMAIN records /\ Ids(recs) = Ids(records))
  <2>1. CASE Len(recs) = Len(records)
    <3>1. kept = DOMAIN records
      BY <2>1, <1>2
    <3> QED BY <3>1, <1>4 DEF Ids
  <2>2. CASE Len(recs) # Len(records)
    BY <2>2, <1>1, <1>2
  <2> QED BY <2>1, <2>2
<1>6. \A n : (\A i \in kept : records[i].age <= n) => \A j \in DOMAIN recs : recs[j].age <= n
  BY <1>2
<1> QED BY <1>2, <1>3, <1>4, <1>5, <1>6 DEF recs

(* An announcement leaves each peer one record: its own is fresh, the      *)
(* others are as before.                                                   *)
LEMMA HeardFacts ==
  ASSUME Inv, NEW d \in Datagram
  PROVE  /\ Heard(d) \in Seq(Record) /\ IsUnique(Heard(d))
         /\ \A j \in DOMAIN Heard(d) : Heard(d)[j].id = d.id \/ Familiar(Heard(d)[j])
         /\ ~IsNews(d) => /\ \A j \in DOMAIN Heard(d) : Familiar(Heard(d)[j])
                          /\ Ids(Heard(d)) = Ids(records)
         /\ Younger => (~due => \A j \in DOMAIN Heard(d) : Heard(d)[j].age <= Expire)
<1> DEFINE r == [id |-> d.id, print |-> d.print, age |-> 0]
<1>1. r \in Record /\ r.age <= Expire /\ r.id = d.id /\ r.print = d.print
  BY BoundsAssumption DEF Record, Datagram
<1>2. /\ DOMAIN records = 1..Len(records) /\ Len(records) \in Nat /\ records \in Seq(Record)
      /\ \A i \in DOMAIN records : records[i] \in Record
      /\ IsUnique(records)
  BY Elements DEF Inv, TypeOK, OnlineIsRecorded, IsUnique
<1>3. \A i \in DOMAIN records : Familiar(records[i])
  BY DEF Familiar
<1>4. CASE d.id \in Ids(records)
  <2> DEFINE updated == [i \in DOMAIN records |-> IF records[i].id = d.id THEN r ELSE records[i]]
  <2>1. Heard(d) = updated
    BY <1>4 DEF Heard
  <2> HIDE DEF r
  <2>2. updated \in [1..Len(records) -> Record]
    BY <1>1, <1>2
  <2>3. updated \in Seq(Record) /\ DOMAIN updated = DOMAIN records
    BY <2>2, <1>2, SeqDef
  <2>4. \A i \in DOMAIN records : updated[i].id = records[i].id
    BY <1>1
  <2>5. IsUnique(updated) /\ Ids(updated) = Ids(records)
    BY <2>3, <2>4, <1>2 DEF IsUnique, Ids
  <2>6. \A j \in DOMAIN updated : updated[j].id = d.id \/ Familiar(updated[j])
    BY <2>3, <1>1, <1>3
  <2>7. ASSUME ~IsNews(d), NEW j \in DOMAIN updated PROVE Familiar(updated[j])
    BY <2>3, <2>7, <1>1, <1>3 DEF IsNews, Familiar
  <2>8. ASSUME Younger, ~due, NEW j \in DOMAIN updated PROVE updated[j].age <= Expire
    BY <2>3, <2>8, <1>1 DEF Younger
  <2> HIDE DEF updated
  <2> QED BY <2>1, <2>3, <2>5, <2>6, <2>7, <2>8
<1>5. CASE d.id \notin Ids(records)
  <2> DEFINE longer == Append(records, r)
  <2>1. Heard(d) = longer
    BY <1>5 DEF Heard
  <2> HIDE DEF r
  <2>2. /\ longer \in Seq(Record) /\ DOMAIN longer = 1..(Len(records) + 1)
        /\ \A i \in 1..Len(records) : longer[i] = records[i]
        /\ longer[Len(records) + 1] = r
    <3>1. longer \in Seq(Record) /\ Len(longer) = Len(records) + 1
          /\ \A i \in 1..Len(records) : longer[i] = records[i]
          /\ longer[Len(records) + 1] = r
      BY <1>1, <1>2, AppendProperties
    <3> QED BY <3>1, LenProperties
  <2>3. \A i \in 1..Len(records) : longer[i].id # d.id
    BY <2>2, <1>2, <1>5 DEF Ids
  <2> HIDE DEF longer
  <2>4. IsUnique(longer)
    BY <2>2, <2>3, <1>1, <1>2 DEF IsUnique
  <2>5. \A j \in DOMAIN longer : longer[j].id = d.id \/ Familiar(longer[j])
    BY <2>2, <1>1, <1>2, <1>3
  <2>6. IsNews(d)
    BY <1>5 DEF IsNews, Ids
  <2>7. ASSUME Younger, ~due, NEW j \in DOMAIN longer PROVE longer[j].age <= Expire
    BY <2>2, <2>7, <1>1, <1>2 DEF Younger
  <2> QED BY <2>1, <2>2, <2>4, <2>5, <2>6, <2>7
<1> QED BY <1>4, <1>5

(* A datagram: with no dialog of readyRead open there is none at all.      *)
LEMMA ReadInv == Inv /\ ReadDatagram => Inv'
<1> SUFFICES ASSUME Inv, ReadDatagram PROVE Inv'
  OBVIOUS
<1> DEFINE d == Head(inbox)
<1>1. d \in Datagram /\ inbox' \in Seq(Datagram) /\ calls = <<>> /\ known' = known
  <2>1. d \in Datagram /\ Tail(inbox) \in Seq(Datagram)
        /\ DOMAIN calls = 1..Len(calls) /\ Len(calls) \in Nat
    BY Elements DEF Inv, ReadDatagram
  <2>2. calls = <<>>
    BY <2>1, EmptySeq DEF Inv, Alone, ReadDatagram, Running, TypeOK
  <2> QED BY <2>1, <2>2 DEF ReadDatagram
<1>2. Settled' /\ records' \in Seq(Record) /\ Younger'
  <2>1. CASE d.bye
    <3> DEFINE kept == {i \in DOMAIN records : records[i].id # d.id}
               recs == Without(records, d.id)
    <3>1. /\ recs \in Seq(Record) /\ IsUnique(recs) /\ \A j \in DOMAIN recs : Familiar(recs[j])
          /\ Ids(recs) = {records[i].id : i \in kept}
          /\ \A n : (\A i \in kept : records[i].age <= n) => \A j \in DOMAIN recs : recs[j].age <= n
      BY KeptFamiliar DEF Without
    <3>2. records' = recs /\ due' = due
          /\ IF d.id \in Ids(records) THEN PeersChanged(recs, "readyRead")
                                      ELSE UNCHANGED <<online, asked, calls>>
      BY <2>1 DEF ReadDatagram
    <3> HIDE DEF recs
    <3>3. Younger'
      BY <3>1, <3>2 DEF Inv, Younger
    <3>4. ASSUME d.id \in Ids(records) PROVE Settled'
      BY <3>1, <3>2, <3>4, <1>1, DroppedSettled
    <3>5. ASSUME d.id \notin Ids(records) PROVE Settled'
      <4>1. Ids(recs) = Ids(records)
        BY <3>1, <3>5 DEF Ids
      <4> QED BY <4>1, <3>1, <3>2, <3>5, <1>1, SameSettled
    <3> QED BY <3>1, <3>2, <3>3, <3>4, <3>5
  <2>2. CASE ~d.bye
    <3>1. records' = Heard(d) /\ due' = due
          /\ IF IsNews(d) THEN PeersChanged(Heard(d), "readyRead")
                          ELSE UNCHANGED <<online, asked, calls>>
      BY <2>2 DEF ReadDatagram
    <3>2. /\ Heard(d) \in Seq(Record) /\ IsUnique(Heard(d))
          /\ \A j \in DOMAIN Heard(d) : Heard(d)[j].id = d.id \/ Familiar(Heard(d)[j])
          /\ ~IsNews(d) => /\ \A j \in DOMAIN Heard(d) : Familiar(Heard(d)[j])
                           /\ Ids(Heard(d)) = Ids(records)
          /\ Younger => (~due => \A j \in DOMAIN Heard(d) : Heard(d)[j].age <= Expire)
      BY <1>1, HeardFacts
    <3>3. Younger'
      BY <3>1, <3>2 DEF Inv, Younger
    <3>4. ASSUME IsNews(d) PROVE Settled'
      BY <3>1, <3>2, <3>4, <1>1, NewsSettled
    <3>5. ASSUME ~IsNews(d) PROVE Settled'
      BY <3>1, <3>2, <3>5, <1>1, SameSettled
    <3> QED BY <3>1, <3>2, <3>3, <3>4, <3>5
  <2> QED BY <2>1, <2>2
<1>3. TypeOK'
  BY <1>1, <1>2 DEF Inv, TypeOK, ReadDatagram, peerVars, Settled
<1> QED BY <1>2, <1>3 DEF Inv, Settled

LEMMA ExpireInv == Inv /\ ExpireTimer => Inv'
<1> SUFFICES ASSUME Inv, ExpireTimer PROVE Inv'
  OBVIOUS
<1> DEFINE kept == {i \in DOMAIN records : records[i].age <= Expire}
           recs == Fresh(records)
<1>1. /\ recs \in Seq(Record) /\ IsUnique(recs) /\ \A j \in DOMAIN recs : Familiar(recs[j])
      /\ \A n : (\A i \in kept : records[i].age <= n) => \A j \in DOMAIN recs : recs[j].age <= n
      /\ Len(recs) < Len(records) \/ (kept = DOMAIN records /\ Ids(recs) = Ids(records))
  BY KeptFamiliar DEF Fresh
<1>2. /\ records' = recs /\ known' = known
      /\ IF Len(recs) < Len(records) THEN PeersChanged(recs, "timeout")
                                     ELSE UNCHANGED <<online, asked, calls>>
  BY DEF ExpireTimer
<1>3. \A j \in DOMAIN recs : recs[j].age <= Expire
  BY <1>1
<1> HIDE DEF recs
<1>4. Settled'
  <2>1. CASE Len(recs) < Len(records)
    BY <2>1, <1>1, <1>2, DroppedSettled
  <2>2. CASE ~(Len(recs) < Len(records))
    BY <2>2, <1>1, <1>2, SameSettled
  <2> QED BY <2>1, <2>2
<1>5. Younger'
  BY <1>2, <1>3 DEF Younger
<1>6. TypeOK'
  BY <1>1, <1>2, <1>4 DEF Inv, TypeOK, ExpireTimer, peerVars, Settled
<1> QED BY <1>4, <1>5, <1>6 DEF Inv, Settled

(* The slot of the dialog goes on with records that may be out of date;    *)
(* what is trusted changes for a peer that has been asked about.           *)
LEMMA AnswerInv == Inv /\ Answer => Inv'
<1> SUFFICES ASSUME Inv, Answer PROVE Inv'
  OBVIOUS
<1>1. PICK call \in Call :
         /\ Len(calls) = 1 /\ call = Last(calls) /\ call.source = "readyRead"
         /\ call.asking.id \in Ids(records) => call.asking.id \in Prompted(asked)
  <2>1. DOMAIN calls = 1..Len(calls) /\ Len(calls) \in Nat /\ \A i \in DOMAIN calls : calls[i] \in Call
    BY Elements DEF Inv
  <2>2. Len(calls) = 1
    BY <2>1, EmptySeq DEF Inv, Alone, Answer, TypeOK
  <2>3. Last(calls) = calls[1]
    BY <2>2 DEF Last
  <2> QED BY <2>1, <2>2, <2>3 DEF Inv, Alone
<1>2. Front(calls) = <<>>
  BY <1>1, SubSeqEmpty DEF Front
<1> DEFINE p == call.asking
<1>3. call.rest \in Seq(Record) /\ p \in Record /\ "readyRead" \in Sources
  BY DEF Call, Sources
<1>4. AskAbout(call.rest, "readyRead", known', asked, <<>>)
  BY <1>1, <1>2 DEF Answer
<1>5. PICK result \in {"Trust", "Block", "Later"} :
         known' = IF result = "Trust" THEN [known EXCEPT ![p.id] = p.print] ELSE known
  BY <1>1 DEF Answer
<1>6. known' \in [Peers -> AnyPrint] /\ \A q \in Peers : q # p.id => known'[q] = known[q]
  BY <1>3, <1>5 DEF Inv, TypeOK, Record
<1>7. asked \in SUBSET (Peers \X Prints)
  BY DEF Inv, TypeOK
<1>8. /\ asked' \subseteq Peers \X Prints /\ asked \subseteq asked'
      /\ calls' \in Seq(Call) /\ Len(calls') <= 1
      /\ \A i \in DOMAIN calls' : /\ calls'[i].source = "readyRead"
                                  /\ calls'[i].asking.id \in Prompted(asked')
  BY <1>3, <1>4, <1>7, AskFacts DEF Sources
<1>9. UNCHANGED <<peerVars, inbox, due, records, online, faults>>
  BY DEF Answer
<1>10. ASSUME NEW i \in DOMAIN records, MustAsk(records[i], known', asked') PROVE FALSE
  <2>1. records[i].id \in Peers /\ records[i].id \in Ids(records)
    BY IdsFacts DEF Inv, TypeOK
  <2>2. \A q : q \in Prompted(asked) => q \in Prompted(asked')
    BY <1>8 DEF Prompted
  <2>3. records[i].id \notin Prompted(asked')
    BY <1>10 DEF MustAsk
  <2>4. records[i].id # p.id
    BY <2>1, <2>2, <2>3, <1>1
  <2>5. MustAsk(records[i], known, asked)
    BY <2>1, <2>2, <2>4, <1>6, <1>10 DEF MustAsk
  <2> QED BY <2>5 DEF Inv, NobodyMissed
<1>11. NobodyMissed'
  BY <1>9, <1>10 DEF NobodyMissed
<1>12. OnlineIsRecorded' /\ Alone' /\ Younger'
  BY <1>8, <1>9 DEF Inv, OnlineIsRecorded, Ids, Alone, Younger
<1>13. TypeOK'
  BY <1>6, <1>8, <1>9 DEF Inv, TypeOK, peerVars
<1> QED BY <1>11, <1>12, <1>13 DEF Inv

(* Time passes only when the timer has fired: no slot of it ever waits.    *)
LEMMA PeriodInv == Inv /\ Period => Inv'
<1> SUFFICES ASSUME Inv, Period PROVE Inv'
  OBVIOUS
<1>1. ~due
  BY DEF Inv, Alone, Period, Running
<1>2. \A i \in DOMAIN records : records[i] \in Record /\ records[i].age <= Expire
  BY <1>1, Elements DEF Inv, Younger
<1>3. /\ DOMAIN records' = DOMAIN records
      /\ \A i \in DOMAIN records : /\ records'[i] \in Record /\ records'[i].id = records[i].id
                                   /\ records'[i].print = records[i].print
  BY <1>2, BoundsAssumption DEF Period, Older, Record
<1>4. records' \in Seq(Record)
  <2>1. DOMAIN records = 1..Len(records) /\ Len(records) \in Nat
    BY Elements DEF Inv
  <2>2. records' = [i \in 1..Len(records) |-> records'[i]]
    BY <2>1 DEF Period, Older
  <2>3. records' \in [1..Len(records) -> Record]
    BY <2>1, <2>2, <1>3
  <2> QED BY <2>1, <2>3, SeqDef
<1>5. UNCHANGED <<up, print, inbox, online, asked, known, calls, faults>>
      /\ toAnnounce' \subseteq Peers /\ due' = TRUE
  BY DEF Period
<1>6. Ids(records') = Ids(records)
  BY <1>3 DEF Ids
<1>7. NobodyMissed' /\ OnlineIsRecorded'
  BY <1>3, <1>5, <1>6 DEF Inv, NobodyMissed, MustAsk, OnlineIsRecorded, Ids
<1>8. Alone' /\ Younger'
  BY <1>5, <1>6 DEF Inv, Alone, Younger, Ids
<1>9. TypeOK'
  BY <1>4, <1>5 DEF Inv, TypeOK
<1> QED BY <1>7, <1>8, <1>9 DEF Inv

LEMMA ArrivingType ==
  ASSUME TypeOK, NEW d \in Datagram
  PROVE  Arriving(d) \in Seq(Datagram)
  BY AppendProperties DEF TypeOK, Arriving

LEMMA FaultType == TypeOK /\ Fault => faults' \in 0..MaxFaults
  BY BoundsAssumption DEF TypeOK, Fault

(* What the peers do reaches the App through its inbox only.               *)
LEMMA PeerInv ==
  ASSUME Inv, NEW p \in Peers, Announce(p) \/ Appear(p) \/ Depart(p)
  PROVE  Inv'
<1>1. UNCHANGED <<due, records, online, asked, known, calls>>
  BY DEF Announce, Appear, Depart
<1>2. NobodyMissed' /\ OnlineIsRecorded' /\ Alone' /\ Younger'
  BY <1>1 DEF Inv, NobodyMissed, OnlineIsRecorded, Ids, Alone, Younger
<1>3. Announcement(p) \in Datagram /\ Goodbye(p) \in Datagram
  BY DEF Announcement, Goodbye, Datagram, AnyPrint, Inv, TypeOK
<1>4. Arriving(Announcement(p)) \in Seq(Datagram) /\ Arriving(Goodbye(p)) \in Seq(Datagram)
  BY <1>3, ArrivingType DEF Inv
<1>5. inbox' \in Seq(Datagram) /\ faults' \in 0..MaxFaults
  BY <1>4, FaultType DEF Announce, Appear, Depart, Inv, TypeOK
<1>6. toAnnounce' \subseteq Peers /\ up' \in [Peers -> BOOLEAN] /\ print' \in [Peers -> AnyPrint]
  BY DEF Announce, Appear, Depart, Inv, TypeOK
<1>7. TypeOK'
  BY <1>1, <1>5, <1>6 DEF Inv, TypeOK
<1> QED BY <1>2, <1>7 DEF Inv

LEMMA RestartInv == Inv /\ Restart => Inv'
<1> SUFFICES ASSUME Inv, Restart PROVE Inv'
  OBVIOUS
<1>1. inbox' \in Seq(Datagram) /\ records' \in Seq(Record) /\ calls' \in Seq(Call)
  BY EmptySeq DEF Restart
<1>2. faults' \in 0..MaxFaults
  BY FaultType DEF Restart, Inv
<1>3. TypeOK'
  BY <1>1, <1>2 DEF Restart, Inv, TypeOK, peerVars
<1>4. NobodyMissed' /\ OnlineIsRecorded' /\ Alone' /\ Younger'
  BY EmptySeq DEF Restart, NobodyMissed, OnlineIsRecorded, Ids, Alone, Younger
<1> QED BY <1>3, <1>4 DEF Inv

LEMMA StepInv == Inv /\ [Next]_vars => Inv'
<1> SUFFICES ASSUME Inv, [Next]_vars PROVE Inv'
  OBVIOUS
<1>1. CASE UNCHANGED vars
  BY <1>1 DEF Inv, TypeOK, NobodyMissed, OnlineIsRecorded, Ids, Alone, Younger, vars, peerVars
<1>2. CASE Next
  BY <1>2, ReadInv, ExpireInv, AnswerInv, PeriodInv, RestartInv, PeerInv DEF Next
<1> QED BY <1>1, <1>2

LEMMA InvHolds == Spec => []Inv
  BY InitInv, StepInv, PTL DEF Spec

-----------------------------------------------------------------------------
(* The loop asks about the first record that needs it, and shows the       *)
(* fingerprint of that record.                                             *)
LEMMA AskedAsShown ==
  ASSUME NEW snapshot, IsUnique(snapshot), NEW source, NEW trusted, NEW pairs, NEW below,
         AskAbout(snapshot, source, trusted, pairs, below), NEW i \in DOMAIN snapshot,
         MustAsk(snapshot[i], trusted, pairs), ~MustAsk(snapshot[i], trusted, asked')
  PROVE  <<snapshot[i].id, snapshot[i].print>> \in asked'
<1>1. PICK k \in DOMAIN snapshot : asked' = pairs \union {<<snapshot[k].id, snapshot[k].print>>}
  BY DEF AskAbout
<1>2. snapshot[i].id \in Prompted(asked') /\ snapshot[i].id \notin Prompted(pairs)
  BY DEF MustAsk
<1>3. PICK a \in asked' : a[1] = snapshot[i].id
  BY <1>2 DEF Prompted
<1>4. a \notin pairs
  BY <1>2, <1>3 DEF Prompted
<1>5. a = <<snapshot[k].id, snapshot[k].print>>
  BY <1>1, <1>4
<1>6. i = k
  BY <1>3, <1>5 DEF IsUnique
<1> QED BY <1>1, <1>6

(* The prompt a slot opens for a peer shows what the peer is seen with.    *)
LEMMA ChangedShown ==
  ASSUME Inv', NEW recs, NEW source, PeersChanged(recs, source), records' = recs, known' = known,
         NEW i \in DOMAIN records', MustAsk(records'[i], known', asked)
  PROVE  <<records'[i].id, records'[i].print>> \in asked'
<1> DEFINE pairs == {a \in asked : a[1] \notin online \ Ids(recs)}
<1>1. AskAbout(recs, source, known, pairs, calls)
  BY DEF PeersChanged
<1>2. MustAsk(recs[i], known, pairs)
  BY DEF MustAsk, Prompted
<1>3. ~MustAsk(recs[i], known, asked') /\ IsUnique(recs)
  BY DEF Inv, NobodyMissed, OnlineIsRecorded, IsUnique
<1> QED BY <1>1, <1>2, <1>3, AskedAsShown

LEMMA StepShown ==
  ASSUME Inv, Inv', [Next]_vars, NEW i \in DOMAIN records', MustAsk(records'[i], known', asked)
  PROVE  <<records'[i].id, records'[i].print>> \in asked'
<1>1. asked' # asked
  BY DEF Inv, NobodyMissed
<1>2. CASE ReadDatagram
  BY <1>1, <1>2, ChangedShown DEF ReadDatagram
<1>3. CASE ExpireTimer
  BY <1>1, <1>3, ChangedShown DEF ExpireTimer
<1>4. CASE Answer
  <2>1. PICK call : /\ call.asking.id \in Ids(records) => call.asking.id \in Prompted(asked)
                    /\ \/ known' = known
                       \/ known' = [known EXCEPT ![call.asking.id] = call.asking.print]
    <3>1. DOMAIN calls = 1..Len(calls) /\ Len(calls) \in Nat
      BY Elements DEF Inv
    <3>2. Len(calls) = 1 /\ Last(calls) = calls[1] /\ 1 \in DOMAIN calls
      BY <1>4, <3>1, EmptySeq DEF Inv, Alone, Answer, TypeOK, Last
    <3>3. calls[1].asking.id \in Ids(records) => calls[1].asking.id \in Prompted(asked)
      BY <3>2 DEF Inv, Alone
    <3> QED BY <1>4, <3>2, <3>3 DEF Answer
  <2>2. records' = records /\ records[i].id \in Ids(records) /\ records[i].id \in Peers
    BY <1>4, IdsFacts DEF Answer, Inv, TypeOK
  <2>3. records[i].id # call.asking.id
    BY <2>1, <2>2 DEF MustAsk
  <2>4. known'[records[i].id] = known[records[i].id]
    BY <2>1, <2>2, <2>3 DEF Inv, TypeOK
  <2>5. MustAsk(records[i], known, asked)
    BY <2>2, <2>4 DEF MustAsk
  <2> QED BY <2>2, <2>5 DEF Inv, NobodyMissed
<1>5. CASE Restart
  BY <1>5 DEF Restart
<1> QED BY <1>1, <1>2, <1>3, <1>4, <1>5 DEF Next, Period, Announce, Appear, Depart, vars

(* Every variable keeps its type; an age never passes Expire + 1.          *)
THEOREM PresenceTyped == Spec => []TypeOK
<1>1. Inv => TypeOK
  BY DEF Inv
<1> QED BY <1>1, InvHolds, PTL

(* However expiry, dialogs, stale snapshots and restarts interleave, a     *)
(* peer with an untrusted fingerprint that no prompt is remembered for is  *)
(* asked about, and with the fingerprint it is seen with (App.cpp:51-79).  *)
(* A peer whose fingerprint changes while a prompt is remembered for its   *)
(* id is not asked about again.                                            *)
THEOREM AllAsked == Spec => EveryoneAsked
<1> DEFINE Shown == \A i \in DOMAIN records' :
                       MustAsk(records'[i], known', asked)
                          => <<records'[i].id, records'[i].print>> \in asked'
<1>1. Inv /\ Inv' /\ [Next]_vars => [NobodyMissed' /\ Shown]_vars
  BY StepShown DEF Inv
<1>2. [][NobodyMissed' /\ Shown]_vars => EveryoneAsked
  BY PTL DEF EveryoneAsked
<1> QED BY <1>1, <1>2, InvHolds, PTL DEF Spec

(* The peers taken to be online are those of the records, each once        *)
(* (App.cpp:46-57).                                                        *)
THEOREM OnlineTrue == Spec => []OnlineIsRecorded
<1>1. Inv => OnlineIsRecorded
  BY DEF Inv
<1> QED BY <1>1, InvHolds, PTL
=============================================================================
