-------------------------- MODULE TextInput_proofs --------------------------
(***************************************************************************)
(* Proofs about TextInput: types, and that both fields implement LineEdit, *)
(* for any characters and texts of any length.                             *)
(***************************************************************************)
EXTENDS TextInput, SequenceTheorems, TLAPS

-----------------------------------------------------------------------------
(* Texts are the sequences of characters of bounded length.                *)
LEMMA TextFacts ==
  /\ \A t : t \in Texts \union {<<>>} <=> t \in Seq(Chars) /\ Len(t) <= MaxLen
  /\ \A t \in Seq(Chars) : Len(t) \in Nat /\ (Len(t) = 0 <=> t = <<>>)
  /\ <<>> \in Seq(Chars) /\ Len(<<>>) = 0
<1>1. MaxLen \in Nat
  BY LengthsAssumption
<1>2. <<>> \in Seq(Chars) /\ Len(<<>>) = 0
  BY EmptySeq
<1>3. \A t \in Seq(Chars) : Len(t) \in Nat /\ (Len(t) = 0 <=> t = <<>>)
  BY EmptySeq, LenProperties
<1>4. ASSUME NEW t \in Texts PROVE t \in Seq(Chars) /\ Len(t) <= MaxLen
  <2>1. PICK n \in 1..MaxLen : t \in [1..n -> Chars]
    BY DEF Texts
  <2>2. n \in Nat
    BY <2>1, <1>1
  <2>3. \A i \in 1..n : t[i] \in Chars
    BY <2>1
  <2>4. t = [i \in 1..n |-> t[i]]
    BY <2>1
  <2>5. t \in Seq(Chars) /\ Len(t) = n
    BY <2>1, <2>2, <2>3, <2>4
  <2> QED BY <2>1, <2>5
<1>5. ASSUME NEW t \in Seq(Chars), Len(t) <= MaxLen, t # <<>> PROVE t \in Texts
  <2>1. t \in [1..Len(t) -> Chars] /\ Len(t) \in 1..MaxLen
    BY <1>1, <1>3, <1>5, LenProperties
  <2> QED BY <2>1 DEF Texts
<1>6. \A t : t \in Texts \union {<<>>} => t \in Seq(Chars) /\ Len(t) <= MaxLen
  <2>1. \A t \in Texts : t \in Seq(Chars) /\ Len(t) <= MaxLen
    BY <1>4
  <2>2. \A t \in {<<>>} : t \in Seq(Chars) /\ Len(t) <= MaxLen
    <3>1. 0 <= MaxLen
      BY <1>1
    <3> QED BY <1>2, <3>1
  <2> QED BY <2>1, <2>2
<1>7. \A t : t \in Seq(Chars) /\ Len(t) <= MaxLen => t \in Texts \union {<<>>}
  BY <1>5
<1> QED BY <1>2, <1>3, <1>6, <1>7

(* A text is what is before i, what is from there to j, and what is after. *)
LEMMA Parts ==
  ASSUME NEW t \in Seq(Chars), NEW i \in 0..Len(t), NEW j \in i..Len(t)
  PROVE  /\ SubSeq(t, 1, i) \in Seq(Chars) /\ Len(SubSeq(t, 1, i)) = i
         /\ SubSeq(t, j + 1, Len(t)) \in Seq(Chars)
         /\ Len(SubSeq(t, j + 1, Len(t))) = Len(t) - j
<1>1. Len(t) \in Nat /\ i \in Nat /\ j \in Nat /\ i <= j /\ j <= Len(t)
  BY LenProperties
<1>2. \A k \in 1..Len(t) : t[k] \in Chars
  BY ElementOfSeq
<1>3. (\A k \in 1..i : t[k] \in Chars) /\ (\A k \in (j + 1)..Len(t) : t[k] \in Chars)
  BY <1>1, <1>2
<1>4. /\ SubSeq(t, 1, i) \in Seq(Chars)
      /\ Len(SubSeq(t, 1, i)) = IF 1 <= i THEN i - 1 + 1 ELSE 0
  BY <1>1, <1>3, SubSeqProperties
<1>5. /\ SubSeq(t, j + 1, Len(t)) \in Seq(Chars)
      /\ Len(SubSeq(t, j + 1, Len(t))) = IF j + 1 <= Len(t) THEN Len(t) - (j + 1) + 1 ELSE 0
  BY <1>1, <1>3, SubSeqProperties
<1> QED BY <1>1, <1>4, <1>5

(* The two sides of a concatenation are its parts.                         *)
LEMMA Sides ==
  ASSUME NEW p \in Seq(Chars), NEW q \in Seq(Chars)
  PROVE  /\ SubSeq(p \o q, 1, Len(p)) = p
         /\ SubSeq(p \o q, Len(p) + 1, Len(p \o q)) = q
<1>1. /\ Len(p) \in Nat /\ Len(q) \in Nat /\ p \o q \in Seq(Chars)
      /\ Len(p \o q) = Len(p) + Len(q)
      /\ \A k \in 1..(Len(p) + Len(q)) : (p \o q)[k] = IF k <= Len(p) THEN p[k] ELSE q[k - Len(p)]
  BY LenProperties, ConcatProperties
<1> DEFINE r == p \o q
<1>2. Len(r) = Len(p) + Len(q) /\ r \in Seq(Chars)
  BY <1>1
<1>3. \A k \in 1..(Len(p) + Len(q)) : r[k] = IF k <= Len(p) THEN p[k] ELSE q[k - Len(p)]
  BY <1>1
<1> HIDE DEF r
<1>4. Len(p) \in 0..Len(r) /\ Len(p) \in Len(p)..Len(r) /\ Len(r) - Len(p) = Len(q)
  BY <1>1, <1>2
<1>5. /\ SubSeq(r, 1, Len(p)) \in Seq(Chars) /\ Len(SubSeq(r, 1, Len(p))) = Len(p)
      /\ SubSeq(r, Len(p) + 1, Len(r)) \in Seq(Chars)
      /\ Len(SubSeq(r, Len(p) + 1, Len(r))) = Len(q)
  BY <1>2, <1>4, Parts
<1>6. \A k \in 1..Len(r) : r[k] \in Chars
  BY <1>2, ElementOfSeq
<1>7. \A k \in 1..Len(p) : SubSeq(r, 1, Len(p))[k] = p[k]
  <2>1. \A k \in 1..(Len(p) - 1 + 1) : SubSeq(r, 1, Len(p))[k] = r[1 + k - 1]
    BY <1>1, <1>2, <1>6, SubSeqProperties
  <2> QED BY <1>1, <1>3, <2>1
<1>8. \A k \in 1..Len(q) : SubSeq(r, Len(p) + 1, Len(r))[k] = q[k]
  <2>1. \A k \in 1..(Len(r) - (Len(p) + 1) + 1) :
           SubSeq(r, Len(p) + 1, Len(r))[k] = r[Len(p) + 1 + k - 1]
    <3>1. Len(p) + 1 \in Int /\ Len(r) \in Int /\ \A k \in (Len(p) + 1)..Len(r) : r[k] \in Chars
      BY <1>1, <1>2, <1>6
    <3> QED BY <3>1, SubSeqProperties
  <2>2. ASSUME NEW k \in 1..Len(q) PROVE SubSeq(r, Len(p) + 1, Len(r))[k] = q[k]
    <3>1. SubSeq(r, Len(p) + 1, Len(r))[k] = r[Len(p) + k]
      BY <1>1, <1>2, <2>1
    <3>2. r[Len(p) + k] = q[k]
      BY <1>1, <1>3
    <3> QED BY <3>1, <3>2
  <2> QED BY <2>2
<1>9. SubSeq(r, 1, Len(p)) = p
  BY <1>5, <1>7, SeqEqual
<1>10. SubSeq(r, Len(p) + 1, Len(r)) = q
  BY <1>5, <1>8, SeqEqual
<1> QED BY <1>9, <1>10 DEF r

(* Removing the characters between i and j, and putting s in their place.  *)
LEMMA Replacing ==
  ASSUME NEW t \in Seq(Chars), NEW i \in 0..Len(t), NEW j \in i..Len(t), NEW s \in Seq(Chars)
  PROVE  /\ Removed(t, i, j - i) = SubSeq(t, 1, i) \o SubSeq(t, j + 1, Len(t))
         /\ Removed(t, i, j - i) \in Seq(Chars)
         /\ Len(Removed(t, i, j - i)) = i + (Len(t) - j)
         /\ Inserted(Removed(t, i, j - i), i, s) = SubSeq(t, 1, i) \o s \o SubSeq(t, j + 1, Len(t))
         /\ Inserted(t, i, s) = SubSeq(t, 1, i) \o s \o SubSeq(t, i + 1, Len(t))
         /\ SubSeq(t, 1, i) \o s \o SubSeq(t, j + 1, Len(t)) \in Seq(Chars)
         /\ Len(SubSeq(t, 1, i) \o s \o SubSeq(t, j + 1, Len(t))) = i + Len(s) + (Len(t) - j)
<1> DEFINE p == SubSeq(t, 1, i)
           q == SubSeq(t, j + 1, Len(t))
<1>1. p \in Seq(Chars) /\ Len(p) = i /\ q \in Seq(Chars) /\ Len(q) = Len(t) - j
  BY Parts
<1>2. Removed(t, i, j - i) = p \o q
  <2>1. i + (j - i) + 1 = j + 1
    BY LenProperties
  <2> QED BY <2>1 DEF Removed
<1>3. Inserted(t, i, s) = p \o s \o SubSeq(t, i + 1, Len(t))
  BY DEF Inserted
<1> HIDE DEF p, q
<1>4. p \o q \in Seq(Chars) /\ Len(p \o q) = i + (Len(t) - j)
  BY <1>1, ConcatProperties
<1>5. p \o s \in Seq(Chars) /\ Len(p \o s) = i + Len(s)
  BY <1>1, ConcatProperties
<1>6. p \o s \o q \in Seq(Chars) /\ Len(p \o s \o q) = i + Len(s) + (Len(t) - j)
  <2>1. p \o s \o q \in Seq(Chars) /\ Len(p \o s \o q) = Len(p \o s) + Len(q)
    BY <1>1, <1>5, ConcatProperties
  <2> QED BY <1>1, <1>5, <2>1
<1>7. SubSeq(p \o q, 1, i) = p /\ SubSeq(p \o q, i + 1, Len(p \o q)) = q
  BY <1>1, Sides
<1>8. Inserted(p \o q, i, s) = p \o s \o q
  BY <1>7 DEF Inserted
<1> QED BY <1>2, <1>3, <1>4, <1>6, <1>8 DEF p, q

(* Removing nothing from no text, wherever.                                *)
LEMMA NothingRemoved ==
  ASSUME NEW n \in Nat
  PROVE  Removed(<<>>, 0, n) = <<>> /\ SubSeq(<<>>, n + 1, 0) = <<>> /\ SubSeq(<<>>, 1, 0) = <<>>
<1>1. Len(<<>>) = 0
  BY EmptySeq
<1>2. SubSeq(<<>>, 1, 0) = <<>> /\ SubSeq(<<>>, n + 1, 0) = <<>> /\ 0 + n + 1 = n + 1
  BY SubSeqEmpty
<1>3. <<>> \o <<>> = <<>>
  BY EmptySeq, ConcatEmptySeq
<1> QED BY <1>1, <1>2, <1>3 DEF Removed

-----------------------------------------------------------------------------
(* The parts of the type invariant, with texts as sequences.               *)
InputOK == /\ text \in Seq(Chars) /\ Len(text) <= MaxLen /\ cursorPos \in 0..Len(text)
           /\ selStart \in 0..MaxLen /\ (selStart <= Len(text) \/ text = <<>>)
SearchOK == query \in Seq(Chars) /\ Len(query) <= MaxQuery /\ queryPos \in 0..Len(query)
ClipOK == clipboard \in Seq(Chars) /\ Len(clipboard) <= MaxLen
RestOK == /\ dragging \in BOOLEAN /\ image \in BOOLEAN /\ clipImage \in BOOLEAN
          /\ focus \in {"input", "search", "none"}

LEMMA TypeParts == TypeOK <=> InputOK /\ SearchOK /\ ClipOK /\ RestOK
<1>1. MaxQuery <= MaxLen /\ MaxQuery \in Nat /\ MaxLen \in Nat
  BY LengthsAssumption
<1>2. query \in Seq(Chars) /\ Len(query) <= MaxQuery => Len(query) <= MaxLen
  BY <1>1, TextFacts
<1>3. /\ text \in Texts \union {<<>>} <=> text \in Seq(Chars) /\ Len(text) <= MaxLen
      /\ query \in Texts \union {<<>>} <=> query \in Seq(Chars) /\ Len(query) <= MaxLen
      /\ clipboard \in Texts \union {<<>>} <=> clipboard \in Seq(Chars) /\ Len(clipboard) <= MaxLen
  BY TextFacts
<1> QED BY <1>2, <1>3 DEF TypeOK, InputOK, SearchOK, ClipOK, RestOK, Positions

(* Where the selection is, as the input bar and as LineEdit see it.        *)
LEMMA Selection ==
  ASSUME InputOK
  PROVE  /\ text \in Seq(Chars) /\ Len(text) \in Nat /\ cursorPos \in 0..Len(text)
         /\ Input!From = SelFrom /\ SelFrom \in 0..Len(text) /\ Input!To \in SelFrom..Len(text)
         /\ HasSelection => SelFrom # SelTo
         /\ ~HasSelection => Smaller(selStart, Len(text)) = cursorPos
                             /\ SelFrom = cursorPos /\ Input!To = cursorPos
         /\ SelTo \in Nat /\ Smaller(SelTo, Len(text)) = Input!To
         /\ Removed(text, SelFrom, SelTo - SelFrom)
               = Input!Before \o SubSeq(text, Input!To + 1, Len(text))
         /\ Removed(text, SelFrom, SelTo - SelFrom) = Removed(text, SelFrom, Input!To - SelFrom)
<1>1. /\ text \in Seq(Chars) /\ Len(text) \in Nat /\ cursorPos \in 0..Len(text) /\ selStart \in Nat
      /\ (Len(text) = 0 <=> text = <<>>)
  BY TextFacts, LengthsAssumption DEF InputOK
<1>2. CASE selStart <= Len(text)
  <2>1. /\ Input!From = SelFrom /\ SelFrom \in 0..Len(text) /\ Input!To \in SelFrom..Len(text)
        /\ HasSelection => SelFrom # SelTo
        /\ ~HasSelection => Smaller(selStart, Len(text)) = cursorPos
                            /\ SelFrom = cursorPos /\ Input!To = cursorPos
        /\ SelTo = Input!To /\ SelTo \in Nat /\ Smaller(SelTo, Len(text)) = SelTo
    BY <1>1, <1>2 DEF Input!From, Input!To, SelFrom, SelTo, HasSelection, Smaller, Greater
  <2>2. Removed(text, SelFrom, Input!To - SelFrom)
           = SubSeq(text, 1, SelFrom) \o SubSeq(text, Input!To + 1, Len(text))
    BY <1>1, <2>1, Replacing
  <2> QED BY <1>1, <2>1, <2>2 DEF Input!Before
<1>3. CASE text = <<>> /\ selStart > 0
  <2>1. Len(text) = 0 /\ cursorPos = 0
    BY <1>1, <1>3
  <2>2. /\ SelFrom = 0 /\ SelTo = selStart /\ HasSelection
        /\ Input!From = 0 /\ Input!To = 0 /\ Smaller(SelTo, 0) = 0
    BY <1>1, <1>3, <2>1 DEF Input!From, Input!To, SelFrom, SelTo, HasSelection, Smaller, Greater
  <2>3. Removed(text, 0, selStart) = <<>> /\ Removed(text, 0, 0) = <<>>
    BY <1>1, <1>3, NothingRemoved
  <2>4. SubSeq(text, 1, 0) = <<>> /\ SubSeq(text, 0 + 1, 0) = <<>>
    BY <1>3, NothingRemoved
  <2>5. <<>> \o <<>> = <<>>
    BY EmptySeq, ConcatEmptySeq
  <2>6. selStart - 0 = selStart /\ 0 - 0 = 0
    BY <1>1
  <2>7. SelFrom # SelTo
    BY <1>3, <2>2
  <2>8. /\ Removed(text, SelFrom, SelTo - SelFrom) = <<>>
        /\ Removed(text, SelFrom, Input!To - SelFrom) = <<>>
    BY <2>2, <2>3, <2>6
  <2>9. Input!Before = <<>> /\ SubSeq(text, Input!To + 1, Len(text)) = <<>>
    BY <2>1, <2>2, <2>4 DEF Input!Before
  <2>10. 0 \in 0..0 /\ Smaller(SelTo, Len(text)) = Input!To
    BY <2>1, <2>2
  <2>11. /\ Input!From = SelFrom /\ SelFrom \in 0..Len(text) /\ Input!To \in SelFrom..Len(text)
         /\ SelTo \in Nat
    BY <1>1, <2>1, <2>2
  <2>12. Removed(text, SelFrom, SelTo - SelFrom)
            = Input!Before \o SubSeq(text, Input!To + 1, Len(text))
    BY <2>5, <2>8, <2>9
  <2>13. Removed(text, SelFrom, SelTo - SelFrom) = Removed(text, SelFrom, Input!To - SelFrom)
    BY <2>8
  <2> QED BY <1>1, <2>2, <2>7, <2>10, <2>11, <2>12, <2>13
<1>4. selStart <= Len(text) \/ (text = <<>> /\ selStart > 0)
  BY <1>1 DEF InputOK
<1> QED BY <1>2, <1>3, <1>4

-----------------------------------------------------------------------------
(* Typing and erasing.                                                     *)
LEMMA Erased ==
  ASSUME InputOK, DeleteSelection
  PROVE  InputOK' /\ Input!Replace(<<>>)
<1> DEFINE t == Removed(text, SelFrom, SelTo - SelFrom)
<1>1. /\ text \in Seq(Chars) /\ Len(text) \in Nat /\ SelFrom \in 0..Len(text)
      /\ Input!From = SelFrom /\ Input!To \in SelFrom..Len(text)
      /\ t = Input!Before \o SubSeq(text, Input!To + 1, Len(text))
      /\ t = Removed(text, SelFrom, Input!To - SelFrom)
  BY Selection
<1>2. t \in Seq(Chars) /\ Len(t) = SelFrom + (Len(text) - Input!To)
  <2>1. /\ Removed(text, SelFrom, Input!To - SelFrom) \in Seq(Chars)
        /\ Len(Removed(text, SelFrom, Input!To - SelFrom)) = SelFrom + (Len(text) - Input!To)
    <3>1. <<>> \in Seq(Chars)
      BY TextFacts
    <3> HIDE DEF t
    <3> QED BY <1>1, <3>1, Replacing
  <2> HIDE DEF t
  <2> QED BY <1>1, <2>1
<1>3. text' = t /\ Len(t) <= MaxLen /\ cursorPos' = Smaller(SelFrom, Len(t)) /\ selStart' = SelFrom
  BY DEF DeleteSelection, UpdateText
<1>4. Input!Before \in Seq(Chars)
  BY <1>1, Parts DEF Input!Before
<1>5. Input!Before \o <<>> = Input!Before /\ Len(<<>>) = 0
  BY <1>4, EmptySeq, ConcatEmptySeq
<1> HIDE DEF t
<1>6. SelFrom <= Len(t) /\ SelFrom \in Nat /\ Len(t) \in Nat /\ Len(t) <= MaxLen /\ MaxLen \in Nat
  BY <1>1, <1>2, <1>3, LengthsAssumption
<1>7. cursorPos' = SelFrom /\ Smaller(SelFrom, Len(t)) = SelFrom /\ SelFrom + 0 = SelFrom
  BY <1>3, <1>6 DEF Smaller
<1>8. InputOK'
  <2>1. Len(text') = Len(t)
    BY <1>3
  <2>2. SelFrom \in 0..Len(t) /\ SelFrom \in 0..MaxLen
    BY <1>6
  <2> QED BY <1>2, <1>3, <1>6, <1>7, <2>1, <2>2 DEF InputOK
<1>9. Input!Replace(<<>>)
  <2>1. text' = Input!Before \o <<>> \o Input!After
    BY <1>1, <1>3, <1>5 DEF Input!After
  <2>2. Smaller(selStart, Len(text))' = SelFrom
    BY <1>3, <1>7
  <2>3. cursorPos' = Input!From + Len(<<>>)
    BY <1>1, <1>5, <1>7
  <2> QED BY <1>7, <2>1, <2>2, <2>3 DEF Input!Replace
<1> QED BY <1>8, <1>9

LEMMA Typed ==
  ASSUME InputOK, NEW s \in Seq(Chars), Insert(s)
  PROVE  InputOK' /\ Len(s) <= MaxLen /\ Input!Replace(s)
<1> DEFINE t == IF HasSelection THEN Removed(text, SelFrom, SelTo - SelFrom) ELSE text
           pos == IF HasSelection THEN SelFrom ELSE cursorPos
           r == Inserted(t, pos, s)
<1>1. /\ text \in Seq(Chars) /\ Len(text) \in Nat /\ SelFrom \in 0..Len(text)
      /\ Input!From = SelFrom /\ Input!To \in SelFrom..Len(text)
      /\ ~HasSelection => SelFrom = cursorPos /\ Input!To = cursorPos
      /\ Removed(text, SelFrom, SelTo - SelFrom) = Removed(text, SelFrom, Input!To - SelFrom)
      /\ Len(s) \in Nat
  BY Selection, TextFacts
<1>2. pos = SelFrom
  BY <1>1
<1>3. r = Input!Before \o s \o Input!After
  <2>1. CASE HasSelection
    <3>1. t = Removed(text, SelFrom, Input!To - SelFrom)
      BY <1>1, <2>1
    <3>2. Inserted(Removed(text, SelFrom, Input!To - SelFrom), SelFrom, s)
             = SubSeq(text, 1, SelFrom) \o s \o SubSeq(text, Input!To + 1, Len(text))
      BY <1>1, Replacing
    <3> QED BY <1>1, <1>2, <3>1, <3>2 DEF Input!Before, Input!After
  <2>2. CASE ~HasSelection
    <3>1. t = text /\ Input!To = SelFrom
      BY <1>1, <2>2
    <3>2. Inserted(text, SelFrom, s)
             = SubSeq(text, 1, SelFrom) \o s \o SubSeq(text, SelFrom + 1, Len(text))
      BY <1>1, Replacing
    <3> QED BY <1>1, <1>2, <3>1, <3>2 DEF Input!Before, Input!After
  <2> QED BY <2>1, <2>2
<1>4. r \in Seq(Chars) /\ Len(r) = SelFrom + Len(s) + (Len(text) - Input!To)
  <2>1. /\ SubSeq(text, 1, SelFrom) \o s \o SubSeq(text, Input!To + 1, Len(text)) \in Seq(Chars)
        /\ Len(SubSeq(text, 1, SelFrom) \o s \o SubSeq(text, Input!To + 1, Len(text)))
              = SelFrom + Len(s) + (Len(text) - Input!To)
    BY <1>1, Replacing
  <2>2. r = SubSeq(text, 1, SelFrom) \o s \o SubSeq(text, Input!To + 1, Len(text))
    BY <1>1, <1>3 DEF Input!Before, Input!After
  <2> HIDE DEF r
  <2> QED BY <2>1, <2>2
<1>5. /\ text' = r /\ Len(r) <= MaxLen /\ cursorPos' = Smaller(pos + Len(s), Len(r))
      /\ selStart' = pos + Len(s)
  BY DEF Insert, UpdateText
<1> HIDE DEF t, r, pos
<1>6. /\ SelFrom + Len(s) \in Nat /\ SelFrom + Len(s) <= Len(r) /\ Len(r) \in Nat
      /\ MaxLen \in Nat /\ Len(s) <= MaxLen /\ SelFrom + Len(s) <= MaxLen
  BY <1>1, <1>4, <1>5, LengthsAssumption
<1>7. /\ selStart' = SelFrom + Len(s) /\ cursorPos' = SelFrom + Len(s)
      /\ Smaller(SelFrom + Len(s), Len(r)) = SelFrom + Len(s)
  BY <1>2, <1>5, <1>6 DEF Smaller
<1>8. InputOK'
  <2>1. Len(text') = Len(r)
    BY <1>5
  <2>2. SelFrom + Len(s) \in 0..Len(r) /\ SelFrom + Len(s) \in 0..MaxLen
    BY <1>6
  <2> QED BY <1>4, <1>5, <1>6, <1>7, <2>1, <2>2 DEF InputOK
<1>9. Input!Replace(s)
  <2>1. Smaller(selStart, Len(text))' = SelFrom + Len(s)
    BY <1>5, <1>7
  <2> QED BY <1>1, <1>3, <1>5, <1>7, <2>1 DEF Input!Replace
<1> QED BY <1>6, <1>8, <1>9

LEMMA Emptied == ASSUME InputOK, Clear PROVE InputOK' /\ Input!Clear
<1>1. /\ text' = <<>> /\ cursorPos' = Smaller(cursorPos, Len(<<>>)) /\ selStart' = selStart
      /\ Len(<<>>) = 0 /\ <<>> \in Seq(Chars)
  BY EmptySeq DEF Clear, UpdateText
<1>2. cursorPos \in Nat /\ selStart \in Nat /\ MaxLen \in Nat
  BY Selection, LengthsAssumption DEF InputOK
<1>3. Smaller(cursorPos, 0) = 0 /\ Smaller(selStart, 0) = 0
  BY <1>2 DEF Smaller
<1>4. Len(text') = 0
  BY <1>1
<1>5. InputOK'
  BY <1>1, <1>2, <1>3, <1>4 DEF InputOK
<1>6. Input!Clear
  <2>1. Smaller(selStart, Len(text))' = 0
    BY <1>1, <1>3, <1>4
  <2> QED BY <1>1, <1>3, <2>1 DEF Input!Clear
<1> QED BY <1>5, <1>6

LEMMA ErasedLeft ==
  ASSUME InputOK, ~HasSelection, cursorPos > 0,
         UpdateText(Removed(text, cursorPos - 1, 1), cursorPos - 1, cursorPos - 1)
  PROVE  InputOK' /\ Input!EraseLeft
<1>1. /\ text \in Seq(Chars) /\ Len(text) \in Nat /\ cursorPos \in 0..Len(text)
      /\ Smaller(selStart, Len(text)) = cursorPos /\ Input!To = cursorPos /\ MaxLen \in Nat
      /\ <<>> \in Seq(Chars)
  BY Selection, TextFacts, LengthsAssumption
<1>0. PICK i \in 0..Len(text) : i = cursorPos - 1
  <2>1. cursorPos - 1 \in 0..Len(text)
    BY <1>1
  <2> QED BY <2>1
<1>2. PICK t : i = cursorPos - 1 /\ t = Removed(text, i, 1)
  BY <1>0
<1>3. i + 1 \in i..Len(text) /\ i \in Nat /\ (i + 1) - i = 1 /\ i + 1 = cursorPos
  BY <1>1, <1>2
<1>4. /\ t = SubSeq(text, 1, i) \o SubSeq(text, cursorPos + 1, Len(text))
      /\ t \in Seq(Chars) /\ Len(t) = i + (Len(text) - (i + 1))
  <2>1. /\ Removed(text, i, (i + 1) - i) = SubSeq(text, 1, i) \o SubSeq(text, (i + 1) + 1, Len(text))
        /\ Removed(text, i, (i + 1) - i) \in Seq(Chars)
        /\ Len(Removed(text, i, (i + 1) - i)) = i + (Len(text) - (i + 1))
    BY <1>1, <1>3, Replacing
  <2> QED BY <1>2, <1>3, <2>1
<1>5. text' = t /\ Len(t) <= MaxLen /\ cursorPos' = Smaller(i, Len(t)) /\ selStart' = i
  BY <1>2 DEF UpdateText
<1>6. i <= Len(t) /\ Len(t) \in Nat /\ Smaller(i, Len(t)) = i /\ i \in 0..MaxLen /\ i \in 0..Len(t)
  <2>1. PICK n : n = Len(t)
    OBVIOUS
  <2>2. n = i + (Len(text) - (i + 1)) /\ n <= MaxLen
    BY <1>4, <1>5, <2>1
  <2>3. i <= n /\ n \in Nat /\ Smaller(i, n) = i /\ i \in 0..MaxLen /\ i \in 0..n
    BY <1>1, <1>3, <2>2 DEF Smaller
  <2> QED BY <2>1, <2>3
<1>7. Len(text') = Len(t)
  BY <1>5
<1>8. InputOK'
  BY <1>4, <1>5, <1>6, <1>7 DEF InputOK
<1>9. Input!EraseLeft
  <2>1. Smaller(selStart, Len(text))' = i
    BY <1>5, <1>6
  <2>2. text' = SubSeq(text, 1, cursorPos - 1) \o Input!After
    BY <1>1, <1>2, <1>4, <1>5 DEF Input!After
  <2> QED BY <1>1, <1>2, <1>5, <1>6, <2>1, <2>2 DEF Input!EraseLeft
<1> QED BY <1>8, <1>9

LEMMA ErasedRight ==
  ASSUME InputOK, ~HasSelection, cursorPos < Len(text),
         UpdateText(Removed(text, cursorPos, 1), cursorPos, selStart)
  PROVE  InputOK' /\ Input!EraseRight
<1>1. /\ text \in Seq(Chars) /\ Len(text) \in Nat /\ cursorPos \in 0..Len(text)
      /\ Smaller(selStart, Len(text)) = cursorPos /\ Input!From = cursorPos /\ MaxLen \in Nat
      /\ selStart = cursorPos
  BY Selection, TextFacts, LengthsAssumption DEF HasSelection
<1>0. PICK i \in 0..Len(text) : i = cursorPos
  BY <1>1
<1>2. PICK t : i = cursorPos /\ t = Removed(text, i, 1)
  BY <1>0
<1>3. i + 1 \in i..Len(text) /\ i \in Nat /\ (i + 1) - i = 1 /\ (i + 1) + 1 = i + 2
  BY <1>1, <1>2
<1>4. /\ t = SubSeq(text, 1, i) \o SubSeq(text, i + 2, Len(text))
      /\ t \in Seq(Chars) /\ Len(t) = i + (Len(text) - (i + 1))
  <2>1. <<>> \in Seq(Chars) /\ text \in Seq(Chars)
    BY <1>1, TextFacts
  <2>2. /\ Removed(text, i, (i + 1) - i) = SubSeq(text, 1, i) \o SubSeq(text, (i + 1) + 1, Len(text))
        /\ Removed(text, i, (i + 1) - i) \in Seq(Chars)
        /\ Len(Removed(text, i, (i + 1) - i)) = i + (Len(text) - (i + 1))
    BY <1>3, <2>1, Replacing
  <2> QED BY <1>2, <1>3, <2>2
<1>5. text' = t /\ Len(t) <= MaxLen /\ cursorPos' = Smaller(i, Len(t)) /\ selStart' = i
  BY <1>1, <1>2 DEF UpdateText
<1>6. i <= Len(t) /\ Len(t) \in Nat /\ Smaller(i, Len(t)) = i /\ i \in 0..MaxLen /\ i \in 0..Len(t)
  <2>1. PICK n : n = Len(t)
    OBVIOUS
  <2>2. n = i + (Len(text) - (i + 1)) /\ n <= MaxLen
    BY <1>4, <1>5, <2>1
  <2>3. i <= n /\ n \in Nat /\ Smaller(i, n) = i /\ i \in 0..MaxLen /\ i \in 0..n
    BY <1>1, <1>3, <2>2 DEF Smaller
  <2> QED BY <2>1, <2>3
<1>7. Len(text') = Len(t)
  BY <1>5
<1>8. InputOK'
  BY <1>4, <1>5, <1>6, <1>7 DEF InputOK
<1>9. Input!EraseRight
  <2>1. Smaller(selStart, Len(text))' = i
    BY <1>5, <1>6
  <2>2. text' = Input!Before \o SubSeq(text, cursorPos + 2, Len(text))
    BY <1>1, <1>2, <1>4, <1>5 DEF Input!Before
  <2> QED BY <1>1, <1>2, <1>5, <1>6, <2>1, <2>2 DEF Input!EraseRight
<1> QED BY <1>8, <1>9

(* Moving the cursor, with the anchor or without it.                       *)
LEMMA Moved ==
  ASSUME InputOK, NEW i \in 0..Len(text), UNCHANGED text, cursorPos' = i, selStart' \in {i, selStart}
  PROVE  InputOK' /\ Input!Place(i)
<1>1. Len(text) \in Nat /\ MaxLen \in Nat /\ Len(text) <= MaxLen
  BY Selection, LengthsAssumption DEF InputOK
<1>2. Len(text') = Len(text) /\ Smaller(i, Len(text)) = i /\ i \in 0..MaxLen
  BY <1>1 DEF Smaller
<1>3. InputOK'
  BY <1>1, <1>2 DEF InputOK
<1>4. Smaller(selStart, Len(text))' \in {i, Smaller(selStart, Len(text))}
  BY <1>2
<1> QED BY <1>3, <1>4 DEF Input!Place

LEMMA AllSelected ==
  ASSUME InputOK, selStart' = 0, cursorPos' = Len(text), UNCHANGED text
  PROVE  InputOK' /\ Input!SelectAll
<1>1. Len(text) \in Nat /\ MaxLen \in Nat /\ Len(text) <= MaxLen /\ Len(text') = Len(text)
  BY Selection, LengthsAssumption DEF InputOK
<1>2. Smaller(0, Len(text)) = 0
  BY <1>1 DEF Smaller
<1>3. InputOK'
  BY <1>1 DEF InputOK
<1>4. Smaller(selStart, Len(text))' = 0
  BY <1>1, <1>2
<1> QED BY <1>3, <1>4 DEF Input!SelectAll

-----------------------------------------------------------------------------
(* The steps of the input bar.                                             *)
InputMoves == InputOK' /\ [Input!Next]_(Input!fieldVars)

LEMMA InputStays == ASSUME InputOK, UNCHANGED inputVars PROVE InputMoves
<1>1. InputOK'
  BY DEF InputOK, inputVars
<1>2. UNCHANGED Input!fieldVars
  BY DEF inputVars, Input!fieldVars
<1> QED BY <1>1, <1>2 DEF InputMoves

LEMMA InputErases == ASSUME InputOK, DeleteSelection PROVE InputMoves
  BY Erased DEF InputMoves, Input!Next

LEMMA InputInserts ==
  ASSUME InputOK, NEW s \in Seq(Chars), Insert(s)
  PROVE  InputMoves
<1>1. s \in Texts \union {<<>>}
  BY Typed, TextFacts
<1> QED BY <1>1, Typed DEF InputMoves, Input!Next

LEMMA InputClears == ASSUME InputOK, Clear PROVE InputMoves
  BY Emptied DEF InputMoves, Input!Next

LEMMA InputPlaces ==
  ASSUME InputOK, NEW i \in 0..Len(text), UNCHANGED text, cursorPos' = i, selStart' \in {i, selStart}
  PROVE  InputMoves
  BY Moved DEF InputMoves, Input!Next

LEMMA StepInput == ASSUME InputOK, ClipOK, [Next]_vars PROVE InputMoves
<1>0. /\ text \in Seq(Chars) /\ Len(text) \in Nat /\ cursorPos \in 0..Len(text)
      /\ SelFrom \in 0..Len(text) /\ SelTo \in Nat
  BY Selection
<1>1. CASE Return
  BY <1>1, InputClears DEF Return
<1>2. CASE Backspace
  <2>1. CASE HasSelection /\ DeleteSelection
    BY <2>1, InputErases
  <2>2. CASE /\ ~HasSelection /\ cursorPos > 0
             /\ UpdateText(Removed(text, cursorPos - 1, 1), cursorPos - 1, cursorPos - 1)
    BY <2>2, ErasedLeft DEF InputMoves, Input!Next
  <2> QED BY <1>2, <2>1, <2>2 DEF Backspace
<1>3. CASE Delete
  <2>1. CASE HasSelection /\ DeleteSelection
    BY <2>1, InputErases
  <2>2. CASE /\ ~HasSelection /\ cursorPos < Len(text)
             /\ UpdateText(Removed(text, cursorPos, 1), cursorPos, selStart)
    BY <2>2, ErasedRight DEF InputMoves, Input!Next
  <2> QED BY <1>3, <2>1, <2>2 DEF Delete
<1>4. CASE Escape
  <2>1. CASE HasSelection
    BY <1>0, <1>4, <2>1, InputPlaces DEF Escape
  <2>2. CASE ~HasSelection
    BY <1>4, <2>2, InputClears DEF Escape
  <2> QED BY <2>1, <2>2
<1>5. ASSUME NEW pos \in 0..Len(text), MoveCursor(pos) \/ (\E shift \in BOOLEAN : Arrow(pos, shift))
      PROVE  InputMoves
  <2>1. Smaller(pos, Len(text)) = pos
    BY <1>0 DEF Smaller
  <2> QED BY <1>5, <2>1, InputPlaces DEF MoveCursor, Arrow
<1>6. ASSUME NEW shift \in BOOLEAN, Left(shift) \/ Right(shift) \/ HomeKey(shift) \/ EndKey(shift)
      PROVE  InputMoves
  <2>1. CASE Left(shift)
    <3>1. CASE MoveCursor(SelFrom)
      BY <1>0, <1>5, <3>1
    <3>2. CASE cursorPos > 0 /\ Arrow(cursorPos - 1, shift)
      <4>1. cursorPos - 1 \in 0..Len(text)
        BY <1>0, <3>2
      <4> QED BY <1>5, <3>2, <4>1
    <3> QED BY <2>1, <3>1, <3>2 DEF Left
  <2>2. CASE Right(shift)
    <3>1. CASE MoveCursor(SelTo)
      <4>1. Smaller(SelTo, Len(text)) \in 0..Len(text)
        BY <1>0 DEF Smaller
      <4> QED BY <3>1, <4>1, InputPlaces DEF MoveCursor
    <3>2. CASE cursorPos < Len(text) /\ Arrow(cursorPos + 1, shift)
      <4>1. cursorPos + 1 \in 0..Len(text)
        BY <1>0, <3>2
      <4> QED BY <1>5, <3>2, <4>1
    <3> QED BY <2>2, <3>1, <3>2 DEF Right
  <2>3. CASE HomeKey(shift) \/ EndKey(shift)
    <3>1. 0 \in 0..Len(text) /\ Len(text) \in 0..Len(text)
      BY <1>0
    <3>2. Arrow(0, shift) \/ Arrow(Len(text), shift)
      BY <2>3 DEF HomeKey, EndKey
    <3> QED BY <1>5, <3>1, <3>2
  <2> QED BY <1>6, <2>1, <2>2, <2>3
<1>7. CASE SelectAllKey
  BY <1>7, AllSelected DEF SelectAllKey, InputMoves, Input!Next
<1>8. CASE CutKey
  BY <1>8, InputErases, InputClears DEF CutKey
<1>9. CASE PasteKey
  <2>1. CASE clipImage
    BY <1>9, <2>1, InputStays DEF PasteKey
  <2>2. CASE ~clipImage
    BY <1>9, <2>2, InputInserts DEF PasteKey, ClipOK
  <2> QED BY <2>1, <2>2
<1>10. CASE Compose
  BY <1>10, InputErases DEF Compose
<1>11. ASSUME NEW c \in Chars, Type(c) PROVE InputMoves
  <2>1. <<c>> \in Seq(Chars)
    OBVIOUS
  <2> QED BY <1>11, <2>1, InputInserts DEF Type
<1>12. ASSUME NEW s \in Pairs, Commit(s) PROVE InputMoves
  <2>1. PICK c \in Chars, d \in Chars : s = <<c, d>>
    BY DEF Pairs
  <2>2. s \in Seq(Chars)
    BY <2>1
  <2> QED BY <1>12, <2>2, InputInserts DEF Commit
<1>13. ASSUME NEW i \in Positions, Press(i) \/ Drag(i) PROVE InputMoves
  BY <1>13, InputPlaces DEF Press, Drag
<1>14. CASE CopyKey \/ ImageLeaves \/ FocusBar \/ Release \/ SearchPress \/ CopiedElsewhere
  BY <1>14, InputStays DEF CopyKey, ImageLeaves, FocusBar, Release, SearchPress, CopiedElsewhere
<1>15. CASE SearchBackspace \/ SearchDelete \/ SearchArrow \/ SearchEscape \/ SearchPaste
  BY <1>15, InputStays DEF SearchBackspace, SearchDelete, SearchArrow, SearchEscape, SearchPaste,
     SearchRest
<1>16. CASE \/ \E c \in Chars : SearchType(c)
            \/ \E s \in Pairs : SearchCommit(s)
            \/ \E cut \in BOOLEAN : SearchCopy(cut)
  BY <1>16, InputStays DEF SearchType, SearchCommit, SearchCopy, SearchRest
<1>17. CASE UNCHANGED vars
  BY <1>17, InputStays DEF vars
<1> QED BY <1>1, <1>2, <1>3, <1>4, <1>6, <1>7, <1>8, <1>9, <1>10, <1>11, <1>12, <1>13, <1>14,
           <1>15, <1>16, <1>17 DEF Next

-----------------------------------------------------------------------------
(* The steps of the search bar.                                            *)
SearchMoves == SearchOK' /\ [Search!Next]_(Search!fieldVars)

LEMMA SearchFacts ==
  ASSUME SearchOK
  PROVE  /\ query \in Seq(Chars) /\ Len(query) \in Nat /\ queryPos \in 0..Len(query)
         /\ queryPos \in Nat /\ MaxQuery \in Nat /\ MaxQuery <= MaxLen /\ MaxLen \in Nat
         /\ Search!From = queryPos /\ Search!To = queryPos
  BY TextFacts, LengthsAssumption DEF SearchOK, Search!From, Search!To

LEMMA SearchStays == ASSUME SearchOK, UNCHANGED searchVars PROVE SearchMoves
  BY DEF SearchMoves, SearchOK, searchVars, Search!fieldVars

(* The text t is short enough and the cursor lies in it.                   *)
LEMMA Queried ==
  ASSUME NEW t \in Seq(Chars), NEW i \in 0..Len(t), UpdateQuery(t, i)
  PROVE  SearchOK' /\ query' = t /\ queryPos' = i
<1>1. Len(t) \in Nat /\ i \in Nat /\ i <= Len(t)
  BY TextFacts
<1>2. Smaller(i, Len(t)) = i
  BY <1>1 DEF Smaller
<1> QED BY <1>2 DEF UpdateQuery, SearchOK

LEMMA SearchInserts ==
  ASSUME SearchOK, NEW s \in Seq(Chars), InsertQuery(s)
  PROVE  SearchMoves
<1> DEFINE t == Inserted(query, queryPos, s)
           n == Len(query)
<1>1. /\ query \in Seq(Chars) /\ n \in Nat /\ queryPos \in 0..n /\ queryPos \in queryPos..n
      /\ MaxQuery \in Nat /\ MaxQuery <= MaxLen /\ MaxLen \in Nat /\ Len(s) \in Nat
  BY SearchFacts, TextFacts
<1>2. /\ t = Search!Before \o s \o Search!After
      /\ t \in Seq(Chars) /\ Len(t) = queryPos + Len(s) + (n - queryPos)
  <2>1. /\ t = SubSeq(query, 1, queryPos) \o s \o SubSeq(query, queryPos + 1, n)
        /\ SubSeq(query, 1, queryPos) \o s \o SubSeq(query, queryPos + 1, n) \in Seq(Chars)
        /\ Len(SubSeq(query, 1, queryPos) \o s \o SubSeq(query, queryPos + 1, n))
              = queryPos + Len(s) + (n - queryPos)
    BY <1>1, Replacing
  <2> HIDE DEF t
  <2> QED BY <2>1, SearchFacts DEF Search!Before, Search!After
<1>3. UpdateQuery(t, queryPos + Len(s))
  BY DEF InsertQuery
<1>4. Len(t) <= MaxQuery
  BY <1>3 DEF UpdateQuery
<1>5. Len(t) = queryPos + Len(s) + (n - queryPos) /\ t \in Seq(Chars)
  BY <1>2
<1> HIDE DEF t, n
<1>6. queryPos + Len(s) \in 0..Len(t) /\ Len(s) <= MaxLen
  BY <1>1, <1>4, <1>5
<1>7. SearchOK' /\ query' = t /\ queryPos' = queryPos + Len(s)
  BY <1>3, <1>5, <1>6, Queried
<1>8. s \in Texts \union {<<>>}
  BY <1>6, TextFacts
<1>9. Search!Replace(s)
  BY <1>2, <1>7, SearchFacts DEF Search!Replace
<1> QED BY <1>7, <1>8, <1>9 DEF SearchMoves, Search!Next

LEMMA SearchErases ==
  ASSUME SearchOK, SearchBackspace \/ SearchDelete
  PROVE  SearchMoves
<1>1. /\ query \in Seq(Chars) /\ Len(query) \in Nat /\ queryPos \in 0..Len(query)
      /\ <<>> \in Seq(Chars)
  BY SearchFacts, TextFacts
<1>2. ASSUME NEW i \in 0..Len(query), i < Len(query)
      PROVE  /\ Removed(query, i, 1) = SubSeq(query, 1, i) \o SubSeq(query, i + 2, Len(query))
             /\ Removed(query, i, 1) \in Seq(Chars) /\ i \in 0..Len(Removed(query, i, 1))
  <2>1. i + 1 \in i..Len(query) /\ (i + 1) - i = 1 /\ (i + 1) + 1 = i + 2 /\ i \in Nat
    BY <1>1, <1>2
  <2>2. /\ Removed(query, i, (i + 1) - i) = SubSeq(query, 1, i) \o SubSeq(query, (i + 1) + 1, Len(query))
        /\ Removed(query, i, (i + 1) - i) \in Seq(Chars)
        /\ Len(Removed(query, i, (i + 1) - i)) = i + (Len(query) - (i + 1))
    BY <1>1, <2>1, Replacing
  <2>3. Len(Removed(query, i, 1)) = i + (Len(query) - (i + 1))
    BY <2>1, <2>2
  <2>4. i \in 0..Len(Removed(query, i, 1))
    <3>1. i \in 0..(i + (Len(query) - (i + 1)))
      BY <1>1, <1>2, <2>1
    <3> QED BY <2>3, <3>1
  <2> QED BY <2>1, <2>2, <2>4
<1>3. CASE SearchBackspace
  <2>1. PICK i \in 0..Len(query) : i = queryPos - 1
    <3>1. queryPos - 1 \in 0..Len(query)
      BY <1>1, <1>3 DEF SearchBackspace
    <3> QED BY <3>1
  <2>2. i < Len(query) /\ i + 2 = queryPos + 1
    BY <1>1, <2>1
  <2>3. UpdateQuery(Removed(query, i, 1), i) /\ queryPos > 0
    BY <1>3, <2>1 DEF SearchBackspace
  <2>4. SearchOK' /\ query' = Removed(query, i, 1) /\ queryPos' = i
    BY <1>2, <2>2, <2>3, Queried
  <2>5. Removed(query, i, 1) = SubSeq(query, 1, queryPos - 1) \o SubSeq(query, queryPos + 1, Len(query))
    BY <1>2, <2>1, <2>2
  <2>6. Search!EraseLeft
    BY <2>1, <2>3, <2>4, <2>5, SearchFacts DEF Search!EraseLeft, Search!After
  <2> QED BY <2>4, <2>6 DEF SearchMoves, Search!Next
<1>4. CASE SearchDelete
  <2>1. queryPos < Len(query) /\ UpdateQuery(Removed(query, queryPos, 1), queryPos)
    BY <1>4 DEF SearchDelete
  <2>2. SearchOK' /\ query' = Removed(query, queryPos, 1) /\ queryPos' = queryPos
    BY <1>1, <1>2, <2>1, Queried
  <2>3. Removed(query, queryPos, 1)
           = SubSeq(query, 1, queryPos) \o SubSeq(query, queryPos + 2, Len(query))
    BY <1>1, <1>2, <2>1
  <2>4. Search!EraseRight
    BY <2>1, <2>2, <2>3, SearchFacts DEF Search!EraseRight, Search!Before
  <2> QED BY <2>2, <2>4 DEF SearchMoves, Search!Next
<1> QED BY <1>3, <1>4

LEMMA SearchClears == ASSUME SearchOK, UpdateQuery(<<>>, queryPos) PROVE SearchMoves
<1>1. queryPos \in Nat /\ <<>> \in Seq(Chars) /\ Len(<<>>) = 0 /\ MaxQuery \in Nat
  BY SearchFacts, TextFacts
<1>2. Smaller(queryPos, 0) = 0
  BY <1>1 DEF Smaller
<1>3. query' = <<>> /\ queryPos' = 0
  BY <1>1, <1>2 DEF UpdateQuery
<1>4. SearchOK'
  BY <1>1, <1>3 DEF SearchOK
<1>5. Search!Clear
  BY <1>3 DEF Search!Clear
<1> QED BY <1>4, <1>5 DEF SearchMoves, Search!Next

LEMMA SearchPlaces ==
  ASSUME SearchOK, NEW i \in 0..Len(query), UNCHANGED query, queryPos' = i
  PROVE  SearchMoves
<1>1. SearchOK'
  BY DEF SearchOK
<1>2. Search!Place(i)
  BY DEF Search!Place
<1> QED BY <1>1, <1>2 DEF SearchMoves, Search!Next

LEMMA StepSearch == ASSUME SearchOK, ClipOK, [Next]_vars PROVE SearchMoves
<1>1. CASE SearchBackspace \/ SearchDelete
  BY <1>1, SearchErases
<1>2. CASE SearchArrow
  <2>1. /\ Len(query) \in Nat /\ queryPos \in 0..Len(query)
        /\ UNCHANGED query
        /\ \/ queryPos > 0 /\ queryPos' = queryPos - 1
           \/ queryPos < Len(query) /\ queryPos' = queryPos + 1
           \/ queryPos' \in {0, Len(query)}
    BY <1>2, SearchFacts DEF SearchArrow
  <2>2. queryPos' \in 0..Len(query)
    BY <2>1
  <2> QED BY <2>1, <2>2, SearchPlaces
<1>3. CASE SearchEscape
  BY <1>3, SearchClears DEF SearchEscape
<1>4. ASSUME NEW cut \in BOOLEAN, SearchCopy(cut) PROVE SearchMoves
  BY <1>4, SearchClears, SearchStays DEF SearchCopy
<1>5. CASE SearchPaste
  BY <1>5, SearchInserts DEF SearchPaste, ClipOK
<1>6. ASSUME NEW c \in Chars, SearchType(c) PROVE SearchMoves
  <2>1. <<c>> \in Seq(Chars)
    OBVIOUS
  <2> QED BY <1>6, <2>1, SearchInserts DEF SearchType
<1>7. ASSUME NEW s \in Pairs, SearchCommit(s) PROVE SearchMoves
  <2>1. PICK c \in Chars, d \in Chars : s = <<c, d>>
    BY DEF Pairs
  <2>2. s \in Seq(Chars)
    BY <2>1
  <2> QED BY <1>7, <2>2, SearchInserts DEF SearchCommit
<1>8. CASE \/ SearchPress \/ CopiedElsewhere \/ ImageLeaves \/ FocusBar \/ Release \/ UNCHANGED vars
  BY <1>8, SearchStays DEF SearchPress, CopiedElsewhere, ImageLeaves, FocusBar, Release, vars
<1>9. CASE \/ Return \/ Backspace \/ Delete \/ Escape \/ SelectAllKey \/ CopyKey \/ CutKey
           \/ PasteKey \/ Compose
  BY <1>9, SearchStays DEF Return, Backspace, Delete, Escape, SelectAllKey, CopyKey, CutKey,
     PasteKey, Compose, Rest, searchVars
<1>10. CASE \/ \E shift \in BOOLEAN : Left(shift) \/ Right(shift) \/ HomeKey(shift) \/ EndKey(shift)
            \/ \E c \in Chars : Type(c)
            \/ \E s \in Pairs : Commit(s)
            \/ \E i \in Positions : Press(i) \/ Drag(i)
  BY <1>10, SearchStays DEF Left, Right, HomeKey, EndKey, Type, Commit, Press, Drag, Rest
<1> QED BY <1>1, <1>2, <1>3, <1>4, <1>5, <1>6, <1>7, <1>8, <1>9, <1>10 DEF Next

-----------------------------------------------------------------------------
(* What is copied is a text that may be pasted anywhere.                   *)
LEMMA StepClip == ASSUME InputOK, SearchOK, ClipOK, [Next]_vars PROVE ClipOK'
<1>1. clipboard' \in {clipboard, text, query, SelectedText, <<>>} \union Letters
  <2>1. CASE CopyKey \/ CutKey
    BY <2>1 DEF CopyKey, CutKey
  <2>2. CASE \E cut \in BOOLEAN : SearchCopy(cut)
    BY <2>2 DEF SearchCopy
  <2>3. CASE CopiedElsewhere
    BY <2>3 DEF CopiedElsewhere
  <2>4. CASE \/ Return \/ Backspace \/ Delete \/ Escape \/ SelectAllKey \/ PasteKey \/ Compose
             \/ ImageLeaves \/ FocusBar \/ Release \/ UNCHANGED vars
    BY <2>4 DEF Return, Backspace, Delete, Escape, SelectAllKey, PasteKey, Compose, ImageLeaves,
       FocusBar, Release, Rest, clipVars, vars
  <2>5. CASE \/ \E shift \in BOOLEAN : Left(shift) \/ Right(shift) \/ HomeKey(shift) \/ EndKey(shift)
             \/ \E c \in Chars : Type(c) \/ SearchType(c)
             \/ \E s \in Pairs : Commit(s) \/ SearchCommit(s)
             \/ \E i \in Positions : Press(i) \/ Drag(i)
    BY <2>5 DEF Left, Right, HomeKey, EndKey, Type, SearchType, Commit, SearchCommit, Press, Drag,
       Rest, SearchRest, clipVars
  <2>6. CASE SearchBackspace \/ SearchDelete \/ SearchArrow \/ SearchEscape \/ SearchPaste \/ SearchPress
    BY <2>6 DEF SearchBackspace, SearchDelete, SearchArrow, SearchEscape, SearchPaste, SearchPress,
       SearchRest, clipVars
  <2> QED BY <2>1, <2>2, <2>3, <2>4, <2>5, <2>6 DEF Next
<1>2. /\ Len(text) \in Nat /\ Len(text) <= MaxLen /\ text \in Seq(Chars)
      /\ Len(query) <= MaxLen /\ query \in Seq(Chars)
      /\ MaxLen \in Nat /\ 1 <= MaxLen /\ <<>> \in Seq(Chars) /\ Len(<<>>) = 0
  BY SearchFacts, TextFacts, LengthsAssumption DEF InputOK, SearchOK
<1>3. SelectedText \in Seq(Chars) /\ Len(SelectedText) <= MaxLen
  <2>1. /\ SelFrom \in 0..Len(text) /\ Smaller(SelTo, Len(text)) \in SelFrom..Len(text)
        /\ \A k \in 1..Len(text) : text[k] \in Chars
    BY <1>2, Selection, ElementOfSeq
  <2>2. PICK m \in Nat, n \in Nat : m = SelFrom + 1 /\ n = Smaller(SelTo, Len(text))
    BY <1>2, <2>1
  <2>3. 1 <= m /\ n <= Len(text) /\ \A k \in m..n : text[k] \in Chars
    BY <1>2, <2>1, <2>2
  <2>4. /\ SubSeq(text, m, n) \in Seq(Chars)
        /\ Len(SubSeq(text, m, n)) = IF m <= n THEN n - m + 1 ELSE 0
    BY <2>3, SubSeqProperties
  <2>5. Len(SubSeq(text, m, n)) <= MaxLen
    BY <1>2, <2>3, <2>4
  <2> QED BY <2>2, <2>4, <2>5 DEF SelectedText
<1>4. \A t \in Letters : t \in Seq(Chars) /\ Len(t) <= MaxLen
  <2>1. ASSUME NEW c \in Chars PROVE <<c>> \in Seq(Chars) /\ Len(<<c>>) <= MaxLen
    BY <1>2
  <2> QED BY <2>1 DEF Letters
<1>5. ASSUME NEW t, t = clipboard' PROVE t \in Seq(Chars) /\ Len(t) <= MaxLen
  <2>1. t \in {clipboard, text, query, SelectedText, <<>>} \union Letters
    BY <1>1, <1>5
  <2>2. 0 <= MaxLen
    BY <1>2
  <2> QED BY <1>2, <1>3, <1>4, <2>1, <2>2 DEF ClipOK
<1> QED BY <1>5 DEF ClipOK

LEMMA StepRest == ASSUME RestOK, [Next]_vars PROVE RestOK'
<1>1. /\ dragging' \in {dragging, TRUE, FALSE} /\ image' \in {image, TRUE, FALSE}
      /\ clipImage' \in {clipImage, TRUE, FALSE} /\ focus' \in {focus, "input", "search", "none"}
  <2>1. CASE CopyKey \/ CutKey \/ CopiedElsewhere \/ \E cut \in BOOLEAN : SearchCopy(cut)
    BY <2>1 DEF CopyKey, CutKey, CopiedElsewhere, SearchCopy
  <2>2. CASE \/ Return \/ Backspace \/ Delete \/ Escape \/ SelectAllKey \/ PasteKey \/ Compose
             \/ ImageLeaves \/ FocusBar \/ Release \/ UNCHANGED vars
    BY <2>2 DEF Return, Backspace, Delete, Escape, SelectAllKey, PasteKey, Compose, ImageLeaves,
       FocusBar, Release, Rest, clipVars, vars
  <2>3. CASE \/ \E shift \in BOOLEAN : Left(shift) \/ Right(shift) \/ HomeKey(shift) \/ EndKey(shift)
             \/ \E c \in Chars : Type(c) \/ SearchType(c)
             \/ \E s \in Pairs : Commit(s) \/ SearchCommit(s)
             \/ \E i \in Positions : Press(i) \/ Drag(i)
    BY <2>3 DEF Left, Right, HomeKey, EndKey, Type, SearchType, Commit, SearchCommit, Press, Drag,
       Rest, SearchRest, clipVars
  <2>4. CASE SearchBackspace \/ SearchDelete \/ SearchArrow \/ SearchEscape \/ SearchPaste \/ SearchPress
    BY <2>4 DEF SearchBackspace, SearchDelete, SearchArrow, SearchEscape, SearchPaste, SearchPress,
       SearchRest, clipVars
  <2> QED BY <2>1, <2>2, <2>3, <2>4 DEF Next
<1> QED BY <1>1 DEF RestOK

LEMMA InitText == ASSUME Init PROVE TypeOK /\ Input!Init /\ Search!Init
<1>1. <<>> \in Seq(Chars) /\ Len(<<>>) = 0 /\ 0 <= MaxLen /\ 0 <= MaxQuery /\ 0 \in 0..MaxLen /\ 0 \in 0..0
  BY TextFacts, LengthsAssumption
<1>2. Smaller(0, 0) = 0
  BY DEF Smaller
<1>3. InputOK /\ SearchOK /\ ClipOK /\ RestOK
  BY <1>1 DEF Init, InputOK, SearchOK, ClipOK, RestOK
<1>4. Input!Init /\ Search!Init
  BY <1>1, <1>2 DEF Init, Input!Init, Search!Init
<1> QED BY <1>3, <1>4, TypeParts

LEMMA StepText ==
  ASSUME TypeOK, [Next]_vars
  PROVE  TypeOK' /\ [Input!Next]_(Input!fieldVars) /\ [Search!Next]_(Search!fieldVars)
<1>1. InputOK /\ SearchOK /\ ClipOK /\ RestOK
  BY TypeParts
<1>2. InputOK' /\ SearchOK' /\ ClipOK' /\ RestOK'
  BY <1>1, StepInput, StepSearch, StepClip, StepRest DEF InputMoves, SearchMoves
<1>3. [Input!Next]_(Input!fieldVars) /\ [Search!Next]_(Search!fieldVars)
  BY <1>1, StepInput, StepSearch DEF InputMoves, SearchMoves
<1>4. TypeOK'
  <2>1. (TypeOK <=> InputOK /\ SearchOK /\ ClipOK /\ RestOK)'
    BY TypeParts, PTL
  <2> QED BY <1>2, <2>1
<1> QED BY <1>3, <1>4

-----------------------------------------------------------------------------
(* Cursors and selections stay within their texts, except that the anchor  *)
(* of the input bar may lie beyond an empty one (ChatInputBar.cpp:102-108, *)
(* 510-515, SearchBar.cpp:134-222).                                        *)
THEOREM FieldsTyped == Spec => []TypeOK
<1>1. Init => TypeOK
  BY InitText
<1>2. TypeOK /\ [Next]_vars => TypeOK'
  BY StepText
<1> QED BY <1>1, <1>2, PTL DEF Spec

(* Every step of either field is one of LineEdit's: whatever a key, a drag *)
(* or an input method does, text changes only at the selection or next to  *)
(* the cursor (ChatInputBar.cpp:300-515, SearchBar.cpp:134-222).           *)
THEOREM EditsCorrect == Spec => Edits
<1>1. Init => Input!Init /\ Search!Init
  BY InitText
<1>2. TypeOK /\ [Next]_vars => [Input!Next]_(Input!fieldVars) /\ [Search!Next]_(Search!fieldVars)
  BY StepText
<1> QED BY <1>1, <1>2, FieldsTyped, PTL DEF Spec, Edits, Input!Spec, Search!Spec

=============================================================================
