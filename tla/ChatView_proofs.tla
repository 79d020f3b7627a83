--------------------------- MODULE ChatView_proofs ---------------------------
(***************************************************************************)
(* Proofs about ChatView, for any messages, folders, heights and sizes of  *)
(* the cache: first what the recursive functions of FolderTree and         *)
(* ChatView compute, by induction over numbers; then that the lines of a   *)
(* tree are those that it should show; then the operators of the layout    *)
(* and of ThumbCache; then one lemma for each action.                      *)
(***************************************************************************)
EXTENDS ChatView, FiniteSetTheorems, SequenceTheorems, NaturalsInduction, WellFoundedInduction,
        TLAPS

-----------------------------------------------------------------------------
(* Induction over numbers, and what is computed step by step.              *)
LEMMA Smallest ==
  ASSUME NEW T, T \subseteq Nat, T # {}
  PROVE  \E x \in T : \A y \in T : x <= y
<1> DEFINE Less == OpToRel(<, Nat)
<1>1. IsWellFoundedOn(Less, Nat)
  BY NatLessThanWellFounded
<1>2. \A x, y \in Nat : y < x => <<y, x>> \in Less
  BY DEF OpToRel
<1> HIDE DEF Less
<1>3. PICK x \in T : \A y \in T : ~(<<y, x>> \in Less)
  BY <1>1, WFMin
<1>4. \A y \in T : ~(y < x)
  BY <1>2, <1>3
<1> QED BY <1>4

LEMMA Upwards ==
  ASSUME NEW n \in Nat, NEW S, 0 \in S, \A i \in 1..n : i - 1 \in S => i \in S
  PROVE  \A i \in 0..n : i \in S
<1> DEFINE T == {i \in 0..n : i \notin S}
<1>1. SUFFICES ASSUME T # {} PROVE FALSE
  OBVIOUS
<1>0. T \subseteq Nat
  OBVIOUS
<1>2. PICK i \in T : \A j \in T : i <= j
  <2> HIDE DEF T
  <2> QED BY <1>0, <1>1, Smallest
<1>3. i \in 1..n /\ i - 1 \in 0..n /\ i - 1 \notin T
  BY <1>2
<1> QED BY <1>3

(* n steps in V from v, of which the i-th takes u to g[<<i, u>>].          *)
Stepper(g, V, n) == g \in [(1..n) \X V -> V]

Steps(f, g, V, v, n) == /\ f \in [0..n -> V] /\ f[0] = v
                        /\ \A i \in 1..n : f[i] = g[<<i, f[i - 1]>>]

LEMMA Iterate ==
  ASSUME NEW V, NEW v \in V, NEW n \in Nat, NEW g, Stepper(g, V, n)
  PROVE  \E f : Steps(f, g, V, v, n)
<1> DEFINE So(f, m) == f[0] = v /\ \A i \in 1..m : f[i] = g[<<i, f[i - 1]>>]
           S == {m \in 0..n : \E f \in [0..n -> V] : So(f, m)}
<1>0. g \in [(1..n) \X V -> V]
  BY DEF Stepper
<1>1. 0 \in S
  <2> DEFINE f == [i \in 0..n |-> v]
  <2>1. f \in [0..n -> V] /\ So(f, 0)
    OBVIOUS
  <2> HIDE DEF f, So
  <2> QED BY <2>1
<1>2. ASSUME NEW m \in 1..n, m - 1 \in S PROVE m \in S
  <2>1. PICK f \in [0..n -> V] : So(f, m - 1)
    BY <1>2
  <2>0. m - 1 \in 0..n /\ m \in 0..n
    OBVIOUS
  <2> DEFINE h == [f EXCEPT ![m] = g[<<m, f[m - 1]>>]]
  <2>2. <<m, f[m - 1]>> \in (1..n) \X V
    BY <2>0
  <2>3. g[<<m, f[m - 1]>>] \in V
    BY <2>2, <1>0
  <2>4. h \in [0..n -> V]
    BY <2>3
  <2>5. ASSUME NEW i \in 1..m PROVE h[i] = g[<<i, h[i - 1]>>]
    <3>1. h[i - 1] = f[i - 1]
      OBVIOUS
    <3>2. CASE i = m
      <4>1. h[i] = g[<<m, f[m - 1]>>]
        BY <3>2
      <4> QED BY <3>1, <3>2, <4>1
    <3>3. CASE i # m
      <4>1. i \in 1..(m - 1) /\ h[i] = f[i]
        BY <3>3
      <4> QED BY <3>1, <4>1, <2>1
    <3> QED BY <3>2, <3>3
  <2>6. h[0] = v
    BY <2>1
  <2>7. So(h, m)
    <3> HIDE DEF h
    <3> QED BY <2>5, <2>6
  <2> HIDE DEF h, So
  <2> QED BY <2>4, <2>7
<1> HIDE DEF S
<1>3. \A i \in 0..n : i \in S
  BY <1>1, <1>2, Upwards
<1>4. n \in S
  BY <1>3
<1> QED BY <1>4 DEF S, Steps

(* FlattenSeq appends one sequence after the other.                        *)
LEMMA FlattenSteps ==
  ASSUME NEW X, NEW s \in Seq(Seq(X))
  PROVE  \E f \in [0..Len(s) -> Seq(X)] :
            /\ f[0] = <<>> /\ \A i \in 1..Len(s) : f[i] = f[i - 1] \o s[i]
            /\ FlattenSeq(s) = f[Len(s)]
<1> DEFINE n == Len(s)
           g == [p \in (1..n) \X Seq(X) |-> p[2] \o s[p[1]]]
           Flat(h) == h = [i \in 1..n |-> IF i = 1 THEN s[i] ELSE h[i - 1] \o s[i]]
           flat == CHOOSE h : Flat(h)
<1>1. n \in Nat /\ (\A i \in 1..n : s[i] \in Seq(X)) /\ <<>> \in Seq(X)
  OBVIOUS
<1>2. n # 0 => FlattenSeq(s) = flat[n]
  BY DEF FlattenSeq
<1>3. n = 0 => FlattenSeq(s) = <<>>
  BY DEF FlattenSeq
<1> HIDE DEF n
<1>4. \A i \in 1..n, t \in Seq(X) : <<i, t>> \in (1..n) \X Seq(X) /\ t \o s[i] \in Seq(X)
  BY <1>1
<1>5. g \in [(1..n) \X Seq(X) -> Seq(X)]
  BY <1>4
<1>6. \A i \in 1..n, t \in Seq(X) : g[<<i, t>>] = t \o s[i]
  BY <1>4
<1> HIDE DEF g
<1>7. PICK f \in [0..n -> Seq(X)] : f[0] = <<>> /\ \A i \in 1..n : f[i] = g[<<i, f[i - 1]>>]
  <2> DEFINE V == Seq(X)
             empty == <<>>
  <2>1. n \in Nat /\ empty \in V /\ Stepper(g, V, n)
    BY <1>1, <1>5 DEF Stepper
  <2> HIDE DEF V, empty
  <2>2. \E f : Steps(f, g, V, empty, n)
    BY <2>1, Iterate
  <2> QED BY <2>2 DEF V, empty, Steps
<1>8. ASSUME NEW i \in 1..n
      PROVE  i - 1 \in 0..n /\ f[i - 1] \in Seq(X) /\ f[i] = f[i - 1] \o s[i]
  <2>1. i - 1 \in 0..n
    BY <1>1
  <2>2. f[i - 1] \in Seq(X)
    BY <2>1, <1>7
  <2> QED BY <2>1, <2>2, <1>6, <1>7
<1>9. \A i \in 1..n : /\ i = 1 => f[i] = s[i]
                      /\ i # 1 => i - 1 \in 1..n
  <2>1. 1 \in 1..n => f[1] = <<>> \o s[1]
    <3> SUFFICES ASSUME 1 \in 1..n PROVE f[1] = <<>> \o s[1]
      OBVIOUS
    <3>1. f[1] = f[1 - 1] \o s[1]
      BY <1>8
    <3>2. 1 - 1 = 0
      OBVIOUS
    <3> QED BY <3>1, <3>2, <1>7
  <2>2. \A t \in Seq(X) : <<>> \o t = t
    OBVIOUS
  <2> QED BY <1>1, <2>1, <2>2
<1>10. Flat(flat)
  <2> DEFINE h == [i \in 1..n |-> f[i]]
  <2>1. \A i \in 1..n : h[i] = IF i = 1 THEN s[i] ELSE h[i - 1] \o s[i]
    BY <1>8, <1>9
  <2>2. h = [i \in 1..n |-> h[i]]
    OBVIOUS
  <2> HIDE DEF h
  <2>3. Flat(h)
    BY <2>1, <2>2
  <2> HIDE DEF Flat
  <2> QED BY <2>3
<1> HIDE DEF flat
<1>11. \A i \in 1..n : flat[i] = IF i = 1 THEN s[i] ELSE flat[i - 1] \o s[i]
  BY <1>10
<1>12. \A i \in 1..n : flat[i] = f[i]
  <2> DEFINE S == {0} \union {i \in 1..n : flat[i] = f[i]}
  <2>1. ASSUME NEW i \in 1..n, i - 1 \in S PROVE i \in S
    <3>1. CASE i = 1
      BY <3>1, <1>9, <1>11
    <3>2. CASE i # 1
      <4>1. flat[i - 1] = f[i - 1]
        BY <3>2, <2>1, <1>1
      <4>2. flat[i] = flat[i - 1] \o s[i]
        BY <3>2, <1>11
      <4> QED BY <4>1, <4>2, <1>8
    <3> QED BY <3>1, <3>2
  <2>2. 0 \in S
    OBVIOUS
  <2> HIDE DEF S
  <2>3. \A i \in 0..n : i \in S
    BY <1>1, <2>1, <2>2, Upwards
  <2> QED BY <1>1, <2>3 DEF S
<1>13. FlattenSeq(s) = f[n]
  BY <1>1, <1>2, <1>3, <1>7, <1>12
<1> QED BY <1>7, <1>8, <1>13 DEF n

LEMMA FlattenType ==
  ASSUME NEW X, NEW s \in Seq(Seq(X))
  PROVE  FlattenSeq(s) \in Seq(X)
<1>1. PICK f \in [0..Len(s) -> Seq(X)] : FlattenSeq(s) = f[Len(s)]
  BY FlattenSteps
<1>2. Len(s) \in 0..Len(s)
  OBVIOUS
<1> QED BY <1>1, <1>2
-----------------------------------------------------------------------------
(* The entries of a directory.                                             *)
LEMMA SiblingsDiffer ==
  ASSUME NEW t, IsTree(t), NEW d, NEW a \in Entries(t, d), NEW b \in Entries(t, d), a # b
  PROVE  Last(a) \in Nat /\ Last(b) \in Nat /\ Last(a) # Last(b)
<1>1. /\ a \in Seq(Nat) /\ b \in Seq(Nat) /\ Len(a) \in Nat \ {0} /\ Len(b) \in Nat \ {0}
      /\ SubSeq(a, 1, Len(a) - 1) = SubSeq(b, 1, Len(b) - 1)
  <2>1. /\ a \in Seq(Nat) /\ a # <<>> /\ Front(a) = d
        /\ b \in Seq(Nat) /\ b # <<>> /\ Front(b) = d
    BY DEF Entries, IsTree, Root
  <2>2. \A q \in Seq(Nat) : q # <<>> => Len(q) \in Nat \ {0}
    OBVIOUS
  <2> QED BY <2>1, <2>2 DEF Front
<1>2. Len(a) = Len(b)
  <2>0. \A q \in Seq(Nat) : \A m \in Nat : m <= Len(q) => Len(SubSeq(q, 1, m)) = m
    OBVIOUS
  <2>1. ASSUME NEW q \in Seq(Nat), Len(q) \in Nat \ {0}
        PROVE  Len(SubSeq(q, 1, Len(q) - 1)) = Len(q) - 1
    <3>1. Len(q) - 1 \in Nat /\ Len(q) - 1 <= Len(q)
      BY <2>1
    <3> QED BY <3>1, <2>0
  <2>2. Len(a) - 1 = Len(b) - 1
    BY <1>1, <2>1
  <2> QED BY <1>1, <2>2
<1>3. Last(a) \in Nat /\ Last(b) \in Nat
  BY <1>1 DEF Last
<1>4. SUFFICES ASSUME Last(a) = Last(b) PROVE FALSE
  BY <1>3
<1>5. ASSUME NEW i \in 1..Len(a) PROVE a[i] = b[i]
  <2>1. CASE i = Len(a)
    BY <2>1, <1>2, <1>4 DEF Last
  <2>2. CASE i # Len(a)
    <3>1. i \in 1..(Len(a) - 1)
      BY <2>2, <1>1
    <3>2. SubSeq(a, 1, Len(a) - 1)[i] = a[i] /\ SubSeq(b, 1, Len(b) - 1)[i] = b[i]
      BY <3>1, <1>1, <1>2
    <3> QED BY <3>2, <1>1
  <2> QED BY <2>1, <2>2
<1>6. a \in Seq(Nat) /\ b \in Seq(Nat) /\ Len(a) = Len(b) /\ \A i \in 1..Len(a) : a[i] = b[i]
  BY <1>1, <1>2, <1>5
<1>7. a = b
  BY <1>6, SeqEqual
<1> QED BY <1>7

LEMMA BeforeOrders ==
  ASSUME NEW t, IsTree(t), NEW d
  PROVE  /\ \A a \in Entries(t, d) : ~Before(t, a, a)
         /\ \A a, b \in Entries(t, d) : a # b => Before(t, a, b) \/ Before(t, b, a)
         /\ \A a, b, c \in Entries(t, d) :
               Before(t, a, b) /\ Before(t, b, c) => Before(t, a, c)
<1>1. \A a \in Entries(t, d) : Last(a) \in Nat
  <2> SUFFICES ASSUME NEW a \in Entries(t, d) PROVE Last(a) \in Nat
    OBVIOUS
  <2>1. a \in Seq(Nat) /\ Len(a) \in Nat \ {0}
    BY DEF Entries, IsTree, Root
  <2> QED BY <2>1 DEF Last
<1>2. \A a, b \in Entries(t, d) : a # b => Last(a) # Last(b)
  BY SiblingsDiffer
<1>3. \A a, b \in Entries(t, d) : a # b => Before(t, a, b) \/ Before(t, b, a)
  BY <1>1, <1>2 DEF Before
<1>4. \A a \in Entries(t, d) : ~Before(t, a, a)
  BY <1>1 DEF Before
<1>5. \A a, b, c \in Entries(t, d) : Before(t, a, b) /\ Before(t, b, c) => Before(t, a, c)
  BY <1>1 DEF Before
<1> QED BY <1>3, <1>4, <1>5

LEMMA Ranks ==
  ASSUME NEW t, IsTree(t), NEW d
  PROVE  LET n == Cardinality(Entries(t, d))
         IN /\ n \in Nat
            /\ \A e \in Entries(t, d) : Rank(t, d, e) \in 0..(n - 1)
            /\ \A a, b \in Entries(t, d) : Before(t, a, b) <=> Rank(t, d, a) < Rank(t, d, b)
            /\ \A r \in 0..(n - 1) : \E e \in Entries(t, d) : Rank(t, d, e) = r
<1> DEFINE S == Entries(t, d)
           n == Cardinality(S)
           P(e) == {a \in S : Before(t, a, e)}
<1>1. IsFiniteSet(S) /\ n \in Nat
  <2>1. S \in SUBSET t.paths /\ IsFiniteSet(t.paths)
    BY DEF Entries, IsTree
  <2>2. IsFiniteSet(S)
    BY <2>1, FS_Subset
  <2> QED BY <2>2, FS_CardinalityType
<1>2. /\ \A a \in S : ~Before(t, a, a)
      /\ \A a, b \in S : a # b => Before(t, a, b) \/ Before(t, b, a)
      /\ \A a, b, c \in S : Before(t, a, b) /\ Before(t, b, c) => Before(t, a, c)
  BY BeforeOrders
<1>3. \A e : Rank(t, d, e) = Cardinality(P(e))
  BY DEF Rank
<1> HIDE DEF S
<1>4. ASSUME NEW e \in S PROVE Rank(t, d, e) \in 0..(n - 1)
  <2>1. P(e) \in SUBSET (S \ {e})
    BY <1>2
  <2>2. IsFiniteSet(S \ {e}) /\ Cardinality(S \ {e}) = n - 1
    BY <1>1, FS_RemoveElement
  <2>3. IsFiniteSet(P(e)) /\ Cardinality(P(e)) <= n - 1
    BY <2>1, <2>2, FS_Subset
  <2>4. Cardinality(P(e)) \in Nat
    BY <2>3, FS_CardinalityType
  <2> QED BY <2>3, <2>4, <1>1, <1>3
<1>5. ASSUME NEW a \in S, NEW b \in S, Before(t, a, b)
      PROVE  Rank(t, d, a) < Rank(t, d, b)
  <2>1. P(a) \in SUBSET (P(b) \ {a}) /\ a \in P(b)
    BY <1>2, <1>5
  <2>2. P(b) \in SUBSET S
    OBVIOUS
  <2>3. IsFiniteSet(P(b))
    BY <2>2, <1>1, FS_Subset
  <2>4. IsFiniteSet(P(b) \ {a}) /\ Cardinality(P(b) \ {a}) = Cardinality(P(b)) - 1
    BY <2>1, <2>3, FS_RemoveElement
  <2>5. Cardinality(P(a)) <= Cardinality(P(b)) - 1
    BY <2>1, <2>4, FS_Subset
  <2>6. Cardinality(P(a)) \in Nat /\ Cardinality(P(b)) \in Nat
    BY <1>3, <1>4, <1>1
  <2> QED BY <2>5, <2>6, <1>3
<1>6. ASSUME NEW a \in S, NEW b \in S, Rank(t, d, a) < Rank(t, d, b)
      PROVE  Before(t, a, b)
  <2>1. Rank(t, d, a) \in Nat /\ Rank(t, d, b) \in Nat
    BY <1>4, <1>1
  <2>2. a # b /\ ~Before(t, b, a)
    BY <1>6, <1>5, <2>1
  <2> QED BY <2>2, <1>2
<1>7. \A r \in 0..(n - 1) : \E e \in S : Rank(t, d, e) = r
  <2> DEFINE f == [e \in S |-> Rank(t, d, e)]
             T == 0..(n - 1)
  <2>1. f \in [S -> T]
    BY <1>4
  <2>2. \A a, b \in S : f[a] = f[b] => a = b
    <3> SUFFICES ASSUME NEW a \in S, NEW b \in S, a # b PROVE f[a] # f[b]
      OBVIOUS
    <3>1. Rank(t, d, a) < Rank(t, d, b) \/ Rank(t, d, b) < Rank(t, d, a)
      BY <1>2, <1>5
    <3> QED BY <3>1, <1>4, <1>1
  <2>3. f \in Injection(S, T)
    BY <2>1, <2>2 DEF Injection, IsInjective
  <2>4. IsFiniteSet(T) /\ Cardinality(T) = n
    <3>1. 0 \in Int /\ n - 1 \in Int /\ n = (n - 1) - 0 + 1 /\ (n - 1 < 0 => n = 0)
      BY <1>1
    <3>2. IsFiniteSet(T) /\ Cardinality(T) = IF 0 > n - 1 THEN 0 ELSE (n - 1) - 0 + 1
      BY <3>1, FS_Interval
    <3> QED BY <3>1, <3>2, <1>1
  <2> HIDE DEF f, T
  <2>5. f \in Surjection(S, T)
    BY <2>3, <2>4, <1>1, FS_Injection
  <2>6. \A r \in T : \E e \in S : f[e] = r
    BY <2>5 DEF Surjection
  <2> QED BY <2>6 DEF f, T
<1> QED BY <1>1, <1>4, <1>5, <1>6, <1>7 DEF S

LEMMA ChildrenFacts ==
  ASSUME NEW t, IsTree(t), NEW d
  PROVE  /\ Children(t, d) \in Seq(Entries(t, d))
         /\ Len(Children(t, d)) = Cardinality(Entries(t, d))
         /\ \A i, j \in DOMAIN Children(t, d) :
               i < j <=> Before(t, Children(t, d)[i], Children(t, d)[j])
         /\ \A e \in Entries(t, d) : \E i \in DOMAIN Children(t, d) : Children(t, d)[i] = e
<1> DEFINE S == Entries(t, d)
           n == Cardinality(S)
           c == Children(t, d)
<1>1. /\ n \in Nat
      /\ \A e \in S : Rank(t, d, e) \in 0..(n - 1)
      /\ \A a, b \in S : Before(t, a, b) <=> Rank(t, d, a) < Rank(t, d, b)
      /\ \A r \in 0..(n - 1) : \E e \in S : Rank(t, d, e) = r
  BY Ranks
<1>2. /\ \A a \in S : ~Before(t, a, a)
      /\ \A a, b \in S : a # b => Before(t, a, b) \/ Before(t, b, a)
  BY BeforeOrders
<1>3. c = [k \in 1..n |-> CHOOSE e \in S : Rank(t, d, e) = k - 1]
  BY DEF Children
<1> HIDE DEF S, n, c
<1>4. ASSUME NEW k \in 1..n PROVE c[k] \in S /\ Rank(t, d, c[k]) = k - 1
  <2>1. k - 1 \in 0..(n - 1)
    BY <1>1
  <2>2. \E e \in S : Rank(t, d, e) = k - 1
    BY <1>1, <2>1
  <2>3. c[k] = CHOOSE e \in S : Rank(t, d, e) = k - 1
    BY <1>3
  <2> QED BY <2>2, <2>3
<1>5. c \in Seq(S) /\ Len(c) = n /\ DOMAIN c = 1..n
  BY <1>1, <1>3, <1>4
<1>6. \A i, j \in 1..n : i < j <=> Before(t, c[i], c[j])
  <2> SUFFICES ASSUME NEW i \in 1..n, NEW j \in 1..n PROVE i < j <=> Before(t, c[i], c[j])
    OBVIOUS
  <2>1. i < j <=> Rank(t, d, c[i]) < Rank(t, d, c[j])
    BY <1>4, <1>1
  <2> QED BY <2>1, <1>4, <1>1
<1>7. \A e \in S : \E i \in 1..n : c[i] = e
  <2> SUFFICES ASSUME NEW e \in S PROVE \E i \in 1..n : c[i] = e
    OBVIOUS
  <2> DEFINE i == Rank(t, d, e) + 1
  <2>1. i \in 1..n /\ i - 1 = Rank(t, d, e)
    BY <1>1
  <2>2. c[i] \in S /\ Rank(t, d, c[i]) = Rank(t, d, e)
    BY <2>1, <1>4
  <2>3. ~Before(t, c[i], e) /\ ~Before(t, e, c[i])
    BY <2>2, <1>1
  <2> QED BY <2>1, <2>2, <2>3, <1>2
<1> QED BY <1>5, <1>6, <1>7 DEF S, n, c
-----------------------------------------------------------------------------
(* The lines of a tree: below is computed for each directory from those in *)
(* it, and no path is deeper than the deepest one.                         *)
IsState(t) == /\ t = [paths |-> t.paths, dirs |-> t.dirs, rootPath |-> t.rootPath,
                      expanded |-> t.expanded, revealed |-> t.revealed]
              /\ t.revealed = [d \in DOMAIN t.revealed |-> t.revealed[d]]

TreeOK(t) == /\ IsTree(t) /\ IsState(t)
             /\ t.expanded \subseteq {Root} \union t.dirs
             /\ t.expanded \subseteq DOMAIN t.revealed
             /\ \A d \in DOMAIN t.revealed : t.revealed[d] \in 0..Len(Children(t, d))

Line(t) == [path : {Root} \union t.paths, more : BOOLEAN]
Folders(t) == {Root} \union t.dirs

LEMMA DepthBound ==
  ASSUME NEW t, IsTree(t)
  PROVE  \E max \in Nat : \A e \in Folders(t) : Len(e) <= max
<1>1. PICK n \in Nat : ExistsSurjection(1..n, t.paths)
  BY FS_NatSurjection DEF IsTree
<1>2. PICK f \in [1..n -> t.paths] : \A e \in t.paths : \E i \in 1..n : f[i] = e
  BY <1>1 DEF ExistsSurjection, Surjection
<1>3. \A i \in 1..n : Len(f[i]) \in Nat
  BY <1>2 DEF IsTree
<1> DEFINE Bound(m, max) == \A i \in 1..m : Len(f[i]) <= max
           S == {m \in 0..n : \E max \in Nat : Bound(m, max)}
<1>4. 0 \in S
  <2>1. Bound(0, 0)
    OBVIOUS
  <2> HIDE DEF Bound
  <2> QED BY <2>1
<1>5. ASSUME NEW m \in 1..n, m - 1 \in S PROVE m \in S
  <2>1. PICK max \in Nat : Bound(m - 1, max)
    BY <1>5
  <2>2. \E most \in Nat : max <= most /\ Len(f[m]) <= most
    BY <1>3
  <2>3. PICK most \in Nat : max <= most /\ Len(f[m]) <= most
    BY <2>2
  <2>4. ASSUME NEW i \in 1..m PROVE Len(f[i]) <= most
    <3>1. CASE i = m
      BY <3>1, <2>3
    <3>2. CASE i # m
      <4>1. i \in 1..(m - 1) /\ i \in 1..n
        BY <3>2
      <4>2. Len(f[i]) <= max
        BY <4>1, <2>1
      <4> QED BY <4>1, <4>2, <2>3, <1>3
    <3> QED BY <3>1, <3>2
  <2>5. Bound(m, most)
    BY <2>4
  <2> HIDE DEF Bound
  <2> QED BY <2>5
<1> HIDE DEF S, Bound
<1>6. n \in S
  <2>1. \A m \in 0..n : m \in S
    BY <1>4, <1>5, Upwards
  <2> QED BY <2>1
<1>7. PICK max \in Nat : Bound(n, max)
  BY <1>6 DEF S
<1>8. \A e \in t.paths : Len(e) <= max
  BY <1>7, <1>2 DEF Bound
<1>9. Len(Root) = 0
  BY DEF Root
<1>10. \A e \in Folders(t) : Len(e) <= max
  <2> SUFFICES ASSUME NEW e \in Folders(t) PROVE Len(e) <= max
    OBVIOUS
  <2>1. CASE e = Root
    BY <2>1, <1>9
  <2>2. CASE e # Root
    BY <2>2, <1>8 DEF Folders, IsTree
  <2> QED BY <2>1, <2>2
<1> QED BY <1>10

LEMMA Deeper ==
  ASSUME NEW t, IsTree(t), NEW d \in Folders(t), NEW e \in Entries(t, d)
  PROVE  e \in t.paths /\ Len(d) \in Nat /\ Len(e) = Len(d) + 1
<1>1. e \in Seq(Nat) /\ Len(e) \in Nat \ {0} /\ SubSeq(e, 1, Len(e) - 1) = d /\ e \in t.paths
  BY DEF Entries, IsTree, Root, Front
<1>2. \A q \in Seq(Nat) : \A m \in Nat : m <= Len(q) => Len(SubSeq(q, 1, m)) = m
  OBVIOUS
<1>3. Len(e) - 1 \in Nat /\ Len(e) - 1 <= Len(e)
  BY <1>1
<1>4. Len(d) = Len(e) - 1
  BY <1>1, <1>2, <1>3
<1> QED BY <1>1, <1>3, <1>4

(* What is below d depends on what is below the directories in it.         *)
LEMMA BelowShown ==
  ASSUME NEW t, TreeOK(t), NEW d \in t.expanded
  PROVE  LET shown == SubSeq(Children(t, d), 1, t.revealed[d])
         IN /\ shown \in Seq(Entries(t, d)) /\ DOMAIN shown = 1..t.revealed[d]
            /\ Len(shown) = t.revealed[d] /\ t.revealed[d] \in Nat
            /\ \A i \in DOMAIN shown : shown[i] = Children(t, d)[i] /\ shown[i] \in Entries(t, d)
<1> DEFINE c == Children(t, d)
           S == Entries(t, d)
<1>1. c \in Seq(S)
  BY ChildrenFacts DEF TreeOK
<1>2. t.revealed[d] \in 0..Len(c)
  BY DEF TreeOK
<1> HIDE DEF c, S
<1> DEFINE r == t.revealed[d]
<1>3. r \in 0..Len(c)
  BY <1>2
<1> HIDE DEF r
<1>4. /\ SubSeq(c, 1, r) \in Seq(S) /\ Len(SubSeq(c, 1, r)) = r
      /\ \A i \in 1..r : SubSeq(c, 1, r)[i] = c[i] /\ c[i] \in S
  BY <1>1, <1>3
<1>5. DOMAIN SubSeq(c, 1, r) = 1..r
  BY <1>4
<1> QED BY <1>3, <1>4, <1>5, <1>1 DEF c, S, r

LEMMA BelowType ==
  ASSUME NEW t, TreeOK(t), NEW d \in Folders(t), NEW b,
         \A e \in Entries(t, d) \intersect t.dirs : b[e] \in Seq(Line(t))
  PROVE  Below(t, b, d) \in Seq(Line(t))
<1> DEFINE shown == SubSeq(Children(t, d), 1, t.revealed[d])
           Entry(e) == <<Row(e)>> \o (IF e \in t.dirs THEN b[e] ELSE <<>>)
           parts == [i \in DOMAIN shown |-> Entry(shown[i])]
           end == IF Len(shown) < Len(Children(t, d)) THEN <<More(d)>> ELSE <<>>
<1>1. CASE d \notin t.expanded
  BY <1>1 DEF Below
<1>2. CASE d \in t.expanded
  <2>1. Below(t, b, d) = FlattenSeq(parts) \o end
    BY <1>2 DEF Below
  <2>2. /\ DOMAIN shown = 1..t.revealed[d] /\ t.revealed[d] \in Nat
        /\ \A i \in DOMAIN shown : shown[i] \in Entries(t, d)
    BY <1>2, BelowShown
  <2>3. d \in {Root} \union t.paths
    BY DEF Folders, TreeOK, IsTree
  <2>4. ASSUME NEW e \in Entries(t, d) PROVE Entry(e) \in Seq(Line(t))
    <3>1. Row(e) \in Line(t)
      BY DEF Row, Line, Entries
    <3> DEFINE rest == IF e \in t.dirs THEN b[e] ELSE <<>>
    <3>2. rest \in Seq(Line(t))
      OBVIOUS
    <3> HIDE DEF rest
    <3>3. <<Row(e)>> \in Seq(Line(t))
      BY <3>1
    <3>4. <<Row(e)>> \o rest \in Seq(Line(t))
      BY <3>2, <3>3
    <3> QED BY <3>4 DEF rest
  <2>5. end \in Seq(Line(t))
    <3>1. More(d) \in Line(t)
      BY <2>3 DEF More, Line
    <3> QED BY <3>1
  <2> HIDE DEF shown, end
  <2>6. \A i \in 1..t.revealed[d] : Entry(shown[i]) \in Seq(Line(t))
    BY <2>2, <2>4
  <2> HIDE DEF Entry
  <2>7. parts \in Seq(Seq(Line(t)))
    <3> HIDE DEF parts
    <3>1. parts = [i \in 1..t.revealed[d] |-> Entry(shown[i])]
      BY <2>2 DEF parts
    <3>2. parts \in [1..t.revealed[d] -> Seq(Line(t))]
      BY <2>6, <3>1
    <3> QED BY <2>2, <3>2
  <2> HIDE DEF parts
  <2>8. FlattenSeq(parts) \in Seq(Line(t))
    BY <2>7, FlattenType
  <2> QED BY <2>1, <2>5, <2>8
<1> QED BY <1>1, <1>2

LEMMA BelowSame ==
  ASSUME NEW t, TreeOK(t), NEW d \in Folders(t), NEW b, NEW c,
         \A e \in Entries(t, d) \intersect t.dirs : b[e] = c[e]
  PROVE  Below(t, b, d) = Below(t, c, d)
<1> DEFINE shown == SubSeq(Children(t, d), 1, t.revealed[d])
           Entry(q, e) == <<Row(e)>> \o (IF e \in t.dirs THEN q[e] ELSE <<>>)
           parts(q) == [i \in DOMAIN shown |-> Entry(q, shown[i])]
<1>1. CASE d \notin t.expanded
  BY <1>1 DEF Below
<1>2. CASE d \in t.expanded
  <2>1. \A i \in DOMAIN shown : shown[i] \in Entries(t, d)
    BY <1>2, BelowShown
  <2>2. \A e \in Entries(t, d) : Entry(b, e) = Entry(c, e)
    OBVIOUS
  <2>3. parts(b) = parts(c)
    <3> HIDE DEF Entry, shown
    <3> QED BY <2>1, <2>2
  <2>4. \A q : Below(t, q, d) =
               FlattenSeq(parts(q)) \o (IF Len(shown) < Len(Children(t, d)) THEN <<More(d)>> ELSE <<>>)
    BY <1>2 DEF Below
  <2> HIDE DEF parts, shown
  <2> QED BY <2>3, <2>4
<1> QED BY <1>1, <1>2

(* Where below is right from some depth on, it is right one level higher   *)
(* when it is computed again.                                              *)
LEMMA LinesBelow ==
  ASSUME NEW t, TreeOK(t)
  PROVE  \E b \in [Folders(t) -> Seq(Line(t))] :
            /\ \A d \in Folders(t) : b[d] = Below(t, b, d)
            /\ Lines(t) = <<Row(Root)>> \o b[Root]
<1> DEFINE D == Folders(t)
           B == [D -> Seq(Line(t))]
           Again(b) == [d \in D |-> Below(t, b, d)]
           below == CHOOSE b : b = Again(b)
<1>1. PICK max \in Nat : \A d \in D : Len(d) <= max
  BY DepthBound DEF TreeOK
<1>2. ASSUME NEW d \in D, NEW e \in Entries(t, d) \intersect t.dirs
      PROVE  e \in D /\ Len(d) \in Nat /\ Len(e) = Len(d) + 1
  BY Deeper DEF Folders, TreeOK
<1>3. Lines(t) = <<Row(Root)>> \o below[Root]
  BY DEF Lines, Folders
<1> HIDE DEF D
<1> DEFINE Right(b, m) == \A d \in D : Len(d) > max - m => b[d] = Below(t, b, d)
<1>4. \E b \in B : Right(b, max + 1)
  <2> DEFINE S == {m \in 0..(max + 1) : \E b \in B : Right(b, m)}
  <2>1. 0 \in S
    <3> DEFINE b == [d \in D |-> <<>>]
    <3>1. b \in B
      OBVIOUS
    <3>2. \A d \in D : Len(d) \in Nat
      BY DEF D, Folders, Root, TreeOK, IsTree
    <3>3. Right(b, 0)
      BY <1>1, <3>2
    <3>4. 0 \in 0..(max + 1)
      OBVIOUS
    <3> HIDE DEF b, Right
    <3> QED BY <3>1, <3>3, <3>4
  <2>2. ASSUME NEW m \in 1..(max + 1), m - 1 \in S PROVE m \in S
    <3>1. PICK b \in B : Right(b, m - 1)
      BY <2>2
    <3> DEFINE c == Again(b)
    <3>2. ASSUME NEW d \in D PROVE Below(t, b, d) \in Seq(Line(t))
      <4>1. \A e \in Entries(t, d) \intersect t.dirs : b[e] \in Seq(Line(t))
        BY <1>2
      <4> QED BY <4>1, BelowType DEF D
    <3>3. c \in B
      BY <3>2
    <3>4. ASSUME NEW d \in D, Len(d) > max - m PROVE c[d] = Below(t, c, d)
      <4>1. ASSUME NEW e \in Entries(t, d) \intersect t.dirs PROVE b[e] = c[e]
        <5>1. e \in D /\ Len(e) > max - (m - 1)
          BY <1>2, <3>4
        <5>2. b[e] = Below(t, b, e)
          BY <5>1, <3>1
        <5> QED BY <5>1, <5>2
      <4> HIDE DEF c
      <4>2. Below(t, b, d) = Below(t, c, d)
        BY <4>1, BelowSame DEF D
      <4>3. c[d] = Below(t, b, d)
        BY DEF c
      <4> QED BY <4>2, <4>3
    <3>5. Right(c, m)
      <4> HIDE DEF c
      <4> QED BY <3>4
    <3> HIDE DEF c, Right
    <3> QED BY <3>3, <3>5
  <2> HIDE DEF S
  <2>3. \A m \in 0..(max + 1) : m \in S
    BY <2>1, <2>2, Upwards
  <2>4. max + 1 \in S
    BY <2>3
  <2> QED BY <2>4 DEF S
<1>5. PICK b \in B : Right(b, max + 1)
  BY <1>4
<1>6. \A d \in D : Len(d) \in Nat
  BY DEF D, Folders, Root, TreeOK, IsTree
<1>7. b = Again(b)
  <2>1. \A d \in D : b[d] = Below(t, b, d)
    BY <1>5, <1>6
  <2> QED BY <2>1
<1>8. below = Again(below)
  <2> HIDE DEF Again
  <2> QED BY <1>7
<1> HIDE DEF below
<1>9. DOMAIN below = D /\ \A d \in D : below[d] = Below(t, below, d)
  BY <1>8
<1>10. \A d \in D : below[d] \in Seq(Line(t))
  <2> DEFINE S == {m \in 0..(max + 1) :
                     \A d \in D : Len(d) > max - m => below[d] \in Seq(Line(t))}
  <2>1. 0 \in S
    BY <1>1, <1>6
  <2>2. ASSUME NEW m \in 1..(max + 1), m - 1 \in S PROVE m \in S
    <3>1. ASSUME NEW d \in D, Len(d) > max - m PROVE below[d] \in Seq(Line(t))
      <4>1. ASSUME NEW e \in Entries(t, d) \intersect t.dirs
            PROVE  below[e] \in Seq(Line(t))
        <5>1. e \in D /\ Len(e) > max - (m - 1)
          BY <1>2, <3>1
        <5> QED BY <5>1, <2>2
      <4>2. Below(t, below, d) \in Seq(Line(t))
        BY <4>1, BelowType DEF D
      <4> QED BY <4>2, <1>9
    <3> QED BY <3>1
  <2> HIDE DEF S
  <2>3. \A m \in 0..(max + 1) : m \in S
    BY <2>1, <2>2, Upwards
  <2>4. max + 1 \in S
    BY <2>3
  <2> QED BY <2>4, <1>6 DEF S
<1>11. below \in B
  BY <1>9, <1>10, <1>8
<1> QED BY <1>3, <1>9, <1>11 DEF D

LEMMA LinesType ==
  ASSUME NEW t, TreeOK(t)
  PROVE  Lines(t) \in Seq(Line(t)) /\ Visible(t) \in Seq(Line(t)) /\ Len(Visible(t)) \in Nat
<1>1. PICK b \in [Folders(t) -> Seq(Line(t))] : Lines(t) = <<Row(Root)>> \o b[Root]
  BY LinesBelow
<1>2. Lines(t) \in Seq(Line(t))
  <2>1. Row(Root) \in Line(t)
    BY DEF Row, Line
  <2>2. Root \in Folders(t)
    BY DEF Folders
  <2>3. b[Root] \in Seq(Line(t))
    BY <2>2
  <2>4. <<Row(Root)>> \in Seq(Line(t))
    BY <2>1
  <2>5. \A p, q \in Seq(Line(t)) : p \o q \in Seq(Line(t))
    OBVIOUS
  <2> QED BY <1>1, <2>3, <2>4, <2>5
<1> DEFINE lines == Lines(t)
           Overwritten(i) == lines[i].more /\ i < Len(lines) /\ lines[i + 1].more
           parts == [i \in DOMAIN lines |-> IF Overwritten(i) THEN <<>> ELSE <<lines[i]>>]
<1>3. Visible(t) = FlattenSeq(parts)
  BY DEF Visible, Without
<1> HIDE DEF lines
<1>4. lines \in Seq(Line(t))
  BY <1>2 DEF lines
<1> HIDE DEF Overwritten
<1>5. parts \in Seq(Seq(Line(t)))
  <2>1. \A i \in 1..Len(lines) : <<lines[i]>> \in Seq(Line(t)) /\ <<>> \in Seq(Line(t))
    BY <1>4
  <2>2. DOMAIN lines = 1..Len(lines) /\ Len(lines) \in Nat
    BY <1>4
  <2> QED BY <2>1, <2>2
<1> HIDE DEF parts
<1>6. Visible(t) \in Seq(Line(t))
  BY <1>3, <1>5, FlattenType
<1> QED BY <1>2, <1>6 DEF lines
-----------------------------------------------------------------------------
(* Paths: one lies under another if it goes on where that ends.            *)
LEMMA UnderPoints ==
  ASSUME NEW x \in Seq(Nat), NEW y \in Seq(Nat)
  PROVE  /\ Len(x) \in Nat /\ Len(y) \in Nat
         /\ Under(x, y) <=> Len(y) <= Len(x) /\ \A i \in 1..Len(y) : x[i] = y[i]
<1>1. Len(x) \in Nat /\ Len(y) \in Nat
  OBVIOUS
<1> SUFFICES ASSUME Len(y) <= Len(x)
             PROVE  SubSeq(x, 1, Len(y)) = y <=> \A i \in 1..Len(y) : x[i] = y[i]
  BY <1>1 DEF Under
<1> DEFINE u == SubSeq(x, 1, Len(y))
<1>2. u \in Seq(Nat) /\ Len(u) = Len(y) /\ \A i \in 1..Len(y) : u[i] = x[i]
  BY <1>1
<1> HIDE DEF u
<1>3. u = y => \A i \in 1..Len(y) : x[i] = y[i]
  BY <1>2
<1>4. (\A i \in 1..Len(y) : x[i] = y[i]) => u = y
  BY <1>2, SeqEqual
<1> QED BY <1>3, <1>4 DEF u

LEMMA UnderOrders ==
  ASSUME NEW x \in Seq(Nat), NEW y \in Seq(Nat)
  PROVE  /\ Under(x, x) /\ Under(x, Root)
         /\ Under(x, y) /\ Len(x) = Len(y) => x = y
         /\ \A z \in Seq(Nat) : /\ Under(x, y) /\ Under(y, z) => Under(x, z)
                                /\ Under(x, y) /\ Under(x, z) /\ Len(z) <= Len(y) => Under(y, z)
<1>1. Len(x) \in Nat /\ Len(y) \in Nat /\ Root \in Seq(Nat) /\ Len(Root) = 0
  BY DEF Root
<1>2. Under(x, x) /\ Under(x, Root)
  <2>1. Under(x, x)
    BY <1>1, UnderPoints
  <2>2. Under(x, Root)
    <3> DEFINE none == Root
    <3>1. none \in Seq(Nat) /\ Len(none) <= Len(x) /\ \A i \in 1..Len(none) : x[i] = none[i]
      BY <1>1
    <3> HIDE DEF none
    <3>2. Under(x, none)
      BY <3>1, UnderPoints
    <3> QED BY <3>2 DEF none
  <2> QED BY <2>1, <2>2
<1>3. ASSUME Under(x, y), Len(x) = Len(y) PROVE x = y
  BY <1>1, <1>3, UnderPoints, SeqEqual
<1>4. ASSUME NEW z \in Seq(Nat), Under(x, y), Under(y, z) PROVE Under(x, z)
  <2>1. /\ Len(z) \in Nat /\ Len(z) <= Len(y) /\ Len(y) <= Len(x)
        /\ \A i \in 1..Len(y) : x[i] = y[i]
        /\ \A i \in 1..Len(z) : y[i] = z[i]
    BY <1>1, <1>4, UnderPoints
  <2>2. \A i \in 1..Len(z) : x[i] = z[i]
    BY <1>1, <2>1
  <2> QED BY <1>1, <2>1, <2>2, UnderPoints
<1>5. ASSUME NEW z \in Seq(Nat), Under(x, y), Under(x, z), Len(z) <= Len(y) PROVE Under(y, z)
  <2>1. /\ Len(z) \in Nat
        /\ \A i \in 1..Len(y) : x[i] = y[i]
        /\ \A i \in 1..Len(z) : x[i] = z[i]
    BY <1>1, <1>5, UnderPoints
  <2>2. \A i \in 1..Len(z) : y[i] = z[i]
    <3>1. \A i \in 1..Len(z) : i \in 1..Len(y)
      BY <1>1, <1>5, <2>1
    <3> QED BY <2>1, <3>1
  <2> QED BY <1>1, <1>5, <2>2, UnderPoints
<1> QED BY <1>2, <1>3, <1>4, <1>5

(* The first n names of a path.                                            *)
LEMMA FirstNames ==
  ASSUME NEW x \in Seq(Nat), NEW n \in Nat, n <= Len(x)
  PROVE  /\ SubSeq(x, 1, n) \in Seq(Nat) /\ Len(SubSeq(x, 1, n)) = n
         /\ \A i \in 1..n : SubSeq(x, 1, n)[i] = x[i]
OBVIOUS

LEMMA PrefixFacts ==
  ASSUME NEW x \in Seq(Nat), NEW n \in 0..Len(x)
  PROVE  /\ SubSeq(x, 1, n) \in Seq(Nat) /\ Len(SubSeq(x, 1, n)) = n /\ Under(x, SubSeq(x, 1, n))
         /\ \A y \in Seq(Nat) : Under(x, y) /\ Len(y) = n => y = SubSeq(x, 1, n)
         /\ n # 0 => SubSeq(x, 1, n) # <<>> /\ Front(SubSeq(x, 1, n)) = SubSeq(x, 1, n - 1)
<1> DEFINE u == SubSeq(x, 1, n)
<1>1. n \in Nat /\ Len(x) \in Nat /\ n <= Len(x)
  OBVIOUS
<1>2. u \in Seq(Nat) /\ Len(u) = n /\ \A i \in 1..n : u[i] = x[i]
  BY <1>1
<1> HIDE DEF u
<1>3. Under(x, u)
  BY <1>1, <1>2, UnderPoints
<1>4. ASSUME NEW y \in Seq(Nat), Under(x, y), Len(y) = n PROVE y = u
  <2>1. \A i \in 1..n : y[i] = u[i]
    BY <1>2, <1>4, UnderPoints
  <2> QED BY <1>2, <1>4, <2>1, SeqEqual
<1>5. ASSUME n # 0 PROVE u # <<>> /\ Front(u) = SubSeq(x, 1, n - 1)
  <2>1. n - 1 \in Nat /\ n - 1 <= Len(u) /\ n - 1 <= Len(x)
    BY <1>1, <1>2, <1>5
  <2> DEFINE v == SubSeq(u, 1, n - 1)
             w == SubSeq(x, 1, n - 1)
  <2>2. v \in Seq(Nat) /\ Len(v) = n - 1 /\ \A i \in 1..(n - 1) : v[i] = u[i]
    BY <1>2, <2>1, FirstNames
  <2>3. w \in Seq(Nat) /\ Len(w) = n - 1 /\ \A i \in 1..(n - 1) : w[i] = x[i]
    BY <2>1, FirstNames
  <2> HIDE DEF v, w
  <2>4. \A i \in 1..(n - 1) : v[i] = w[i]
    <3>1. \A i \in 1..(n - 1) : i \in 1..n
      BY <1>1
    <3> QED BY <1>2, <2>2, <2>3, <3>1
  <2>5. v = w
    BY <2>2, <2>3, <2>4, SeqEqual
  <2> QED BY <1>2, <1>5, <2>5 DEF Front, v, w
<1> QED BY <1>2, <1>3, <1>4, <1>5 DEF u

(* An entry of a directory, and its place there.                           *)
LEMMA EntryPath ==
  ASSUME NEW t, IsTree(t), NEW d \in Folders(t), NEW c \in Entries(t, d)
  PROVE  /\ c \in t.paths /\ c \in Seq(Nat) /\ d \in Seq(Nat) /\ Front(c) = d
         /\ Len(d) \in Nat /\ Len(c) = Len(d) + 1 /\ Under(c, d) /\ c # d
<1>1. c \in t.paths /\ Len(d) \in Nat /\ Len(c) = Len(d) + 1
  BY Deeper
<1>2. c \in Seq(Nat) /\ d \in Seq(Nat) /\ Front(c) = d
  <2>1. t.paths \subseteq Seq(Nat) /\ t.dirs \subseteq t.paths
    BY DEF IsTree
  <2>2. c \in Seq(Nat)
    BY <1>1, <2>1
  <2>3. Root \in Seq(Nat)
    BY DEF Root
  <2>4. d \in Seq(Nat)
    BY <2>1, <2>3 DEF Folders
  <2>5. Front(c) = d
    BY DEF Entries
  <2> QED BY <2>2, <2>4, <2>5
<1>3. Len(c) - 1 \in 0..Len(c) /\ SubSeq(c, 1, Len(c) - 1) = d
  <2>1. c # <<>>
    BY <1>1, <1>2
  <2>2. SubSeq(c, 1, Len(c) - 1) = d
    BY <1>2, <2>1 DEF Front
  <2> QED BY <1>1, <2>2
<1>4. Under(c, d)
  <2> DEFINE n == Len(c) - 1
  <2>1. n \in 0..Len(c) /\ SubSeq(c, 1, n) = d
    BY <1>3
  <2> HIDE DEF n
  <2>2. \A i \in 1..Len(d) : c[i] = d[i]
    <3>1. \A i \in 1..n : SubSeq(c, 1, n)[i] = c[i]
      BY <1>2, <2>1
    <3>2. n = Len(d)
      BY <1>1 DEF n
    <3> QED BY <2>1, <3>1, <3>2
  <2> QED BY <1>1, <1>2, <2>2, UnderPoints
<1> QED BY <1>1, <1>2, <1>4

LEMMA PlaceFacts ==
  ASSUME NEW t, IsTree(t), NEW d, NEW c \in Entries(t, d)
  PROVE  /\ Place(t, c) \in DOMAIN Children(t, d) /\ Children(t, d)[Place(t, c)] = c
         /\ \A m \in DOMAIN Children(t, d) : Children(t, d)[m] = c => m = Place(t, c)
<1> DEFINE s == Children(t, d)
<1>1. /\ s \in Seq(Entries(t, d))
      /\ \A i, j \in DOMAIN s : i < j <=> Before(t, s[i], s[j])
      /\ \E i \in DOMAIN s : s[i] = c
  BY ChildrenFacts
<1>2. Front(c) = d
  BY DEF Entries
<1>3. Place(t, c) = CHOOSE i \in DOMAIN s : s[i] = c
  BY <1>2 DEF Place
<1>4. DOMAIN s \subseteq Nat /\ ~Before(t, c, c)
  BY <1>1, BeforeOrders
<1> HIDE DEF s
<1>5. Place(t, c) \in DOMAIN s /\ s[Place(t, c)] = c
  BY <1>1, <1>3
<1>6. ASSUME NEW m \in DOMAIN s, s[m] = c PROVE m = Place(t, c)
  <2>1. ~(m < Place(t, c)) /\ ~(Place(t, c) < m)
    BY <1>1, <1>4, <1>5, <1>6
  <2> QED BY <2>1, <1>4, <1>5, <1>6
<1> QED BY <1>5, <1>6 DEF s

(* What is shown below d: the entries that all directories from d on show. *)
Nodes(t) == {Root} \union t.paths
Shows(t, a) == Front(a) \in t.expanded /\ Place(t, a) <= t.revealed[Front(a)]
Vis(t, d) == {x \in Nodes(t) : /\ Under(x, d)
                               /\ \A n \in (Len(d) + 1)..Len(x) : Shows(t, SubSeq(x, 1, n))}

LEMMA NodePaths ==
  ASSUME NEW t, IsTree(t)
  PROVE  /\ Nodes(t) \subseteq Seq(Nat) /\ Folders(t) \subseteq Nodes(t)
         /\ \A x \in Nodes(t) : Len(x) \in Nat
<1>1. t.paths \subseteq Seq(Nat) /\ t.dirs \subseteq t.paths
  BY DEF IsTree
<1>2. Root \in Seq(Nat)
  BY DEF Root
<1>3. Nodes(t) \subseteq Seq(Nat)
  BY <1>1, <1>2 DEF Nodes
<1>4. Folders(t) \subseteq Nodes(t)
  BY <1>1 DEF Nodes, Folders
<1>5. \A x \in Seq(Nat) : Len(x) \in Nat
  OBVIOUS
<1> QED BY <1>3, <1>4, <1>5

LEMMA VisSelf ==
  ASSUME NEW t, TreeOK(t), NEW d \in Nodes(t)
  PROVE  d \in Vis(t, d)
<1>1. d \in Seq(Nat) /\ Len(d) \in Nat /\ Under(d, d)
  BY NodePaths, UnderOrders DEF TreeOK
<1>2. ~\E n : n \in (Len(d) + 1)..Len(d)
  BY <1>1
<1> QED BY <1>1, <1>2 DEF Vis

(* The first step from d to what is shown below it.                        *)
LEMMA FirstStep ==
  ASSUME NEW t, TreeOK(t), NEW d \in Nodes(t), NEW x \in Vis(t, d), x # d
  PROVE  LET c == SubSeq(x, 1, Len(d) + 1)
         IN /\ c \in Entries(t, d) /\ d \in t.expanded /\ Place(t, c) <= t.revealed[d]
            /\ x \in Vis(t, c)
<1> DEFINE n == Len(d) + 1
           c == SubSeq(x, 1, n)
<1>1. IsTree(t) /\ x \in Nodes(t) /\ Under(x, d)
      /\ \A k \in n..Len(x) : Shows(t, SubSeq(x, 1, k))
  BY DEF Vis, TreeOK
<1>2. x \in Seq(Nat) /\ d \in Seq(Nat) /\ Len(x) \in Nat /\ Len(d) \in Nat
  BY <1>1, NodePaths
<1>3. Len(d) < Len(x)
  <2>1. Len(d) <= Len(x)
    BY <1>1 DEF Under
  <2>2. Len(d) # Len(x)
    BY <1>1, <1>2, UnderOrders
  <2> QED BY <1>2, <2>1, <2>2
<1>4. n \in 0..Len(x) /\ n \in n..Len(x) /\ n # 0 /\ n - 1 = Len(d)
  BY <1>2, <1>3
<1>5. c \in Seq(Nat) /\ Len(c) = n /\ Under(x, c) /\ Front(c) = SubSeq(x, 1, n - 1)
  BY <1>2, <1>4, PrefixFacts
<1>6. Front(c) = d
  BY <1>1, <1>4, <1>5 DEF Under
<1>7. Shows(t, c)
  BY <1>1, <1>4
<1>8. c \in t.paths
  <2>0. x \in t.paths
    BY <1>1, <1>2, <1>3 DEF Nodes, Root
  <2>1. CASE n = Len(x)
    <3>1. c = x
      BY <2>1, <1>2
    <3> QED BY <2>0, <3>1
  <2>2. CASE n # Len(x)
    <3> DEFINE m == n + 1
               e == SubSeq(x, 1, m)
    <3>1. m \in n..Len(x) /\ m \in 0..Len(x) /\ m # 0 /\ m - 1 = n
      BY <2>2, <1>2, <1>4
    <3>2. Shows(t, e)
      BY <1>1, <3>1
    <3>3. Front(e) = c
      BY <1>2, <3>1, PrefixFacts
    <3>4. c \in {Root} \union t.dirs
      BY <3>2, <3>3 DEF Shows, TreeOK
    <3>5. c # Root
      BY <1>2, <1>4, <1>5 DEF Root
    <3> QED BY <1>1, <3>4, <3>5 DEF IsTree
  <2> QED BY <2>1, <2>2
<1> HIDE DEF c
<1>9. \A k \in (n + 1)..Len(x) : k \in n..Len(x)
  BY <1>2
<1>10. x \in Vis(t, c)
  BY <1>1, <1>5, <1>9 DEF Vis
<1> QED BY <1>6, <1>7, <1>8, <1>10 DEF c, Shows, Entries

LEMMA VisLeaf ==
  ASSUME NEW t, TreeOK(t), NEW d \in Nodes(t), d \notin t.expanded
  PROVE  Vis(t, d) = {d}
BY VisSelf, FirstStep

LEMMA VisSplit ==
  ASSUME NEW t, TreeOK(t), NEW d \in t.expanded
  PROVE  LET n == t.revealed[d]
         IN Vis(t, d) = {d} \union UNION {Vis(t, Children(t, d)[m]) : m \in 1..n}
<1> DEFINE n == t.revealed[d]
           s == Children(t, d)
<1>1. IsTree(t) /\ d \in Folders(t) /\ d \in Nodes(t) /\ n \in Nat /\ DOMAIN s = 1..Len(s) /\ n <= Len(s)
      /\ s \in Seq(Entries(t, d)) /\ Len(s) \in Nat
  <2>1. IsTree(t) /\ d \in Folders(t) /\ n \in 0..Len(s)
    BY DEF TreeOK, Folders
  <2>2. s \in Seq(Entries(t, d))
    BY <2>1, ChildrenFacts
  <2> HIDE DEF s
  <2> QED BY <2>1, <2>2, NodePaths
<1>2. ASSUME NEW x \in Vis(t, d), x # d PROVE \E m \in 1..n : x \in Vis(t, s[m])
  <2> DEFINE c == SubSeq(x, 1, Len(d) + 1)
             m == Place(t, c)
  <2>1. c \in Entries(t, d) /\ m <= n /\ x \in Vis(t, c)
    BY <1>1, <1>2, FirstStep
  <2> HIDE DEF c
  <2>2. m \in DOMAIN s /\ s[m] = c
    BY <1>1, <2>1, PlaceFacts
  <2> HIDE DEF m
  <2>3. m \in 1..n
    BY <1>1, <2>1, <2>2
  <2> QED BY <2>1, <2>2, <2>3
<1>3. ASSUME NEW m \in 1..n, NEW x \in Vis(t, s[m]) PROVE x \in Vis(t, d)
  <2> DEFINE c == s[m]
  <2>1. m \in DOMAIN s /\ c \in Entries(t, d)
    <3> HIDE DEF s
    <3> QED BY <1>1
  <2>2. m = Place(t, c)
    BY <1>1, <2>1, PlaceFacts
  <2>3. /\ c \in Seq(Nat) /\ d \in Seq(Nat) /\ Front(c) = d
        /\ Len(d) \in Nat /\ Len(c) = Len(d) + 1 /\ Under(c, d)
    BY <1>1, <2>1, EntryPath
  <2>4. x \in Nodes(t) /\ Under(x, c) /\ \A k \in (Len(c) + 1)..Len(x) : Shows(t, SubSeq(x, 1, k))
    BY <1>3 DEF Vis
  <2> HIDE DEF c
  <2>5. x \in Seq(Nat) /\ Len(x) \in Nat /\ Len(c) <= Len(x) /\ SubSeq(x, 1, Len(c)) = c
    BY <1>1, <2>4, NodePaths DEF Under
  <2>6. Under(x, d)
    BY <2>3, <2>4, <2>5, UnderOrders
  <2>7. Shows(t, c)
    BY <2>2, <2>3 DEF Shows
  <2>8. ASSUME NEW k \in (Len(d) + 1)..Len(x) PROVE Shows(t, SubSeq(x, 1, k))
    <3>1. k = Len(c) \/ k \in (Len(c) + 1)..Len(x)
      BY <2>3, <2>5
    <3> QED BY <3>1, <2>4, <2>5, <2>7
  <2> QED BY <2>4, <2>6, <2>8 DEF Vis
<1>4. d \in Vis(t, d)
  BY <1>1, VisSelf
<1> HIDE DEF n, s
<1>5. Vis(t, d) = {d} \union UNION {Vis(t, s[m]) : m \in 1..n}
  BY <1>2, <1>3, <1>4
<1> QED BY <1>5 DEF n, s

LEMMA VisRoot ==
  ASSUME NEW t, TreeOK(t)
  PROVE  Vis(t, Root) = Shown(t)
<1>1. Len(Root) + 1 = 1
  BY DEF Root
<1>2. \A x \in Nodes(t) : Under(x, Root)
  BY NodePaths, UnderOrders DEF TreeOK
<1>3. ASSUME NEW x \in Nodes(t)
      PROVE  (\A n \in (Len(Root) + 1)..Len(x) : Shows(t, SubSeq(x, 1, n)))
                <=> \A a \in Ancestors(x) : /\ Front(a) \in t.expanded
                                            /\ Place(t, a) <= t.revealed[Front(a)]
  <2>1. (\A n \in 1..Len(x) : Shows(t, SubSeq(x, 1, n))) <=> \A a \in Ancestors(x) : Shows(t, a)
    BY DEF Ancestors
  <2> QED BY <1>1, <2>1 DEF Shows
<1> QED BY <1>2, <1>3 DEF Vis, Shown, Nodes

(* What is shown below an entry stands above what is shown below a later   *)
(* one of the same directory, and does not contain it.                     *)
LEMMA VisAbove ==
  ASSUME NEW t, TreeOK(t), NEW d \in t.expanded,
         NEW a \in Entries(t, d), NEW c \in Entries(t, d), Place(t, a) < Place(t, c),
         NEW x \in Vis(t, a), NEW y \in Vis(t, c)
  PROVE  Above(t, x, y) /\ ~Under(y, x)
<1>1. IsTree(t) /\ d \in Folders(t)
  BY DEF TreeOK, Folders
<1>2. /\ a \in Seq(Nat) /\ c \in Seq(Nat) /\ Front(a) = d /\ Front(c) = d
      /\ Len(d) \in Nat /\ Len(a) = Len(d) + 1 /\ Len(c) = Len(d) + 1
  BY <1>1, EntryPath
<1>3. /\ x \in Seq(Nat) /\ y \in Seq(Nat) /\ Under(x, a) /\ Under(y, c)
      /\ Len(x) \in Nat /\ Len(y) \in Nat
  BY <1>1, NodePaths DEF Vis
<1>4. Len(a) \in 1..Len(x) /\ Len(c) \in 1..Len(y)
  BY <1>2, <1>3 DEF Under
<1>5. a \in Ancestors(x) /\ c \in Ancestors(y)
  <2>1. SubSeq(x, 1, Len(a)) = a /\ SubSeq(y, 1, Len(c)) = c
    BY <1>3 DEF Under
  <2> QED BY <1>4, <2>1 DEF Ancestors
<1>6. Above(t, x, y)
  BY <1>2, <1>5 DEF Above
<1>7. ASSUME Under(y, x) PROVE FALSE
  <2>1. Under(y, a)
    BY <1>2, <1>3, <1>7, UnderOrders
  <2>2. Len(c) <= Len(a)
    BY <1>2
  <2>3. Under(a, c)
    BY <1>2, <1>3, <2>1, <2>2, UnderOrders
  <2>4. a = c
    BY <1>2, <2>3, UnderOrders
  <2>5. Place(t, a) \in Nat
    <3>1. Place(t, a) \in DOMAIN Children(t, d) /\ Children(t, d) \in Seq(Entries(t, d))
      BY <1>1, PlaceFacts, ChildrenFacts
    <3> QED BY <3>1
  <2> QED BY <2>4, <2>5
<1> QED BY <1>6, <1>7

-----------------------------------------------------------------------------
(* One part of the lines after another.                                    *)
LEMMA Joined ==
  ASSUME NEW X, NEW s \in Seq(X), NEW u \in Seq(X)
  PROVE  /\ s \o u \in Seq(X) /\ Len(s) \in Nat /\ Len(u) \in Nat
         /\ Len(s \o u) = Len(s) + Len(u)
         /\ \A k \in 1..Len(s) : (s \o u)[k] = s[k]
         /\ \A k \in 1..Len(u) : (s \o u)[Len(s) + k] = u[k]
OBVIOUS

(* Row(x) is line o, and line p the sentinel of x: the last entry below x  *)
(* is above it, and only sentinels of directories around x follow at once. *)
Marks(s, x, o, p) ==
    /\ o < p /\ s[o] = Row(x) /\ s[p].more
    /\ \A k \in o..p : Under(s[k].path, x)
    /\ \A k \in 1..Len(s) : k > p /\ ~s[k].more => ~Under(s[k].path, x)
    /\ \A m \in p..Len(s) : (\A k \in p..m : s[k].more) => Under(x, s[m].path)

Sentinel(s, x) == \E o, p \in 1..Len(s) : Marks(s, x, o, p)

LEMMA SentinelStays ==
  ASSUME NEW X, NEW s \in Seq(X), NEW u \in Seq(X), NEW x, Sentinel(s, x),
         \A k \in 1..Len(u) : ~u[k].more => ~Under(u[k].path, x),
         \A m \in 1..Len(u) : (\A k \in 1..m : u[k].more) => Under(x, u[m].path)
  PROVE  Sentinel(s \o u, x)
<1> DEFINE r == s \o u
           a == Len(s)
           b == Len(u)
<1>1. /\ r \in Seq(X) /\ a \in Nat /\ b \in Nat /\ Len(r) = a + b
      /\ \A k \in 1..a : r[k] = s[k]
      /\ \A k \in 1..b : r[a + k] = u[k]
  BY Joined
<1>2. PICK o \in 1..a, p \in 1..a : Marks(s, x, o, p)
  BY DEF Sentinel
<1> HIDE DEF r, a, b
<1>3. o \in 1..Len(r) /\ p \in 1..Len(r)
  BY <1>1
<1>4. \A k \in 1..Len(r) : k \in 1..a \/ (k - a \in 1..b /\ a + (k - a) = k)
  BY <1>1
<1>5. o < p /\ r[o] = Row(x) /\ r[p].more
  BY <1>1, <1>2 DEF Marks
<1>6. \A k \in o..p : Under(r[k].path, x)
  <2>1. \A k \in o..p : k \in 1..a
    BY <1>1
  <2> QED BY <1>1, <1>2, <2>1 DEF Marks
<1>7. ASSUME NEW k \in 1..Len(r), k > p, ~r[k].more PROVE ~Under(r[k].path, x)
  <2>1. CASE k \in 1..a
    BY <1>1, <1>2, <1>7, <2>1 DEF Marks, a
  <2>2. CASE k - a \in 1..b /\ a + (k - a) = k
    <3>1. r[k] = u[k - a]
      BY <1>1, <2>2
    <3> QED BY <1>7, <2>2, <3>1 DEF b
  <2> QED BY <1>4, <2>1, <2>2
<1>8. ASSUME NEW m \in p..Len(r), \A k \in p..m : r[k].more PROVE Under(x, r[m].path)
  <2>1. m \in 1..Len(r)
    BY <1>1
  <2>2. CASE m \in 1..a
    <3>1. m \in p..a /\ \A k \in p..m : k \in 1..a
      BY <1>1, <2>2
    <3>2. \A k \in p..m : s[k].more
      BY <1>1, <1>8, <3>1
    <3>3. Under(x, s[m].path)
      BY <1>2, <3>1, <3>2 DEF Marks, a
    <3> QED BY <1>1, <2>2, <3>3
  <2>3. CASE m - a \in 1..b /\ a + (m - a) = m
    <3>1. \A k \in 1..(m - a) : k \in 1..b /\ a + k \in p..m
      BY <1>1, <2>3
    <3>2. \A k \in 1..(m - a) : u[k].more
      BY <1>1, <1>8, <3>1
    <3>3. r[m] = u[m - a]
      BY <1>1, <2>3
    <3> QED BY <2>3, <3>2, <3>3 DEF b
  <2> QED BY <1>4, <2>1, <2>2, <2>3
<1>9. Marks(r, x, o, p)
  BY <1>5, <1>6, <1>7, <1>8 DEF Marks
<1> QED BY <1>3, <1>9 DEF Sentinel, r

LEMMA SentinelMoves ==
  ASSUME NEW X, NEW s \in Seq(X), NEW u \in Seq(X), NEW x, Sentinel(u, x)
  PROVE  Sentinel(s \o u, x)
<1> DEFINE r == s \o u
           a == Len(s)
           b == Len(u)
<1>1. /\ r \in Seq(X) /\ a \in Nat /\ b \in Nat /\ Len(r) = a + b
      /\ \A k \in 1..b : r[a + k] = u[k]
  BY Joined
<1>2. PICK o \in 1..b, p \in 1..b : Marks(u, x, o, p)
  BY DEF Sentinel
<1> HIDE DEF r, a, b
<1>3. a + o \in 1..Len(r) /\ a + p \in 1..Len(r)
  BY <1>1
<1>4. ASSUME NEW k \in (a + o)..Len(r) PROVE k - a \in o..b /\ k - a \in 1..b /\ r[k] = u[k - a]
  <2>1. k - a \in o..b /\ k - a \in 1..b /\ a + (k - a) = k
    BY <1>1
  <2> QED BY <1>1, <2>1
<1>5. a + o < a + p /\ r[a + o] = Row(x) /\ r[a + p].more
  BY <1>1, <1>2 DEF Marks
<1>6. ASSUME NEW k \in (a + o)..(a + p) PROVE Under(r[k].path, x)
  <2>1. k \in (a + o)..Len(r) /\ k - a \in o..p
    BY <1>1
  <2> QED BY <1>2, <1>4, <2>1 DEF Marks
<1>7. ASSUME NEW k \in 1..Len(r), k > a + p, ~r[k].more PROVE ~Under(r[k].path, x)
  <2>1. k \in (a + o)..Len(r) /\ k - a > p
    BY <1>1, <1>5, <1>7
  <2> QED BY <1>2, <1>4, <1>7, <2>1 DEF Marks, b
<1>8. ASSUME NEW m \in (a + p)..Len(r), \A k \in (a + p)..m : r[k].more
      PROVE  Under(x, r[m].path)
  <2>1. m \in (a + o)..Len(r) /\ m - a \in p..b
    BY <1>1, <1>5
  <2>2. ASSUME NEW k \in p..(m - a) PROVE u[k].more
    <3>1. k \in 1..b /\ a + k \in (a + p)..m
      BY <1>1, <2>1
    <3> QED BY <1>1, <1>8, <3>1
  <2> QED BY <1>2, <1>4, <2>1, <2>2 DEF Marks, b
<1>9. Marks(r, x, a + o, a + p)
  BY <1>5, <1>6, <1>7, <1>8 DEF Marks
<1> QED BY <1>3, <1>9 DEF Sentinel, r

(* The lines s show the entries V, all below d and each below what stands  *)
(* above it, and have the sentinels of the directories W.                  *)
Fits(t, s, d, V, W) ==
    /\ s \in Seq(Line(t)) /\ Len(s) > 0 /\ s[1] = Row(d)
    /\ \A k \in 1..Len(s) : Under(s[k].path, d)
    /\ \A k \in 1..Len(s) : ~s[k].more => s[k].path \in V
    /\ \A x \in V : \E k \in 1..Len(s) : s[k] = Row(x)
    /\ \A j, k \in 1..Len(s) :
          j < k /\ ~s[j].more /\ ~s[k].more => Above(t, s[j].path, s[k].path)
    /\ \A x \in W : Sentinel(s, x)

LEMMA FitsJoin ==
  ASSUME NEW t, TreeOK(t), NEW d \in Nodes(t), NEW e \in Nodes(t), Under(e, d),
         NEW s, NEW u, NEW V, NEW W, NEW V2, NEW W2,
         Fits(t, s, d, V, W), Fits(t, u, e, V2, W2),
         \A x \in V, y \in V2 : Above(t, x, y),
         \A x \in W, y \in V2 : ~Under(y, x)
  PROVE  Fits(t, s \o u, d, V \union V2, W \union W2)
<1> DEFINE r == s \o u
           a == Len(s)
           b == Len(u)
<1>1. /\ r \in Seq(Line(t)) /\ a \in Nat /\ b \in Nat /\ Len(r) = a + b
      /\ \A k \in 1..a : r[k] = s[k]
      /\ \A k \in 1..b : r[a + k] = u[k]
  BY Joined DEF Fits
<1>2. a > 0 /\ b > 0 /\ s[1] = Row(d) /\ u[1] = Row(e)
  BY DEF Fits
<1>3. /\ \A k \in 1..a : Under(s[k].path, d) /\ (~s[k].more => s[k].path \in V)
      /\ \A k \in 1..b : Under(u[k].path, e) /\ (~u[k].more => u[k].path \in V2)
  BY DEF Fits
<1>4. \A k \in 1..b : Under(u[k].path, d)
  <2>1. \A k \in 1..b : u[k] \in Line(t)
    BY DEF Fits
  <2>2. \A k \in 1..b : u[k].path \in Seq(Nat)
    BY <2>1, NodePaths DEF TreeOK, Line, Nodes
  <2> QED BY <1>3, <2>2, NodePaths, UnderOrders DEF TreeOK
<1>5. /\ \A x \in V : \E k \in 1..a : s[k] = Row(x)
      /\ \A x \in V2 : \E k \in 1..b : u[k] = Row(x)
  BY DEF Fits
<1>6. /\ \A j, k \in 1..a : j < k /\ ~s[j].more /\ ~s[k].more => Above(t, s[j].path, s[k].path)
      /\ \A j, k \in 1..b : j < k /\ ~u[j].more /\ ~u[k].more => Above(t, u[j].path, u[k].path)
  BY DEF Fits
<1>7. \A x \in W \union W2 : Sentinel(r, x)
  <2>1. s \in Seq(Line(t)) /\ u \in Seq(Line(t))
    BY DEF Fits
  <2>2. ASSUME NEW x \in W PROVE Sentinel(r, x)
    <3>1. Sentinel(s, x)
      BY DEF Fits
    <3>2. \A k \in 1..b : ~u[k].more => ~Under(u[k].path, x)
      BY <1>3
    <3>3. \A m \in 1..b : ~(\A k \in 1..m : u[k].more)
      <4>1. \A m \in 1..b : 1 \in 1..m
        BY <1>1
      <4> QED BY <4>1, <1>2 DEF Row
    <3> QED BY <2>1, <3>1, <3>2, <3>3, SentinelStays
  <2>3. ASSUME NEW x \in W2 PROVE Sentinel(r, x)
    <3>1. Sentinel(u, x)
      BY DEF Fits
    <3> QED BY <2>1, <3>1, SentinelMoves
  <2> QED BY <2>2, <2>3
<1> HIDE DEF r, a, b
<1>8. \A k \in 1..Len(r) : k \in 1..a \/ (k - a \in 1..b /\ r[k] = u[k - a])
  <2>1. \A k \in 1..Len(r) : k \in 1..a \/ (k - a \in 1..b /\ a + (k - a) = k)
    BY <1>1
  <2> QED BY <1>1, <2>1
<1>9. Len(r) > 0 /\ r[1] = Row(d)
  BY <1>1, <1>2
<1>10. \A k \in 1..Len(r) : Under(r[k].path, d) /\ (~r[k].more => r[k].path \in V \union V2)
  BY <1>1, <1>3, <1>4, <1>8
<1>11. ASSUME NEW x \in V \union V2 PROVE \E k \in 1..Len(r) : r[k] = Row(x)
  <2>1. CASE x \in V
    <3>1. PICK k \in 1..a : s[k] = Row(x)
      BY <1>5, <2>1
    <3>2. k \in 1..Len(r)
      BY <1>1
    <3> QED BY <1>1, <3>1, <3>2
  <2>2. CASE x \in V2
    <3>1. PICK k \in 1..b : u[k] = Row(x)
      BY <1>5, <2>2
    <3>2. a + k \in 1..Len(r)
      BY <1>1
    <3> QED BY <1>1, <3>1, <3>2
  <2> QED BY <2>1, <2>2
<1>12. ASSUME NEW j \in 1..Len(r), NEW k \in 1..Len(r), j < k, ~r[j].more, ~r[k].more
       PROVE  Above(t, r[j].path, r[k].path)
  <2>1. CASE j \in 1..a /\ k \in 1..a
    <3>1. r[j] = s[j] /\ r[k] = s[k]
      BY <1>1, <2>1
    <3> QED BY <1>6, <1>12, <2>1, <3>1
  <2>2. CASE j \in 1..a /\ k - a \in 1..b /\ r[k] = u[k - a]
    <3>1. r[j] = s[j]
      BY <1>1, <2>2
    <3>2. s[j].path \in V /\ u[k - a].path \in V2
      BY <1>3, <1>12, <2>2, <3>1
    <3> QED BY <2>2, <3>1, <3>2
  <2>3. CASE /\ j - a \in 1..b /\ r[j] = u[j - a]
             /\ k - a \in 1..b /\ r[k] = u[k - a]
    <3>1. j - a < k - a
      BY <1>1, <1>12
    <3> QED BY <1>6, <1>12, <2>3, <3>1
  <2>4. ~(j - a \in 1..b /\ k \in 1..a)
    BY <1>1, <1>12
  <2> QED BY <1>8, <2>1, <2>2, <2>3, <2>4
<1> QED BY <1>1, <1>7, <1>9, <1>10, <1>11, <1>12 DEF Fits, r

LEMMA FitsMore ==
  ASSUME NEW t, TreeOK(t), NEW d \in Nodes(t), NEW s, NEW V, NEW W, Fits(t, s, d, V, W),
         \A x \in W : Under(x, d)
  PROVE  Fits(t, s \o <<More(d)>>, d, V, W \union {d})
<1> DEFINE u == <<More(d)>>
           r == s \o u
           a == Len(s)
<1>0. Under(d, d) /\ More(d).path = d /\ More(d).more
  BY NodePaths, UnderOrders DEF More, TreeOK
<1>1. s \in Seq(Line(t)) /\ u \in Seq(Line(t)) /\ Len(u) = 1 /\ u[1] = More(d)
  <2>1. More(d) \in Line(t)
    BY DEF More, Line, Nodes
  <2> QED BY <2>1 DEF Fits
<1> HIDE DEF u
<1>2. /\ r \in Seq(Line(t)) /\ a \in Nat /\ Len(r) = a + 1
      /\ \A k \in 1..a : r[k] = s[k]
      /\ r[a + 1] = More(d)
  BY <1>1, Joined
<1>3. a > 0 /\ s[1] = Row(d)
  BY DEF Fits
<1>4. \A x \in W : Sentinel(r, x)
  <2> SUFFICES ASSUME NEW x \in W PROVE Sentinel(r, x)
    OBVIOUS
  <2>1. Sentinel(s, x) /\ Under(x, d)
    BY DEF Fits
  <2>2. \A k \in 1..Len(u) : u[k] = More(d)
    BY <1>1
  <2> QED BY <1>0, <1>1, <2>1, <2>2, SentinelStays
<1>5. /\ \A k \in 1..a : Under(s[k].path, d) /\ (~s[k].more => s[k].path \in V)
      /\ \A x \in V : \E k \in 1..a : s[k] = Row(x)
      /\ \A j, k \in 1..a : j < k /\ ~s[j].more /\ ~s[k].more => Above(t, s[j].path, s[k].path)
  BY DEF Fits
<1> HIDE DEF r, a
<1>6. \A k \in 1..Len(r) : k \in 1..a \/ k = a + 1
  BY <1>2
<1>7. \A k \in 1..Len(r) : Under(r[k].path, d) /\ (~r[k].more => k \in 1..a)
  BY <1>0, <1>2, <1>5, <1>6
<1>8. Len(r) > 0 /\ r[1] = Row(d) /\ 1 \in 1..Len(r) /\ a + 1 \in 1..Len(r)
  BY <1>2, <1>3
<1>9. \A x \in V : \E k \in 1..Len(r) : r[k] = Row(x)
  <2>1. \A k \in 1..a : k \in 1..Len(r)
    BY <1>2
  <2> QED BY <1>2, <1>5, <2>1
<1>10. Marks(r, d, 1, a + 1)
  <2>1. 1 < a + 1 /\ \A k \in 1..(a + 1) : k \in 1..Len(r)
    BY <1>2, <1>3
  <2>2. \A k \in 1..Len(r) : ~(k > a + 1)
    BY <1>2
  <2>3. \A m \in (a + 1)..Len(r) : m = a + 1
    BY <1>2
  <2> QED BY <1>0, <1>2, <1>7, <1>8, <2>1, <2>2, <2>3 DEF Marks
<1>11. \A x \in W \union {d} : Sentinel(r, x)
  <2>1. Sentinel(r, d)
    BY <1>8, <1>10 DEF Sentinel
  <2> QED BY <1>4, <2>1
<1>12. \A k \in 1..Len(r) : ~r[k].more => r[k].path \in V
  BY <1>2, <1>5, <1>7
<1>13. \A j, k \in 1..Len(r) :
          j < k /\ ~r[j].more /\ ~r[k].more => Above(t, r[j].path, r[k].path)
  BY <1>2, <1>5, <1>7
<1> QED BY <1>2, <1>7, <1>8, <1>9, <1>11, <1>12, <1>13 DEF Fits, r, u

(* The lines of d alone, and with what is below it.                        *)
Block(t, b, d) == <<Row(d)>> \o (IF d \in Folders(t) THEN b[d] ELSE <<>>)

Cut(t, d) == {x \in Vis(t, d) : /\ x \in t.expanded
                                /\ t.revealed[x] < Len(Children(t, x))}

LEMMA FitsRow ==
  ASSUME NEW t, TreeOK(t), NEW d \in Nodes(t)
  PROVE  Fits(t, <<Row(d)>>, d, {d}, {})
<1> DEFINE s == <<Row(d)>>
<1>1. Row(d) \in Line(t) /\ Row(d).path = d /\ ~Row(d).more
  BY DEF Row, Line, Nodes
<1>2. s \in Seq(Line(t)) /\ Len(s) = 1 /\ s[1] = Row(d)
  BY <1>1
<1>3. Under(d, d)
  BY NodePaths, UnderOrders DEF TreeOK
<1> HIDE DEF s
<1>4. \A k \in 1..Len(s) : k = 1
  BY <1>2
<1>5. \A j, k \in 1..Len(s) : ~(j < k)
  BY <1>2
<1>6. 1 \in 1..Len(s) /\ Len(s) > 0
  BY <1>2
<1> QED BY <1>1, <1>2, <1>3, <1>4, <1>5, <1>6 DEF Fits, s

(* A directory that is expanded, when what is in it fits.                  *)
LEMMA BlockExpanded ==
  ASSUME NEW t, TreeOK(t), NEW b, NEW d \in t.expanded,
         \A e \in Entries(t, d) : Fits(t, Block(t, b, e), e, Vis(t, e), Cut(t, e))
  PROVE  Fits(t, <<Row(d)>> \o Below(t, b, d), d, Vis(t, d), Cut(t, d))
<1> DEFINE shown == SubSeq(Children(t, d), 1, t.revealed[d])
           Entry(e) == <<Row(e)>> \o (IF e \in t.dirs THEN b[e] ELSE <<>>)
           parts == [i \in DOMAIN shown |-> Entry(shown[i])]
           c == Children(t, d)
           n == t.revealed[d]
           L == Seq(Line(t))
<1>0. IsTree(t) /\ d \in Folders(t) /\ d \in Nodes(t)
  <2>1. IsTree(t) /\ d \in Folders(t)
    BY DEF TreeOK, Folders
  <2> QED BY <2>1, NodePaths
<1>1. Below(t, b, d) = FlattenSeq(parts)
                          \o (IF Len(shown) < Len(Children(t, d)) THEN <<More(d)>> ELSE <<>>)
  BY DEF Below
<1>2. /\ DOMAIN shown = 1..n /\ n \in Nat /\ Len(shown) = n
      /\ \A i \in DOMAIN shown : shown[i] = c[i] /\ shown[i] \in Entries(t, d)
  BY BelowShown
<1>3. \A e \in Entries(t, d) : Entry(e) = Block(t, b, e) /\ Entry(e) \in L
  <2>1. \A e \in Entries(t, d) : e \in t.dirs <=> e \in Folders(t)
    BY <1>0 DEF Entries, Folders, IsTree
  <2>2. \A e \in Entries(t, d) : Entry(e) = Block(t, b, e)
    BY <2>1 DEF Block
  <2> HIDE DEF Entry
  <2> QED BY <2>2 DEF Fits
<1> HIDE DEF Entry
<1>4. parts = [i \in 1..n |-> Entry(c[i])] /\ \A i \in 1..n : c[i] \in Entries(t, d)
  <2> HIDE DEF shown, n, c
  <2> QED BY <1>2
<1> HIDE DEF shown, n, c
<1>5. parts \in Seq(L) /\ Len(parts) = n /\ \A i \in 1..n : parts[i] = Entry(c[i])
  <2> HIDE DEF parts, L
  <2>1. \A i \in 1..n : Entry(c[i]) \in L
    BY <1>3, <1>4
  <2> QED BY <1>2, <1>4, <2>1
<1> HIDE DEF parts
<1>6. PICK f \in [0..n -> L] : /\ f[0] = <<>> /\ \A i \in 1..n : f[i] = f[i - 1] \o parts[i]
                               /\ FlattenSeq(parts) = f[n]
  BY <1>5, FlattenSteps
<1> DEFINE h(i) == <<Row(d)>> \o f[i]
           V(i) == {d} \union UNION {Vis(t, c[m]) : m \in 1..i}
           W(i) == UNION {Cut(t, c[m]) : m \in 1..i}
           S == {i \in 0..n : Fits(t, h(i), d, V(i), W(i))}
<1>7. ASSUME NEW m \in 1..n
      PROVE  /\ c[m] \in Entries(t, d) /\ Place(t, c[m]) = m
             /\ c[m] \in Nodes(t) /\ Under(c[m], d) /\ ~Under(d, c[m])
             /\ \A x \in Vis(t, c[m]) : Above(t, d, x) /\ Under(x, d) /\ ~Under(d, x)
  <2>1. c[m] \in Entries(t, d)
    BY <1>4
  <2>2. m \in DOMAIN c
    <3>1. n \in 0..Len(c)
      BY DEF TreeOK, n, c
    <3>2. c \in Seq(Entries(t, d))
      BY <1>0, ChildrenFacts DEF c
    <3> QED BY <1>2, <3>1, <3>2
  <2>3. Place(t, c[m]) = m
    BY <1>0, <2>1, <2>2, PlaceFacts DEF c
  <2> DEFINE e == c[m]
  <2>4. /\ e \in t.paths /\ e \in Seq(Nat) /\ d \in Seq(Nat)
        /\ Len(d) \in Nat /\ Len(e) = Len(d) + 1 /\ Under(e, d)
    BY <1>0, <2>1, EntryPath
  <2>5. ~Under(d, e)
    BY <2>4 DEF Under
  <2>6. ASSUME NEW x \in Vis(t, e) PROVE Above(t, d, x) /\ Under(x, d) /\ ~Under(d, x)
    <3>1. x \in Seq(Nat) /\ Under(x, e)
      BY <1>0, NodePaths DEF Vis
    <3>2. Under(x, d)
      BY <2>4, <3>1, UnderOrders
    <3>3. ~Under(d, x)
      BY <2>4, <2>5, <3>1, UnderOrders
    <3>4. x # d
      BY <2>4, <3>3, UnderOrders
    <3> QED BY <3>2, <3>3, <3>4 DEF Above
  <2> HIDE DEF e
  <2>7. e \in Nodes(t)
    BY <2>4 DEF Nodes
  <2> QED BY <2>1, <2>3, <2>4, <2>5, <2>6, <2>7 DEF e
<1>8. 0 \in S
  <2>1. V(0) = {d} /\ W(0) = {}
    OBVIOUS
  <2>2. h(0) = <<Row(d)>>
    BY <1>6
  <2> HIDE DEF h, V, W
  <2>3. Fits(t, h(0), d, V(0), W(0))
    BY <1>0, <2>1, <2>2, FitsRow
  <2> QED BY <1>2, <2>3
<1>9. ASSUME NEW i \in 1..n, i - 1 \in S PROVE i \in S
  <2>0. i \in 0..n /\ i - 1 \in 0..n
    BY <1>2
  <2> DEFINE e == c[i]
             u == Block(t, b, e)
  <2>1. h(i) = h(i - 1) \o u
    <3>1. f[i] = f[i - 1] \o u
      <4>1. parts[i] = Entry(e) /\ e \in Entries(t, d)
        BY <1>4, <1>5
      <4> QED BY <1>3, <1>6, <4>1
    <3>2. u \in L
      BY <1>3, <1>4
    <3>3. f[i - 1] \in L /\ <<Row(d)>> \in L
      <4>1. Row(d) \in Line(t)
        BY <1>0 DEF Row, Line, Nodes
      <4> QED BY <1>6, <2>0, <4>1
    <3>4. <<Row(d)>> \o (f[i - 1] \o u) = (<<Row(d)>> \o f[i - 1]) \o u
      <4> DEFINE first == <<Row(d)>>
                 so == f[i - 1]
                 X == Line(t)
      <4>1. first \in Seq(X) /\ so \in Seq(X) /\ u \in Seq(X)
        BY <3>2, <3>3
      <4> HIDE DEF first, so, u, X
      <4>2. (first \o so) \o u = first \o (so \o u)
        BY <4>1, ConcatAssociative, SMTT(20)
      <4> QED BY <4>2 DEF first, so
    <3> QED BY <3>1, <3>4
  <2>2. V(i) = V(i - 1) \union Vis(t, e) /\ W(i) = W(i - 1) \union Cut(t, e)
    <3>1. 1..i = (1..(i - 1)) \union {i}
      BY <2>0
    <3>2. /\ \A x : x \in V(i) <=> x \in V(i - 1) \/ x \in Vis(t, e)
          /\ \A x : x \in W(i) <=> x \in W(i - 1) \/ x \in Cut(t, e)
      BY <3>1
    <3> QED BY <3>2
  <2>3. Fits(t, h(i - 1), d, V(i - 1), W(i - 1))
    BY <1>9
  <2>4. Fits(t, u, e, Vis(t, e), Cut(t, e)) /\ e \in Nodes(t) /\ Under(e, d)
    BY <1>7
  <2>5. ASSUME NEW m \in 1..(i - 1), NEW x \in Vis(t, c[m]), NEW y \in Vis(t, e)
        PROVE  Above(t, x, y) /\ ~Under(y, x)
    <3>1. m \in 1..n /\ m < i
      BY <1>2
    <3>2. /\ c[m] \in Entries(t, d) /\ e \in Entries(t, d)
          /\ Place(t, c[m]) < Place(t, e)
      BY <1>7, <3>1
    <3> QED BY <3>2, VisAbove
  <2>6. \A x \in V(i - 1), y \in Vis(t, e) : Above(t, x, y)
    BY <1>7, <2>5
  <2>7. \A x \in W(i - 1), y \in Vis(t, e) : ~Under(y, x)
    BY <2>5 DEF Cut
  <2> HIDE DEF h, V, W, u, e
  <2>8. Fits(t, h(i - 1) \o u, d, V(i - 1) \union Vis(t, e), W(i - 1) \union Cut(t, e))
    BY <1>0, <2>3, <2>4, <2>6, <2>7, FitsJoin
  <2>9. Fits(t, h(i), d, V(i), W(i))
    BY <2>1, <2>2, <2>8
  <2> QED BY <2>0, <2>9
<1> HIDE DEF S
<1>10. n \in S
  <2>1. \A i \in 0..n : i \in S
    BY <1>2, <1>8, <1>9, Upwards
  <2> QED BY <1>2, <2>1
<1>11. Fits(t, h(n), d, V(n), W(n))
  BY <1>10 DEF S
<1>12. V(n) = Vis(t, d)
  BY VisSplit DEF n, c
<1>13. Cut(t, d) = W(n) \union (IF n < Len(c) THEN {d} ELSE {})
  <2>1. ASSUME NEW m \in 1..n PROVE d \notin Vis(t, c[m])
    <3>1. \A x \in Vis(t, c[m]) : ~Under(d, x)
      BY <1>7
    <3>2. Under(d, d)
      BY <1>0, NodePaths, UnderOrders
    <3> QED BY <3>1, <3>2
  <2>2. d \in Cut(t, d) <=> n < Len(c)
    BY <1>12 DEF Cut, n, c
  <2>3. \A x : x # d => (x \in Cut(t, d) <=> x \in W(n))
    BY <1>12 DEF Cut
  <2>4. d \notin W(n)
    BY <2>1 DEF Cut
  <2> HIDE DEF W
  <2> QED BY <2>2, <2>3, <2>4
<1>14. \A x \in W(n) : Under(x, d)
  BY <1>7 DEF Cut
<1>15. f[n] \in L /\ <<Row(d)>> \in L /\ <<More(d)>> \in L
  <2>1. Row(d) \in Line(t) /\ More(d) \in Line(t)
    BY <1>0 DEF Row, More, Line, Nodes
  <2>2. n \in 0..n
    BY <1>2
  <2> QED BY <1>6, <2>1, <2>2
<1> HIDE DEF V, W
<1>16. CASE n < Len(c)
  <2>1. Below(t, b, d) = f[n] \o <<More(d)>>
    BY <1>1, <1>2, <1>6, <1>16 DEF c
  <2>2. <<Row(d)>> \o (f[n] \o <<More(d)>>) = h(n) \o <<More(d)>>
    <3> DEFINE first == <<Row(d)>>
               so == f[n]
               last == <<More(d)>>
               X == Line(t)
    <3>1. first \in Seq(X) /\ so \in Seq(X) /\ last \in Seq(X)
      BY <1>15
    <3> HIDE DEF first, so, last, X
    <3>2. (first \o so) \o last = first \o (so \o last)
      BY <3>1, ConcatAssociative, SMTT(20)
    <3> QED BY <3>2 DEF first, so, last
  <2> HIDE DEF h
  <2>3. Fits(t, h(n) \o <<More(d)>>, d, V(n), W(n) \union {d})
    BY <1>0, <1>11, <1>14, FitsMore
  <2> QED BY <1>12, <1>13, <1>16, <2>1, <2>2, <2>3
<1>17. CASE ~(n < Len(c))
  <2>1. Below(t, b, d) = f[n]
    BY <1>1, <1>2, <1>6, <1>15, <1>17, ConcatEmptySeq DEF c
  <2> QED BY <1>11, <1>12, <1>13, <1>17, <2>1
<1> QED BY <1>16, <1>17

(* All lines of a tree: no directory in it is the deepest that does not    *)
(* fit.                                                                    *)
LEMMA LinesFit ==
  ASSUME NEW t, TreeOK(t)
  PROVE  Fits(t, Lines(t), Root, Shown(t), Cut(t, Root))
<1>1. PICK b \in [Folders(t) -> Seq(Line(t))] :
         /\ \A d \in Folders(t) : b[d] = Below(t, b, d)
         /\ Lines(t) = <<Row(Root)>> \o b[Root]
  BY LinesBelow
<1> DEFINE Right(d) == Fits(t, Block(t, b, d), d, Vis(t, d), Cut(t, d))
<1>2. IsTree(t) /\ t.expanded \subseteq Folders(t) /\ Folders(t) \subseteq Nodes(t)
  <2>1. IsTree(t) /\ t.expanded \subseteq Folders(t)
    BY DEF TreeOK, Folders
  <2> QED BY <2>1, NodePaths
<1>3. ASSUME NEW d \in Nodes(t), d \notin t.expanded PROVE Right(d)
  <2>1. Vis(t, d) = {d} /\ Cut(t, d) = {}
    BY <1>3, VisLeaf DEF Cut
  <2>2. d \in Folders(t) => b[d] = <<>>
    BY <1>1, <1>3 DEF Below
  <2>3. Block(t, b, d) = <<Row(d)>>
    <3>1. Block(t, b, d) = <<Row(d)>> \o <<>>
      BY <2>2 DEF Block
    <3> QED BY <3>1
  <2> QED BY <2>1, <2>3, FitsRow
<1>4. PICK max \in Nat : \A d \in Folders(t) : Len(d) <= max
  BY <1>2, DepthBound
<1>5. \A d \in Folders(t) : Len(d) \in Nat
  BY <1>2, NodePaths
<1>6. \A d \in Folders(t) : Right(d)
  <2> DEFINE T == {max - Len(d) : d \in {e \in Folders(t) : ~Right(e)}}
  <2> HIDE DEF Right
  <2>1. T \subseteq Nat
    BY <1>4, <1>5
  <2>2. SUFFICES ASSUME T # {} PROVE FALSE
    OBVIOUS
  <2>3. PICK l \in T : \A k \in T : l <= k
    <3> HIDE DEF T
    <3> QED BY <2>1, <2>2, Smallest
  <2>4. PICK d \in Folders(t) : ~Right(d) /\ l = max - Len(d)
    OBVIOUS
  <2>5. \A e \in Folders(t) : Len(e) > Len(d) => Right(e)
    <3> SUFFICES ASSUME NEW e \in Folders(t), Len(e) > Len(d), ~Right(e) PROVE FALSE
      OBVIOUS
    <3>1. l <= max - Len(e)
      BY <2>3
    <3> QED BY <2>4, <3>1, <1>5
  <2>6. d \in t.expanded
    BY <1>2, <1>3, <2>4
  <2>7. ASSUME NEW e \in Entries(t, d) PROVE Right(e)
    <3>1. e \in t.paths /\ Len(d) \in Nat /\ Len(e) = Len(d) + 1
      BY <1>2, EntryPath
    <3>2. CASE e \in Folders(t)
      BY <2>5, <3>1, <3>2
    <3>3. CASE e \notin Folders(t)
      <4>1. e \in Nodes(t) /\ e \notin t.expanded
        BY <1>2, <3>1, <3>3 DEF Nodes
      <4> QED BY <4>1, <1>3
    <3> QED BY <3>2, <3>3
  <2>8. \A e \in Entries(t, d) : Fits(t, Block(t, b, e), e, Vis(t, e), Cut(t, e))
    BY <2>7 DEF Right
  <2>9. Fits(t, <<Row(d)>> \o Below(t, b, d), d, Vis(t, d), Cut(t, d))
    BY <2>6, <2>8, BlockExpanded
  <2>10. Block(t, b, d) = <<Row(d)>> \o Below(t, b, d)
    BY <1>1 DEF Block
  <2> QED BY <2>4, <2>9, <2>10 DEF Right
<1>7. Root \in Folders(t) /\ Lines(t) = Block(t, b, Root)
  BY <1>1 DEF Folders, Block
<1>8. Right(Root)
  BY <1>6, <1>7
<1> QED BY <1>7, <1>8, VisRoot

(* v has those of the first n elements of s that L does not name, and at   *)
(* says where each of them was.                                            *)
Stays(v, at, s, L, n) ==
    /\ at \in [1..Len(v) -> (1..n) \ L]
    /\ \A k \in 1..Len(v) : v[k] = s[at[k]]
    /\ \A j, k \in 1..Len(v) : j < k => at[j] < at[k]
    /\ \A i \in (1..n) \ L : \E k \in 1..Len(v) : at[k] = i

LEMMA KeptFacts ==
  ASSUME NEW X, NEW s \in Seq(X), NEW L
  PROVE  LET v == FlattenSeq([i \in DOMAIN s |-> IF i \in L THEN <<>> ELSE <<s[i]>>])
         IN v \in Seq(X) /\ \E at : Stays(v, at, s, L, Len(s))
<1> DEFINE parts == [i \in DOMAIN s |-> IF i \in L THEN <<>> ELSE <<s[i]>>]
           n == Len(s)
           v == FlattenSeq(parts)
<1>1. n \in Nat /\ DOMAIN s = 1..n /\ \A i \in 1..n : s[i] \in X
  OBVIOUS
<1> HIDE DEF n
<1>2. parts \in Seq(Seq(X)) /\ Len(parts) = n
  BY <1>1
<1>3. \A i \in 1..n : parts[i] = IF i \in L THEN <<>> ELSE <<s[i]>>
  BY <1>1
<1> HIDE DEF parts
<1>4. PICK f \in [0..n -> Seq(X)] : /\ f[0] = <<>> /\ \A i \in 1..n : f[i] = f[i - 1] \o parts[i]
                                    /\ v = f[n]
  BY <1>2, FlattenSteps
<1> HIDE DEF v
<1> DEFINE S == {i \in 0..n : \E at : Stays(f[i], at, s, L, i)}
<1>5. 0 \in S
  <2> DEFINE at == [k \in 1..0 |-> 0]
  <2>1. Len(f[0]) = 0 /\ at \in [1..0 -> (1..0) \ L]
    BY <1>4
  <2>2. ~\E k : k \in 1..0
    OBVIOUS
  <2> HIDE DEF at
  <2>3. Stays(f[0], at, s, L, 0)
    BY <2>1, <2>2 DEF Stays
  <2> QED BY <2>3, <1>1
<1>6. ASSUME NEW i \in 1..n, i - 1 \in S PROVE i \in S
  <2> DEFINE q == f[i - 1]
             m == Len(q)
  <2>1. PICK at : Stays(q, at, s, L, i - 1)
    BY <1>6
  <2>2. i \in 0..n /\ q \in Seq(X) /\ m \in Nat /\ f[i] = q \o parts[i]
    <3>1. i \in 0..n /\ i - 1 \in 0..n
      BY <1>1
    <3>2. q \in Seq(X)
      BY <3>1, <1>4
    <3>3. m \in Nat
      BY <3>2
    <3> QED BY <3>1, <3>2, <3>3, <1>4
  <2>3. \A k \in 1..i : k \in 1..(i - 1) \/ k = i
    BY <1>1
  <2>4. /\ at \in [1..m -> (1..(i - 1)) \ L]
        /\ \A k \in 1..m : q[k] = s[at[k]]
        /\ \A j, k \in 1..m : j < k => at[j] < at[k]
        /\ \A l \in (1..(i - 1)) \ L : \E k \in 1..m : at[k] = l
    BY <2>1 DEF Stays
  <2> HIDE DEF q
  <2>5. CASE i \in L
    <3>1. f[i] = q
      <4>1. f[i] = q \o <<>>
        BY <1>3, <2>2, <2>5
      <4>2. q \o <<>> = q
        BY <2>2
      <4> QED BY <4>1, <4>2
    <3>2. (1..i) \ L = (1..(i - 1)) \ L
      BY <2>3, <2>5, <1>1
    <3>3. Stays(q, at, s, L, i)
      BY <2>4, <3>2 DEF Stays
    <3> QED BY <2>2, <3>1, <3>3
  <2>6. CASE i \notin L
    <3> DEFINE r == q \o <<s[i]>>
               to == [k \in 1..(m + 1) |-> IF k = m + 1 THEN i ELSE at[k]]
    <3>1. f[i] = r
      BY <1>3, <2>2, <2>6
    <3>2. Len(r) = m + 1 /\ (\A k \in 1..m : r[k] = q[k]) /\ r[m + 1] = s[i]
      BY <2>2, <1>1
    <3> HIDE DEF m
    <3>3. \A k \in 1..(m + 1) : k \in 1..m \/ k = m + 1
      BY <2>2
    <3>4. \A k \in 1..m : k \in 1..(m + 1) /\ to[k] = at[k] /\ at[k] \in (1..(i - 1)) \ L
      BY <2>2, <2>4
    <3>5. to[m + 1] = i /\ m + 1 \in 1..(m + 1)
      BY <2>2
    <3>6. to \in [1..(m + 1) -> (1..i) \ L]
      <4>1. \A k \in 1..(m + 1) : to[k] \in (1..i) \ L
        <5>1. (1..(i - 1)) \ L \subseteq (1..i) \ L /\ i \in (1..i) \ L
          BY <2>6, <1>1
        <5> HIDE DEF to
        <5> QED BY <3>3, <3>4, <3>5, <5>1
      <4>2. to = [k \in 1..(m + 1) |-> to[k]]
        OBVIOUS
      <4> HIDE DEF to
      <4> QED BY <4>1, <4>2
    <3> HIDE DEF r, to
    <3>7. \A k \in 1..(m + 1) : r[k] = s[to[k]]
      BY <2>4, <3>2, <3>3, <3>4, <3>5
    <3>8. ASSUME NEW j \in 1..(m + 1), NEW k \in 1..(m + 1), j < k PROVE to[j] < to[k]
      <4>1. j \in 1..m
        BY <2>2, <3>8
      <4>2. CASE k \in 1..m
        BY <2>4, <3>4, <3>8, <4>1, <4>2
      <4>3. CASE k = m + 1
        <5>1. to[j] \in 1..(i - 1) /\ to[k] = i
          BY <3>4, <3>5, <4>1, <4>3
        <5> QED BY <5>1, <1>1
      <4> QED BY <3>3, <4>2, <4>3
    <3>9. \A l \in (1..i) \ L : \E k \in 1..(m + 1) : to[k] = l
      <4> SUFFICES ASSUME NEW l \in (1..i) \ L PROVE \E k \in 1..(m + 1) : to[k] = l
        OBVIOUS
      <4>1. CASE l \in 1..(i - 1)
        <5>1. PICK k \in 1..m : at[k] = l
          BY <2>4, <4>1
        <5> QED BY <3>4, <5>1
      <4>2. CASE l = i
        BY <3>5, <4>2
      <4> QED BY <2>3, <4>1, <4>2
    <3>10. Stays(r, to, s, L, i)
      BY <3>2, <3>6, <3>7, <3>8, <3>9 DEF Stays
    <3> QED BY <2>2, <3>1, <3>10
  <2> QED BY <2>5, <2>6
<1> HIDE DEF S
<1>7. n \in S
  <2>1. \A i \in 0..n : i \in S
    BY <1>1, <1>5, <1>6, Upwards
  <2> QED BY <1>1, <2>1
<1>8. v \in Seq(X) /\ \E at : Stays(v, at, s, L, n)
  <2>1. n \in 0..n
    BY <1>1
  <2> QED BY <1>4, <1>7, <2>1 DEF S
<1> QED BY <1>8 DEF v, parts, n

(* What TreeShown says of one tree.                                        *)
TreeFits(t) ==
    LET lines == Visible(t)
        entries == {k \in DOMAIN lines : ~lines[k].more}
    IN /\ {lines[k].path : k \in entries} = Shown(t)
       /\ \A j, k \in entries : j < k => Above(t, lines[j].path, lines[k].path)
       /\ \A d \in t.expanded \intersect Shown(t) :
             t.revealed[d] < Len(Children(t, d)) =>
                \E k \in DOMAIN lines :
                    /\ lines[k].more /\ Under(d, lines[k].path)
                    /\ Under(lines[k - 1].path, d)
                    /\ \A j \in entries : j > k => ~Under(lines[j].path, d)

(* Of the sentinels after one row the last is drawn, and the line before   *)
(* it is that row.                                                         *)
LEMMA VisibleFits ==
  ASSUME NEW t, TreeOK(t)
  PROVE  TreeFits(t)
<1> DEFINE s == Lines(t)
           n == Len(s)
           L == {i \in DOMAIN s : s[i].more /\ i < Len(s) /\ s[i + 1].more}
           v == Visible(t)
<1>1. Fits(t, s, Root, Shown(t), Cut(t, Root))
  BY LinesFit
<1>2. s \in Seq(Line(t)) /\ n \in Nat /\ DOMAIN s = 1..n
  BY <1>1 DEF Fits
<1>3. v = FlattenSeq([i \in DOMAIN s |-> IF i \in L THEN <<>> ELSE <<s[i]>>])
  <2>1. \A i \in DOMAIN s : i \in L <=> (s[i].more /\ i < Len(s) /\ s[i + 1].more)
    OBVIOUS
  <2> HIDE DEF L, s
  <2>2. v = FlattenSeq([i \in DOMAIN s |->
               IF s[i].more /\ i < Len(s) /\ s[i + 1].more THEN <<>> ELSE <<s[i]>>])
    BY DEF Visible, Without, s
  <2>3. [i \in DOMAIN s |-> IF s[i].more /\ i < Len(s) /\ s[i + 1].more THEN <<>> ELSE <<s[i]>>]
         = [i \in DOMAIN s |-> IF i \in L THEN <<>> ELSE <<s[i]>>]
    BY <2>1
  <2> QED BY <2>2, <2>3
<1>4. \A i \in 1..n : i \in L <=> s[i].more /\ i < n /\ s[i + 1].more
  BY <1>2
<1> HIDE DEF L, s, v
<1>5. v \in Seq(Line(t)) /\ \E at : Stays(v, at, s, L, n)
  BY <1>2, <1>3, KeptFacts
<1>6. PICK at : Stays(v, at, s, L, n)
  BY <1>5
<1> DEFINE l == Len(v)
<1>7. DOMAIN v = 1..l /\ l \in Nat
  BY <1>5
<1> HIDE DEF n, l
<1>8. /\ \A k \in 1..l : at[k] \in 1..n /\ at[k] \notin L /\ v[k] = s[at[k]]
      /\ \A j, k \in 1..l : j < k => at[j] < at[k]
      /\ \A i \in 1..n : i \notin L => \E k \in 1..l : at[k] = i
  BY <1>6 DEF Stays, l
<1>9. /\ \A k \in 1..n : ~s[k].more => s[k].path \in Shown(t)
      /\ \A x \in Shown(t) : \E k \in 1..n : s[k] = Row(x)
      /\ \A j, k \in 1..n : j < k /\ ~s[j].more /\ ~s[k].more => Above(t, s[j].path, s[k].path)
      /\ \A x \in Cut(t, Root) : Sentinel(s, x)
  BY <1>1 DEF Fits, n
<1> DEFINE entries == {k \in DOMAIN v : ~v[k].more}
<1>10. {v[k].path : k \in entries} = Shown(t)
  <2>1. \A k \in entries : v[k].path \in Shown(t)
    BY <1>7, <1>8, <1>9
  <2>2. ASSUME NEW x \in Shown(t) PROVE \E k \in entries : v[k].path = x
    <3>1. PICK i \in 1..n : s[i] = Row(x)
      BY <1>9
    <3>2. ~s[i].more /\ s[i].path = x
      BY <3>1 DEF Row
    <3>3. PICK k \in 1..l : at[k] = i
      BY <1>4, <1>8, <3>2
    <3> QED BY <1>7, <1>8, <3>2, <3>3
  <2> QED BY <2>1, <2>2
<1>11. ASSUME NEW j \in entries, NEW k \in entries, j < k PROVE Above(t, v[j].path, v[k].path)
  <2>1. /\ j \in 1..l /\ v[j] = s[at[j]] /\ at[j] \in 1..n /\ ~s[at[j]].more
        /\ k \in 1..l /\ v[k] = s[at[k]] /\ at[k] \in 1..n /\ ~s[at[k]].more
    BY <1>7, <1>8
  <2>2. at[j] < at[k]
    BY <1>8, <1>11, <2>1
  <2> HIDE DEF entries
  <2> QED BY <1>9, <2>1, <2>2
<1>12. ASSUME NEW d \in t.expanded \intersect Shown(t), t.revealed[d] < Len(Children(t, d))
       PROVE  \E k \in DOMAIN v : /\ v[k].more /\ Under(d, v[k].path)
                                  /\ Under(v[k - 1].path, d)
                                  /\ \A j \in entries : j > k => ~Under(v[j].path, d)
  <2>1. PICK o \in 1..n, p \in 1..n : Marks(s, d, o, p)
    <3>1. d \in Cut(t, Root)
      BY <1>12, VisRoot DEF Cut
    <3> QED BY <1>9, <3>1 DEF Sentinel, n
  <2>2. /\ o < p /\ s[o] = Row(d) /\ s[p].more
        /\ \A k \in o..p : Under(s[k].path, d)
        /\ \A k \in 1..n : k > p /\ ~s[k].more => ~Under(s[k].path, d)
        /\ \A m \in p..n : (\A k \in p..m : s[k].more) => Under(d, s[m].path)
    BY <2>1 DEF Marks, n
  <2> DEFINE Run == {m \in p..n : \A k \in p..m : s[k].more}
  <2>3. PICK m \in Run : \A k \in Run : k <= m
    <3> DEFINE T == {n - k : k \in Run}
    <3>1. T \subseteq Nat
      BY <1>2
    <3>2. T # {}
      <4>1. p \in Run
        BY <1>2, <2>2
      <4> QED BY <4>1
    <3>3. PICK x \in T : \A y \in T : x <= y
      <4> HIDE DEF T
      <4> QED BY <3>1, <3>2, Smallest
    <3>4. PICK m \in Run : x = n - m
      OBVIOUS
    <3>5. \A k \in Run : k <= m
      <4>1. \A k \in Run : n - m <= n - k
        BY <3>3, <3>4
      <4>2. \A k \in Run : k \in Nat
        BY <1>2
      <4> HIDE DEF Run
      <4> QED BY <1>2, <3>4, <4>1, <4>2
    <3> QED BY <3>5
  <2>4. m \in p..n /\ m \in 1..n /\ s[m].more /\ \A k \in p..m : s[k].more
    BY <1>2
  <2>5. m \notin L
    <3>1. SUFFICES ASSUME m < n, s[m + 1].more PROVE FALSE
      BY <1>4, <2>4
    <3>2. m + 1 \in p..n /\ \A k \in p..(m + 1) : k \in p..m \/ k = m + 1
      BY <1>2, <2>4, <3>1
    <3>3. m + 1 \in Run
      BY <2>4, <3>1, <3>2
    <3> QED BY <2>3, <2>4, <3>3
  <2>6. \A k \in p..(m - 1) : k \in L
    <3>1. \A k \in p..(m - 1) : k \in p..m /\ k + 1 \in p..m /\ k \in 1..n /\ k < n
      BY <1>2, <2>4
    <3> QED BY <1>4, <2>4, <3>1
  <2> HIDE DEF Run
  <2>7. o \notin L
    BY <1>4, <2>2 DEF Row
  <2>8. PICK k \in 1..l : at[k] = m
    BY <1>8, <2>4, <2>5
  <2>9. PICK j \in 1..l : at[j] = o
    BY <1>8, <2>7
  <2>10. j < k
    <3>1. ~(k < j) /\ k # j
      <4>1. o < m
        BY <2>2, <2>4
      <4> QED BY <1>8, <2>8, <2>9, <4>1
    <3> QED BY <3>1
  <2>11. k - 1 \in 1..l /\ at[k - 1] \in o..p /\ k \in DOMAIN v
    <3>1. k - 1 \in 1..l /\ k - 1 < k /\ (j = k - 1 \/ j < k - 1)
      BY <1>7, <2>10
    <3>2. at[k - 1] < m
      BY <1>8, <2>8, <3>1
    <3>3. o <= at[k - 1]
      BY <1>8, <2>9, <3>1
    <3>4. at[k - 1] \in 1..n /\ at[k - 1] \notin p..(m - 1)
      BY <1>8, <2>6, <3>1
    <3>5. at[k - 1] < p
      BY <2>4, <3>2, <3>4
    <3> QED BY <1>7, <3>1, <3>3, <3>4, <3>5
  <2>12. v[k].more /\ Under(d, v[k].path)
    BY <1>8, <2>2, <2>4, <2>8
  <2>13. Under(v[k - 1].path, d)
    BY <1>8, <2>2, <2>11
  <2>14. ASSUME NEW e \in entries, e > k PROVE ~Under(v[e].path, d)
    <3>1. e \in 1..l /\ ~v[e].more
      BY <1>7
    <3>2. at[e] \in 1..n /\ m < at[e] /\ v[e] = s[at[e]]
      BY <1>8, <2>8, <2>14, <3>1
    <3>3. at[e] > p
      BY <2>4, <3>2
    <3> QED BY <2>2, <3>1, <3>2, <3>3
  <2> QED BY <2>11, <2>12, <2>13, <2>14
<1> HIDE DEF entries
<1> QED BY <1>10, <1>11, <1>12 DEF TreeFits, v, entries
-----------------------------------------------------------------------------
(* Trees and layout.                                                       *)
GoodTrees(tr) == DOMAIN tr \subseteq OfKind("Folder") /\ \A i \in DOMAIN tr : TreeOK(tr[i])
Snapshots(list, tr) == \A k \in DOMAIN list :
    (Kind(list[k].id) = "Folder" /\ Snapshot(list[k].id) # Nothing) => list[k].id \in DOMAIN tr

LEMMA KindFacts ==
  ASSUME offers \in Stores
  PROVE  /\ offers \in Seq(ToSet(offers)) /\ Len(offers) \in Nat /\ DOMAIN offers = 1..Len(offers)
         /\ \A i : Kind(i) \in {"Text", "Image", "Folder"}
         /\ \A i : Kind(i) # "Text" => i \in DOMAIN offers
         /\ \A i : Kind(i) = "Folder" => i \in OfKind("Folder") /\ IsTree(Snapshot(i))
         /\ \A i : Kind(i) = "Image" <=> i \in OfKind("Image")
         /\ \A i \in OfKind("Folder") : Kind(i) = "Folder"
         /\ \A i \in DOMAIN offers : /\ offers[i].peer \in Peers
                                     /\ offers[i].path \in {NoPath, LocalPath}
<1>1. /\ offers \in Seq(ToSet(offers))
      /\ \A i \in DOMAIN offers :
            /\ offers[i].peer \in Peers /\ offers[i].kind \in {"Text", "Image", "Folder"}
            /\ IsTree(offers[i].tree) /\ offers[i].path \in {NoPath, "local"}
  BY StoresAssumption
<1>2. Len(offers) \in Nat /\ DOMAIN offers = 1..Len(offers)
  BY <1>1
<1> QED BY <1>1, <1>2 DEF Kind, OfKind, Snapshot, LocalPath

LEMMA HeightType ==
  ASSUME offers \in Stores, NEW tr, GoodTrees(tr), NEW m \in Copy
  PROVE  RowHeight(m, tr) \in Nat
<1>1. /\ Height.bar \in Nat /\ Height.Folder \in Nat /\ Height.Image \in Nat /\ Height.Text \in Nat
      /\ \A h \in {"Text", "Image", "Folder"} : Height[h] \in Nat
  BY HeightAssumption
<1>2. m.id \in DOMAIN tr => Len(Visible(tr[m.id])) \in Nat
  BY LinesType DEF GoodTrees
<1>3. Kind(m.id) \in {"Text", "Image", "Folder"}
  BY KindFacts
<1> QED BY <1>1, <1>2, <1>3 DEF RowHeight

LEMMA TreeOfOK ==
  ASSUME NEW found, IsTree(found), NEW p
  PROVE  TreeOK(TreeOf(found, p)) /\ Len(Children(found, Root)) \in Nat
<1> DEFINE t == TreeOf(found, p)
           n == Len(Children(found, Root))
<1>1. n \in Nat
  <2>1. Children(found, Root) \in Seq(Entries(found, Root))
    BY ChildrenFacts
  <2> QED BY <2>1
<1>2. t.paths = found.paths /\ t.dirs = found.dirs
  BY DEF TreeOf
<1>3. IsTree(t)
  BY <1>2 DEF IsTree
<1>4. \A d : Children(t, d) = Children(found, d)
  BY <1>2 DEF Children, Entries, Rank, Before
<1>5. /\ t.expanded \subseteq {Root} /\ DOMAIN t.revealed = t.expanded
      /\ \A d \in t.expanded : t.revealed[d] = AtMost(BulkSize, Len(Children(found, d)))
  BY DEF TreeOf
<1>6. AtMost(BulkSize, n) \in 0..n
  BY <1>1, SizesAssumption DEF AtMost
<1>7. IsState(t)
  BY DEF TreeOf, IsState
<1> HIDE DEF t
<1>8. TreeOK(t)
  BY <1>1, <1>3, <1>4, <1>5, <1>6, <1>7 DEF TreeOK
<1> QED BY <1>1, <1>8 DEF t

LEMMA EnsuredOK ==
  ASSUME offers \in Stores, NEW tr, GoodTrees(tr), NEW list \in Seq(Copy)
  PROVE  /\ GoodTrees(Ensured(tr, list)) /\ Snapshots(list, Ensured(tr, list))
         /\ DOMAIN tr \subseteq DOMAIN Ensured(tr, list)
         /\ \A i \in DOMAIN tr : Ensured(tr, list)[i] = tr[i]
<1> DEFINE found == {k \in DOMAIN list : HasTree(list[k])}
           Message(i) == CHOOSE m \in ToSet(list) : m.id = i
           D == DOMAIN tr \union {list[k].id : k \in found}
           new == Ensured(tr, list)
<1>1. new = [i \in D |-> IF i \in DOMAIN tr THEN tr[i] ELSE NewTree(Message(i))]
  BY DEF Ensured
<1> HIDE DEF new
<1>2. ASSUME NEW m, Kind(m.id) = "Folder" PROVE TreeOK(NewTree(m))
  <2>1. IsTree(Snapshot(m.id)) /\ IsTree(OnDisk)
    BY <1>2, KindFacts, StoresAssumption
  <2> QED BY <2>1, TreeOfOK DEF NewTree
<1>3. ASSUME NEW k \in found PROVE Kind(list[k].id) = "Folder" /\ Message(list[k].id).id = list[k].id
  <2>1. list[k] \in ToSet(list)
    BY DEF ToSet
  <2> QED BY <2>1, <1>3 DEF HasTree
<1> HIDE DEF Message
<1>4. DOMAIN new = D /\ D \subseteq OfKind("Folder")
  BY <1>1, <1>3, KindFacts DEF GoodTrees
<1>5. ASSUME NEW i \in D PROVE TreeOK(new[i])
  <2>1. CASE i \in DOMAIN tr
    BY <2>1, <1>1 DEF GoodTrees
  <2>2. CASE i \notin DOMAIN tr
    <3>1. PICK k \in found : i = list[k].id
      BY <2>2
    <3>2. new[i] = NewTree(Message(i)) /\ Kind(Message(i).id) = "Folder"
      BY <2>2, <3>1, <1>1, <1>3
    <3> QED BY <3>2, <1>2
  <2> QED BY <2>1, <2>2
<1>6. \A k \in DOMAIN list : Kind(list[k].id) = "Folder" /\ Snapshot(list[k].id) # Nothing
                                => k \in found
  BY DEF HasTree
<1>7. Snapshots(list, new)
  BY <1>6, <1>4 DEF Snapshots
<1>8. \A i \in DOMAIN tr : new[i] = tr[i]
  BY <1>1
<1> QED BY <1>4, <1>5, <1>7, <1>8 DEF GoodTrees, new

(* The row of each message begins where that of the one before ends.       *)
LEMMA OffsetsFacts ==
  ASSUME offers \in Stores, NEW tr, GoodTrees(tr), NEW list \in Seq(Copy)
  PROVE  /\ Offsets(list, tr) \in Seq(Nat) /\ Len(Offsets(list, tr)) = Len(list)
         /\ \A k \in 1..(Len(list) - 1) :
               Offsets(list, tr)[k + 1] - Offsets(list, tr)[k] = RowHeight(list[k], tr)
<1> DEFINE n == Len(list)
           H(k) == RowHeight(list[k], tr)
           Tops(h) == h = [k \in 1..n |-> IF k = 1 THEN 0 ELSE h[k - 1] + H(k - 1)]
           top == CHOOSE h : Tops(h)
           g == [p \in (1..n) \X Nat |-> p[2] + H(p[1])]
<1>1. n \in Nat /\ \A k \in 1..n : H(k) \in Nat
  <2>1. \A k \in 1..n : list[k] \in Copy
    OBVIOUS
  <2> QED BY <2>1, HeightType
<1>2. Offsets(list, tr) = top
  BY DEF Offsets
<1> HIDE DEF n, H
<1>3. \A i \in 1..n, t \in Nat : <<i, t>> \in (1..n) \X Nat /\ t + H(i) \in Nat
  BY <1>1
<1>4. Stepper(g, Nat, n)
  BY <1>3 DEF Stepper
<1>5. \A i \in 1..n, t \in Nat : g[<<i, t>>] = t + H(i)
  BY <1>3
<1> HIDE DEF g
<1>6. PICK f : Steps(f, g, Nat, 0, n)
  BY <1>1, <1>4, Iterate
<1>7. /\ f \in [0..n -> Nat] /\ f[0] = 0 /\ \A i \in 1..n : f[i] = g[<<i, f[i - 1]>>]
  BY <1>6 DEF Steps
<1>8. ASSUME NEW i \in 1..n PROVE i - 1 \in 0..n /\ f[i - 1] \in Nat /\ f[i] = f[i - 1] + H(i)
  <2>1. i - 1 \in 0..n
    BY <1>1
  <2>2. f[i - 1] \in Nat
    BY <2>1, <1>7
  <2> QED BY <2>1, <2>2, <1>5, <1>7
<1>9. Tops(top)
  <2> DEFINE h == [k \in 1..n |-> f[k - 1]]
  <2>1. ASSUME NEW k \in 1..n PROVE h[k] = IF k = 1 THEN 0 ELSE h[k - 1] + H(k - 1)
    <3>1. CASE k = 1
      BY <3>1, <1>7
    <3>2. CASE k # 1
      <4>1. k - 1 \in 1..n
        BY <3>2, <1>1
      <4>2. h[k] = f[k - 1] /\ h[k - 1] = f[(k - 1) - 1]
        BY <4>1
      <4>3. f[k - 1] = f[(k - 1) - 1] + H(k - 1)
        BY <4>1, <1>8
      <4> QED BY <3>2, <4>2, <4>3
    <3> QED BY <3>1, <3>2
  <2>2. h = [k \in 1..n |-> h[k]]
    OBVIOUS
  <2> HIDE DEF h
  <2>3. Tops(h)
    BY <2>1, <2>2
  <2> HIDE DEF Tops
  <2> QED BY <2>3
<1> HIDE DEF top
<1>10. /\ DOMAIN top = 1..n
       /\ \A k \in 1..n : top[k] = IF k = 1 THEN 0 ELSE top[k - 1] + H(k - 1)
  BY <1>9
<1>11. \A k \in 1..n : top[k] \in Nat
  <2> DEFINE S == {0} \union {k \in 1..n : top[k] \in Nat}
  <2>1. ASSUME NEW i \in 1..n, i - 1 \in S PROVE i \in S
    <3>1. CASE i = 1
      BY <3>1, <1>10
    <3>2. CASE i # 1
      <4>1. i - 1 \in 1..n /\ top[i - 1] \in Nat
        BY <3>2, <2>1, <1>1
      <4>2. top[i] = top[i - 1] + H(i - 1)
        BY <3>2, <1>10
      <4> QED BY <4>1, <4>2, <1>1
    <3> QED BY <3>1, <3>2
  <2>2. 0 \in S
    OBVIOUS
  <2> HIDE DEF S
  <2>3. \A i \in 0..n : i \in S
    BY <1>1, <2>1, <2>2, Upwards
  <2> QED BY <1>1, <2>3 DEF S
<1>12. top = [k \in 1..n |-> top[k]]
  BY <1>9
<1>13. top \in Seq(Nat) /\ Len(top) = n
  BY <1>1, <1>10, <1>11, <1>12
<1>14. ASSUME NEW k \in 1..(n - 1) PROVE top[k + 1] - top[k] = H(k)
  <2>1. k \in 1..n /\ k + 1 \in 1..n /\ k + 1 # 1 /\ (k + 1) - 1 = k
    BY <1>1
  <2>2. top[k + 1] = top[k] + H(k)
    BY <2>1, <1>10
  <2>3. top[k] \in Nat /\ H(k) \in Nat
    BY <2>1, <1>1, <1>11
  <2> QED BY <2>2, <2>3
<1> QED BY <1>2, <1>13, <1>14 DEF n, H

LEMMA MaxScrollType ==
  ASSUME offers \in Stores, NEW tr, GoodTrees(tr), NEW list \in Seq(Copy),
         NEW tops \in Seq(Nat), Len(tops) = Len(list)
  PROVE  MaxScroll(list, tr, tops) \in Nat
<1>1. CASE list = <<>>
  BY <1>1 DEF MaxScroll
<1>2. CASE list # <<>>
  <2>1. Len(list) \in 1..Len(list) /\ list[Len(list)] \in Copy
    BY <1>2
  <2>2. tops[Len(list)] \in Nat
    BY <2>1
  <2>3. RowHeight(list[Len(list)], tr) \in Nat /\ Height.view \in Nat
    BY <2>1, HeightType, HeightAssumption
  <2> QED BY <1>2, <2>2, <2>3 DEF MaxScroll
<1> QED BY <1>1, <1>2
-----------------------------------------------------------------------------
(* The messages of a peer: one for each of its rows, oldest first.         *)
RowOK == [peer : Peers, status : Statuses, path : {NoPath, LocalPath}, deleted : {FALSE}]

(* m is the copy of a row of p.                                            *)
CopyOf(m, p) == /\ m \in Copy /\ m.id \in Ids /\ rows[m.id].peer = p
                /\ m.status = rows[m.id].status /\ m.path = rows[m.id].path

Ordered(list) == \A j, k \in DOMAIN list : j < k => list[j].id < list[k].id

LEMMA MessagesFacts ==
  ASSUME rows \in Seq(RowOK), NEW p
  PROVE  /\ Messages(p) \in Seq(Copy) /\ Ordered(Messages(p))
         /\ \A k \in DOMAIN Messages(p) : CopyOf(Messages(p)[k], p)
<1> DEFINE M(i) == [id |-> i, status |-> rows[i].status, path |-> rows[i].path]
           s == [i \in Ids |-> IF rows[i].peer = p THEN <<M(i)>> ELSE <<>>]
           n == Len(rows)
<1>1. n \in Nat /\ Ids = 1..n /\ \A i \in 1..n : rows[i] \in RowOK
  BY DEF Ids
<1>2. ASSUME NEW i \in 1..n
      PROVE  M(i) \in Copy /\ M(i).id = i /\ (rows[i].peer = p => CopyOf(M(i), p))
  <2>1. i \in Nat /\ rows[i].status \in Statuses /\ rows[i].path \in {NoPath, LocalPath}
    <3>1. rows[i] \in RowOK
      BY <1>1
    <3>2. i \in Nat
      BY <1>1
    <3> QED BY <3>1, <3>2 DEF RowOK
  <2>2. /\ M(i) \in Copy /\ M(i).id = i
        /\ M(i).status = rows[i].status /\ M(i).path = rows[i].path
    BY <2>1 DEF Copy
  <2> QED BY <2>2, <1>1 DEF CopyOf
<1>3. Messages(p) = FlattenSeq(s)
  BY DEF Messages
<1> HIDE DEF M, n
<1>4. s \in Seq(Seq(Copy)) /\ Len(s) = n
  BY <1>1, <1>2
<1>5. \A i \in 1..n : s[i] = IF rows[i].peer = p THEN <<M(i)>> ELSE <<>>
  BY <1>1
<1> HIDE DEF s
<1>6. PICK f \in [0..n -> Seq(Copy)] :
         /\ f[0] = <<>> /\ \A i \in 1..n : f[i] = f[i - 1] \o s[i]
         /\ Messages(p) = f[n]
  BY <1>3, <1>4, FlattenSteps
<1> DEFINE Good(q, i) == /\ q \in Seq(Copy)
                         /\ \A k \in 1..Len(q) : CopyOf(q[k], p) /\ q[k].id <= i
                         /\ \A j, k \in 1..Len(q) : j < k => q[j].id < q[k].id
           S == {i \in 0..n : Good(f[i], i)}
<1>7. 0 \in S
  <2>1. Good(<<>>, 0)
    OBVIOUS
  <2>2. 0 \in 0..n
    BY <1>1
  <2> HIDE DEF Good
  <2> QED BY <2>1, <2>2, <1>6
<1>8. ASSUME NEW i \in 1..n, i - 1 \in S PROVE i \in S
  <2> DEFINE q == f[i - 1]
  <2>1. Good(q, i - 1)
    BY <1>8
  <2>2. i \in 0..n /\ i \in Nat /\ f[i] = q \o s[i]
    <3>1. i \in 0..n /\ i \in Nat
      BY <1>1
    <3> QED BY <3>1, <1>6
  <2> HIDE DEF q
  <2>3. CASE rows[i].peer # p
    <3>1. f[i] = q
      <4>1. s[i] = <<>>
        BY <2>3, <1>5
      <4>2. q \o <<>> = q
        BY <2>1
      <4> QED BY <4>1, <4>2, <2>2
    <3>2. Good(q, i)
      <4>1. \A k \in 1..Len(q) : q[k].id \in Nat
        BY <2>1 DEF CopyOf, Copy
      <4> QED BY <2>1, <2>2, <4>1
    <3> HIDE DEF Good
    <3> QED BY <2>2, <3>1, <3>2
  <2>4. CASE rows[i].peer = p
    <3> DEFINE m == M(i)
               r == q \o <<m>>
    <3>1. m \in Copy /\ CopyOf(m, p) /\ m.id = i
      BY <2>4, <1>2
    <3>2. f[i] = r
      BY <2>2, <2>4, <1>5
    <3> HIDE DEF m
    <3>3. /\ r \in Seq(Copy) /\ Len(r) = Len(q) + 1 /\ Len(q) \in Nat
          /\ \A k \in 1..Len(q) : r[k] = q[k]
          /\ r[Len(q) + 1] = m
      BY <2>1, <3>1
    <3>4. \A k \in 1..Len(q) : q[k].id \in Nat
      BY <2>1 DEF CopyOf, Copy
    <3>5. Len(r) = Len(q) + 1 /\ Len(q) \in Nat
      BY <3>3
    <3> HIDE DEF r
    <3>6. \A k \in 1..Len(r) : CopyOf(r[k], p) /\ r[k].id <= i
      <4> SUFFICES ASSUME NEW k \in 1..Len(r) PROVE CopyOf(r[k], p) /\ r[k].id <= i
        OBVIOUS
      <4>1. CASE k \in 1..Len(q)
        <5>1. r[k] = q[k] /\ q[k].id \in Nat
          BY <4>1, <3>3, <3>4
        <5>2. CopyOf(q[k], p) /\ q[k].id <= i - 1
          BY <4>1, <2>1
        <5> QED BY <5>1, <5>2, <2>2
      <4>2. CASE k = Len(q) + 1
        BY <4>2, <3>1, <3>3, <2>2
      <4> QED BY <4>1, <4>2, <3>5
    <3>7. \A j, k \in 1..Len(r) : j < k => r[j].id < r[k].id
      <4> SUFFICES ASSUME NEW j \in 1..Len(r), NEW k \in 1..Len(r), j < k
                   PROVE  r[j].id < r[k].id
        OBVIOUS
      <4>1. j \in 1..Len(q)
        BY <3>3
      <4>2. CASE k \in 1..Len(q)
        BY <4>1, <4>2, <3>3, <2>1
      <4>3. CASE k = Len(q) + 1
        <5>1. r[j] = q[j] /\ q[j].id \in Nat /\ q[j].id <= i - 1
          BY <4>1, <3>3, <3>4, <2>1
        <5>2. r[k].id = i
          BY <4>3, <3>1, <3>3
        <5> QED BY <5>1, <5>2, <2>2
      <4>4. k \in 1..Len(q) \/ k = Len(q) + 1
        <5> DEFINE last == Len(q)
        <5>1. k \in 1..(last + 1) /\ last \in Nat
          BY <3>5
        <5> HIDE DEF last
        <5>2. k \in 1..last \/ k = last + 1
          BY <5>1
        <5> QED BY <5>2 DEF last
      <4> QED BY <4>2, <4>3, <4>4
    <3>8. Good(r, i)
      BY <3>3, <3>6, <3>7
    <3> HIDE DEF Good
    <3> QED BY <2>2, <3>2, <3>8
  <2> QED BY <2>3, <2>4
<1> HIDE DEF S
<1>9. n \in S
  <2>1. \A i \in 0..n : i \in S
    BY <1>1, <1>7, <1>8, Upwards
  <2> QED BY <2>1, <1>1
<1>10. Good(Messages(p), n)
  BY <1>6, <1>9 DEF S
<1>11. DOMAIN Messages(p) = 1..Len(Messages(p))
  BY <1>10
<1> QED BY <1>10, <1>11 DEF Ordered
-----------------------------------------------------------------------------
(* The cache.                                                              *)
Thumbs == [OfKind("Image") -> Images \union {NoImage}]
CacheType == [mem : Thumbs, order : Seq(OfKind("Image")), disk : Thumbs]

Once(q) == \A j, k \in 1..Len(q) : q[j] = q[k] => j = k

Listed(c) == /\ Once(c.order)
             /\ \A i \in OfKind("Image") : c.mem[i] # NoImage <=> i \in ToSet(c.order)

CacheOK(c) == c \in CacheType /\ Listed(c) /\ Len(c.order) <= Slots

NoBlur(c, i) == c.mem[i] # "blurred" /\ c.disk[i] # "blurred"

LEMMA RemoveFacts ==
  ASSUME NEW S, NEW q \in Seq(S), Once(q), NEW e, e \in ToSet(q)
  PROVE  /\ RemoveFirst(q, e) \in Seq(S) /\ Once(RemoveFirst(q, e))
         /\ Len(RemoveFirst(q, e)) = Len(q) - 1
         /\ ToSet(RemoveFirst(q, e)) = ToSet(q) \ {e}
<1>1. PICK i \in 1..Len(q) : q[i] = e
  BY DEF ToSet
<1> DEFINE at == SelectInSeq(q, LAMBDA v : v = e)
           r == RemoveAt(q, at)
<1>2. {j \in 1..Len(q) : q[j] = e} = {i}
  BY <1>1 DEF Once
<1>3. at = i
  <2>1. Min({i}) = i
    BY DEF Min
  <2> QED BY <1>2, <2>1 DEF SelectInSeq
<1>4. RemoveFirst(q, e) = r
  BY <1>1 DEF RemoveFirst
<1>5. r = SubSeq(q, 1, i - 1) \o SubSeq(q, i + 1, Len(q))
  BY <1>3 DEF RemoveAt
<1> HIDE DEF r, at
<1>6. /\ r \in Seq(S) /\ Len(r) = Len(q) - 1 /\ Len(q) \in Nat
      /\ \A j \in 1..(Len(q) - 1) : r[j] = IF j < i THEN q[j] ELSE q[j + 1]
  <2> DEFINE a == SubSeq(q, 1, i - 1)
             b == SubSeq(q, i + 1, Len(q))
             n == Len(q)
  <2>1. n \in Nat /\ i \in 1..n
    OBVIOUS
  <2>2. a \in Seq(S) /\ Len(a) = i - 1 /\ \A j \in 1..(i - 1) : a[j] = q[j]
    <3>1. i - 1 \in Nat /\ i - 1 <= Len(q)
      BY <2>1
    <3> DEFINE p == i - 1
    <3> HIDE DEF p
    <3>2. p \in Nat /\ p <= Len(q)
      BY <3>1 DEF p
    <3>3. /\ SubSeq(q, 1, p) \in Seq(S) /\ Len(SubSeq(q, 1, p)) = p
          /\ \A j \in 1..p : SubSeq(q, 1, p)[j] = q[j]
      BY <3>2
    <3> QED BY <3>3 DEF p
  <2>3. b \in Seq(S) /\ Len(b) = n - i /\ \A j \in 1..(n - i) : b[j] = q[i + j]
    BY <2>1, SubSeqProperties
  <2> HIDE DEF a, b, n
  <2>4. r = a \o b
    BY <1>5 DEF a, b
  <2>5. r \in Seq(S) /\ Len(r) = n - 1
    <3>1. r \in Seq(S) /\ Len(r) = Len(a) + Len(b)
      BY <2>2, <2>3, <2>4, ConcatProperties
    <3> QED BY <3>1, <2>1, <2>2, <2>3
  <2>6. ASSUME NEW j \in 1..(n - 1) PROVE r[j] = IF j < i THEN q[j] ELSE q[j + 1]
    <3>1. CASE j < i
      <4>1. j \in 1..Len(a) /\ r[j] = a[j]
        BY <3>1, <2>1, <2>2, <2>3, <2>4
      <4> QED BY <3>1, <4>1, <2>2
    <3>2. CASE ~(j < i)
      <4>1. j - Len(a) \in 1..(n - i) /\ r[j] = b[j - Len(a)]
        BY <3>2, <2>1, <2>2, <2>3, <2>4
      <4>2. i + (j - Len(a)) = j + 1
        BY <2>1, <2>2
      <4> QED BY <3>2, <4>1, <4>2, <2>3
    <3> QED BY <3>1, <3>2
  <2> QED BY <2>1, <2>5, <2>6 DEF n
<1>7. Once(r)
  <2> SUFFICES ASSUME NEW j \in 1..Len(r), NEW k \in 1..Len(r), r[j] = r[k]
               PROVE  j = k
    BY DEF Once
  <2>1. /\ j \in 1..(Len(q) - 1) /\ k \in 1..(Len(q) - 1)
        /\ j \in 1..Len(q) /\ k \in 1..Len(q) /\ j + 1 \in 1..Len(q) /\ k + 1 \in 1..Len(q)
    BY <1>6
  <2>2. /\ r[j] = IF j < i THEN q[j] ELSE q[j + 1]
        /\ r[k] = IF k < i THEN q[k] ELSE q[k + 1]
    BY <1>6, <2>1
  <2>3. \A x, y \in 1..Len(q) : q[x] = q[y] => x = y
    BY DEF Once
  <2>4. CASE j < i /\ k < i
    BY <2>1, <2>2, <2>3, <2>4
  <2>5. CASE j < i /\ ~(k < i)
    <3>1. j = k + 1
      BY <2>1, <2>2, <2>3, <2>5
    <3> QED BY <3>1, <2>5, <2>1, <1>6
  <2>6. CASE ~(j < i) /\ k < i
    <3>1. j + 1 = k
      BY <2>1, <2>2, <2>3, <2>6
    <3> QED BY <3>1, <2>6, <2>1, <1>6
  <2>7. CASE ~(j < i) /\ ~(k < i)
    <3>1. j + 1 = k + 1
      BY <2>1, <2>2, <2>3, <2>7
    <3> QED BY <3>1, <2>1
  <2> QED BY <2>4, <2>5, <2>6, <2>7
<1>8. ASSUME NEW x \in ToSet(r) PROVE x \in ToSet(q) \ {e}
  <2>1. PICK j \in 1..(Len(q) - 1) : x = r[j]
    BY <1>6, <1>8 DEF ToSet
  <2>2. j \in 1..Len(q) /\ j + 1 \in 1..Len(q)
    BY <1>6
  <2>3. PICK k \in 1..Len(q) : x = q[k] /\ k # i
    BY <1>6, <2>1, <2>2
  <2> QED BY <1>1, <2>3 DEF ToSet, Once
<1>9. ASSUME NEW x \in ToSet(q) \ {e} PROVE x \in ToSet(r)
  <2>1. PICK k \in 1..Len(q) : x = q[k]
    BY <1>9 DEF ToSet
  <2>2. k # i
    BY <2>1, <1>1
  <2>3. CASE k < i
    <3>1. k \in 1..(Len(q) - 1) /\ r[k] = q[k]
      BY <2>3, <1>6
    <3> QED BY <3>1, <2>1, <1>6 DEF ToSet
  <2>4. CASE k > i
    <3>1. k - 1 \in 1..(Len(q) - 1) /\ ~(k - 1 < i) /\ (k - 1) + 1 = k
      BY <2>4, <1>6
    <3>2. r[k - 1] = q[k]
      BY <3>1, <1>6
    <3> QED BY <3>1, <3>2, <2>1, <1>6 DEF ToSet
  <2> QED BY <2>2, <2>3, <2>4
<1> QED BY <1>4, <1>6, <1>7, <1>8, <1>9

LEMMA FrontFacts ==
  ASSUME NEW S, NEW q \in Seq(S), Once(q), q # <<>>
  PROVE  /\ Front(q) \in Seq(S) /\ Once(Front(q)) /\ Len(Front(q)) = Len(q) - 1
         /\ Last(q) \in S /\ Last(q) \in ToSet(q) /\ ToSet(Front(q)) = ToSet(q) \ {Last(q)}
<1>1. Len(q) \in Nat \ {0}
  OBVIOUS
<1> DEFINE n == Len(q) - 1
           r == SubSeq(q, 1, n)
<1>2. n \in Nat /\ n <= Len(q) /\ Len(q) = n + 1
  BY <1>1
<1> HIDE DEF n
<1>3. r \in Seq(S) /\ Len(r) = n /\ \A j \in 1..n : r[j] = q[j]
  BY <1>2
<1>4. Front(q) = r
  BY DEF Front, n
<1> HIDE DEF r
<1>5. Last(q) = q[n + 1] /\ n + 1 \in 1..Len(q)
  BY <1>2 DEF Last
<1>6. Once(r)
  BY <1>2, <1>3 DEF Once
<1>7. ToSet(r) = ToSet(q) \ {Last(q)}
  <2>1. DOMAIN r = 1..n /\ DOMAIN q = 1..(n + 1)
    BY <1>2, <1>3
  <2> QED BY <2>1, <1>2, <1>3, <1>5 DEF ToSet, Once
<1>8. Last(q) \in S /\ Last(q) \in ToSet(q)
  BY <1>5 DEF ToSet
<1> QED BY <1>2, <1>3, <1>4, <1>6, <1>7, <1>8

LEMMA PrependFacts ==
  ASSUME NEW S, NEW q \in Seq(S), Once(q), NEW e \in S, e \notin ToSet(q)
  PROVE  /\ <<e>> \o q \in Seq(S) /\ Once(<<e>> \o q) /\ Len(<<e>> \o q) = Len(q) + 1
         /\ ToSet(<<e>> \o q) = ToSet(q) \union {e}
<1> DEFINE r == <<e>> \o q
<1>1. /\ r \in Seq(S) /\ Len(r) = Len(q) + 1 /\ r[1] = e /\ Len(q) \in Nat
      /\ \A j \in 1..Len(q) : r[j + 1] = q[j]
  OBVIOUS
<1> HIDE DEF r
<1>2. \A j \in 1..Len(r) : j = 1 \/ (j - 1 \in 1..Len(q) /\ r[j] = q[j - 1])
  <2> SUFFICES ASSUME NEW j \in 1..Len(r), j # 1
               PROVE  j - 1 \in 1..Len(q) /\ r[j] = q[j - 1]
    OBVIOUS
  <2>1. j - 1 \in 1..Len(q) /\ (j - 1) + 1 = j
    BY <1>1
  <2> QED BY <2>1, <1>1
<1>3. \A j \in 1..Len(q) : q[j] # e
  BY DEF ToSet
<1>4. Once(r)
  <2> SUFFICES ASSUME NEW j \in 1..Len(r), NEW k \in 1..Len(r), r[j] = r[k]
               PROVE  j = k
    BY DEF Once
  <2>1. \A x, y \in 1..Len(q) : q[x] = q[y] => x = y
    BY DEF Once
  <2>2. CASE j = 1
    BY <2>2, <1>1, <1>2, <1>3
  <2>3. CASE k = 1
    BY <2>3, <1>1, <1>2, <1>3
  <2>4. CASE j # 1 /\ k # 1
    <3>1. j - 1 \in 1..Len(q) /\ k - 1 \in 1..Len(q) /\ q[j - 1] = q[k - 1]
      BY <2>4, <1>2
    <3>2. j - 1 = k - 1
      BY <3>1, <2>1
    <3> QED BY <3>2
  <2> QED BY <2>2, <2>3, <2>4
<1>5. ToSet(r) = ToSet(q) \union {e}
  <2>1. \A j \in 1..Len(r) : r[j] \in ToSet(q) \union {e}
    BY <1>1, <1>2 DEF ToSet
  <2>5. DOMAIN r = 1..Len(r) /\ DOMAIN q = 1..Len(q)
    BY <1>1
  <2>2. e \in ToSet(r)
    BY <1>1 DEF ToSet
  <2>3. ASSUME NEW j \in 1..Len(q) PROVE q[j] \in ToSet(r)
    <3>1. j + 1 \in 1..Len(r) /\ r[j + 1] = q[j]
      BY <1>1
    <3> QED BY <3>1, <1>1 DEF ToSet
  <2> QED BY <2>1, <2>2, <2>3, <2>5 DEF ToSet
<1> QED BY <1>1, <1>4, <1>5 DEF r

LEMMA EvictOK ==
  ASSUME NEW c, CacheOK(c), Len(c.order) >= Slots
  PROVE  /\ CacheOK(EvictLruToDisk(c)) /\ Len(EvictLruToDisk(c).order) < Slots
         /\ \A i : c.mem[i] = NoImage /\ i \in OfKind("Image") => EvictLruToDisk(c).mem[i] = NoImage
         /\ \A i \in OfKind("Image") : NoBlur(c, i) => NoBlur(EvictLruToDisk(c), i)
<1> DEFINE S == OfKind("Image")
           q == c.order
           lru == Last(q)
           d == EvictLruToDisk(c)
<1>1. c \in CacheType /\ Once(q) /\ Len(q) <= Slots /\ q \in Seq(S) /\ q # <<>>
  BY SlotsAssumption DEF CacheOK, CacheType, Listed
<1>2. /\ Front(q) \in Seq(S) /\ Once(Front(q)) /\ Len(Front(q)) = Len(q) - 1
      /\ lru \in S /\ lru \in ToSet(q) /\ ToSet(Front(q)) = ToSet(q) \ {lru}
  BY <1>1, FrontFacts
<1>3. d = [mem |-> [c.mem EXCEPT ![lru] = NoImage], order |-> Front(q),
           disk |-> [c.disk EXCEPT ![lru] = c.mem[lru]]]
  BY DEF EvictLruToDisk
<1> HIDE DEF S, q, lru, d
<1>4. c.mem \in [S -> Images \union {NoImage}] /\ c.disk \in [S -> Images \union {NoImage}]
  BY <1>1 DEF CacheType, Thumbs, S
<1>5. d.mem = [c.mem EXCEPT ![lru] = NoImage] /\ d.order = Front(q)
      /\ d.disk = [c.disk EXCEPT ![lru] = c.mem[lru]]
  BY <1>3
<1>6. d \in CacheType
  BY <1>2, <1>3, <1>4 DEF CacheType, Thumbs, S
<1>7. \A i \in S : c.mem[i] # NoImage <=> i \in ToSet(q)
  BY DEF CacheOK, Listed, S, q
<1>8. \A i \in S : d.mem[i] # NoImage <=> i \in ToSet(d.order)
  BY <1>2, <1>4, <1>5, <1>7
<1>9. Len(d.order) < Slots /\ Len(d.order) <= Slots
  BY <1>1, <1>2, <1>5, SlotsAssumption
<1>10. \A i \in S : NoBlur(c, i) => NoBlur(d, i)
  BY <1>2, <1>4, <1>5 DEF NoBlur, NoImage
<1>11. \A i \in S : c.mem[i] = NoImage => d.mem[i] = NoImage
  BY <1>2, <1>4, <1>5
<1> QED BY <1>2, <1>5, <1>6, <1>8, <1>9, <1>10, <1>11 DEF CacheOK, Listed, S, d

LEMMA InsertOK ==
  ASSUME NEW c, CacheOK(c), NEW i \in OfKind("Image"), c.mem[i] = NoImage, NEW img \in Images
  PROVE  /\ CacheOK(Insert(c, i, img)) /\ Insert(c, i, img).mem[i] = img
         /\ \A j \in OfKind("Image") :
               NoBlur(c, j) /\ (j # i \/ img # "blurred") => NoBlur(Insert(c, i, img), j)
<1> DEFINE S == OfKind("Image")
           room == IF Len(c.order) >= Slots THEN EvictLruToDisk(c) ELSE c
           d == Insert(c, i, img)
<1>1. /\ CacheOK(room) /\ Len(room.order) < Slots /\ room.mem[i] = NoImage
      /\ \A j \in S : NoBlur(c, j) => NoBlur(room, j)
  <2>1. Len(c.order) \in Nat
    BY DEF CacheOK, CacheType
  <2> QED BY <2>1, EvictOK, SlotsAssumption
<1>2. d = [room EXCEPT !.mem[i] = img, !.order = <<i>> \o @]
  BY DEF Insert
<1> HIDE DEF room, d, S
<1>3. /\ room \in CacheType /\ Once(room.order) /\ room.order \in Seq(S)
      /\ room.mem \in [S -> Images \union {NoImage}] /\ room.disk \in [S -> Images \union {NoImage}]
      /\ \A j \in S : room.mem[j] # NoImage <=> j \in ToSet(room.order)
  BY <1>1 DEF CacheOK, CacheType, Listed, Thumbs, S
<1>4. i \in S /\ i \notin ToSet(room.order)
  BY <1>1, <1>3 DEF S
<1> DEFINE q == <<i>> \o room.order
<1>5. q \in Seq(S) /\ Once(q) /\ Len(q) = Len(room.order) + 1
      /\ ToSet(q) = ToSet(room.order) \union {i}
  BY <1>3, <1>4, PrependFacts
<1>6. d.mem = [room.mem EXCEPT ![i] = img] /\ d.order = q /\ d.disk = room.disk
  BY <1>2, <1>3 DEF CacheType
<1>7. d = [mem |-> d.mem, order |-> d.order, disk |-> d.disk]
  BY <1>2, <1>3 DEF CacheType
<1> HIDE DEF q
<1>8. d \in CacheType
  BY <1>3, <1>5, <1>6, <1>7 DEF CacheType, Thumbs, S
<1>9. \A j \in S : d.mem[j] # NoImage <=> j \in ToSet(d.order)
  BY <1>3, <1>4, <1>5, <1>6 DEF Images, NoImage
<1>10. Len(d.order) <= Slots
  BY <1>1, <1>3, <1>5, <1>6, SlotsAssumption
<1>11. \A j \in S : NoBlur(c, j) /\ (j # i \/ img # "blurred") => NoBlur(d, j)
  BY <1>1, <1>3, <1>4, <1>6 DEF NoBlur
<1>12. d.mem[i] = img
  BY <1>3, <1>4, <1>6
<1> QED BY <1>5, <1>6, <1>8, <1>9, <1>10, <1>11, <1>12 DEF CacheOK, Listed, S, d

LEMMA PromoteOK ==
  ASSUME NEW c, CacheOK(c), NEW i \in OfKind("Image"), c.mem[i] # NoImage
  PROVE  /\ CacheOK(Promote(c, i))
         /\ Promote(c, i).mem = c.mem /\ Promote(c, i).disk = c.disk
<1> DEFINE S == OfKind("Image")
           q == c.order
           r == RemoveFirst(q, i)
           d == Promote(c, i)
<1>1. /\ c \in CacheType /\ q \in Seq(S) /\ Once(q) /\ i \in ToSet(q) /\ Len(q) <= Slots
      /\ \A j \in S : c.mem[j] # NoImage <=> j \in ToSet(q)
  BY DEF CacheOK, CacheType, Listed
<1>2. r \in Seq(S) /\ Once(r) /\ Len(r) = Len(q) - 1 /\ ToSet(r) = ToSet(q) \ {i}
  BY <1>1, RemoveFacts
<1>3. /\ <<i>> \o r \in Seq(S) /\ Once(<<i>> \o r) /\ Len(<<i>> \o r) = Len(r) + 1
      /\ ToSet(<<i>> \o r) = ToSet(r) \union {i}
  BY <1>2, PrependFacts
<1>4. d = [c EXCEPT !.order = <<i>> \o r]
  BY DEF Promote
<1> HIDE DEF S, r, d
<1>5. d.mem = c.mem /\ d.disk = c.disk /\ d.order = <<i>> \o r
      /\ d = [mem |-> c.mem, order |-> <<i>> \o r, disk |-> c.disk]
  BY <1>1, <1>4 DEF CacheType
<1>6. d \in CacheType
  BY <1>1, <1>3, <1>5 DEF CacheType, S
<1>7. Len(d.order) <= Slots
  <2>1. Len(q) \in Nat
    BY <1>1
  <2> QED BY <2>1, <1>1, <1>2, <1>3, <1>5
<1>8. Listed(d)
  BY <1>1, <1>2, <1>3, <1>5 DEF Listed, S
<1> QED BY <1>5, <1>6, <1>7, <1>8 DEF CacheOK, d

LEMMA GetOK ==
  ASSUME NEW c, CacheOK(c), NEW i \in OfKind("Image")
  PROVE  /\ CacheOK(Get(c, i))
         /\ \A j \in OfKind("Image") : NoBlur(c, j) => NoBlur(Get(c, i), j)
<1>1. CASE c.mem[i] # NoImage
  BY <1>1, PromoteOK DEF Get, NoBlur
<1>2. CASE c.mem[i] = NoImage /\ c.disk[i] # NoImage
  <2>1. c.disk[i] \in Images
    BY <1>2 DEF CacheOK, CacheType, Thumbs
  <2>2. Get(c, i) = Insert(c, i, c.disk[i])
    BY <1>2 DEF Get
  <2>3. /\ CacheOK(Get(c, i))
        /\ \A j \in OfKind("Image") :
              NoBlur(c, j) /\ (j # i \/ c.disk[i] # "blurred") => NoBlur(Get(c, i), j)
    BY <1>2, <2>1, <2>2, InsertOK
  <2> QED BY <2>3 DEF NoBlur
<1>3. CASE c.mem[i] = NoImage /\ c.disk[i] = NoImage
  BY <1>3 DEF Get
<1> QED BY <1>1, <1>2, <1>3

LEMMA PutOK ==
  ASSUME NEW c, CacheOK(c), NEW i \in OfKind("Image"), NEW img \in Images \union {NoImage}
  PROVE  /\ CacheOK(Put(c, i, img))
         /\ \A j \in OfKind("Image") :
               NoBlur(c, j) /\ (j # i \/ img # "blurred") => NoBlur(Put(c, i, img), j)
<1>1. CASE img = NoImage
  BY <1>1 DEF Put
<1>2. CASE img # NoImage /\ c.mem[i] # NoImage
  <2> DEFINE p == Promote(c, i)
             d == Put(c, i, img)
  <2>1. CacheOK(p) /\ p.mem = c.mem /\ p.disk = c.disk
    BY <1>2, PromoteOK
  <2>2. d = [p EXCEPT !.mem[i] = img]
    BY <1>2 DEF Put
  <2> HIDE DEF p, d
  <2>3. p \in CacheType /\ p.mem \in Thumbs
    BY <2>1 DEF CacheOK, CacheType
  <2>4. /\ d.mem = [p.mem EXCEPT ![i] = img] /\ d.disk = p.disk /\ d.order = p.order
        /\ d = [mem |-> [p.mem EXCEPT ![i] = img], order |-> p.order, disk |-> p.disk]
    BY <2>2, <2>3 DEF CacheType
  <2>5. d \in CacheType
    BY <2>3, <2>4 DEF CacheType, Thumbs
  <2>6. \A j \in OfKind("Image") : d.mem[j] = IF j = i THEN img ELSE c.mem[j]
    BY <2>1, <2>3, <2>4 DEF Thumbs
  <2>7. Listed(d)
    BY <1>2, <2>1, <2>4, <2>6 DEF Listed, CacheOK
  <2>8. CacheOK(d)
    BY <2>1, <2>4, <2>5, <2>7 DEF CacheOK
  <2> QED BY <2>1, <2>4, <2>6, <2>8 DEF NoBlur, d
<1>3. CASE img # NoImage /\ c.mem[i] = NoImage
  <2>1. img \in Images /\ Put(c, i, img) = Insert(c, i, img)
    BY <1>3 DEF Put
  <2> QED BY <1>3, <2>1, InsertOK
<1> QED BY <1>1, <1>2, <1>3

LEMMA InvalidateOK ==
  ASSUME NEW c, CacheOK(c), NEW i \in OfKind("Image")
  PROVE  /\ CacheOK(Invalidate(c, i)) /\ NoBlur(Invalidate(c, i), i)
         /\ \A j \in OfKind("Image") : NoBlur(c, j) => NoBlur(Invalidate(c, i), j)
<1> DEFINE S == OfKind("Image")
           q == c.order
           r == RemoveFirst(q, i)
           d == Invalidate(c, i)
<1>1. /\ c \in CacheType /\ q \in Seq(S) /\ Once(q) /\ Len(q) <= Slots
      /\ \A j \in S : c.mem[j] # NoImage <=> j \in ToSet(q)
  BY DEF CacheOK, CacheType, Listed
<1>2. r \in Seq(S) /\ Once(r) /\ Len(r) <= Len(q) /\ Len(r) \in Nat /\ ToSet(r) = ToSet(q) \ {i}
  <2>1. CASE i \in ToSet(q)
    <3>1. Len(q) \in Nat
      BY <1>1
    <3> QED BY <2>1, <3>1, <1>1, RemoveFacts
  <2>2. CASE i \notin ToSet(q)
    <3>1. \A j \in 1..Len(q) : q[j] # i
      BY <2>2, <1>1 DEF ToSet
    <3>2. r = q
      BY <3>1 DEF RemoveFirst
    <3>3. Len(q) \in Nat
      BY <1>1
    <3> QED BY <3>2, <3>3, <1>1, <2>2
  <2> QED BY <2>1, <2>2
<1>3. d = [mem |-> [c.mem EXCEPT ![i] = NoImage], order |-> r,
           disk |-> [c.disk EXCEPT ![i] = NoImage]]
  BY DEF Invalidate
<1> HIDE DEF S, r, d
<1>4. c.mem \in [S -> Images \union {NoImage}] /\ c.disk \in [S -> Images \union {NoImage}]
  BY <1>1 DEF CacheType, Thumbs, S
<1>5. /\ d.mem = [c.mem EXCEPT ![i] = NoImage] /\ d.order = r
      /\ d.disk = [c.disk EXCEPT ![i] = NoImage]
  BY <1>3
<1>6. d \in CacheType
  BY <1>2, <1>3, <1>4 DEF CacheType, Thumbs, S
<1>7. i \in S /\ \A j \in S : /\ d.mem[j] = IF j = i THEN NoImage ELSE c.mem[j]
                             /\ d.disk[j] = IF j = i THEN NoImage ELSE c.disk[j]
  BY <1>4, <1>5 DEF S
<1>8. Listed(d)
  BY <1>1, <1>2, <1>5, <1>7 DEF Listed, S
<1>9. Len(d.order) <= Slots
  <2>1. Len(q) \in Nat
    BY <1>1
  <2> QED BY <2>1, <1>1, <1>2, <1>5, SlotsAssumption
<1>10. NoBlur(d, i) /\ \A j \in S : NoBlur(c, j) => NoBlur(d, j)
  BY <1>7 DEF NoBlur, NoImage
<1> QED BY <1>6, <1>8, <1>9, <1>10 DEF CacheOK, S, d

LEMMA ClearOK ==
  ASSUME NEW c, CacheOK(c)
  PROVE  CacheOK(ClearMemory(c)) /\ \A j \in OfKind("Image") : NoBlur(c, j) => NoBlur(ClearMemory(c), j)
<1> DEFINE S == OfKind("Image")
           d == ClearMemory(c)
<1>1. c \in CacheType /\ DOMAIN c.mem = S
  BY DEF CacheOK, CacheType, Thumbs
<1>2. d = [mem |-> [i \in S |-> NoImage], order |-> <<>>, disk |-> c.disk]
  <2>1. d = [c EXCEPT !.mem = [i \in S |-> NoImage], !.order = <<>>]
    BY <1>1 DEF ClearMemory
  <2> HIDE DEF d, S
  <2> QED BY <2>1, <1>1 DEF CacheType
<1> HIDE DEF d, S
<1>3. d \in CacheType
  BY <1>1, <1>2 DEF CacheType, Thumbs, S
<1>4. d.order = <<>> /\ \A j \in S : d.mem[j] = NoImage /\ d.disk[j] = c.disk[j]
  BY <1>2
<1>5. Listed(d) /\ Len(d.order) <= Slots
  BY <1>4, SlotsAssumption DEF Listed, Once, ToSet, S
<1>6. \A j \in S : NoBlur(c, j) => NoBlur(d, j)
  BY <1>4 DEF NoBlur, NoImage
<1> QED BY <1>3, <1>5, <1>6 DEF CacheOK, S, d

(* What thumbnail() does for the k-th message: no picture of a complete    *)
(* file is replaced by a blurred one.                                      *)
Complete(m) == Kind(m.id) = "Image" /\ m.status = "Done" /\ m.path # NoPath

Clear(c) == \A k \in DOMAIN view : Complete(view[k]) => NoBlur(c, view[k].id)

CacheStates == {c \in CacheType : CacheOK(c) /\ Clear(c)}

LEMMA ThumbnailOK ==
  ASSUME offers \in Stores, view \in Seq(Copy), Ordered(view),
         NEW c \in CacheStates, NEW k \in DOMAIN view, Kind(view[k].id) = "Image"
  PROVE  Thumbnail(c, view[k]) \in CacheStates
<1> DEFINE m == view[k]
           got == Get(c, m.id)
           new == Thumbnail(c, m)
<1>1. m.id \in OfKind("Image")
  BY KindFacts
<1>2. CacheOK(c) /\ Clear(c)
  BY DEF CacheStates
<1>3. \A j \in DOMAIN view : Complete(view[j]) => view[j].id \in OfKind("Image")
  BY KindFacts DEF Complete
<1>4. /\ CacheOK(got) /\ \A j \in OfKind("Image") : NoBlur(c, j) => NoBlur(got, j)
  BY <1>1, <1>2, GetOK
<1>5. Source(m) \in Images \union {NoImage} /\ (Complete(m) => Source(m) # "blurred")
  BY DEF Source, Complete, Images, NoImage
<1>6. \A j \in DOMAIN view : j # k => view[j].id # m.id
  <2> SUFFICES ASSUME NEW j \in DOMAIN view, j # k PROVE view[j].id # m.id
    OBVIOUS
  <2>1. j \in Nat /\ k \in Nat /\ view[j].id \in Nat /\ m.id \in Nat
    <3>1. DOMAIN view = 1..Len(view) /\ view[j] \in Copy /\ m \in Copy
      OBVIOUS
    <3> QED BY <3>1 DEF Copy
  <2>2. j < k \/ k < j
    BY <2>1
  <2>3. view[j].id < m.id \/ m.id < view[j].id
    BY <2>2 DEF Ordered
  <2> QED BY <2>1, <2>3
<1>7. /\ CacheOK(Put(got, m.id, Source(m)))
      /\ \A j \in OfKind("Image") : NoBlur(got, j) /\ (j # m.id \/ Source(m) # "blurred")
                                      => NoBlur(Put(got, m.id, Source(m)), j)
  BY <1>1, <1>4, <1>5, PutOK
<1>8. new = got \/ new = Put(got, m.id, Source(m))
  BY DEF Thumbnail
<1> HIDE DEF new, got
<1>9. CacheOK(new)
  BY <1>4, <1>7, <1>8
<1>10. ASSUME NEW j \in DOMAIN view, Complete(view[j]) PROVE NoBlur(new, view[j].id)
  <2>1. view[j].id \in OfKind("Image") /\ NoBlur(c, view[j].id)
    BY <1>10, <1>2, <1>3 DEF Clear
  <2>2. view[j].id # m.id \/ Source(m) # "blurred"
    BY <1>5, <1>6, <1>10
  <2> QED BY <2>1, <2>2, <1>4, <1>7, <1>8
<1> QED BY <1>9, <1>10 DEF CacheStates, Clear, CacheOK, new

(* The thumbnails of the messages drawn, one after the other.              *)
LEMMA DrawnOK ==
  ASSUME offers \in Stores, view \in Seq(Copy), Ordered(view), cache \in CacheStates,
         NEW last \in 0..Len(view), NEW D \in SUBSET DOMAIN view,
         \A k \in D : Kind(view[k].id) = "Image"
  PROVE  LET drawn[k \in 0..last] == IF k = 0 THEN cache
                                     ELSE IF k \in D THEN Thumbnail(drawn[k - 1], view[k])
                                     ELSE drawn[k - 1]
         IN drawn[last] \in CacheStates
<1> DEFINE V == CacheStates
           g == [p \in (1..last) \X V |-> IF p[1] \in D THEN Thumbnail(p[2], view[p[1]]) ELSE p[2]]
           Drawn(h) == h = [k \in 0..last |-> IF k = 0 THEN cache
                                              ELSE IF k \in D THEN Thumbnail(h[k - 1], view[k])
                                              ELSE h[k - 1]]
           drawn == CHOOSE h : Drawn(h)
<1>1. last \in Nat /\ last \in 0..last
  OBVIOUS
<1>2. \A i \in 1..last, c \in V :
         /\ <<i, c>> \in (1..last) \X V
         /\ (IF i \in D THEN Thumbnail(c, view[i]) ELSE c) \in V
  BY ThumbnailOK
<1> HIDE DEF V
<1>3. Stepper(g, V, last)
  BY <1>2 DEF Stepper
<1>4. \A i \in 1..last, c \in V : g[<<i, c>>] = IF i \in D THEN Thumbnail(c, view[i]) ELSE c
  BY <1>2
<1> HIDE DEF g
<1>5. PICK f : Steps(f, g, V, cache, last)
  BY <1>1, <1>3, Iterate DEF V
<1>6. /\ f \in [0..last -> V] /\ f[0] = cache
      /\ \A i \in 1..last : f[i] = g[<<i, f[i - 1]>>]
  BY <1>5 DEF Steps
<1>7. ASSUME NEW i \in 1..last
      PROVE  f[i] = IF i \in D THEN Thumbnail(f[i - 1], view[i]) ELSE f[i - 1]
  <2>1. i - 1 \in 0..last
    BY <1>1
  <2>2. f[i - 1] \in V
    BY <2>1, <1>6
  <2> QED BY <2>2, <1>4, <1>6
<1>8. Drawn(f)
  <2>1. ASSUME NEW k \in 0..last
        PROVE  f[k] = IF k = 0 THEN cache ELSE IF k \in D THEN Thumbnail(f[k - 1], view[k])
                                               ELSE f[k - 1]
    <3>1. k # 0 => k \in 1..last
      BY <1>1
    <3> QED BY <3>1, <1>6, <1>7
  <2>2. f = [k \in 0..last |-> f[k]]
    BY <1>6
  <2> QED BY <2>1, <2>2
<1>9. Drawn(drawn)
  <2> HIDE DEF Drawn
  <2> QED BY <1>8
<1> HIDE DEF drawn
<1>10. \A k \in 0..last : drawn[k] = IF k = 0 THEN cache
                                     ELSE IF k \in D THEN Thumbnail(drawn[k - 1], view[k])
                                     ELSE drawn[k - 1]
  BY <1>9
<1>11. drawn[last] \in V
  <2> DEFINE S == {i \in 0..last : drawn[i] \in V}
  <2>1. 0 \in S
    BY <1>10, <1>1 DEF V
  <2>2. ASSUME NEW i \in 1..last, i - 1 \in S PROVE i \in S
    <3>1. i \in 0..last /\ i # 0
      BY <1>1
    <3>2. drawn[i - 1] \in V
      BY <2>2
    <3>3. drawn[i] = IF i \in D THEN Thumbnail(drawn[i - 1], view[i]) ELSE drawn[i - 1]
      BY <3>1, <1>10
    <3> QED BY <3>1, <3>2, <3>3, <1>2
  <2> HIDE DEF S
  <2>3. \A i \in 0..last : i \in S
    BY <1>1, <2>1, <2>2, Upwards
  <2> QED BY <2>3, <1>1 DEF S
<1> QED BY <1>11 DEF drawn, V

-----------------------------------------------------------------------------
(* The invariant.  A row that is Done has lost the path of an image, so    *)
(* that only the view can hold a complete one; and the view holds the      *)
(* status of every row it has a copy of.                                   *)
RowsOK == /\ rows \in Seq(RowOK)
          /\ Len(rows) \in Len(offers)..(Len(offers) + MaxTexts)
          /\ \A i \in OfKind("Image") : rows[i].status = "Done" => rows[i].path = NoPath

Held(m, rs, p) == m.id \in DOMAIN rs /\ rs[m.id].peer = p /\ rs[m.id].status = m.status

ViewOK == /\ peer \in Peers \union {0}
          /\ view \in Seq(Copy) /\ Ordered(view)
          /\ \A k \in DOMAIN view : Held(view[k], rows, peer)

TreesOK == GoodTrees(trees) /\ Snapshots(view, trees)

LayoutOK == offsets \in Seq(Nat) /\ scroll \in Nat /\ LayoutFresh

Inv == /\ offers \in Stores /\ gone \subseteq DOMAIN offers
       /\ RowsOK /\ ViewOK /\ TreesOK /\ LayoutOK /\ cache \in CacheStates

LEMMA RowFacts ==
  ASSUME Inv
  PROVE  /\ Len(rows) \in Nat /\ Ids = 1..Len(rows) /\ \A i \in Ids : rows[i] \in RowOK
         /\ DOMAIN offers = 1..Len(offers) /\ Len(offers) \in Nat
         /\ DOMAIN offers \subseteq Ids
<1>1. rows \in Seq(RowOK) /\ Len(rows) \in Len(offers)..(Len(offers) + MaxTexts) /\ offers \in Stores
  BY DEF Inv, RowsOK
<1>2. Len(offers) \in Nat /\ DOMAIN offers = 1..Len(offers) /\ MaxTexts \in Nat
  BY <1>1, KindFacts, StoresAssumption
<1> QED BY <1>1, <1>2 DEF Ids

LEMMA InitInv == Init => Inv
<1> SUFFICES ASSUME Init PROVE Inv
  OBVIOUS
<1>1. offers \in Stores /\ gone = {} /\ peer = 0 /\ view = <<>> /\ trees = <<>> /\ offsets = <<>>
      /\ scroll = 0 /\ cache = EmptyCache(OfKind("Image"))
      /\ rows = [i \in DOMAIN offers |-> NewRow(offers[i].peer, "WaitingAccept", offers[i].path)]
  BY DEF Init
<1>2. DOMAIN offers = 1..Len(offers) /\ Len(offers) \in Nat
      /\ \A i \in DOMAIN offers : offers[i].peer \in Peers /\ offers[i].path \in {NoPath, LocalPath}
  BY <1>1, KindFacts
<1>3. RowsOK
  <2>1. rows \in [1..Len(offers) -> RowOK]
    BY <1>1, <1>2 DEF NewRow, RowOK, Statuses
  <2>2. rows \in Seq(RowOK) /\ Len(rows) = Len(offers)
    BY <2>1, <1>2
  <2>3. \A i \in DOMAIN offers : rows[i].status = "WaitingAccept"
    BY <1>1 DEF NewRow
  <2> QED BY <2>2, <2>3, <1>2, StoresAssumption DEF RowsOK, OfKind
<1>4. ViewOK /\ TreesOK /\ LayoutOK
  BY <1>1 DEF ViewOK, TreesOK, LayoutOK, LayoutFresh, GoodTrees, Snapshots, Ordered
<1>5. cache \in CacheStates
  <2>1. cache.mem \in Thumbs /\ cache.disk \in Thumbs /\ cache.order = <<>>
        /\ \A i \in OfKind("Image") : cache.mem[i] = NoImage
        /\ cache = [mem |-> cache.mem, order |-> cache.order, disk |-> cache.disk]
    BY <1>1 DEF EmptyCache, Thumbs
  <2>2. cache \in CacheType
    <3> DEFINE none == [i \in OfKind("Image") |-> NoImage]
    <3>1. none \in Thumbs
      BY DEF Thumbs
    <3>2. \A m \in Thumbs, q \in Seq(OfKind("Image")) :
             [mem |-> m, order |-> q, disk |-> m] \in CacheType
      BY DEF CacheType
    <3>3. <<>> \in Seq(OfKind("Image"))
      OBVIOUS
    <3>4. cache = [mem |-> none, order |-> <<>>, disk |-> none]
      BY <1>1 DEF EmptyCache
    <3> HIDE DEF none
    <3> QED BY <3>1, <3>2, <3>3, <3>4
  <2>3. Listed(cache) /\ Len(cache.order) <= Slots
    BY <2>1, SlotsAssumption DEF Listed, Once, ToSet
  <2> QED BY <2>2, <2>3, <1>1 DEF CacheOK, CacheStates, Clear
<1> QED BY <1>1, <1>3, <1>4, <1>5 DEF Inv

(* Whatever the view holds, rebuildLayout leaves its layout fresh.         *)
LEMMA RebuildOK ==
  ASSUME offers \in Stores, offers' = offers, NEW list \in Seq(Copy), view' \in Seq(Copy),
         NEW tr, GoodTrees(tr),
         trees' = Ensured(tr, list), offsets' = Offsets(view', trees'),
         \A k \in DOMAIN view' : Kind(view'[k].id) = "Folder" =>
            \E j \in DOMAIN list : list[j].id = view'[k].id
  PROVE  /\ TreesOK' /\ LayoutFresh' /\ offsets' \in Seq(Nat) /\ Len(offsets') = Len(view')
         /\ GoodTrees(trees') /\ MaxScroll(view', trees', offsets') \in Nat
<1>1. GoodTrees(trees') /\ Snapshots(list, trees')
  BY EnsuredOK
<1>2. /\ offsets' \in Seq(Nat) /\ Len(offsets') = Len(view')
      /\ \A k \in 1..(Len(view') - 1) : offsets'[k + 1] - offsets'[k] = RowHeight(view'[k], trees')
  BY <1>1, OffsetsFacts
<1>3. MaxScroll(view', trees', offsets') \in Nat
  BY <1>1, <1>2, MaxScrollType
<1>4. Snapshots(view', trees')
  BY <1>1 DEF Snapshots
<1>5. TreesOK'
  BY <1>1, <1>4 DEF TreesOK, GoodTrees, Snapshots, OfKind, Kind, Snapshot
<1>6. LayoutFresh'
  BY <1>2 DEF LayoutFresh, RowHeight, Kind
<1> QED BY <1>1, <1>2, <1>3, <1>5, <1>6

LEMMA CacheLater ==
  ASSUME offers' = offers, CacheOK(cache'),
         \A k \in DOMAIN view' : Complete(view'[k]) => NoBlur(cache', view'[k].id)
  PROVE  (cache \in CacheStates)'
<1>1. OfKind("Image")' = OfKind("Image") /\ \A i : Kind(i)' = Kind(i)
  BY DEF OfKind, Kind
<1>2. CacheType' = CacheType
  BY <1>1 DEF CacheType, Thumbs
<1>3. (cache \in CacheType)' /\ CacheOK(cache)'
  BY <1>1, <1>2 DEF CacheOK, Listed
<1>4. Clear(cache)'
  BY <1>1 DEF Clear, Complete, NoBlur
<1> QED BY <1>3, <1>4 DEF CacheStates

(* Rows, view, trees and layout that stay as they are.                     *)
LEMMA RowsLater ==
  ASSUME RowsOK, UNCHANGED <<offers, rows>>
  PROVE  RowsOK'
BY DEF RowsOK, OfKind

LEMMA ViewLater ==
  ASSUME ViewOK, UNCHANGED <<rows, peer, view>>
  PROVE  ViewOK'
BY DEF ViewOK, Ordered, Held

LEMMA TreesLater ==
  ASSUME TreesOK, UNCHANGED <<offers, view, trees>>
  PROVE  TreesOK'
BY DEF TreesOK, GoodTrees, Snapshots, OfKind, Kind, Snapshot

LEMMA LayoutLater ==
  ASSUME LayoutOK, UNCHANGED <<offers, view, trees, offsets>>, scroll' \in Nat
  PROVE  LayoutOK'
BY DEF LayoutOK, LayoutFresh, RowHeight, Kind, Snapshot

LEMMA CacheStays ==
  ASSUME cache \in CacheStates, UNCHANGED <<offers, view, cache>>
  PROVE  (cache \in CacheStates)'
BY CacheLater DEF CacheStates, Clear

LEMMA ShowPeerInv ==
  ASSUME Inv, NEW p \in Peers, ShowPeer(p)
  PROVE  Inv'
<1>1. peer' = p /\ view' = Messages(p) /\ cache' = ClearMemory(cache) /\ UNCHANGED <<offers, rows, gone>>
      /\ trees' = Ensured(<<>>, view') /\ offsets' = Offsets(view', trees')
      /\ scroll' = MaxScroll(view', trees', offsets')
  BY DEF ShowPeer, Rebuild, ScrollToBottom
<1>2. rows \in Seq(RowOK) /\ offers \in Stores /\ RowsOK
  BY DEF Inv, RowsOK
<1>3. view' \in Seq(Copy) /\ Ordered(view') /\ \A k \in DOMAIN view' : CopyOf(view'[k], p)
  BY <1>1, <1>2, MessagesFacts
<1>4. ViewOK'
  <2>1. \A k \in DOMAIN view' : Held(view'[k], rows, p)
    BY <1>3 DEF CopyOf, Held, Ids
  <2> QED BY <1>1, <1>3, <2>1 DEF ViewOK, Ordered, Held
<1>5. GoodTrees(<<>>)
  BY DEF GoodTrees
<1>6. TreesOK' /\ LayoutFresh' /\ offsets' \in Seq(Nat) /\ scroll' \in Nat
  BY <1>1, <1>2, <1>3, <1>5, RebuildOK
<1>7. \A k \in DOMAIN view' : ~Complete(view'[k])
  BY <1>2, <1>3, KindFacts DEF CopyOf, Complete, RowsOK
<1>8. CacheOK(cache')
  BY <1>1, ClearOK DEF Inv, CacheStates
<1>9. (cache \in CacheStates)'
  BY <1>1, <1>7, <1>8, CacheLater
<1> QED BY <1>1, <1>2, <1>4, <1>6, <1>9, RowsLater DEF Inv, LayoutOK

LEMMA FileGoneInv ==
  ASSUME Inv, NEW i \in DOMAIN offers, FileGone(i)
  PROVE  Inv'
<1>1. gone' = gone \union {i} /\ UNCHANGED <<offers, rows, peer, view, trees, offsets, scroll, cache>>
  BY DEF FileGone, layoutVars
<1> QED BY <1>1, RowsLater, ViewLater, TreesLater, LayoutLater, CacheStays DEF Inv, LayoutOK

LEMMA ScrollInv ==
  ASSUME Inv, UNCHANGED <<offers, rows, gone, peer, view, trees, offsets, cache>>, scroll' \in Nat
  PROVE  Inv'
BY RowsLater, ViewLater, TreesLater, LayoutLater, CacheStays DEF Inv, LayoutOK

LEMMA MaxScrollNow ==
  ASSUME Inv
  PROVE  MaxScroll(view, trees, offsets) \in Nat
BY MaxScrollType DEF Inv, ViewOK, TreesOK, LayoutOK, LayoutFresh

LEMMA WheelInv ==
  ASSUME Inv, NEW d \in {-Height.step, Height.step}, Wheel(d)
  PROVE  Inv'
<1>1. d \in Int /\ scroll \in Nat
  BY HeightAssumption DEF Inv, LayoutOK
<1>2. scroll' \in Nat
  BY <1>1, MaxScrollNow DEF Wheel, AtMost
<1> QED BY <1>2, ScrollInv DEF Wheel

LEMMA ScrollButtonInv ==
  ASSUME Inv, ScrollButton
  PROVE  Inv'
BY MaxScrollNow, ScrollInv DEF ScrollButton

LEMMA AppendMessageInv ==
  ASSUME Inv, NEW p \in Peers, AppendMessage(p)
  PROVE  Inv'
<1> DEFINE i == Len(rows) + 1
           m == [id |-> i, status |-> "Done", path |-> NoPath]
           row == NewRow(p, "Done", NoPath)
<1>1. Len(rows) < Len(offers) + MaxTexts /\ rows' = Append(rows, row) /\ UNCHANGED <<offers, gone, peer, cache>>
  BY DEF AppendMessage, AddMessage
<1>2. /\ Len(rows) \in Nat /\ Ids = 1..Len(rows) /\ DOMAIN offers \subseteq Ids /\ rows \in Seq(RowOK)
      /\ Len(offers) \in Nat /\ MaxTexts \in Nat /\ Len(rows) >= Len(offers) /\ i \in Nat
  BY RowFacts, StoresAssumption DEF Inv, RowsOK
<1>3. row \in RowOK /\ row.peer = p /\ row.status = "Done"
  BY DEF NewRow, RowOK, Statuses
<1>4. /\ rows' \in Seq(RowOK) /\ Len(rows') = Len(rows) + 1 /\ DOMAIN rows' = 1..i /\ rows'[i] = row
      /\ \A j \in 1..Len(rows) : rows'[j] = rows[j]
  <2> HIDE DEF row
  <2> QED BY <1>1, <1>2, <1>3
<1> HIDE DEF row
<1>5. RowsOK'
  <2>1. \A j \in OfKind("Image") : rows'[j] = rows[j]
    BY <1>2, <1>4 DEF OfKind, Ids
  <2>2. Len(rows') \in Len(offers)..(Len(offers) + MaxTexts)
    BY <1>1, <1>2, <1>4
  <2> QED BY <1>1, <1>4, <2>1, <2>2 DEF Inv, RowsOK, OfKind
<1>6. \A k \in DOMAIN view : Held(view[k], rows', peer) /\ view[k].id \in 1..Len(rows)
  BY <1>2, <1>4 DEF Inv, ViewOK, Held, Ids
<1>7. CASE p # peer
  <2>1. UNCHANGED <<view, trees, offsets, scroll>>
    BY <1>7 DEF AppendMessage, layoutVars
  <2>2. ViewOK'
    BY <1>1, <1>6, <2>1 DEF Inv, ViewOK, Ordered, Held
  <2> QED BY <1>1, <1>5, <2>1, <2>2, TreesLater, LayoutLater, CacheStays DEF Inv, LayoutOK
<1>8. CASE p = peer
  <2>1. /\ view' = Append(view, m) /\ trees' = Ensured(trees, view) /\ offsets' = Offsets(view', trees')
        /\ scroll' \in {scroll, MaxScroll(view', trees', offsets')}
    BY <1>8 DEF AppendMessage, ScrollToBottom
  <2>2. view \in Seq(Copy) /\ Ordered(view) /\ Len(view) \in Nat /\ DOMAIN view = 1..Len(view)
    BY DEF Inv, ViewOK
  <2>3. m \in Copy
    BY <1>2 DEF Copy, Statuses
  <2>4. /\ view' \in Seq(Copy) /\ DOMAIN view' = 1..(Len(view) + 1) /\ view'[Len(view) + 1] = m
        /\ \A k \in 1..Len(view) : view'[k] = view[k]
    <3> HIDE DEF m
    <3> QED BY <2>1, <2>2, <2>3
  <2>5. Held(m, rows', peer)
    BY <1>2, <1>3, <1>4, <1>8 DEF Held
  <2>6. Ordered(view')
    <3>1. ASSUME NEW j \in DOMAIN view', NEW k \in DOMAIN view', j < k PROVE view'[j].id < view'[k].id
      <4>1. j \in 1..Len(view) /\ view'[j] = view[j] /\ view[j].id \in 1..Len(rows)
        BY <3>1, <1>6, <2>2, <2>4
      <4>2. CASE k = Len(view) + 1
        BY <4>1, <4>2, <2>4, <1>2
      <4>3. CASE k # Len(view) + 1
        <5>1. k \in 1..Len(view) /\ view'[k] = view[k]
          BY <4>3, <2>4, <2>2
        <5> QED BY <3>1, <4>1, <5>1, <2>2 DEF Ordered
      <4> QED BY <4>2, <4>3
    <3> QED BY <3>1 DEF Ordered
  <2>7. \A k \in DOMAIN view' : Held(view'[k], rows', peer)
    <3> HIDE DEF m
    <3>1. \A k \in DOMAIN view' : k = Len(view) + 1 \/ k \in 1..Len(view)
      BY <2>2, <2>4
    <3> QED BY <1>6, <2>2, <2>4, <2>5, <3>1
  <2>8. ViewOK'
    BY <1>1, <2>4, <2>6, <2>7 DEF Inv, ViewOK, Ordered, Held
  <2>9. Kind(m.id) = "Text"
    BY <1>2 DEF Kind, Ids
  <2>10. \A k \in DOMAIN view' : Kind(view'[k].id) # "Text" => k \in DOMAIN view /\ view'[k] = view[k]
    <3> HIDE DEF m
    <3>1. \A k \in DOMAIN view' : k = Len(view) + 1 \/ k \in 1..Len(view)
      BY <2>2, <2>4
    <3> QED BY <2>2, <2>4, <2>9, <3>1
  <2>11. TreesOK' /\ LayoutFresh' /\ offsets' \in Seq(Nat) /\ MaxScroll(view', trees', offsets') \in Nat
    <3>1. \A k \in DOMAIN view' : Kind(view'[k].id) = "Folder" => \E j \in DOMAIN view : view[j].id = view'[k].id
      BY <2>10
    <3> QED BY <1>1, <2>1, <2>2, <2>4, <3>1, RebuildOK DEF Inv, TreesOK
  <2>12. (cache \in CacheStates)'
    <3>1. \A k \in DOMAIN view' : Complete(view'[k]) => NoBlur(cache', view'[k].id)
      BY <1>1, <2>10 DEF Complete, Inv, CacheStates, Clear
    <3>2. CacheOK(cache')
      BY <1>1 DEF Inv, CacheStates
    <3> QED BY <1>1, <3>1, <3>2, CacheLater
  <2> QED BY <1>1, <1>5, <2>1, <2>8, <2>11, <2>12 DEF Inv, LayoutOK
<1> QED BY <1>7, <1>8

(* What App tells the view of message i: an image that is complete is so   *)
(* because its status changes now, and its row has no path.                *)
LEMMA MessageUpdatedInv ==
  ASSUME Inv, NEW i \in DOMAIN offers, NEW status \in Statuses, NEW path \in {NoPath, LocalPath},
         Kind(i) = "Image" /\ status = "Done" => path = NoPath /\ rows[i].status # "Done",
         MessageUpdated(i, status, path)
  PROVE  Inv'
<1>1. rows' = UpdateMessage(rows, i, status, path) /\ UNCHANGED <<offers, gone, peer, scroll>>
  BY DEF MessageUpdated
<1>2. /\ Len(rows) \in Nat /\ Ids = 1..Len(rows) /\ i \in Ids /\ rows \in Seq(RowOK)
      /\ Len(offers) \in Nat /\ rows[i] \in RowOK
  BY RowFacts DEF Inv, RowsOK
<1>3. rows' = [rows EXCEPT ![i] = Updated(rows[i], status, path)]
  BY <1>1, <1>2 DEF UpdateMessage, Present, RowOK, Ids
<1>4. /\ Updated(rows[i], status, path) \in RowOK
      /\ Updated(rows[i], status, path).status = status
      /\ Updated(rows[i], status, path).path = path
      /\ Updated(rows[i], status, path).peer = rows[i].peer
  BY <1>2 DEF Updated, RowOK
<1>5. /\ rows' \in Seq(RowOK) /\ Len(rows') = Len(rows) /\ DOMAIN rows' = Ids
      /\ rows'[i].status = status /\ rows'[i].path = path
      /\ \A j \in Ids : rows'[j].peer = rows[j].peer /\ (j # i => rows'[j] = rows[j])
  BY <1>2, <1>3, <1>4 DEF Ids
<1>6. OfKind("Image") \subseteq Ids
  BY RowFacts DEF OfKind
<1>7. RowsOK'
  <2>1. ASSUME NEW j \in OfKind("Image"), rows'[j].status = "Done" PROVE rows'[j].path = NoPath
    <3>1. Kind(j) = "Image"
      BY KindFacts DEF Inv
    <3> QED BY <2>1, <3>1, <1>5, <1>6 DEF Inv, RowsOK
  <2>2. Len(rows') \in Len(offers)..(Len(offers) + MaxTexts)
    BY <1>5 DEF Inv, RowsOK
  <2> QED BY <1>1, <1>5, <2>1, <2>2 DEF RowsOK, OfKind
<1>8. view \in Seq(Copy) /\ Ordered(view) /\ DOMAIN view = 1..Len(view) /\ Len(view) \in Nat
      /\ \A k \in DOMAIN view : Held(view[k], rows, peer)
  BY DEF Inv, ViewOK
<1>9. CASE ~\E k \in DOMAIN view : view[k].id = i
  <2>1. UNCHANGED <<view, trees, offsets, cache>>
    BY <1>9 DEF MessageUpdated
  <2>2. \A k \in DOMAIN view : Held(view[k], rows', peer)
    BY <1>5, <1>8, <1>9 DEF Held, Ids
  <2>3. ViewOK'
    BY <1>1, <2>1, <2>2 DEF Inv, ViewOK, Ordered, Held
  <2> QED BY <1>1, <1>7, <2>1, <2>3, TreesLater, LayoutLater, CacheStays DEF Inv, LayoutOK
<1>10. ASSUME NEW k \in DOMAIN view, view[k].id = i, UpdateView(k, status, path) PROVE Inv'
  <2> DEFINE old == view[k]
             new == NewCopy(old, status, path)
             kept == DOMAIN trees \ {j \in {new.id} : /\ Kind(new.id) = "Folder" /\ status = "Done" /\ new.path # NoPath
                                                      /\ new.id \in DOMAIN trees /\ trees[new.id].rootPath # new.path}
             tr == [j \in kept |-> trees[j]]
  <2>1. /\ view' = [view EXCEPT ![k] = new]
        /\ cache' = IF Kind(new.id) = "Image" /\ old.status # "Done" /\ status = "Done"
                    THEN Invalidate(cache, new.id) ELSE cache
        /\ trees' = Ensured(tr, view') /\ offsets' = Offsets(view', trees')
    BY <1>10 DEF UpdateView, Rebuild
  <2>2. old \in Copy /\ Held(old, rows, peer) /\ old.id = i
    BY <1>8, <1>10
  <2>3. /\ new \in Copy /\ new.id = i /\ new.status = status
        /\ new.path # NoPath => old.path # NoPath \/ path # NoPath
    BY <2>2 DEF NewCopy, Copy
  <2>4. kept \subseteq DOMAIN trees
    OBVIOUS
  <2>5. GoodTrees(tr)
    BY <2>4 DEF Inv, TreesOK, GoodTrees
  <2> HIDE DEF new, old, tr, kept
  <2>6. /\ view' \in Seq(Copy) /\ DOMAIN view' = DOMAIN view /\ view'[k] = new
        /\ \A j \in DOMAIN view : view'[j].id = view[j].id /\ (j # k => view'[j] = view[j] /\ view[j].id # i)
    <3>1. \A j \in DOMAIN view : j # k => view[j].id # i
      <4>1. ASSUME NEW j \in DOMAIN view, j # k PROVE view[j].id # i
        <5>0. view[j] \in Copy /\ view[k] \in Copy
          BY <1>8
        <5>1. view[j].id \in Nat /\ view[k].id \in Nat
          BY <5>0 DEF Copy
        <5>2. j < k \/ k < j
          BY <1>8, <4>1
        <5> QED BY <1>8, <1>10, <5>1, <5>2 DEF Ordered
      <4> QED BY <4>1
    <3> QED BY <1>8, <1>10, <2>1, <2>3, <3>1
  <2>7. ViewOK'
    <3>1. Ordered(view')
      BY <1>8, <2>6 DEF Ordered
    <3>2. \A j \in DOMAIN view' : Held(view'[j], rows', peer)
      BY <1>5, <1>8, <2>2, <2>3, <2>6 DEF Held, Ids
    <3> QED BY <1>1, <2>6, <3>1, <3>2 DEF Inv, ViewOK, Ordered, Held
  <2>8. TreesOK' /\ LayoutFresh' /\ offsets' \in Seq(Nat)
    <3>1. offers \in Stores
      BY DEF Inv
    <3> QED BY <1>1, <2>1, <2>5, <2>6, <3>1, RebuildOK
  <2>9. (cache \in CacheStates)'
    <3>1. CacheOK(cache) /\ \A j \in DOMAIN view : Complete(view[j]) => NoBlur(cache, view[j].id)
      BY DEF Inv, CacheStates, Clear
    <3>2. \A j \in DOMAIN view : Kind(view[j].id) = "Image" => view[j].id \in OfKind("Image")
      BY KindFacts DEF Inv
    <3>3. CASE Kind(i) = "Image" /\ old.status # "Done" /\ status = "Done"
      <4>1. cache' = Invalidate(cache, i) /\ i \in OfKind("Image")
        BY <2>1, <2>3, <3>3, KindFacts DEF Inv
      <4>2. CacheOK(cache') /\ NoBlur(cache', i)
            /\ \A j \in OfKind("Image") : NoBlur(cache, j) => NoBlur(cache', j)
        BY <4>1, <3>1, InvalidateOK
      <4>3. \A j \in DOMAIN view' : Complete(view'[j]) => NoBlur(cache', view'[j].id)
        BY <2>3, <2>6, <3>1, <3>2, <4>2 DEF Complete
      <4> QED BY <1>1, <4>2, <4>3, CacheLater
    <3>4. CASE ~(Kind(i) = "Image" /\ old.status # "Done" /\ status = "Done")
      <4>1. cache' = cache
        BY <2>1, <2>3, <3>4
      <4>2. ~Complete(new)
        <5>1. SUFFICES ASSUME Kind(i) = "Image", status = "Done" PROVE old.status # "Done"
          BY <2>3, <3>4 DEF Complete
        <5> QED BY <5>1, <2>2 DEF Held
      <4>3. \A j \in DOMAIN view' : Complete(view'[j]) => NoBlur(cache', view'[j].id)
        BY <2>6, <3>1, <4>1, <4>2
      <4> QED BY <1>1, <3>1, <4>1, <4>3, CacheLater
    <3> QED BY <3>3, <3>4
  <2> QED BY <1>1, <1>7, <2>7, <2>8, <2>9 DEF Inv, LayoutOK
<1> QED BY <1>9, <1>10 DEF MessageUpdated

LEMMA StatusInv ==
  ASSUME Inv, NEW i \in DOMAIN offers,
         \/ Answered(i) \/ Progress(i) \/ FileFinished(i) \/ BatchFinished(i) \/ Refused(i)
  PROVE  Inv'
<1>1. rows[i].status \in Statuses /\ rows[i].path \in {NoPath, LocalPath}
  BY RowFacts DEF RowOK
<1>2. CASE Answered(i)
  <2>1. PICK status \in {"Transferring", "Denied", "RequestAgain"} :
           MessageUpdated(i, status, rows[i].path)
    BY <1>1, <1>2 DEF Answered, Statuses
  <2>2. status \in Statuses /\ status # "Done"
    BY <2>1 DEF Statuses
  <2> QED BY <1>1, <2>1, <2>2, MessageUpdatedInv
<1>3. CASE Progress(i)
  BY <1>3, MessageUpdatedInv DEF Progress, Statuses
<1>4. CASE FileFinished(i)
  BY <1>4, MessageUpdatedInv DEF FileFinished, Statuses
<1>5. CASE BatchFinished(i)
  <2> DEFINE path == IF Kind(i) = "Folder" /\ ~offers[i].out THEN LocalPath ELSE NoPath
  <2>1. rows[i].status = "Transferring" /\ MessageUpdated(i, "Done", path)
    BY <1>5 DEF BatchFinished
  <2>2. Kind(i) = "Image" => path = NoPath /\ rows[i].status # "Done"
    BY <2>1
  <2>3. path \in {NoPath, LocalPath} /\ "Done" \in Statuses
    BY DEF Statuses
  <2> HIDE DEF path
  <2> QED BY <2>1, <2>2, <2>3, MessageUpdatedInv
<1>6. CASE Refused(i)
  BY <1>6, MessageUpdatedInv DEF Refused, Statuses
<1> QED BY <1>2, <1>3, <1>4, <1>5, <1>6

(* A click on a directory or a sentinel keeps what a tree is.              *)
LEMMA SameChildren ==
  ASSUME NEW t, NEW u, u.paths = t.paths, u.dirs = t.dirs
  PROVE  \A d : Children(u, d) = Children(t, d)
BY DEF Children, Entries, Rank, Before

LEMMA ChildrenLength ==
  ASSUME NEW t, IsTree(t), NEW d
  PROVE  Len(Children(t, d)) \in Nat
BY ChildrenFacts

LEMMA ToggleOK ==
  ASSUME NEW t, TreeOK(t), NEW d \in Folders(t)
  PROVE  TreeOK(Toggle(t, d))
<1> DEFINE u == Toggle(t, d)
           n == AtMost(BulkSize, Len(Children(t, d)))
           more == [e \in {d} \union DOMAIN t.revealed |->
                       IF e \in DOMAIN t.revealed THEN t.revealed[e] ELSE n]
<1>1. CASE d \in t.expanded
  <2>1. u.paths = t.paths /\ u.dirs = t.dirs /\ u.revealed = t.revealed /\ u.expanded = t.expanded \ {d}
        /\ IsState(u)
    BY <1>1 DEF Toggle, TreeOK, IsState
  <2>2. \A e : Children(u, e) = Children(t, e)
    BY <2>1, SameChildren
  <2> HIDE DEF u
  <2>3. TreeOK(u)
    BY <2>1, <2>2 DEF TreeOK, IsTree
  <2> QED BY <2>1, <2>3 DEF u
<1>2. CASE d \notin t.expanded
  <2>1. u.paths = t.paths /\ u.dirs = t.dirs /\ u.revealed = more /\ u.expanded = t.expanded \union {d}
        /\ IsState(u)
    BY <1>2 DEF Toggle, TreeOK, IsState
  <2>2. \A e : Children(u, e) = Children(t, e)
    BY <2>1, SameChildren
  <2>3. n \in 0..Len(Children(t, d))
    BY ChildrenLength, SizesAssumption DEF AtMost, TreeOK
  <2> HIDE DEF u, n
  <2>4. DOMAIN u.revealed = {d} \union DOMAIN t.revealed
        /\ \A e \in DOMAIN u.revealed : u.revealed[e] \in 0..Len(Children(t, e))
    BY <2>1, <2>3 DEF TreeOK
  <2>5. TreeOK(u)
    BY <2>1, <2>2, <2>4 DEF TreeOK, IsTree, Folders
  <2> QED BY <2>1, <2>5 DEF u
<1> QED BY <1>1, <1>2

LEMMA LoadMoreOK ==
  ASSUME NEW t, TreeOK(t), NEW d
  PROVE  TreeOK(LoadMore(t, d))
<1> DEFINE u == LoadMore(t, d)
           n == AtMost(t.revealed[d] + BulkSize, Len(Children(t, d)))
<1>1. u.paths = t.paths /\ u.dirs = t.dirs /\ u.revealed = [t.revealed EXCEPT ![d] = n]
      /\ u.expanded = t.expanded /\ IsState(u)
  <2>1. IsState(t)
    BY DEF TreeOK
  <2>2. t.revealed = [e \in DOMAIN t.revealed |-> t.revealed[e]]
        /\ u = [t EXCEPT !.revealed = [t.revealed EXCEPT ![d] = n]]
    BY <2>1 DEF LoadMore, IsState
  <2>3. u = [paths |-> t.paths, dirs |-> t.dirs, rootPath |-> t.rootPath, expanded |-> t.expanded,
             revealed |-> [t.revealed EXCEPT ![d] = n]]
    BY <2>1, <2>2 DEF IsState
  <2> HIDE DEF u, n
  <2>4. u.revealed = [e \in DOMAIN u.revealed |-> u.revealed[e]]
    BY <2>3
  <2> QED BY <2>3, <2>4 DEF IsState
<1>2. \A e : Children(u, e) = Children(t, e)
  BY <1>1, SameChildren
<1>3. d \in DOMAIN t.revealed => n \in 0..Len(Children(t, d))
  BY ChildrenLength, SizesAssumption DEF AtMost, TreeOK
<1> HIDE DEF u, n
<1>4. DOMAIN u.revealed = DOMAIN t.revealed
      /\ \A e \in DOMAIN u.revealed : u.revealed[e] \in 0..Len(Children(t, e))
  BY <1>1, <1>3 DEF TreeOK
<1>5. TreeOK(u)
  BY <1>1, <1>2, <1>4 DEF TreeOK, IsTree
<1> QED BY <1>1, <1>5 DEF u

LEMMA ClickLineInv ==
  ASSUME Inv, NEW k \in DOMAIN view, NEW line, line \in ToSet(Visible(trees[view[k].id])),
         ClickLine(k, line)
  PROVE  Inv'
<1> DEFINE i == view[k].id
           t == IF line.more THEN LoadMore(trees[i], line.path) ELSE Toggle(trees[i], line.path)
           tr == [trees EXCEPT ![i] = t]
<1>1. i \in DOMAIN trees /\ (line.more \/ line.path \in Folders(trees[i]))
  BY DEF ClickLine, Folders
<1>2. /\ trees' = Ensured(tr, view) /\ offsets' = Offsets(view, trees')
      /\ UNCHANGED <<offers, rows, gone, peer, view, scroll, cache>>
  BY DEF ClickLine, Rebuild
<1>3. GoodTrees(trees) /\ view \in Seq(Copy) /\ offers \in Stores
  BY DEF Inv, TreesOK, ViewOK
<1>4. TreeOK(t)
  BY <1>1, <1>3, ToggleOK, LoadMoreOK DEF GoodTrees
<1> HIDE DEF t, i
<1>5. GoodTrees(tr)
  BY <1>1, <1>3, <1>4 DEF GoodTrees
<1> HIDE DEF tr
<1>6. TreesOK' /\ LayoutFresh' /\ offsets' \in Seq(Nat)
  BY <1>2, <1>3, <1>5, RebuildOK
<1> QED BY <1>2, <1>6, RowsLater, ViewLater, CacheStays DEF Inv, LayoutOK

LEMMA PaintInv ==
  ASSUME Inv, Paint
  PROVE  Inv'
<1> DEFINE below == {k \in DOMAIN view : offsets[k] > scroll + Height.view}
           last == IF below = {} THEN Len(view) ELSE CHOOSE k \in below : \A j \in below : k <= j
           images == {k \in DOMAIN view \ below : /\ Kind(view[k].id) = "Image"
                                                  /\ offsets[k] + RowHeight(view[k], trees) >= scroll}
<1>1. /\ offers \in Stores /\ view \in Seq(Copy) /\ Ordered(view) /\ cache \in CacheStates
      /\ GoodTrees(trees) /\ Snapshots(view, trees) /\ Len(view) \in Nat /\ DOMAIN view = 1..Len(view)
  BY DEF Inv, ViewOK, TreesOK
<1>2. last \in 0..Len(view)
  <2>1. CASE below = {}
    BY <1>1, <2>1
  <2>2. CASE below # {}
    <3>1. below \subseteq 1..Len(view) /\ below \subseteq Nat
      BY <1>1
    <3> HIDE DEF below
    <3>2. \E k \in below : \A j \in below : k <= j
      BY <2>2, <3>1, Smallest
    <3>3. last \in below
      BY <2>2, <3>2
    <3> HIDE DEF last
    <3> QED BY <3>1, <3>3, <1>1
  <2> QED BY <2>1, <2>2
<1>3. images \in SUBSET DOMAIN view /\ \A k \in images : Kind(view[k].id) = "Image"
  OBVIOUS
<1>4. /\ trees' = Ensured(trees, SubSeq(view, 1, last))
      /\ UNCHANGED <<offers, rows, gone, peer, view, offsets, scroll>>
  BY DEF Paint
<1>5. cache' \in CacheStates
  <2>1. cache' = LET drawn[k \in 0..last] == IF k = 0 THEN cache
                                             ELSE IF k \in images THEN Thumbnail(drawn[k - 1], view[k])
                                             ELSE drawn[k - 1]
                 IN drawn[last]
    BY DEF Paint
  <2> HIDE DEF below, last, images
  <2> QED BY <1>1, <1>2, <1>3, <2>1, DrawnOK
<1>6. (cache \in CacheStates)'
  BY <1>4, <1>5, CacheLater DEF CacheStates, Clear
<1> HIDE DEF below, last, images
<1>7. SubSeq(view, 1, last) \in Seq(Copy)
  BY <1>1, <1>2
<1>8. /\ GoodTrees(trees') /\ DOMAIN trees \subseteq DOMAIN trees'
      /\ \A i \in DOMAIN trees : trees'[i] = trees[i]
  BY <1>1, <1>4, <1>7, EnsuredOK
<1>9. TreesOK'
  BY <1>1, <1>4, <1>8 DEF TreesOK, GoodTrees, Snapshots, OfKind, Kind, Snapshot
<1>10. LayoutOK'
  <2>1. ASSUME NEW k \in DOMAIN view, Kind(view[k].id) # "Folder" \/ Snapshot(view[k].id) # Nothing
        PROVE  RowHeight(view[k], trees') = RowHeight(view[k], trees)
    BY <2>1, <1>1, <1>8 DEF RowHeight, Snapshots
  <2>2. \A k \in 1..(Len(view) - 1) :
           (Kind(view[k].id) # "Folder" \/ Snapshot(view[k].id) # Nothing)
             => offsets[k + 1] - offsets[k] = RowHeight(view[k], trees')
    <3>1. \A k \in 1..(Len(view) - 1) :
             (Kind(view[k].id) # "Folder" \/ Snapshot(view[k].id) # Nothing)
               => offsets[k + 1] - offsets[k] = RowHeight(view[k], trees)
      BY DEF Inv, LayoutOK, LayoutFresh
    <3>2. \A k \in 1..(Len(view) - 1) : k \in DOMAIN view
      BY <1>1
    <3> QED BY <3>1, <3>2, <2>1
  <2> QED BY <1>4, <2>2 DEF Inv, LayoutOK, LayoutFresh, RowHeight, Kind, Snapshot
<1> QED BY <1>4, <1>6, <1>9, <1>10, RowsLater, ViewLater DEF Inv

LEMMA Invariance == Spec => []Inv
<1>1. Inv /\ [Next]_vars => Inv'
  <2> SUFFICES ASSUME Inv, [Next]_vars PROVE Inv'
    OBVIOUS
  <2>1. CASE UNCHANGED vars
    BY <2>1, ScrollInv DEF vars, layoutVars, Inv, LayoutOK
  <2>2. ASSUME NEW p \in Peers, ShowPeer(p) \/ AppendMessage(p) PROVE Inv'
    BY <2>2, ShowPeerInv, AppendMessageInv
  <2>3. ASSUME NEW i \in DOMAIN offers,
               \/ Answered(i) \/ Progress(i) \/ FileFinished(i) \/ BatchFinished(i) \/ Refused(i)
               \/ FileGone(i)
        PROVE  Inv'
    BY <2>3, StatusInv, FileGoneInv
  <2>4. ASSUME NEW d \in {-Height.step, Height.step}, Wheel(d) PROVE Inv'
    BY <2>4, WheelInv
  <2>5. ASSUME NEW k \in DOMAIN view, NEW i \in {view[k].id} \intersect DOMAIN trees,
               NEW line \in ToSet(Visible(trees[i])), ClickLine(k, line)
        PROVE  Inv'
    BY <2>5, ClickLineInv
  <2> QED BY <2>1, <2>2, <2>3, <2>4, <2>5, ScrollButtonInv, PaintInv DEF Next
<1> QED BY InitInv, <1>1, PTL DEF Spec

-----------------------------------------------------------------------------
(* Every part of the view has its type: the memory of the cache holds at   *)
(* most Slots thumbnails, each listed once, and no directory shows more    *)
(* entries than it has (rebuild, toggle, loadMore, ThumbCache).            *)
THEOREM ViewTyped == Spec => []TypeOK
<1>1. Inv => TypeOK
  <2> SUFFICES ASSUME Inv PROVE TypeOK
    OBVIOUS
  <2>1. /\ offers \in Stores /\ gone \subseteq DOMAIN offers /\ peer \in Peers \union {0}
        /\ view \in Seq(Copy) /\ scroll \in Nat /\ GoodTrees(trees) /\ CacheOK(cache)
    BY DEF Inv, ViewOK, TreesOK, LayoutOK, CacheStates
  <2>2. DOMAIN rows \in {1..n : n \in Len(offers)..(Len(offers) + MaxTexts)}
    BY RowFacts DEF Inv, RowsOK, Ids
  <2>3. \A i \in Ids : rows[i].status \in Statuses /\ rows[i].path \in {NoPath, LocalPath}
    BY RowFacts DEF RowOK
  <2>4. \A k \in DOMAIN view : rows[view[k].id].peer = peer
    BY DEF Inv, ViewOK, Held
  <2>5. /\ DOMAIN trees \subseteq OfKind("Folder")
        /\ \A i \in DOMAIN trees :
              /\ trees[i].expanded \subseteq {Root} \union trees[i].dirs
              /\ trees[i].expanded \subseteq DOMAIN trees[i].revealed
              /\ \A d \in DOMAIN trees[i].revealed :
                    trees[i].revealed[d] \in 0..Len(Children(trees[i], d))
    BY <2>1 DEF GoodTrees, TreeOK
  <2>6. /\ cache.mem \in Thumbs /\ cache.disk \in Thumbs /\ cache.order \in Seq(OfKind("Image"))
        /\ Once(cache.order) /\ Len(cache.order) <= Slots
        /\ \A i \in OfKind("Image") : cache.mem[i] # NoImage <=> i \in ToSet(cache.order)
    BY <2>1 DEF CacheOK, CacheType, Listed
  <2>7. IsInjective(cache.order)
    BY <2>6 DEF IsInjective, Once
  <2>8. ToSet(cache.order) = {i \in DOMAIN cache.mem : cache.mem[i] # NoImage}
    <3>1. ToSet(cache.order) \subseteq OfKind("Image") /\ DOMAIN cache.mem = OfKind("Image")
      BY <2>6 DEF ToSet, Thumbs
    <3> QED BY <2>6, <3>1
  <2> QED BY <2>1, <2>2, <2>3, <2>4, <2>5, <2>6, <2>7, <2>8 DEF TypeOK, Thumbs
<1> QED BY Invariance, <1>1, PTL

(* A picture that the view holds as complete with the path of its file is  *)
(* not drawn from the blurred preview, whatever left the memory for the    *)
(* disk and came back before (updateMessage, thumbnail, ThumbCache).  A    *)
(* complete picture of a chat that is opened again has no path, and of it  *)
(* nothing is said.                                                        *)
THEOREM ThumbsFresh == Spec => []ThumbFresh
<1>1. Inv => ThumbFresh
  <2> SUFFICES ASSUME Inv, NEW k \in DOMAIN view, Complete(view[k])
               PROVE  Get(cache, view[k].id).mem[view[k].id] # "blurred"
    BY DEF ThumbFresh, Complete
  <2>1. CacheOK(cache) /\ NoBlur(cache, view[k].id)
    BY DEF Inv, CacheStates, Clear
  <2>2. view[k].id \in OfKind("Image")
    BY KindFacts DEF Inv, Complete
  <2> QED BY <2>1, <2>2, GetOK DEF NoBlur
<1> QED BY Invariance, <1>1, PTL

(* The lines of a tree are the entries below expanded directories that are *)
(* within what each directory shows, every entry once and in the order of  *)
(* the tree; and where a directory shows less than it has, the last line   *)
(* below it is followed by a sentinel, its own or that of a directory      *)
(* around it (rebuild, appendRows, and the walk of draw and hitTestAction). *)
THEOREM TreesShown == Spec => []TreeShown
<1>1. Inv => TreeShown
  <2> SUFFICES ASSUME Inv PROVE TreeShown
    OBVIOUS
  <2>1. \A i \in DOMAIN trees : TreeOK(trees[i])
    BY DEF Inv, TreesOK, GoodTrees
  <2>2. \A t \in {trees[i] : i \in DOMAIN trees} : TreeFits(t)
    BY <2>1, VisibleFits
  <2> QED BY <2>2 DEF TreeShown, TreeFits
<1> QED BY Invariance, <1>1, PTL

(* Where a message is drawn and hit agrees with the heights of the         *)
(* messages above it, for all whose height does not hang on a scan of the  *)
(* disk (rebuildLayout, messageAt, paintEvent).                            *)
THEOREM RowsLaidOut == Spec => []LayoutFresh
<1>1. Inv => LayoutFresh
  BY DEF Inv, LayoutOK
<1> QED BY Invariance, <1>1, PTL
=============================================================================
