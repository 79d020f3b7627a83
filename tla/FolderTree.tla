----------------------------- MODULE FolderTree -----------------------------
(***************************************************************************)
(* FolderTreeState: the part of a folder that a chat shows as a tree.  A   *)
(* path is the sequence of its names, and a name is its place in the       *)
(* alphabet; the folder itself is the empty path.  A directory shows only  *)
(* the first of its entries, and the user asks for more BulkSize at a time. *)
(***************************************************************************)
EXTENDS Integers, FiniteSets, Sequences, SequencesExt

CONSTANTS BulkSize,   \* kTreeBulkSize
          AutoExpand  \* kTreeAutoExpand

ASSUME SizesAssumption == BulkSize \in Nat \ {0} /\ AutoExpand \in Nat

Root == <<>>

(* What a snapshot or a scan of the disk found.                            *)
Nothing == [paths |-> {}, dirs |-> {}]

IsTree(t) == /\ IsFiniteSet(t.paths) /\ t.paths \subseteq Seq(Nat) \ {Root}
             /\ t.dirs \subseteq t.paths

(* The entries of a directory: directories first, each group by name; the  *)
(* k-th is the one with k - 1 before it.                                   *)
Entries(t, d) == {e \in t.paths : Front(e) = d}

Before(t, a, b) == IF (a \in t.dirs) # (b \in t.dirs) THEN a \in t.dirs
                   ELSE Last(a) < Last(b)

Rank(t, d, e) == Cardinality({a \in Entries(t, d) : Before(t, a, e)})

Children(t, d) == [k \in 1..Cardinality(Entries(t, d)) |->
                      CHOOSE e \in Entries(t, d) : Rank(t, d, e) = k - 1]

AtMost(n, limit) == IF n < limit THEN n ELSE limit

(* init and initFromJson: a folder with few entries starts expanded.       *)
TreeOf(found, rootPath) ==
    LET few == Len(Children(found, Root)) <= AutoExpand
        open == IF few THEN {Root} ELSE {}
    IN [paths |-> found.paths, dirs |-> found.dirs, rootPath |-> rootPath, expanded |-> open,
        revealed |-> [d \in open |-> AtMost(BulkSize, Len(Children(found, d)))]]

(* How much a directory shows is chosen when it is first expanded, and     *)
(* kept while it is collapsed.                                             *)
Toggle(t, d) ==
    IF d \in t.expanded THEN [t EXCEPT !.expanded = @ \ {d}]
    ELSE [t EXCEPT !.expanded = @ \union {d},
                   !.revealed = [e \in {d} \union DOMAIN @ |->
                       IF e \in DOMAIN @ THEN @[e] ELSE AtMost(BulkSize, Len(Children(t, d)))]]

LoadMore(t, d) ==
    [t EXCEPT !.revealed[d] = AtMost(@ + BulkSize, Len(Children(t, d)))]

Row(e) == [path |-> e, more |-> FALSE]
More(d) == [path |-> d, more |-> TRUE]

(* rebuild and appendRows: the entries in the order in which they are      *)
(* shown, and after those of each directory that has more a sentinel.      *)
Below(t, below, d) ==
    LET shown == SubSeq(Children(t, d), 1, t.revealed[d])
        Entry(e) == <<Row(e)>> \o (IF e \in t.dirs THEN below[e] ELSE <<>>)
    IN IF d \notin t.expanded THEN <<>>
       ELSE FlattenSeq([i \in DOMAIN shown |-> Entry(shown[i])])
            \o (IF Len(shown) < Len(Children(t, d)) THEN <<More(d)>> ELSE <<>>)

Lines(t) ==
    LET below[d \in {Root} \union t.dirs] == Below(t, below, d)
    IN <<Row(Root)>> \o below[Root]

(* The lines but those that Lost(i) names.                                 *)
Without(lines, Lost(_)) ==
    FlattenSeq([i \in DOMAIN lines |-> IF Lost(i) THEN <<>> ELSE <<lines[i]>>])

(* Mutant: of several sentinels at one row the first one stays.            *)
VisibleFirst(t) ==
    LET lines == Lines(t)
        Late(i) == lines[i].more /\ lines[i - 1].more
    IN Without(lines, Late)

(* What is drawn, and hit by a click: moreAt has one sentinel for a number *)
(* of rows, so of several that follow the same row the last one stays.     *)
Visible(t) ==
    LET lines == Lines(t)
        Overwritten(i) == lines[i].more /\ i < Len(lines) /\ lines[i + 1].more
    IN Without(lines, Overwritten)

-----------------------------------------------------------------------------
(* What the tree is meant to show.                                         *)

Under(e, d) == Len(d) <= Len(e) /\ SubSeq(e, 1, Len(d)) = d

(* The place of e among the entries of its directory.                      *)
Place(t, e) == CHOOSE i \in DOMAIN Children(t, Front(e)) : Children(t, Front(e))[i] = e

Ancestors(e) == {SubSeq(e, 1, n) : n \in 1..Len(e)}

Shown(t) ==
    {e \in {Root} \union t.paths :
        \A a \in Ancestors(e) : /\ Front(a) \in t.expanded
                                /\ Place(t, a) <= t.revealed[Front(a)]}

(* a stands above b: it contains b, or the two lie below entries of one    *)
(* directory of which a's comes first.                                     *)
Above(t, a, b) ==
    \/ Under(b, a) /\ a # b
    \/ \E x \in Ancestors(a), y \in Ancestors(b) : /\ Front(x) = Front(y)
                                                   /\ Place(t, x) < Place(t, y)
=============================================================================
