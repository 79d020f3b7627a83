----------------------------- MODULE ThumbCache -----------------------------
(***************************************************************************)
(* ThumbCache: the thumbnails of image messages, the ones used last in     *)
(* memory, most recent first, and those that had to leave it on disk.  The *)
(* file of a message stays when its thumbnail comes back into memory.      *)
(***************************************************************************)
EXTENDS Integers, Sequences, SequencesExt

CONSTANT Slots   \* kMaxMemSlots

ASSUME SlotsAssumption == Slots \in Nat \ {0}

NoImage == "none"
Images == {"blurred", "sharp"}

EmptyCache(ids) == [mem |-> [i \in ids |-> NoImage], order |-> <<>>,
                    disk |-> [i \in ids |-> NoImage]]

EvictLruToDisk(c) ==
    LET lru == Last(c.order)
    IN [mem |-> [c.mem EXCEPT ![lru] = NoImage], order |-> Front(c.order),
        disk |-> [c.disk EXCEPT ![lru] = c.mem[lru]]]

(* A thumbnail enters the memory as the most recent one.                   *)
Insert(c, i, img) ==
    LET room == IF Len(c.order) >= Slots THEN EvictLruToDisk(c) ELSE c
    IN [room EXCEPT !.mem[i] = img, !.order = <<i>> \o @]

Promote(c, i) == [c EXCEPT !.order = <<i>> \o RemoveFirst(@, i)]

(* Mutant: a thumbnail found in memory is listed twice.                    *)
GetTwice(c, i) ==
    IF c.mem[i] # NoImage THEN [c EXCEPT !.order = <<i>> \o @]
    ELSE IF c.disk[i] # NoImage THEN Insert(c, i, c.disk[i]) ELSE c

(* After Get the thumbnail, if there is one, is in memory.                 *)
Get(c, i) ==
    IF c.mem[i] # NoImage THEN Promote(c, i)
    ELSE IF c.disk[i] # NoImage THEN Insert(c, i, c.disk[i]) ELSE c

Put(c, i, img) ==
    IF img = NoImage THEN c
    ELSE IF c.mem[i] # NoImage THEN [Promote(c, i) EXCEPT !.mem[i] = img]
    ELSE Insert(c, i, img)

(* Mutant: only the memory is cleared.                                     *)
InvalidateMemory(c, i) ==
    [c EXCEPT !.mem[i] = NoImage, !.order = RemoveFirst(@, i)]

Invalidate(c, i) ==
    [mem |-> [c.mem EXCEPT ![i] = NoImage], order |-> RemoveFirst(c.order, i),
     disk |-> [c.disk EXCEPT ![i] = NoImage]]

ClearMemory(c) == [c EXCEPT !.mem = [i \in DOMAIN @ |-> NoImage], !.order = <<>>]
=============================================================================
