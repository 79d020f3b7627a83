---------------------------- MODULE Window_proofs ----------------------------
(***************************************************************************)
(* Proofs about Window: types, that the highlighted row is the open chat,  *)
(* that no unseen message is missing from the badges and that the open     *)
(* chat is complete, for any peers, filters and messages.                  *)
(***************************************************************************)
EXTENDS Window, FiniteSetTheorems, SequenceTheorems, TLAPS

(* The list is the one that its sources call for.                          *)
Listed == peers = BuildPeerList(online, table)

(* Some entry is in the highlighted row, and its peer's chat is open.      *)
Highlit == selected # 0 =>
              \E e \in Visible(peers, filter) : /\ Row(Visible(peers, filter), e) = selected
                                                /\ e.id = current

ChatShows == chat = (current # NoPeer /\ ~settings)

(* No more is counted than was ever stored.                                *)
Counted == Len(sent) <= MaxMessages /\ \A p \in Peers : unread[p] <= Len(sent)

PanelClosed == panel.of = NoPeer => panel = NoPanel

Unseen(p) == {i \in (rows \intersect OfPeer(p)) \ seen : sent[i].incoming}

WindowInv == /\ TypeOK /\ Listed /\ Highlit /\ ChatShows /\ Counted /\ PanelClosed
             /\ UnseenIsBadged /\ ChatComplete

-----------------------------------------------------------------------------
(* The rows of a list.                                                     *)
LEMMA Order ==
  ASSUME NEW shown, shown \subseteq Entry, NEW a \in shown, NEW b \in shown, NEW c \in shown
  PROVE  /\ ~Before(a, a)
         /\ a.id # b.id => Before(a, b) \/ Before(b, a)
         /\ Before(a, b) => ~Before(b, a)
         /\ Before(a, b) /\ Before(b, c) => Before(a, c)
<1>1. \A e \in shown : e.id \in Int /\ e.online \in BOOLEAN /\ e.favorite \in BOOLEAN
  <2>1. \A e \in Entry : e.id \in Peers /\ e.online \in BOOLEAN /\ e.favorite \in BOOLEAN
    BY DEF Entry
  <2>2. \A p \in Peers : p \in Int
    BY PeersAssumption
  <2> QED BY <2>1, <2>2
<1> QED BY <1>1 DEF Before

(* Entries of different peers stand in different rows.                     *)
LEMMA Rows ==
  ASSUME NEW shown, shown \subseteq Entry, IsFiniteSet(shown),
         \A a, b \in shown : a.id = b.id => a = b
  PROVE  /\ \A e \in shown : Row(shown, e) \in 1..Cardinality(shown)
         /\ \A e, f \in shown : Row(shown, e) = Row(shown, f) => e = f
<1> DEFINE upTo(e) == {a \in shown : a = e \/ Before(a, e)}
<1>1. ASSUME NEW e \in shown
      PROVE  /\ IsFiniteSet(upTo(e)) /\ Row(shown, e) = Cardinality(upTo(e))
             /\ Row(shown, e) \in 1..Cardinality(shown)
  <2>1. upTo(e) \in SUBSET shown /\ e \in upTo(e)
    OBVIOUS
  <2>2. IsFiniteSet(upTo(e)) /\ Cardinality(upTo(e)) <= Cardinality(shown)
    BY <2>1, FS_Subset
  <2>3. Cardinality(upTo(e)) \in Nat /\ Cardinality(upTo(e)) # 0 /\ Cardinality(shown) \in Nat
    BY <2>1, <2>2, FS_CardinalityType, FS_EmptySet
  <2>4. Row(shown, e) = Cardinality(upTo(e))
    BY DEF Row
  <2> HIDE DEF upTo
  <2> QED BY <2>2, <2>3, <2>4
<1>2. ASSUME NEW e \in shown, NEW f \in shown, Before(e, f) PROVE Row(shown, e) # Row(shown, f)
  <2>1. upTo(e) \subseteq upTo(f) /\ f \in upTo(f) /\ f \notin upTo(e)
    <3>1. f # e /\ ~Before(f, e)
      BY <1>2, Order
    <3>2. \A a \in shown : Before(a, e) => Before(a, f)
      BY <1>2, Order
    <3> QED BY <1>2, <3>1, <3>2
  <2>2. Cardinality(upTo(e)) # Cardinality(upTo(f))
    <3>1. IsFiniteSet(upTo(f)) /\ upTo(e) \in SUBSET upTo(f) /\ upTo(f) # upTo(e)
      BY <1>1, <2>1
    <3> HIDE DEF upTo
    <3> QED BY <3>1, FS_Subset
  <2> HIDE DEF upTo
  <2> QED BY <1>1, <2>2
<1>3. ASSUME NEW e \in shown, NEW f \in shown, Row(shown, e) = Row(shown, f) PROVE e = f
  <2>1. e.id # f.id => Before(e, f) \/ Before(f, e)
    BY Order
  <2>2. ~Before(e, f) /\ ~Before(f, e)
    BY <1>2, <1>3
  <2> QED BY <2>1, <2>2
<1> QED BY <1>1, <1>3

(* The list that MainWindow builds.                                        *)
LEMMA Built ==
  ASSUME NEW ids \in SUBSET Peers, NEW flags \in Tables(Peers), NEW matching
  PROVE  LET list == BuildPeerList(ids, flags)
             shown == Visible(list, matching)
         IN /\ list \subseteq Entry /\ shown \subseteq list
            /\ IsFiniteSet(list) /\ IsFiniteSet(shown) /\ Cardinality(shown) <= Cardinality(list)
            /\ Cardinality(shown) \in Nat /\ Cardinality(list) \in Nat
            /\ \A a, b \in list : a.id = b.id => a = b
<1> DEFINE list == BuildPeerList(ids, flags)
           shown == Visible(list, matching)
<1>1. list \subseteq Entry
  <2>1. (ids \ flags.blocked) \union SavedPeers(flags) \subseteq Peers
    BY DEF Tables, SavedPeers
  <2>2. \A p \in Peers : [id |-> p, online |-> p \in ids, favorite |-> p \in flags.favorite] \in Entry
    BY DEF Entry
  <2> QED BY <2>1, <2>2, Zenon DEF BuildPeerList
<1>2. \A a, b \in list : a.id = b.id => a = b
  BY DEF BuildPeerList
<1>3. shown \subseteq list
  BY DEF Visible
<1> HIDE DEF list
<1> DEFINE f == [e \in list |-> e.id]
<1>4. f \in Injection(list, Peers)
  BY <1>1, <1>2 DEF Injection, IsInjective, Entry
<1>5. IsFiniteSet(list)
  BY <1>4, PeersAssumption, FS_Injection
<1> HIDE DEF shown
<1>6. IsFiniteSet(shown) /\ Cardinality(shown) <= Cardinality(list)
  BY <1>3, <1>5, FS_Subset
<1>7. Cardinality(shown) \in Nat /\ Cardinality(list) \in Nat
  BY <1>5, <1>6, FS_CardinalityType
<1> QED BY <1>1, <1>2, <1>3, <1>5, <1>6, <1>7 DEF list, shown

(* The highlighted peer is the one whose chat is open.                     *)
LEMMA HighlightedFacts ==
  ASSUME WindowInv
  PROVE  /\ selected # 0 => Highlighted = current /\ current \in Peers
         /\ selected = 0 => Highlighted = NoPeer
         /\ peers \subseteq Entry
<1> DEFINE shown == Visible(peers, filter)
<1>1. /\ peers \subseteq Entry /\ shown \subseteq peers /\ IsFiniteSet(shown)
      /\ \A a, b \in peers : a.id = b.id => a = b
  BY Built DEF WindowInv, TypeOK, Listed
<1>2. \A e, f \in shown : Row(shown, e) = Row(shown, f) => e = f
  <2> HIDE DEF shown
  <2>1. shown \subseteq Entry /\ \A a, b \in shown : a.id = b.id => a = b
    BY <1>1
  <2> QED BY <1>1, <2>1, Rows
<1>3. ASSUME selected # 0 PROVE Highlighted = current /\ current \in Peers
  <2>1. PICK e \in shown : Row(shown, e) = selected /\ e.id = current
    BY <1>3 DEF WindowInv, Highlit
  <2>2. (CHOOSE a \in shown : Row(shown, a) = selected) = e
    BY <1>2, <2>1
  <2>3. Highlighted = (CHOOSE a \in shown : Row(shown, a) = selected).id
    BY <1>3 DEF Highlighted
  <2>4. e.id \in Peers
    BY <1>1, <2>1 DEF Entry
  <2> QED BY <2>1, <2>2, <2>3, <2>4
<1>4. selected = 0 => Highlighted = NoPeer
  BY DEF Highlighted
<1> QED BY <1>1, <1>3, <1>4

(* Where a peer is found in a list.                                        *)
LEMMA Found ==
  ASSUME NEW ids \in SUBSET Peers, NEW flags \in Tables(Peers), NEW matching, NEW p
  PROVE  LET list == BuildPeerList(ids, flags)
             shown == Visible(list, matching)
             i == IndexOf(list, matching, p)
         IN /\ i \in 0..Cardinality(list)
            /\ p = NoPeer => i = 0
            /\ i # 0 => \E e \in shown : Row(shown, e) = i /\ e.id = p
<1> DEFINE list == BuildPeerList(ids, flags)
           shown == Visible(list, matching)
           i == IndexOf(list, matching, p)
<1>1. /\ list \subseteq Entry /\ shown \subseteq list /\ IsFiniteSet(shown)
      /\ Cardinality(shown) <= Cardinality(list) /\ Cardinality(shown) \in Nat
      /\ Cardinality(list) \in Nat /\ \A a, b \in list : a.id = b.id => a = b
  BY Built
<1> HIDE DEF list
<1>2. \A e \in shown : Row(shown, e) \in 1..Cardinality(shown)
  <2> HIDE DEF shown
  <2>1. shown \subseteq Entry /\ \A a, b \in shown : a.id = b.id => a = b
    BY <1>1
  <2> QED BY <1>1, <2>1, Rows
<1>3. CASE \E e \in shown : e.id = p
  <2>1. PICK e \in shown : e.id = p /\ i = Row(shown, e)
    BY <1>3 DEF IndexOf
  <2>2. e.id \in Peers
    BY <1>1, <2>1 DEF Entry
  <2>3. i \in 1..Cardinality(shown) /\ p # NoPeer
    BY <1>2, <2>1, <2>2, PeersAssumption
  <2> HIDE DEF i, shown
  <2>4. i \in 0..Cardinality(list)
    BY <1>1, <2>3
  <2>5. \E a \in shown : Row(shown, a) = i /\ a.id = p
    BY <2>1
  <2> QED BY <2>3, <2>4, <2>5 DEF i, shown, list
<1>4. CASE ~\E e \in shown : e.id = p
  <2>1. i = 0
    BY <1>4 DEF IndexOf
  <2> HIDE DEF i
  <2>2. i \in 0..Cardinality(list)
    BY <1>1, <2>1
  <2> QED BY <2>1, <2>2 DEF i, list
<1> QED BY <1>3, <1>4

-----------------------------------------------------------------------------
(* What is unseen.                                                         *)
LEMMA UnseenFinite ==
  ASSUME TypeOK, NEW p
  PROVE  IsFiniteSet(Unseen(p)) /\ Cardinality(Unseen(p)) \in Nat /\ Len(sent) \in Nat
         /\ Ids = 1..Len(sent) /\ Unseen(p) \subseteq Ids
<1>1. Ids = 1..Len(sent) /\ Len(sent) \in Nat
  BY LenProperties DEF TypeOK, Ids
<1>2. IsFiniteSet(1..Len(sent))
  BY <1>1, FS_Interval
<1>3. Unseen(p) \subseteq Ids
  BY DEF Unseen, OfPeer
<1>4. IsFiniteSet(Unseen(p))
  BY <1>1, <1>2, <1>3, FS_Subset
<1> QED BY <1>1, <1>3, <1>4, FS_CardinalityType

LEMMA UnseenFewer ==
  ASSUME TypeOK, UnseenIsBadged, NEW p \in Peers, NEW set, set \subseteq Unseen(p)
  PROVE  Cardinality(set) <= unread[p] /\ Cardinality(set) \in Nat
<1>1. IsFiniteSet(Unseen(p)) /\ Cardinality(Unseen(p)) \in Nat
  BY UnseenFinite
<1>2. IsFiniteSet(set) /\ Cardinality(set) <= Cardinality(Unseen(p))
  BY <1>1, FS_Subset
<1>3. Cardinality(Unseen(p)) <= unread[p]
  BY DEF UnseenIsBadged, Unseen
<1>4. Cardinality(set) \in Nat /\ unread[p] \in Int
  BY <1>2, FS_CardinalityType DEF TypeOK
<1> QED BY <1>1, <1>2, <1>3, <1>4

LEMMA UnseenKept ==
  ASSUME WindowInv, UNCHANGED <<sent, unread>>, \A p \in Peers : Unseen(p)' \subseteq Unseen(p)
  PROVE  UnseenIsBadged'
  BY UnseenFewer DEF WindowInv, UnseenIsBadged, Unseen

-----------------------------------------------------------------------------
(* The list is rebuilt, and the chat closed if its peer was highlighted    *)
(* and has vanished, or if nothing was highlighted.                        *)
LEMMA Rebuilt ==
  ASSUME WindowInv, NEW closes \in BOOLEAN,
         online' \in SUBSET Peers, table' \in Tables(Peers), keeps' \in SUBSET Peers,
         peers' = BuildPeerList(online', table'), filter' = filter,
         selected' = IndexOf(peers', filter, Highlighted), CloseChatIf(closes),
         selected # 0 /\ selected' = 0 => closes, closes => selected' = 0,
         UNCHANGED <<sent, done, settings, unread>>, rows' \subseteq rows,
         seen' = seen \intersect rows',
         panel' \in Panel, PanelClosed', edits' \in 0..MaxEdits
  PROVE  WindowInv'
<1>1. Ids' = Ids /\ \A p : OfPeer(p)' = OfPeer(p)
  BY DEF Ids, OfPeer
<1>2. PICK ids \in SUBSET Peers, flags \in Tables(Peers) : ids = online' /\ flags = table'
  OBVIOUS
<1>3. PICK h : h = Highlighted
  OBVIOUS
<1>4. PICK matching : matching = filter
  OBVIOUS
<1> DEFINE list == BuildPeerList(ids, flags)
           shown == Visible(list, matching)
           i == IndexOf(list, matching, h)
<1>5. /\ list \subseteq Entry /\ i \in 0..Cardinality(list)
      /\ h = NoPeer => i = 0
      /\ i # 0 => \E e \in shown : Row(shown, e) = i /\ e.id = h
  BY Built, Found
<1>6. peers' = list /\ selected' = i /\ filter' = matching
  BY <1>2, <1>3, <1>4
<1>7. /\ current' = IF closes THEN NoPeer ELSE current
      /\ chat' = (chat /\ ~closes)
      /\ view' = IF closes THEN {} ELSE view
      /\ viewDone' = IF closes THEN {} ELSE viewDone
  BY DEF CloseChatIf
<1>8. TypeOK'
  <2>1. peers' \subseteq Entry /\ selected' \in 0..Cardinality(peers')
    BY <1>5, <1>6
  <2>2. current' \in Peers \union {NoPeer} /\ chat' \in BOOLEAN /\ view' \subseteq Ids' /\ viewDone' \subseteq view'
    BY <1>1, <1>7 DEF WindowInv, TypeOK
  <2>3. rows' \subseteq Ids' /\ done' \subseteq Ids' /\ seen' \subseteq rows' /\ online' \subseteq Peers
        /\ keeps' \subseteq Peers
    BY <1>1 DEF WindowInv, TypeOK
  <2> QED BY <2>1, <2>2, <2>3 DEF WindowInv, TypeOK
<1>9. Listed'
  BY <1>2, <1>6 DEF Listed
<1>10. Highlit'
  <2>1. ASSUME i # 0 PROVE \E e \in shown : Row(shown, e) = i /\ e.id = current'
    <3>1. h # NoPeer /\ ~closes
      BY <1>5, <1>6, <2>1
    <3>2. h = current /\ current' = current
      BY <1>3, <1>7, <3>1, HighlightedFacts
    <3> QED BY <1>5, <2>1, <3>2
  <2>2. Visible(peers', filter') = shown
    BY <1>6
  <2> HIDE DEF shown, i
  <2> QED BY <1>6, <2>1, <2>2 DEF Highlit
<1>11. ChatShows'
  BY <1>7 DEF WindowInv, ChatShows
<1>12. Counted'
  BY DEF WindowInv, Counted
<1>13. UnseenIsBadged'
  <2>1. \A p \in Peers : Unseen(p)' \subseteq Unseen(p)
    BY <1>1 DEF Unseen
  <2> QED BY <2>1, UnseenKept
<1>14. ChatComplete'
  BY <1>1, <1>7 DEF WindowInv, ChatComplete
<1> QED BY <1>8, <1>9, <1>10, <1>11, <1>12, <1>13, <1>14 DEF WindowInv

(* The slot of peersChanged.                                               *)
LEMMA PeersChangedKeeps ==
  ASSUME WindowInv, online' \in SUBSET Peers, table' \in Tables(Peers), keeps' \in SUBSET Peers,
         PeersChanged(online', table'),
         UNCHANGED <<sent, done, settings, unread>>, rows' \subseteq rows,
         seen' = seen \intersect rows',
         panel' \in Panel, PanelClosed', edits' \in 0..MaxEdits
  PROVE  WindowInv'
<1>1. /\ peers' = BuildPeerList(online', table') /\ filter' = filter
      /\ selected' = IndexOf(peers', filter, Highlighted)
      /\ CloseChatIf(selected # 0 /\ selected' = 0)
  BY DEF PeersChanged, SetPeers
<1>2. PICK closes \in BOOLEAN : closes = (selected # 0 /\ selected' = 0)
  OBVIOUS
<1>3. CloseChatIf(closes)
  BY <1>1, <1>2
<1> QED BY <1>1, <1>2, <1>3, Rebuilt

-----------------------------------------------------------------------------
(* The table of flags, and the panel.                                      *)
LEMMA TableFacts ==
  ASSUME NEW flags \in Tables(Peers), NEW p \in Peers, NEW on \in BOOLEAN
  PROVE  /\ SetSaved(flags, p, on) \in Tables(Peers)
         /\ SetFavorite(flags, p, on) \in Tables(Peers)
         /\ SetBlocked(flags, p, on) \in Tables(Peers)
         /\ \A set \in SUBSET Peers : Put(set, p, on) \in SUBSET Peers
<1>1. \A set \in SUBSET Peers : Put(set, p, on) \in SUBSET Peers
  BY DEF Put
<1>2. /\ flags.saved \in SUBSET Peers /\ flags.favorite \in SUBSET Peers
      /\ flags.blocked \in SUBSET Peers
  BY DEF Tables
<1>3. SetSaved(flags, p, on) \in Tables(Peers)
  BY <1>1, <1>2 DEF SetSaved, Tables
<1>4. SetBlocked(flags, p, on) \in Tables(Peers)
  BY <1>1, <1>2 DEF SetBlocked, Tables
<1>5. SetFavorite(flags, p, on) \in Tables(Peers)
  <2> DEFINE saved == IF on THEN flags.saved \union {p} ELSE flags.saved
             favorite == Put(flags.favorite, p, on)
  <2>1. saved \in SUBSET Peers /\ favorite \in SUBSET Peers
    BY <1>1, <1>2
  <2>2. SetFavorite(flags, p, on) = [flags EXCEPT !.favorite = favorite, !.saved = saved]
    BY DEF SetFavorite
  <2> HIDE DEF saved, favorite
  <2> QED BY <2>1, <2>2 DEF Tables
<1> QED BY <1>1, <1>3, <1>4, <1>5

LEMMA Opened ==
  ASSUME WindowInv, Open
  PROVE  panel \in Panel /\ panel.of \in Peers /\ table \in Tables(Peers)
<1>1. panel \in Panel /\ panel.of # NoPeer
  BY DEF WindowInv, TypeOK, PanelClosed, Open
<1> QED BY <1>1 DEF Panel, WindowInv, TypeOK

LEMMA NothingOpen == NoPanel \in Panel
  BY DEF NoPanel, Panel

-----------------------------------------------------------------------------
(* What rebuilds the list.                                                 *)
LEMMA AppearKeeps == ASSUME WindowInv, NEW p \in Peers, Appear(p) PROVE WindowInv'
<1>1. /\ online' = online \union {p} /\ PeersChanged(online', table')
      /\ UNCHANGED <<table, keeps, sent, rows, done, seen, settings, unread, panel, edits>>
  BY DEF Appear, storeVars
<1>2. /\ online' \in SUBSET Peers /\ table' \in Tables(Peers) /\ keeps' \in SUBSET Peers
      /\ rows' \subseteq rows /\ seen' = seen \intersect rows'
      /\ panel' \in Panel /\ PanelClosed' /\ edits' \in 0..MaxEdits
  BY <1>1 DEF WindowInv, TypeOK, PanelClosed
<1> QED BY <1>1, <1>2, PeersChangedKeeps

LEMMA DropOutKeeps == ASSUME WindowInv, NEW p \in Peers, DropOut(p) PROVE WindowInv'
<1>1. /\ online' = online \ {p} /\ PeersChanged(online', table')
      /\ UNCHANGED <<table, keeps, sent, done, settings, unread, panel, edits>>
  BY DEF DropOut
<1>2. rows' \subseteq rows /\ seen' = seen \intersect rows'
  <2>1. \/ UNCHANGED <<rows, seen>>
        \/ rows' = rows \ OfPeer(p) /\ seen' = seen \ OfPeer(p)
    BY DEF DropOut, DeleteRows
  <2> QED BY <2>1 DEF WindowInv, TypeOK
<1>3. /\ online' \in SUBSET Peers /\ table' \in Tables(Peers) /\ keeps' \in SUBSET Peers
      /\ panel' \in Panel /\ PanelClosed' /\ edits' \in 0..MaxEdits
  BY <1>1 DEF WindowInv, TypeOK, PanelClosed
<1> QED BY <1>1, <1>2, <1>3, PeersChangedKeeps

(* A flag changes, and with it perhaps the panel.                          *)
LEMMA FlagKeeps ==
  ASSUME WindowInv, table' \in Tables(Peers), PeersChanged(online, table'),
         UNCHANGED <<online, storeVars, settings, unread>>,
         panel' \in Panel, PanelClosed', edits' = edits \/ Edit
  PROVE  WindowInv'
<1>1. /\ online' \in SUBSET Peers /\ keeps' \in SUBSET Peers /\ PeersChanged(online', table')
      /\ rows' \subseteq rows /\ seen' = seen \intersect rows' /\ edits' \in 0..MaxEdits
      /\ UNCHANGED <<sent, done, settings, unread>>
  BY BoundsAssumption DEF WindowInv, TypeOK, storeVars, Edit
<1> QED BY <1>1, PeersChangedKeeps

LEMMA SavedClickedKeeps == ASSUME WindowInv, SavedClicked PROVE WindowInv'
<1>1. panel \in Panel /\ panel.of \in Peers /\ panel.saved \in BOOLEAN /\ table \in Tables(Peers)
  BY Opened DEF SavedClicked, Panel
<1>2. /\ panel' = [panel EXCEPT !.saved = ~panel.saved] /\ table' = SetSaved(table, panel.of, ~panel.saved)
      /\ PeersChanged(online, table') /\ Edit /\ UNCHANGED <<online, storeVars, settings, unread>>
  BY DEF SavedClicked
<1>3. table' \in Tables(Peers)
  BY <1>1, <1>2, TableFacts
<1>4. panel' \in Panel /\ panel'.of = panel.of
  BY <1>1, <1>2 DEF Panel
<1>5. PanelClosed'
  BY <1>1, <1>4, PeersAssumption DEF PanelClosed
<1> QED BY <1>2, <1>3, <1>4, <1>5, FlagKeeps

LEMMA FavoriteClickedKeeps == ASSUME WindowInv, FavoriteClicked PROVE WindowInv'
<1>1. panel \in Panel /\ panel.of \in Peers /\ panel.favorite \in BOOLEAN /\ table \in Tables(Peers)
      /\ panel.saved \in BOOLEAN
  BY Opened DEF FavoriteClicked, Panel
<1>2. /\ panel' = [panel EXCEPT !.favorite = ~panel.favorite, !.saved = panel.saved \/ ~panel.favorite]
      /\ table' = SetFavorite(table, panel.of, ~panel.favorite)
      /\ PeersChanged(online, table') /\ Edit /\ UNCHANGED <<online, storeVars, settings, unread>>
  BY DEF FavoriteClicked
<1>3. table' \in Tables(Peers)
  BY <1>1, <1>2, TableFacts
<1>4. panel' \in Panel /\ panel'.of = panel.of
  BY <1>1, <1>2 DEF Panel
<1>5. PanelClosed'
  BY <1>1, <1>4, PeersAssumption DEF PanelClosed
<1> QED BY <1>2, <1>3, <1>4, <1>5, FlagKeeps

LEMMA BlockedClickedKeeps == ASSUME WindowInv, BlockedClicked PROVE WindowInv'
<1>1. panel \in Panel /\ panel.of \in Peers /\ panel.blocked \in BOOLEAN /\ table \in Tables(Peers)
  BY Opened DEF BlockedClicked, Panel
<1>2. PICK blocks \in BOOLEAN : blocks = ~panel.blocked
  BY <1>1
<1>3. PICK closed \in BOOLEAN : closed = (blocks /\ current = panel.of /\ Highlighted # current)
  OBVIOUS
<1>4. PICK closes \in BOOLEAN : closes = (closed \/ (selected # 0 /\ selected' = 0))
  OBVIOUS
<1>5. /\ table' = SetBlocked(table, panel.of, blocks)
      /\ peers' = BuildPeerList(online, table') /\ filter' = filter
      /\ selected' = IndexOf(peers', filter, Highlighted)
      /\ CloseChatIf(closes)
      /\ panel' = IF closed THEN NoPanel ELSE [panel EXCEPT !.blocked = blocks]
      /\ Edit /\ UNCHANGED <<online, storeVars, settings, unread>>
  BY <1>2, <1>3, <1>4 DEF BlockedClicked, SlideOut
<1>6. table' \in Tables(Peers)
  BY <1>1, <1>5, TableFacts
<1>7. panel' \in Panel /\ PanelClosed'
  <2>1. CASE closed
    BY <1>5, <2>1, NothingOpen DEF PanelClosed
  <2>2. CASE ~closed
    <3>1. panel' \in Panel /\ panel'.of = panel.of
      BY <1>1, <1>5, <2>2 DEF Panel
    <3> QED BY <1>1, <3>1, PeersAssumption DEF PanelClosed
  <2> QED BY <2>1, <2>2
<1>8. closes => selected' = 0
  <2>1. ASSUME closed PROVE selected' = 0
    <3>1. selected = 0 /\ Highlighted = NoPeer
      BY <1>3, <2>1, HighlightedFacts
    <3>2. PICK ids \in SUBSET Peers, flags \in Tables(Peers), matching \in Filters :
             ids = online /\ flags = table' /\ matching = filter
      BY <1>6 DEF WindowInv, TypeOK
    <3>3. IndexOf(BuildPeerList(ids, flags), matching, NoPeer) = 0
      BY Found
    <3> QED BY <1>5, <3>1, <3>2, <3>3
  <2> QED BY <1>4, <2>1
<1>9. /\ online' \in SUBSET Peers /\ keeps' \in SUBSET Peers
      /\ rows' \subseteq rows /\ seen' = seen \intersect rows' /\ edits' \in 0..MaxEdits
      /\ UNCHANGED <<sent, done, settings, unread>> /\ peers' = BuildPeerList(online', table')
  BY <1>5, BoundsAssumption DEF WindowInv, TypeOK, storeVars, Edit
<1> QED BY <1>4, <1>5, <1>6, <1>7, <1>8, <1>9, Rebuilt

LEMMA RemoveInSettingsKeeps == ASSUME WindowInv, NEW p \in Peers, RemoveInSettings(p) PROVE WindowInv'
<1>1. table \in Tables(Peers) /\ panel \in Panel /\ PanelClosed
  BY DEF WindowInv, TypeOK
<1>2. table' \in Tables(Peers)
  BY <1>1, TableFacts DEF RemoveInSettings
<1>3. /\ PeersChanged(online, table') /\ UNCHANGED <<online, storeVars, settings, unread>>
      /\ panel' \in Panel /\ PanelClosed' /\ edits' = edits
  BY <1>1 DEF RemoveInSettings, PanelClosed
<1> QED BY <1>2, <1>3, FlagKeeps

LEMMA BlockInDialogKeeps == ASSUME WindowInv, NEW p \in Peers, BlockInDialog(p) PROVE WindowInv'
<1>1. table \in Tables(Peers) /\ panel \in Panel /\ PanelClosed
  BY DEF WindowInv, TypeOK
<1>2. table' \in Tables(Peers)
  BY <1>1, TableFacts DEF BlockInDialog
<1>3. /\ PeersChanged(online, table') /\ UNCHANGED <<online, storeVars, settings, unread>>
      /\ panel' \in Panel /\ PanelClosed' /\ Edit
  BY <1>1 DEF BlockInDialog, PanelClosed
<1> QED BY <1>2, <1>3, FlagKeeps

-----------------------------------------------------------------------------
(* Messages.                                                               *)
LEMMA SameList ==
  ASSUME WindowInv, UNCHANGED <<online, table, listVars, current>>
  PROVE  Listed' /\ Highlit'
  BY DEF WindowInv, Listed, Highlit, listVars

(* The new message is one of its peer's, and unseen unless the chat of     *)
(* that peer is open.                                                      *)
LEMMA AddedMessage ==
  ASSUME WindowInv, NEW p \in Peers, NEW incoming \in BOOLEAN, AddMessage(p, incoming),
         incoming \/ p = current
  PROVE  \E i \in Nat :
            /\ i = Len(sent) + 1 /\ i = Len(sent') /\ i <= MaxMessages
            /\ i \notin Ids /\ Ids' = Ids \union {i} /\ sent' \in Seq([peer : Peers, incoming : BOOLEAN])
            /\ OfPeer(p)' = OfPeer(p) \union {i}
            /\ \A q : q # p => OfPeer(q)' = OfPeer(q)
            /\ rows' = rows \union {i}
            /\ view' = (IF p = current THEN view \union {i} ELSE view)
            /\ seen' = (IF p = current THEN seen \union {i} ELSE seen)
            /\ UNCHANGED <<online, table, keeps, done, listVars, current, chat, viewDone, settings,
                           panel, edits>>
            /\ \A q \in Peers : Unseen(q)' \subseteq IF q = p /\ p # current THEN Unseen(q) \union {i}
                                                     ELSE Unseen(q)
<1>1. sent \in Seq([peer : Peers, incoming : BOOLEAN]) /\ Len(sent) \in Nat /\ Ids = 1..Len(sent)
  BY LenProperties DEF WindowInv, TypeOK, Ids
<1>2. PICK m \in [peer : Peers, incoming : BOOLEAN] :
        m = [peer |-> p, incoming |-> incoming] /\ m.peer = p
  <2>1. [peer |-> p, incoming |-> incoming] \in [peer : Peers, incoming : BOOLEAN]
    OBVIOUS
  <2>2. [peer |-> p, incoming |-> incoming].peer = p
    OBVIOUS
  <2> QED BY <2>1, <2>2, Zenon
<1>3. PICK i \in Nat : i = Len(sent) + 1
  BY <1>1
<1>4. /\ i <= MaxMessages /\ sent' = Append(sent, m) /\ rows' = rows \union {i}
      /\ view' = (IF p = current THEN view \union {i} ELSE view)
      /\ seen' = (IF p = current THEN seen \union {i} ELSE seen)
      /\ UNCHANGED <<online, table, keeps, done, listVars, current, chat, viewDone, settings,
                     panel, edits>>
  BY <1>2, <1>3 DEF AddMessage, AppendMessage
<1>5. /\ sent' \in Seq([peer : Peers, incoming : BOOLEAN]) /\ Len(sent') = i
      /\ \A j \in 1..Len(sent) : sent'[j] = sent[j]
      /\ sent'[i] = m
  BY <1>1, <1>3, <1>4, AppendProperties
<1>6. Ids' = Ids \union {i} /\ i \notin Ids
  <2>1. Ids' = 1..i
    BY <1>5, LenProperties DEF Ids
  <2> QED BY <1>1, <1>3, <2>1
<1>7. OfPeer(p)' = OfPeer(p) \union {i} /\ \A q : q # p => OfPeer(q)' = OfPeer(q)
  BY <1>1, <1>2, <1>5, <1>6 DEF OfPeer
<1>8. ASSUME NEW q \in Peers, NEW j \in Unseen(q)'
      PROVE  j \in IF q = p /\ p # current THEN Unseen(q) \union {i} ELSE Unseen(q)
  <2>1. j \in rows' /\ j \in OfPeer(q)' /\ j \notin seen' /\ sent'[j].incoming
    BY <1>8 DEF Unseen
  <2>2. CASE j = i
    <3>1. q = p
      BY <1>2, <1>5, <2>1, <2>2 DEF OfPeer
    <3>2. p # current
      BY <1>4, <2>1, <2>2
    <3> QED BY <2>2, <3>1, <3>2
  <2>3. CASE j # i
    <3>1. j \in rows /\ j \in OfPeer(q) /\ j \notin seen
      BY <1>4, <1>7, <2>1, <2>3
    <3>2. sent'[j] = sent[j]
      BY <1>1, <1>5, <3>1 DEF OfPeer
    <3> QED BY <2>1, <3>1, <3>2 DEF Unseen
  <2> QED BY <2>2, <2>3
<1> QED BY <1>3, <1>4, <1>5, <1>6, <1>7, <1>8

LEMMA MessageKeeps ==
  ASSUME WindowInv, NEW p \in Peers, NEW incoming \in BOOLEAN, AddMessage(p, incoming),
         \/ p = current /\ unread' = unread
         \/ p # current /\ incoming /\ unread' = [unread EXCEPT ![p] = @ + 1]
  PROVE  WindowInv'
<1>1. PICK i \in Nat :
        /\ i = Len(sent) + 1 /\ i = Len(sent') /\ i <= MaxMessages
        /\ i \notin Ids /\ Ids' = Ids \union {i} /\ sent' \in Seq([peer : Peers, incoming : BOOLEAN])
        /\ OfPeer(p)' = OfPeer(p) \union {i}
        /\ \A q : q # p => OfPeer(q)' = OfPeer(q)
        /\ rows' = rows \union {i}
        /\ view' = (IF p = current THEN view \union {i} ELSE view)
        /\ seen' = (IF p = current THEN seen \union {i} ELSE seen)
        /\ UNCHANGED <<online, table, keeps, done, listVars, current, chat, viewDone, settings,
                       panel, edits>>
        /\ \A q \in Peers : Unseen(q)' \subseteq IF q = p /\ p # current THEN Unseen(q) \union {i}
                                                 ELSE Unseen(q)
  BY AddedMessage
<1>2. Len(sent) \in Nat /\ unread \in [Peers -> Nat]
  BY UnseenFinite DEF WindowInv, TypeOK
<1>3. /\ unread' \in [Peers -> Nat]
      /\ unread'[p] = IF p = current THEN unread[p] ELSE unread[p] + 1
      /\ \A q \in Peers : q # p => unread'[q] = unread[q]
  BY <1>2
<1>4. Counted'
  BY <1>1, <1>2, <1>3 DEF WindowInv, Counted
<1>5. TypeOK'
  <2>1. unread' \in [Peers -> 0..MaxMessages]
    <3>1. MaxMessages \in Nat /\ Len(sent') <= MaxMessages
      BY <1>1, BoundsAssumption
    <3>2. ASSUME NEW q \in Peers PROVE unread'[q] \in 0..MaxMessages
      <4>1. unread'[q] \in Nat /\ unread'[q] <= Len(sent')
        BY <1>3, <1>4 DEF Counted
      <4> QED BY <1>1, <3>1, <4>1
    <3> QED BY <1>3, <3>2
  <2>2. /\ rows' \subseteq Ids' /\ done' \subseteq Ids' /\ seen' \subseteq rows'
        /\ view' \subseteq Ids' /\ viewDone' \subseteq view'
    BY <1>1 DEF WindowInv, TypeOK
  <2> QED BY <1>1, <2>1, <2>2 DEF WindowInv, TypeOK, listVars
<1>6. Listed' /\ Highlit' /\ ChatShows' /\ PanelClosed'
  BY <1>1, SameList DEF WindowInv, ChatShows, PanelClosed
<1>7. UnseenIsBadged'
  <2>1. ASSUME NEW q \in Peers PROVE Cardinality(Unseen(q)') <= unread'[q]
    <3>1. CASE q = p /\ p # current
      <4>1. IsFiniteSet(Unseen(q)) /\ Cardinality(Unseen(q)) \in Nat /\ Cardinality(Unseen(q)) <= unread[q]
        BY UnseenFinite, UnseenFewer DEF WindowInv
      <4>2. /\ IsFiniteSet(Unseen(q) \union {i})
            /\ Cardinality(Unseen(q) \union {i}) <= Cardinality(Unseen(q)) + 1
            /\ Cardinality(Unseen(q) \union {i}) \in Nat
        BY <4>1, FS_AddElement, FS_CardinalityType
      <4>3. Unseen(q)' \subseteq Unseen(q) \union {i}
        BY <1>1, <3>1
      <4>4. Cardinality(Unseen(q)') <= Cardinality(Unseen(q) \union {i}) /\ Cardinality(Unseen(q)') \in Nat
        BY <4>2, <4>3, FS_Subset, FS_CardinalityType
      <4> QED BY <1>2, <1>3, <3>1, <4>1, <4>2, <4>4
    <3>2. CASE ~(q = p /\ p # current)
      <4>1. Unseen(q)' \subseteq Unseen(q) /\ unread'[q] = unread[q]
        BY <1>1, <1>3, <3>2
      <4> QED BY <4>1, UnseenFewer DEF WindowInv
    <3> QED BY <3>1, <3>2
  <2> QED BY <2>1 DEF UnseenIsBadged, Unseen
<1>8. ChatComplete'
  <2>1. PICK c : c = current
    OBVIOUS
  <2>2. ASSUME c # NoPeer
        PROVE  /\ view' \subseteq OfPeer(c)'
               /\ \A j \in rows' \intersect OfPeer(c)' : j \in view' /\ (j \in viewDone' <=> j \in done')
    <3>1. /\ view \subseteq OfPeer(c)
          /\ \A j \in rows \intersect OfPeer(c) : j \in view /\ (j \in viewDone <=> j \in done)
      BY <2>1, <2>2 DEF WindowInv, ChatComplete
    <3>2. i \notin viewDone /\ i \notin done
      BY <1>1 DEF WindowInv, TypeOK
    <3>3. CASE p = c
      <4>1. OfPeer(c)' = OfPeer(c) \union {i}
        BY <1>1, <3>3
      <4> QED BY <1>1, <2>1, <3>1, <3>2, <3>3, <4>1
    <3>4. CASE p # c
      <4>1. OfPeer(c)' = OfPeer(c)
        BY <1>1, <3>4
      <4>2. i \notin OfPeer(c)
        BY <1>1 DEF OfPeer
      <4> QED BY <1>1, <2>1, <3>1, <3>4, <4>1, <4>2
    <3> QED BY <3>3, <3>4
  <2>3. c = current'
    BY <1>1, <2>1
  <2> QED BY <2>2, <2>3 DEF ChatComplete
<1> QED BY <1>4, <1>5, <1>6, <1>7, <1>8 DEF WindowInv

LEMMA ReceiveKeeps == ASSUME WindowInv, NEW p \in Peers, Receive(p) PROVE WindowInv'
  BY MessageKeeps DEF Receive, Badge

LEMMA SendKeeps == ASSUME WindowInv, Send PROVE WindowInv'
<1>1. current \in Peers
  BY DEF Send, WindowInv, TypeOK, Tables
<1> QED BY <1>1, MessageKeeps DEF Send

LEMMA MessageUpdatedKeeps == ASSUME WindowInv, NEW i \in Ids, MessageUpdated(i) PROVE WindowInv'
<1>1. /\ i \in rows /\ done' = done \union {i}
      /\ UNCHANGED <<online, table, keeps, sent, rows, seen, listVars, current, chat, view,
                     settings, unread, panel, edits>>
      /\ viewDone' = IF sent[i].peer = current /\ i \in view THEN viewDone \union {i} ELSE viewDone
  BY DEF MessageUpdated, UpdateView
<1>2. Ids' = Ids /\ \A p : OfPeer(p)' = OfPeer(p)
  BY <1>1 DEF Ids, OfPeer
<1>3. TypeOK'
  BY <1>1, <1>2 DEF WindowInv, TypeOK, listVars
<1>4. Listed' /\ Highlit' /\ ChatShows' /\ PanelClosed' /\ Counted'
  BY <1>1, SameList DEF WindowInv, ChatShows, PanelClosed, Counted
<1>5. UnseenIsBadged'
  <2>1. \A p \in Peers : Unseen(p)' \subseteq Unseen(p)
    BY <1>1, <1>2 DEF Unseen
  <2> QED BY <1>1, <2>1, UnseenKept
<1>6. ChatComplete'
  <2>1. current # NoPeer /\ i \in OfPeer(current) => i \in view
    BY <1>1 DEF WindowInv, ChatComplete
  <2>2. sent[i].peer = current <=> i \in OfPeer(current)
    BY DEF OfPeer
  <2> QED BY <1>1, <1>2, <2>1, <2>2 DEF WindowInv, ChatComplete
<1> QED BY <1>3, <1>4, <1>5, <1>6 DEF WindowInv

-----------------------------------------------------------------------------
(* The chat, with the list as it is.                                       *)

(* The search bar, the panel and the settings page leave the messages as   *)
(* they are.                                                               *)
LEMMA SameMessages ==
  ASSUME WindowInv, UNCHANGED <<storeVars, current, view, viewDone, unread>>
  PROVE  Ids' = Ids /\ Counted' /\ UnseenIsBadged' /\ ChatComplete'
<1>1. /\ UNCHANGED <<keeps, sent, rows, done, seen, current, view, viewDone, unread>>
      /\ Ids' = Ids /\ \A p : OfPeer(p)' = OfPeer(p)
  BY DEF storeVars, Ids, OfPeer
<1>2. UnseenIsBadged'
  <2>1. \A p \in Peers : Unseen(p)' \subseteq Unseen(p)
    BY <1>1 DEF Unseen
  <2> QED BY <1>1, <2>1, UnseenKept
<1>3. Counted' /\ ChatComplete'
  BY <1>1 DEF WindowInv, Counted, ChatComplete
<1> QED BY <1>1, <1>2, <1>3

LEMMA SearchKeeps == ASSUME WindowInv, NEW matching \in Filters, Search(matching) PROVE WindowInv'
<1>1. /\ filter' = matching /\ selected' = 0
      /\ UNCHANGED <<online, table, storeVars, peers, openVars, settings, unread, panel, edits>>
  BY DEF Search, SetFilter
<1>2. Ids' = Ids /\ Counted' /\ UnseenIsBadged' /\ ChatComplete'
  BY <1>1, SameMessages DEF openVars
<1>3. selected' \in 0..Cardinality(peers')
  <2>1. Cardinality(peers) \in Nat
    BY Built DEF WindowInv, TypeOK, Listed
  <2> QED BY <1>1, <2>1
<1>4. TypeOK'
  BY <1>1, <1>2, <1>3 DEF WindowInv, TypeOK, storeVars, openVars
<1>5. Listed' /\ Highlit' /\ ChatShows' /\ PanelClosed'
  BY <1>1 DEF WindowInv, Listed, Highlit, ChatShows, PanelClosed, openVars
<1> QED BY <1>2, <1>4, <1>5 DEF WindowInv

LEMMA SelectKeeps == ASSUME WindowInv, NEW e \in peers, Select(e) PROVE WindowInv'
<1>0. PICK p : p = e.id
  OBVIOUS
<1>1. /\ ~settings /\ e \in Visible(peers, filter)
      /\ selected' = Row(Visible(peers, filter), e)
      /\ current' = p /\ chat' = TRUE /\ view' = rows \intersect OfPeer(p)
      /\ viewDone' = rows \intersect OfPeer(p) \intersect done
      /\ seen' = seen \union (rows \intersect OfPeer(p))
      /\ unread' = [unread EXCEPT ![p] = 0]
      /\ UNCHANGED <<online, table, keeps, sent, rows, done, peers, filter, settings, panel, edits>>
  BY <1>0 DEF Select, ShowPeer
<1>2. /\ peers \subseteq Entry /\ Visible(peers, filter) \subseteq peers /\ IsFiniteSet(Visible(peers, filter))
      /\ Cardinality(Visible(peers, filter)) <= Cardinality(peers)
      /\ Cardinality(Visible(peers, filter)) \in Nat /\ Cardinality(peers) \in Nat
      /\ \A a, b \in peers : a.id = b.id => a = b
  BY Built DEF WindowInv, TypeOK, Listed
<1>3. selected' \in 0..Cardinality(peers) /\ p \in Peers
  <2>1. /\ Visible(peers, filter) \subseteq Entry
        /\ \A a, b \in Visible(peers, filter) : a.id = b.id => a = b
    BY <1>2
  <2>2. selected' \in 1..Cardinality(Visible(peers, filter))
    BY <1>1, <1>2, <2>1, Rows
  <2>3. p \in Peers
    BY <1>0, <1>2 DEF Entry
  <2> QED BY <1>2, <2>2, <2>3
<1>4. Ids' = Ids /\ \A q : OfPeer(q)' = OfPeer(q)
  BY <1>1 DEF Ids, OfPeer
<1>5. unread \in [Peers -> 0..MaxMessages] /\ MaxMessages \in Nat /\ Len(sent) \in Nat
  BY BoundsAssumption, UnseenFinite DEF WindowInv, TypeOK
<1>6. unread' \in [Peers -> 0..MaxMessages] /\ unread'[p] = 0
      /\ \A q \in Peers : q # p => unread'[q] = unread[q]
  BY <1>1, <1>3, <1>5
<1>7. TypeOK'
  BY <1>1, <1>3, <1>4, <1>6 DEF WindowInv, TypeOK
<1>8. Listed' /\ Highlit' /\ ChatShows' /\ PanelClosed'
  <2>1. Highlit'
    BY <1>0, <1>1 DEF Highlit
  <2>2. ChatShows'
    BY <1>1, <1>3, PeersAssumption DEF ChatShows
  <2> QED BY <1>1, <2>1, <2>2 DEF WindowInv, Listed, PanelClosed
<1>9. Counted'
  BY <1>1, <1>5, <1>6 DEF WindowInv, Counted
<1>10. UnseenIsBadged'
  <2>1. ASSUME NEW q \in Peers PROVE Cardinality(Unseen(q)') <= unread'[q]
    <3>1. CASE q = p
      <4>1. Unseen(q)' = {}
        BY <1>1, <1>4, <3>1 DEF Unseen
      <4>2. Cardinality(Unseen(q)') = 0
        BY <4>1, FS_EmptySet
      <4> QED BY <1>6, <3>1, <4>2
    <3>2. CASE q # p
      <4>1. Unseen(q)' \subseteq Unseen(q)
        BY <1>1, <1>4 DEF Unseen
      <4> QED BY <1>6, <3>2, <4>1, UnseenFewer DEF WindowInv
    <3> QED BY <3>1, <3>2
  <2> QED BY <2>1 DEF UnseenIsBadged, Unseen
<1>11. ChatComplete'
  BY <1>1, <1>4 DEF ChatComplete
<1> QED BY <1>7, <1>8, <1>9, <1>10, <1>11 DEF WindowInv

LEMMA DeselectKeeps == ASSUME WindowInv, Deselect PROVE WindowInv'
<1>1. /\ selected' = 0 /\ current' = NoPeer /\ chat' = FALSE /\ view' = {} /\ viewDone' = {}
      /\ UNCHANGED <<online, table, keeps, sent, rows, done, seen, peers, filter, settings,
                     unread, panel, edits>>
  BY DEF Deselect, CloseChatIf, storeVars
<1>2. Ids' = Ids /\ \A p : OfPeer(p)' = OfPeer(p)
  BY <1>1 DEF Ids, OfPeer
<1>3. selected' \in 0..Cardinality(peers')
  <2>1. Cardinality(peers) \in Nat
    BY Built DEF WindowInv, TypeOK, Listed
  <2> QED BY <1>1, <2>1
<1>4. TypeOK'
  BY <1>1, <1>2, <1>3 DEF WindowInv, TypeOK
<1>5. Listed' /\ Highlit' /\ ChatShows' /\ PanelClosed' /\ Counted' /\ ChatComplete'
  BY <1>1 DEF WindowInv, Listed, Highlit, ChatShows, PanelClosed, Counted, ChatComplete
<1>6. UnseenIsBadged'
  <2>1. \A p \in Peers : Unseen(p)' \subseteq Unseen(p)
    BY <1>1, <1>2 DEF Unseen
  <2> QED BY <1>1, <2>1, UnseenKept
<1> QED BY <1>4, <1>5, <1>6 DEF WindowInv

(* The panel and the settings page.                                        *)
LEMMA PanelKeeps ==
  ASSUME WindowInv, UNCHANGED <<online, table, storeVars, listVars, current, view, viewDone, unread, edits>>,
         settings' \in BOOLEAN, chat' = (current # NoPeer /\ ~settings'), panel' \in Panel, PanelClosed'
  PROVE  WindowInv'
<1>1. Ids' = Ids /\ Counted' /\ UnseenIsBadged' /\ ChatComplete'
  BY SameMessages
<1>2. TypeOK'
  BY <1>1 DEF WindowInv, TypeOK, storeVars, listVars
<1>3. Listed' /\ Highlit' /\ ChatShows'
  BY SameList DEF ChatShows
<1> QED BY <1>1, <1>2, <1>3 DEF WindowInv

LEMMA PanelRequestedKeeps == ASSUME WindowInv, PanelRequested PROVE WindowInv'
<1>1. /\ chat /\ panel' = OpenFor(current)
      /\ UNCHANGED <<online, table, storeVars, listVars, openVars, settings, unread, edits>>
  BY DEF PanelRequested
<1>2. current \in Peers
  BY <1>1 DEF WindowInv, TypeOK, ChatShows
<1>3. panel' \in Panel /\ PanelClosed'
  <2>1. panel' \in Panel /\ panel'.of = current
    BY <1>1, <1>2 DEF OpenFor, Panel
  <2> QED BY <1>2, <2>1, PeersAssumption DEF PanelClosed
<1>4. settings' \in BOOLEAN /\ chat' = (current # NoPeer /\ ~settings')
  BY <1>1 DEF WindowInv, TypeOK, ChatShows, openVars
<1> QED BY <1>1, <1>3, <1>4, PanelKeeps DEF openVars

LEMMA PanelClosesKeeps == ASSUME WindowInv, PanelCloses PROVE WindowInv'
<1>1. /\ panel' = NoPanel
      /\ UNCHANGED <<online, table, storeVars, listVars, openVars, settings, unread, edits>>
  BY DEF PanelCloses, SlideOut
<1>2. panel' \in Panel /\ PanelClosed'
  BY <1>1, NothingOpen DEF PanelClosed
<1>3. settings' \in BOOLEAN /\ chat' = (current # NoPeer /\ ~settings')
  BY <1>1 DEF WindowInv, TypeOK, ChatShows, openVars
<1> QED BY <1>1, <1>2, <1>3, PanelKeeps DEF openVars

LEMMA PageChangedKeeps == ASSUME WindowInv, NEW toSettings \in BOOLEAN, PageChanged(toSettings) PROVE WindowInv'
<1>1. /\ settings' = toSettings /\ chat' = (~toSettings /\ current # NoPeer)
      /\ panel' = IF toSettings THEN NoPanel ELSE panel
      /\ UNCHANGED <<online, table, storeVars, listVars, current, view, viewDone, unread, edits>>
  BY DEF PageChanged, SlideOut
<1>2. panel' \in Panel /\ PanelClosed'
  BY <1>1, NothingOpen DEF PanelClosed, WindowInv, TypeOK
<1>3. settings' \in BOOLEAN /\ chat' = (current # NoPeer /\ ~settings')
  BY <1>1
<1> QED BY <1>1, <1>2, <1>3, PanelKeeps

(* Messages of a peer are deleted.                                         *)
LEMMA DeletedKeeps ==
  ASSUME WindowInv, UNCHANGED <<online, table, sent, done, listVars, openVars, settings, unread, panel>>,
         rows' \subseteq rows, seen' = seen \intersect rows', keeps' \in SUBSET Peers,
         edits' \in 0..MaxEdits
  PROVE  WindowInv'
<1>1. Ids' = Ids /\ \A p : OfPeer(p)' = OfPeer(p)
  BY DEF Ids, OfPeer
<1>2. TypeOK'
  BY <1>1 DEF WindowInv, TypeOK, listVars, openVars
<1>3. Listed' /\ Highlit' /\ ChatShows' /\ PanelClosed' /\ Counted'
  BY SameList DEF WindowInv, ChatShows, PanelClosed, Counted, openVars
<1>4. UnseenIsBadged'
  <2>1. \A p \in Peers : Unseen(p)' \subseteq Unseen(p)
    BY <1>1 DEF Unseen
  <2> QED BY <2>1, UnseenKept
<1>5. ChatComplete'
  BY <1>1 DEF WindowInv, ChatComplete, openVars
<1> QED BY <1>2, <1>3, <1>4, <1>5 DEF WindowInv

LEMMA StrategyClickedKeeps == ASSUME WindowInv, NEW keep \in BOOLEAN, StrategyClicked(keep) PROVE WindowInv'
<1>1. /\ Edit /\ keeps' = Put(keeps, panel.of, keep)
      /\ UNCHANGED <<online, table, sent, done, listVars, openVars, settings, unread, panel>>
      /\ \/ UNCHANGED <<rows, seen>>
         \/ rows' = rows \ OfPeer(panel.of) /\ seen' = seen \ OfPeer(panel.of)
  BY DEF StrategyClicked, DeleteRows
<1>2. rows' \subseteq rows /\ seen' = seen \intersect rows'
  BY <1>1 DEF WindowInv, TypeOK
<1>3. keeps' \in SUBSET Peers
  <2>1. panel.of \in Peers /\ keeps \in SUBSET Peers /\ table \in Tables(Peers)
    BY Opened DEF StrategyClicked, WindowInv, TypeOK
  <2> QED BY <1>1, <2>1, TableFacts
<1>4. edits' \in 0..MaxEdits
  BY <1>1, BoundsAssumption DEF Edit, WindowInv, TypeOK
<1> QED BY <1>1, <1>2, <1>3, <1>4, DeletedKeeps

LEMMA DeleteHistoryKeeps == ASSUME WindowInv, NEW p \in Peers, DeleteHistory(p) PROVE WindowInv'
<1>1. /\ UNCHANGED <<online, table, keeps, sent, done, listVars, openVars, settings, unread, panel, edits>>
      /\ rows' = rows \ OfPeer(p) /\ seen' = seen \ OfPeer(p)
  BY DEF DeleteHistory, DeleteRows
<1>2. rows' \subseteq rows /\ seen' = seen \intersect rows' /\ keeps' \in SUBSET Peers /\ edits' \in 0..MaxEdits
  BY <1>1 DEF WindowInv, TypeOK
<1> QED BY <1>1, <1>2, DeletedKeeps

-----------------------------------------------------------------------------
LEMMA InitWindow == ASSUME Init PROVE WindowInv
<1>1. NoFlags \in Tables(Peers) /\ (CHOOSE p \in Peers : TRUE) \in Peers
  BY PeersAssumption DEF NoFlags, Tables
<1>2. table \in Tables(Peers) /\ {} \in SUBSET Peers
  BY <1>1, TableFacts DEF Init
<1>3. PICK flags \in Tables(Peers), matching \in Filters : flags = table /\ matching = filter
  BY <1>2, FiltersAssumption DEF Init
<1>4. BuildPeerList({}, flags) \subseteq Entry /\ Cardinality(BuildPeerList({}, flags)) \in Nat
  BY <1>2, Built
<1>5. Ids = {} /\ Len(sent) = 0 /\ sent \in Seq([peer : Peers, incoming : BOOLEAN])
  <2>1. sent = <<>>
    BY DEF Init
  <2> QED BY <2>1, EmptySeq DEF Ids
<1>6. peers \subseteq Entry /\ selected \in 0..Cardinality(peers)
  <2>1. peers = BuildPeerList({}, flags) /\ selected = 0
    BY <1>3 DEF Init
  <2> QED BY <1>4, <2>1
<1>7. TypeOK
  <2>1. unread \in [Peers -> 0..MaxMessages] /\ edits \in 0..MaxEdits
    BY BoundsAssumption DEF Init
  <2>2. panel \in Panel /\ filter \in Filters
    BY NothingOpen, FiltersAssumption DEF Init
  <2> QED BY <1>2, <1>5, <1>6, <2>1, <2>2 DEF Init, TypeOK
<1>8. Listed /\ Highlit /\ ChatShows /\ PanelClosed /\ ChatComplete
  BY DEF Init, Listed, Highlit, ChatShows, PanelClosed, ChatComplete
<1>9. Counted
  BY <1>5, BoundsAssumption DEF Init, Counted
<1>10. UnseenIsBadged
  <2>1. ASSUME NEW p \in Peers PROVE Cardinality(Unseen(p)) <= unread[p]
    <3>1. Unseen(p) = {}
      BY DEF Init, Unseen
    <3> QED BY <3>1, FS_EmptySet DEF Init
  <2> QED BY <2>1 DEF UnseenIsBadged, Unseen
<1> QED BY <1>7, <1>8, <1>9, <1>10 DEF WindowInv

LEMMA StepKeeps == ASSUME WindowInv, [Next]_vars PROVE WindowInv'
<1>1. CASE UNCHANGED vars
  <2>1. /\ UNCHANGED <<online, table, storeVars, listVars, openVars, settings, unread, panel, edits>>
    BY <1>1 DEF vars
  <2>2. settings' \in BOOLEAN /\ chat' = (current # NoPeer /\ ~settings') /\ panel' \in Panel /\ PanelClosed'
    BY <2>1 DEF WindowInv, TypeOK, ChatShows, PanelClosed, openVars
  <2> QED BY <2>1, <2>2, PanelKeeps DEF openVars
<1>2. CASE \E p \in Peers : \/ Appear(p) \/ DropOut(p) \/ Receive(p)
                            \/ RemoveInSettings(p) \/ DeleteHistory(p) \/ BlockInDialog(p)
  BY <1>2, AppearKeeps, DropOutKeeps, ReceiveKeeps, RemoveInSettingsKeeps, DeleteHistoryKeeps,
     BlockInDialogKeeps
<1>3. CASE Send \/ \E i \in Ids : MessageUpdated(i)
  BY <1>3, SendKeeps, MessageUpdatedKeeps
<1>4. CASE \E matching \in Filters : Search(matching)
  BY <1>4, SearchKeeps
<1>5. CASE (\E e \in peers : Select(e)) \/ Deselect
  BY <1>5, SelectKeeps, DeselectKeeps
<1>6. CASE PanelRequested \/ PanelCloses \/ SavedClicked \/ FavoriteClicked \/ BlockedClicked
  BY <1>6, PanelRequestedKeeps, PanelClosesKeeps, SavedClickedKeeps, FavoriteClickedKeeps,
     BlockedClickedKeeps
<1>7. CASE \/ \E keep \in BOOLEAN : StrategyClicked(keep)
           \/ \E toSettings \in BOOLEAN : PageChanged(toSettings)
  BY <1>7, StrategyClickedKeeps, PageChangedKeeps
<1> QED BY <1>1, <1>2, <1>3, <1>4, <1>5, <1>6, <1>7 DEF Next

LEMMA WindowInvariant == Spec => []WindowInv
<1>1. Init => WindowInv
  BY InitWindow
<1>2. WindowInv /\ [Next]_vars => WindowInv'
  BY StepKeeps
<1> QED BY <1>1, <1>2, PTL DEF Spec

(* Every variable of the window keeps its type; no badge counts more than  *)
(* was ever stored, and the selection is a row of the list                 *)
(* (PeerListWidget.h, UnreadStore.h, PeerPanel.h).                         *)
THEOREM WindowTyped == Spec => []TypeOK
<1>1. WindowInv => TypeOK
  BY DEF WindowInv
<1> QED BY <1>1, WindowInvariant, PTL

(* The highlighted row is the peer whose chat is open, and the chat area   *)
(* shows exactly when it should, for any number of peers and any filters   *)
(* (PeerListWidget.cpp:23-50, MainWindow.cpp:71-95, 222-240, 263-277).     *)
THEOREM HighlightTrue == Spec => []HighlightIsOpen
<1>1. WindowInv => HighlightIsOpen
  BY HighlightedFacts DEF WindowInv, HighlightIsOpen, ChatShows
<1> QED BY <1>1, WindowInvariant, PTL

(* Every stored message that has never been in its peer's open chat is     *)
(* counted in the badge (MainWindow.cpp:130-153, UnreadStore.cpp).         *)
THEOREM BadgesCount == Spec => []UnseenIsBadged
<1>1. WindowInv => UnseenIsBadged
  BY DEF WindowInv
<1> QED BY <1>1, WindowInvariant, PTL

(* The open chat holds each stored message of its peer, with its present   *)
(* status, and no other's (MainWindow.cpp:71-82, 130-135, 155-158).        *)
THEOREM OpenChatComplete == Spec => []ChatComplete
<1>1. WindowInv => ChatComplete
  BY DEF WindowInv
<1> QED BY <1>1, WindowInvariant, PTL

=============================================================================
