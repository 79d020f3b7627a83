------------------------------- MODULE Window -------------------------------
(***************************************************************************)
(* The main window: the list of peers with its filter and its selection    *)
(* (PeerListWidget), the open chat (ChatView, as far as which messages it  *)
(* holds), the unread badges (UnreadStore), the panel of a peer with its   *)
(* slide animation (PeerPanel), and MainWindow, which ties them to App's   *)
(* signals.  A click, a signal or the end of an animation is one step.     *)
(* That is an abstraction: slots that ask for a file or a folder           *)
(* (MainWindow.cpp:167-183, 195-201), closeEvent and the dialogs about     *)
(* fingerprints run event loops of their own, so that other slots run      *)
(* inside them.  Here such a slot is the step at its end.                  *)
(*                                                                         *)
(* Peers are numbered in the alphabetical order of their names; a filter   *)
(* is the set of peers whose name or address contains it.  A message is    *)
(* the position at which it was stored.                                    *)
(***************************************************************************)
EXTENDS PeerTable, FiniteSets, Sequences

CONSTANTS Peers,        \* the other instances, as numbers
          NoPeer,       \* nobody
          Filters,      \* what the search bar's texts match
          MaxMessages,  \* bound on messages stored
          MaxEdits      \* bound on flags set and strategies changed

ASSUME PeersAssumption == /\ Peers \subseteq Nat /\ IsFiniteSet(Peers) /\ Peers # {}
                          /\ NoPeer \notin Peers /\ NoPeer \in Int
ASSUME FiltersAssumption == Peers \in Filters /\ Filters \subseteq SUBSET Peers
ASSUME BoundsAssumption == MaxMessages \in Nat /\ MaxEdits \in Nat

VARIABLES online,           \* Discovery's peers
          table, keeps,     \* PeerStore's flags; peers whose strategy is Persistent
          sent, rows, done, \* messages ever stored; those in ChatStore; those that are Done
          peers, filter, selected,  \* m_peers, m_filter, m_selectedIndex (0: none)
          current,          \* m_currentPeer
          view, viewDone,   \* ChatView's messages, and those it shows as Done
          chat, settings,   \* whether the chat area and the settings page show
          unread,           \* UnreadStore
          panel,            \* PeerPanel
          seen,             \* messages that were in the open chat (history)
          edits

storeVars == <<keeps, sent, rows, done, seen>>
listVars == <<peers, filter, selected>>
openVars == <<current, chat, view, viewDone>>
vars == <<online, table, storeVars, listVars, openVars, settings, unread, panel, edits>>

Ids == DOMAIN sent
Entry == [id : Peers, online : BOOLEAN, favorite : BOOLEAN]
Panel == [of : Peers \union {NoPeer}, saved : BOOLEAN, favorite : BOOLEAN, blocked : BOOLEAN]
NoPanel == [of |-> NoPeer, saved |-> FALSE, favorite |-> FALSE, blocked |-> FALSE]

TypeOK == /\ online \subseteq Peers /\ table \in Tables(Peers) /\ keeps \subseteq Peers
          /\ sent \in Seq([peer : Peers, incoming : BOOLEAN])
          /\ rows \subseteq Ids /\ done \subseteq Ids /\ seen \subseteq rows
          /\ peers \subseteq Entry /\ filter \in Filters /\ selected \in 0..Cardinality(peers)
          /\ current \in Peers \union {NoPeer}
          /\ view \subseteq Ids /\ viewDone \subseteq view
          /\ chat \in BOOLEAN /\ settings \in BOOLEAN
          /\ unread \in [Peers -> 0..MaxMessages] /\ panel \in Panel
          /\ edits \in 0..MaxEdits

OfPeer(p) == {i \in Ids : sent[i].peer = p}

-----------------------------------------------------------------------------
(* The list of peers.                                                      *)

(* Online peers and saved ones, none of them blocked.                      *)
BuildPeerList(ids, flags) ==
    {[id |-> p, online |-> p \in ids, favorite |-> p \in flags.favorite] :
        p \in (ids \ flags.blocked) \union SavedPeers(flags)}

(* Favourites first, then those online, then by name.                      *)
Before(a, b) ==
    IF a.favorite # b.favorite THEN a.favorite
    ELSE IF a.online # b.online THEN a.online ELSE a.id < b.id

Visible(entries, matching) == {e \in entries : e.id \in matching}

(* The row in which an entry is shown: those before it come above it.      *)
Row(shown, e) == Cardinality({a \in shown : a = e \/ Before(a, e)})

IndexOf(entries, matching, p) ==
    LET shown == Visible(entries, matching)
    IN IF \E e \in shown : e.id = p THEN Row(shown, CHOOSE e \in shown : e.id = p) ELSE 0

Highlighted ==
    LET shown == Visible(peers, filter)
    IN IF selected = 0 THEN NoPeer ELSE (CHOOSE e \in shown : Row(shown, e) = selected).id

(* The chat area is hidden; what it held is replaced before it shows again. *)
CloseChatIf(closes) == /\ current' = IF closes THEN NoPeer ELSE current
                       /\ chat' = (chat /\ ~closes)
                       /\ view' = IF closes THEN {} ELSE view
                       /\ viewDone' = IF closes THEN {} ELSE viewDone

(* Mutant: the row stays highlighted, whoever is in it now.                *)
SetPeersByRow(entries) ==
    /\ peers' = entries /\ UNCHANGED filter
    /\ selected' = IF selected <= Cardinality(Visible(entries, filter)) THEN selected ELSE 0
    /\ CloseChatIf(selected' # selected)

(* peerDeselected is emitted when the highlighted peer has vanished; its   *)
(* slot closes the chat.                                                   *)
SetPeers(entries) ==
    /\ peers' = entries /\ UNCHANGED filter
    /\ selected' = IndexOf(entries, filter, Highlighted)
    /\ CloseChatIf(selected # 0 /\ selected' = 0)

(* The slot of peersChanged.                                               *)
PeersChanged(ids, flags) == SetPeers(BuildPeerList(ids, flags))

SetFilter(matching) == filter' = matching /\ selected' = 0 /\ UNCHANGED peers

-----------------------------------------------------------------------------
(* Discovery.  A peer that drops out takes its session history with it.    *)

DeleteRows(p) == rows' = rows \ OfPeer(p) /\ seen' = seen \ OfPeer(p)

Appear(p) == /\ p \notin online /\ online' = online \union {p}
             /\ PeersChanged(online', table)
             /\ UNCHANGED <<table, storeVars, settings, unread, panel, edits>>

DropOut(p) == /\ p \in online /\ online' = online \ {p}
              /\ IF p \in keeps THEN UNCHANGED <<rows, seen>> ELSE DeleteRows(p)
              /\ PeersChanged(online', table)
              /\ UNCHANGED <<table, keeps, sent, done, settings, unread, panel, edits>>

-----------------------------------------------------------------------------
(* Messages.                                                               *)

(* Mutant: only peers that the list shows are counted.                     *)
BadgeIfListed(p) ==
    unread' = IF p = current \/ IndexOf(peers, filter, p) = 0 THEN unread
              ELSE [unread EXCEPT ![p] = @ + 1]

(* An incoming message is counted unless its peer's chat is open.          *)
Badge(p) == unread' = IF p = current THEN unread ELSE [unread EXCEPT ![p] = @ + 1]

AppendMessage(p, i) ==
    IF p = current THEN view' = view \union {i} /\ seen' = seen \union {i}
    ELSE UNCHANGED <<view, seen>>

AddMessage(p, incoming) ==
    LET i == Len(sent) + 1
    IN /\ i <= MaxMessages
       /\ sent' = Append(sent, [peer |-> p, incoming |-> incoming])
       /\ rows' = rows \union {i}
       /\ AppendMessage(p, i)
       /\ UNCHANGED <<online, table, keeps, done, listVars, current, chat, viewDone, settings, panel, edits>>

Receive(p) == p \notin table.blocked /\ AddMessage(p, TRUE) /\ Badge(p)

(* From the input bar, which shows with the chat; to an offline peer that  *)
(* is not saved nothing is sent or stored.                                 *)
Send == /\ chat /\ current \in online \union table.saved
        /\ AddMessage(current, FALSE) /\ UNCHANGED unread

(* Mutant: messages of other chats are updated too.                        *)
UpdateAny(i) == viewDone' = viewDone \union {i}

(* Mutant: nothing is updated while the settings page shows.               *)
UpdateHidden(i) == viewDone' = IF i \in view /\ chat THEN viewDone \union {i} ELSE viewDone

UpdateView(i) == viewDone' = IF sent[i].peer = current /\ i \in view
                             THEN viewDone \union {i} ELSE viewDone

(* The transfer of a message ends.                                         *)
MessageUpdated(i) == /\ i \in rows \ done /\ done' = done \union {i}
                     /\ UpdateView(i)
                     /\ UNCHANGED <<online, table, keeps, sent, rows, seen, listVars, current, chat,
                                    view, settings, unread, panel, edits>>

-----------------------------------------------------------------------------
(* Clicks on the list and keys in the search bar.  Both are hidden while   *)
(* the settings page shows.                                                *)

Search(matching) == /\ ~settings /\ matching # filter
                    /\ SetFilter(matching)
                    /\ UNCHANGED <<online, table, storeVars, openVars, settings,
                                   unread, panel, edits>>

(* setPeer and setMessages.                                                *)
ShowPeer(p) == /\ current' = p /\ chat' = TRUE
               /\ view' = rows \intersect OfPeer(p)
               /\ viewDone' = rows \intersect OfPeer(p) \intersect done
               /\ seen' = seen \union view'
               /\ unread' = [unread EXCEPT ![p] = 0]

Select(e) == /\ ~settings /\ e \in Visible(peers, filter)
             /\ selected' = Row(Visible(peers, filter), e) /\ selected' # selected
             /\ ShowPeer(e.id)
             /\ UNCHANGED <<online, table, keeps, sent, rows, done, peers, filter, settings,
                            panel, edits>>

Deselect == /\ ~settings /\ selected # 0
            /\ selected' = 0 /\ CloseChatIf(TRUE)
            /\ UNCHANGED <<online, table, storeVars, peers, filter, settings,
                           unread, panel, edits>>

-----------------------------------------------------------------------------
(* The panel.  It is loaded whenever it is asked for, and keeps its peer   *)
(* and its own copy of the flags until then; closed, neither matters.      *)

OpenFor(p) == [of |-> p, saved |-> p \in table.saved, favorite |-> p \in table.favorite,
               blocked |-> p \in table.blocked]

PanelRequested == /\ chat /\ panel' = OpenFor(current)
                  /\ UNCHANGED <<online, table, storeVars, listVars, openVars,
                                 settings, unread, edits>>

Open == panel # NoPanel
SlideOut(q) == NoPanel

PanelCloses == /\ Open /\ panel' = SlideOut(panel)
               /\ UNCHANGED <<online, table, storeVars, listVars, openVars,
                              settings, unread, edits>>

Edit == edits < MaxEdits /\ edits' = edits + 1

SavedClicked == /\ Open /\ Edit
                /\ panel' = [panel EXCEPT !.saved = ~@]
                /\ table' = SetSaved(table, panel.of, ~panel.saved)
                /\ PeersChanged(online, table')
                /\ UNCHANGED <<online, storeVars, settings, unread>>

FavoriteClicked == /\ Open /\ Edit
                   /\ panel' = [panel EXCEPT !.favorite = ~@, !.saved = @ \/ ~panel.favorite]
                   /\ table' = SetFavorite(table, panel.of, ~panel.favorite)
                   /\ PeersChanged(online, table')
                   /\ UNCHANGED <<online, storeVars, settings, unread>>

(* The list is rebuilt first, which deselects a peer that was highlighted; *)
(* the chat of one that was not is closed here, and the panel with it.     *)
BlockedClicked ==
    LET blocks == ~panel.blocked
        entries == BuildPeerList(online, SetBlocked(table, panel.of, blocks))
        closes == blocks /\ current = panel.of /\ Highlighted # current
    IN /\ Open /\ Edit
       /\ table' = SetBlocked(table, panel.of, blocks)
       /\ peers' = entries /\ UNCHANGED filter
       /\ selected' = IndexOf(entries, filter, Highlighted)
       /\ CloseChatIf(closes \/ (selected # 0 /\ selected' = 0))
       /\ panel' = LET q == [panel EXCEPT !.blocked = blocks]
                   IN IF closes THEN SlideOut(q) ELSE q
       /\ UNCHANGED <<online, storeVars, settings, unread>>

(* "Keep messages" and "Delete on disconnect", which deletes at once.      *)
StrategyClicked(keep) ==
    /\ Open /\ Edit
    /\ keeps' = Put(keeps, panel.of, keep)
    /\ IF keep THEN UNCHANGED <<rows, seen>> ELSE DeleteRows(panel.of)
    /\ UNCHANGED <<online, table, sent, done, listVars, openVars, settings, unread, panel>>

-----------------------------------------------------------------------------
(* The settings page, and the dialog about a fingerprint.                  *)

PageChanged(toSettings) ==
    /\ toSettings # settings /\ settings' = toSettings
    /\ chat' = (~toSettings /\ current # NoPeer)
    /\ panel' = IF toSettings THEN SlideOut(panel) ELSE panel
    /\ UNCHANGED <<online, table, storeVars, listVars, current, view, viewDone, unread, edits>>

RemoveInSettings(p) ==
    /\ settings
    /\ \/ p \in SavedPeers(table) /\ table' = SetSaved(table, p, FALSE)
       \/ p \in FavoritePeers(table) /\ table' = SetFavorite(table, p, FALSE)
       \/ p \in BlockedPeers(table) /\ table' = SetBlocked(table, p, FALSE)
    /\ PeersChanged(online, table')
    /\ UNCHANGED <<online, storeVars, settings, unread, panel, edits>>

DeleteHistory(p) ==
    /\ settings /\ DeleteRows(p)
    /\ UNCHANGED <<online, table, keeps, sent, done, listVars, openVars,
                   settings, unread, panel, edits>>

(* The dialog about a fingerprint, whose peer may be blocked or gone by    *)
(* the time it is answered.                                                *)
BlockInDialog(p) ==
    /\ Edit
    /\ table' = SetBlocked(table, p, TRUE)
    /\ PeersChanged(online, table')
    /\ UNCHANGED <<online, storeVars, settings, unread, panel>>

-----------------------------------------------------------------------------
(* The window opens with the list of the saved peers.                      *)
Init == /\ online = {} /\ keeps = {} /\ edits = 0
        /\ table = SetSaved(NoFlags, CHOOSE p \in Peers : TRUE, TRUE)
        /\ sent = <<>> /\ rows = {} /\ done = {} /\ seen = {}
        /\ peers = BuildPeerList({}, table) /\ filter = Peers /\ selected = 0
        /\ current = NoPeer /\ view = {} /\ viewDone = {} /\ chat = FALSE /\ settings = FALSE
        /\ unread = [p \in Peers |-> 0]
        /\ panel = NoPanel

Next == \/ \E p \in Peers : \/ Appear(p) \/ DropOut(p) \/ Receive(p)
                            \/ RemoveInSettings(p) \/ DeleteHistory(p) \/ BlockInDialog(p)
        \/ Send
        \/ \E i \in Ids : MessageUpdated(i)
        \/ \E matching \in Filters : Search(matching)
        \/ \E e \in peers : Select(e)
        \/ Deselect
        \/ PanelRequested \/ PanelCloses
        \/ SavedClicked \/ FavoriteClicked \/ BlockedClicked
        \/ \E keep \in BOOLEAN : StrategyClicked(keep)
        \/ \E toSettings \in BOOLEAN : PageChanged(toSettings)

Spec == Init /\ [][Next]_vars

-----------------------------------------------------------------------------
(* The highlighted row is the peer whose chat is open, whatever the        *)
(* beacons, the filter and the flags have done to the list; and the chat   *)
(* area shows exactly when a chat is open and the settings page is not.    *)
HighlightIsOpen == /\ selected # 0 => current = Highlighted
                   /\ chat = (current # NoPeer /\ ~settings)

(* No message is lost from the badges: of each peer, the stored messages   *)
(* that have never been in its open chat are all counted as unread.        *)
UnseenIsBadged ==
    \A p \in Peers :
       Cardinality({i \in (rows \intersect OfPeer(p)) \ seen : sent[i].incoming}) <= unread[p]

(* The open chat misses nothing: it holds every stored message of its peer *)
(* with its present status, and no other peer's.                           *)
ChatComplete ==
    current # NoPeer =>
       /\ view \subseteq OfPeer(current)
       /\ \A i \in rows \intersect OfPeer(current) : i \in view /\ (i \in viewDone <=> i \in done)
=============================================================================
