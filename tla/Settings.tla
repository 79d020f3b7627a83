------------------------------ MODULE Settings ------------------------------
(***************************************************************************)
(* The preferences (AppSettings) and the page that edits them              *)
(* (SettingsPage), closing the window (CloseDialog, TrayIcon), and the     *)
(* identity that is stored with the preferences.  The registry names the   *)
(* data folder; the ini file in that folder holds everything else, and is  *)
(* found anew at each access, while the databases opened at the start stay *)
(* open until the end.                                                     *)
(*                                                                         *)
(* Of the preferences the model has the close action and the default       *)
(* storage strategy; the display name and the download folder are read and *)
(* written in the same way.                                                *)
(***************************************************************************)
EXTENDS PeerTable

CONSTANTS Folders,   \* folders that may hold the data
          Home,      \* the one used unless the registry names another
          Peers,     \* the other instances
          MaxEdits   \* bound on histories begun and on what the user changes

ASSUME FoldersAssumption == Home \in Folders
ASSUME EditsAssumption == MaxEdits \in Nat

VARIABLES running, visible,  \* the program, and its window when it is not in the tray
          folder, used,      \* the folder in the registry, and the one opened at the start
          legacy, ini,       \* the registry of older versions; the ini file of each folder
          created,           \* identities ever made
          announced, greeted,\* the id in Discovery's beacons, and in the last Hello
          moved,             \* whether the user chose another folder in this run (history)
          effective,         \* ChatStore's default strategy
          own,               \* in each folder: peer_strategy, what peers have of their own
          flags, histories,  \* in each folder: saved_peers; the peers with messages
          asking,            \* CloseDialog
          page, lists,       \* SettingsPage, and its four lists with check boxes
          edits

prefVars == <<folder, legacy, ini, created, moved>>
idVars == <<announced, greeted, used>>
storeVars == <<effective, own, flags, histories>>
vars == <<running, visible, prefVars, idVars, storeVars, asking, page, lists, edits>>

NoId == 0
Strategies == {"SessionOnly", "Persistent"}
NotSet == "NotSet"
CloseActions == {"Unset", "MinimizeToTray", "Quit"}
Tabs == {"saved", "favorite", "blocked"}
Lists == Tabs \union {"history"}
Categories == {"General", "Window", "Messages", "History", "Peers"}
NoDialog == [open |-> FALSE, quit |-> FALSE, remember |-> FALSE]

Ini == [id : Nat, close : CloseActions, strategy : Strategies]
Page == [shown : BOOLEAN, category : Categories, tab : Tabs,
         close : CloseActions, strategy : Strategies]
CheckList == [rows : SUBSET Peers, ticked : SUBSET Peers]

TypeOK == /\ running \in BOOLEAN /\ visible \in BOOLEAN /\ moved \in BOOLEAN
          /\ folder \in Folders /\ used \in Folders
          /\ legacy \in [id : Nat, close : CloseActions] /\ ini \in [Folders -> Ini]
          /\ created \in Nat /\ announced \in Nat /\ greeted \in Nat
          /\ effective \in Strategies
          /\ own \in [Folders -> [Peers -> Strategies \union {NotSet}]]
          /\ flags \in [Folders -> Tables(Peers)] /\ histories \in [Folders -> SUBSET Peers]
          /\ asking \in [open : BOOLEAN, quit : BOOLEAN, remember : BOOLEAN]
          /\ page \in Page /\ lists \in [Lists -> CheckList]
          /\ \A l \in Lists : lists[l].ticked \subseteq lists[l].rows
          /\ edits \in 0..MaxEdits

Edit == edits < MaxEdits /\ edits' = edits + 1

-----------------------------------------------------------------------------
(* AppSettings.                                                            *)

NoKeys == [id |-> NoId, close |-> "Unset"]
NoIni == [id |-> NoId, close |-> "Unset", strategy |-> "Persistent"]

(* Mutant: the keys are copied over an identity, too.                      *)
MigrateAlways(f) ==
    IF legacy.id = NoId THEN ini[f]
    ELSE [ini[f] EXCEPT !.id = legacy.id,
                        !.close = IF legacy.close = "Unset" THEN @ ELSE legacy.close]

(* The keys of an older version are copied to a file without an identity,  *)
(* and leave the registry.                                                 *)
MigrateOnce(f) ==
    IF ini[f].id # NoId \/ legacy.id = NoId THEN ini[f]
    ELSE [ini[f] EXCEPT !.id = legacy.id,
                        !.close = IF legacy.close = "Unset" THEN @ ELSE legacy.close]

LegacyAfter(f) == IF ini[f].id # NoId THEN legacy ELSE NoKeys

(* selfId, and fingerprint with it: made once for a folder.                *)
SelfId(f) == IF MigrateOnce(f).id # NoId THEN MigrateOnce(f).id ELSE created + 1

ReadSelfId(f) ==
    /\ ini' = [ini EXCEPT ![f] = [MigrateOnce(f) EXCEPT !.id = SelfId(f)]]
    /\ legacy' = LegacyAfter(f)
    /\ created' = IF MigrateOnce(f).id # NoId THEN created ELSE created + 1

SetCloseAction(action) == ini' = [ini EXCEPT ![folder].close = action]
SetDefaultStrategy(s) == ini' = [ini EXCEPT ![folder].strategy = s]

-----------------------------------------------------------------------------
(* The page's lists.                                                       *)

Loaded(ids) == [rows |-> ids, ticked |-> {}]

Listed(table, t) == CASE t = "saved" -> SavedPeers(table)
                      [] t = "favorite" -> FavoritePeers(table)
                      [] t = "blocked" -> BlockedPeers(table)

RefreshHistory == lists' = [lists EXCEPT !["history"] = Loaded(histories[used])]

(* Mutant: what is ticked stays ticked.                                    *)
RefreshKeeping(table) ==
    lists' = [l \in Lists |-> IF l \in Tabs THEN [lists[l] EXCEPT !.rows = Listed(table, l)]
                              ELSE lists[l]]

(* All three lists of peers are loaded anew, with nothing ticked.          *)
RefreshPeers(table) ==
    lists' = [l \in Lists |-> IF l \in Tabs THEN Loaded(Listed(table, l)) ELSE lists[l]]

(* The list that layoutChildren shows.                                     *)
Displayed == CASE page.category = "History" -> "history"
               [] page.category = "Peers" -> page.tab
               [] OTHER -> "none"

AllChecked(l) == lists[l].rows # {} /\ lists[l].ticked = lists[l].rows

-----------------------------------------------------------------------------
(* Starting: App reads the identity, opens the folder and leaves ChatStore *)
(* with its own default; MainWindow loads the page.                        *)

Start ==
    /\ ~running
    /\ running' = TRUE /\ visible' = TRUE
    /\ ReadSelfId(folder) /\ used' = folder /\ moved' = FALSE
    /\ announced' = SelfId(folder) /\ greeted' = SelfId(folder)
    /\ effective' = "SessionOnly"
    /\ page' = [shown |-> FALSE, category |-> "General", tab |-> "saved",
                close |-> ini'[folder].close, strategy |-> ini'[folder].strategy]
    /\ lists' = [l \in Lists |-> Loaded({})]
    /\ UNCHANGED <<folder, own, flags, histories, asking, edits>>

(* A chat connection opens with a Hello, whose id is read there and then.  *)
Hello == /\ running
         /\ ReadSelfId(folder) /\ greeted' = SelfId(folder)
         /\ UNCHANGED <<running, visible, folder, moved, announced, used, storeVars,
                        asking, page, lists, edits>>

-----------------------------------------------------------------------------
(* What the stores go through meanwhile.                                   *)

MessageStored(p) ==
    /\ running /\ Edit /\ p \notin histories[used]
    /\ histories' = [histories EXCEPT ![used] = @ \union {p}]
    /\ UNCHANGED <<running, visible, prefVars, idVars, effective, own, flags, asking, page,
                   lists>>

(* strategy: the peer's own, or else the default.                          *)
StrategyOf(p) == IF own[used][p] = NotSet THEN effective ELSE own[used][p]

(* A peer drops out: clearSession.                                         *)
SessionEnds(p) ==
    /\ running /\ StrategyOf(p) = "SessionOnly" /\ p \in histories[used]
    /\ histories' = [histories EXCEPT ![used] = @ \ {p}]
    /\ UNCHANGED <<running, visible, prefVars, idVars, effective, own, flags, asking, page,
                   lists, edits>>

(* The panel, which is closed while the page shows.  A peer that becomes   *)
(* SessionOnly loses its messages at once.                                 *)
PanelShows == running /\ visible /\ asking = NoDialog /\ ~page.shown

SetPeerStrategy(p, s) ==
    /\ PanelShows /\ Edit
    /\ own' = [own EXCEPT ![used][p] = s]
    /\ histories' = IF s = "SessionOnly" THEN [histories EXCEPT ![used] = @ \ {p}] ELSE histories
    /\ UNCHANGED <<running, visible, prefVars, idVars, effective, flags, asking, page, lists>>

(* The panel's other buttons, and the dialog about a fingerprint, which    *)
(* opens over the page, too.                                               *)
FlaggedElsewhere(p) ==
    /\ running /\ Edit
    /\ \/ /\ PanelShows
          /\ \E on \in BOOLEAN, set \in {"saved", "favorite", "blocked"} :
                flags' = [flags EXCEPT ![used] =
                             CASE set = "saved" -> SetSaved(@, p, on)
                               [] set = "favorite" -> SetFavorite(@, p, on)
                               [] set = "blocked" -> SetBlocked(@, p, on)]
       \/ flags' = [flags EXCEPT ![used] = SetBlocked(@, p, TRUE)]
    /\ UNCHANGED <<running, visible, prefVars, idVars, effective, own, histories, asking, page,
                   lists>>

-----------------------------------------------------------------------------
(* The page: mousePressEvent.                                              *)

PageChanged ==
    /\ running /\ visible /\ asking = NoDialog
    /\ page' = [page EXCEPT !.shown = ~@]
    /\ IF page.shown THEN UNCHANGED lists ELSE RefreshHistory
    /\ UNCHANGED <<running, visible, prefVars, idVars, storeVars, asking, edits>>

Pressed == running /\ visible /\ asking = NoDialog /\ page.shown

SelectCategory(c) ==
    /\ Pressed /\ c # page.category
    /\ page' = [page EXCEPT !.category = c]
    /\ IF c = "Peers" THEN RefreshPeers(flags[used]) ELSE UNCHANGED lists
    /\ UNCHANGED <<running, visible, prefVars, idVars, storeVars, asking, edits>>

SelectTab(t) ==
    /\ Pressed /\ page.category = "Peers" /\ t # page.tab
    /\ page' = [page EXCEPT !.tab = t]
    /\ UNCHANGED <<running, visible, prefVars, idVars, storeVars, asking, lists, edits>>

Tick(p) ==
    /\ Pressed /\ Displayed \in Lists /\ p \in lists[Displayed].rows
    /\ lists' = [lists EXCEPT ![Displayed].ticked = Put(@, p, p \notin @)]
    /\ UNCHANGED <<running, visible, prefVars, idVars, storeVars, asking, page, edits>>

CheckAll ==
    /\ Pressed /\ Displayed \in Lists
    /\ lists' = [lists EXCEPT ![Displayed].ticked =
                    IF AllChecked(Displayed) THEN {} ELSE lists[Displayed].rows]
    /\ UNCHANGED <<running, visible, prefVars, idVars, storeVars, asking, page, edits>>

(* The rows that were not ticked leave the list with the others.           *)
DeletePressed ==
    /\ Pressed /\ Displayed = "history" /\ lists["history"].ticked # {}
    /\ histories' = [histories EXCEPT ![used] = @ \ lists["history"].ticked]
    /\ lists' = [lists EXCEPT !["history"] = Loaded({})]
    /\ UNCHANGED <<running, visible, prefVars, idVars, effective, own, flags, asking, page,
                   edits>>

(* Mutant: the ticks of the lists that do not show count, too.             *)
RemoveTickedAll(t) ==
    [flags[used] EXCEPT !.saved = @ \ lists["saved"].ticked,
                        !.favorite = @ \ lists["favorite"].ticked,
                        !.blocked = @ \ lists["blocked"].ticked]

RemoveTicked(t) ==
    [flags[used] EXCEPT !.saved = IF t = "saved" THEN @ \ lists[t].ticked ELSE @,
                        !.favorite = IF t = "favorite" THEN @ \ lists[t].ticked ELSE @,
                        !.blocked = IF t = "blocked" THEN @ \ lists[t].ticked ELSE @]

(* Unsave, Unfavorite or Unblock, by the tab that shows.                   *)
RemovePressed ==
    /\ Pressed /\ Displayed \in Tabs /\ lists[page.tab].ticked # {}
    /\ flags' = [flags EXCEPT ![used] = RemoveTicked(page.tab)]
    /\ RefreshPeers(RemoveTicked(page.tab))
    /\ UNCHANGED <<running, visible, prefVars, idVars, effective, own, histories, asking, page,
                   edits>>

CloseRadio(action) ==
    /\ Pressed /\ page.category = "Window" /\ Edit
    /\ action \in {"MinimizeToTray", "Quit"} /\ page.close # action
    /\ page' = [page EXCEPT !.close = action]
    /\ SetCloseAction(action)
    /\ UNCHANGED <<running, visible, folder, legacy, created, moved, idVars, storeVars,
                   asking, lists>>

StrategyRadio(s) ==
    /\ Pressed /\ page.category = "Messages" /\ page.strategy # s /\ Edit
    /\ page' = [page EXCEPT !.strategy = s]
    /\ SetDefaultStrategy(s) /\ effective' = s
    /\ UNCHANGED <<running, visible, folder, legacy, created, moved, idVars, own, flags,
                   histories, asking, lists>>

BrowseForDataFolder(f) ==
    /\ Pressed /\ page.category = "General" /\ Edit
    /\ folder' = f /\ moved' = (moved \/ f # folder)
    /\ UNCHANGED <<running, visible, legacy, ini, created, idVars, storeVars, asking, page,
                   lists>>

-----------------------------------------------------------------------------
(* Closing the window.  The dialog offers the tray until told otherwise.   *)

Close(action) == IF action = "MinimizeToTray" THEN visible' = FALSE /\ UNCHANGED running
                 ELSE running' = FALSE /\ visible' = FALSE

(* Mutant: the dialog is shown whatever is stored.                         *)
AsksAlways == TRUE
Asks == MigrateOnce(folder).close = "Unset"

CloseEvent ==
    /\ running /\ visible /\ asking = NoDialog
    /\ ini' = [ini EXCEPT ![folder] = MigrateOnce(folder)] /\ legacy' = LegacyAfter(folder)
    /\ IF Asks THEN /\ asking' = [NoDialog EXCEPT !.open = TRUE]
                    /\ UNCHANGED <<running, visible>>
       ELSE Close(MigrateOnce(folder).close) /\ UNCHANGED asking
    /\ UNCHANGED <<folder, created, moved, idVars, storeVars, page, lists, edits>>

DialogPressed ==
    /\ running /\ asking # NoDialog
    /\ \/ asking' = [asking EXCEPT !.quit = ~@]
       \/ asking' = [asking EXCEPT !.remember = ~@]
    /\ UNCHANGED <<running, visible, prefVars, idVars, storeVars, page, lists, edits>>

(* OK, Escape and the close button alike: the result is not looked at.     *)
DialogCloses ==
    LET choice == IF asking.quit THEN "Quit" ELSE "MinimizeToTray"
    IN /\ running /\ asking # NoDialog /\ asking' = NoDialog
       /\ IF asking.remember THEN SetCloseAction(choice) ELSE UNCHANGED ini
       /\ Close(choice)
       /\ UNCHANGED <<folder, legacy, created, moved, idVars, storeVars, page, lists, edits>>

(* Minimizing goes to the tray as well.                                    *)
Minimized == /\ running /\ visible /\ asking = NoDialog /\ visible' = FALSE
             /\ UNCHANGED <<running, prefVars, idVars, storeVars, asking, page, lists, edits>>

ShowRequested == /\ running /\ ~visible /\ visible' = TRUE
                 /\ UNCHANGED <<running, prefVars, idVars, storeVars, asking, page, lists, edits>>

TrayQuit == /\ running /\ asking = NoDialog
            /\ running' = FALSE /\ visible' = FALSE
            /\ UNCHANGED <<prefVars, idVars, storeVars, asking, page, lists, edits>>

-----------------------------------------------------------------------------
(* An older version may have left its keys in the registry, also after a   *)
(* newer one has been used in the folder.                                  *)
Init == /\ running = FALSE /\ visible = FALSE /\ moved = FALSE /\ edits = 0
        /\ folder = Home /\ used = Home /\ created = 2
        /\ legacy \in {NoKeys, [id |-> 1, close |-> "Quit"]}
        /\ \E id \in {NoId, 2} : ini = [f \in Folders |-> IF f = Home THEN [NoIni EXCEPT !.id = id]
                                                           ELSE NoIni]
        /\ announced = NoId /\ greeted = NoId /\ effective = "SessionOnly"
        /\ own = [f \in Folders |-> [p \in Peers |-> NotSet]]
        /\ flags = [f \in Folders |-> NoFlags] /\ histories = [f \in Folders |-> {}]
        /\ asking = NoDialog
        /\ page = [shown |-> FALSE, category |-> "General", tab |-> "saved",
                   close |-> "Unset", strategy |-> "Persistent"]
        /\ lists = [l \in Lists |-> Loaded({})]

Next == \/ Start \/ Hello
        \/ \E p \in Peers : MessageStored(p) \/ SessionEnds(p) \/ FlaggedElsewhere(p) \/ Tick(p)
        \/ \E p \in Peers, s \in Strategies : SetPeerStrategy(p, s)
        \/ PageChanged
        \/ \E c \in Categories : SelectCategory(c)
        \/ \E t \in Tabs : SelectTab(t)
        \/ CheckAll \/ DeletePressed \/ RemovePressed
        \/ \E action \in CloseActions : CloseRadio(action)
        \/ \E s \in Strategies : StrategyRadio(s)
        \/ \E f \in Folders : BrowseForDataFolder(f)
        \/ CloseEvent \/ DialogPressed \/ DialogCloses
        \/ Minimized \/ ShowRequested \/ TrayQuit

Spec == Init /\ [][Next]_vars

-----------------------------------------------------------------------------
(* The page tells the truth: until the data folder is changed, the radio   *)
(* buttons show what is stored, except that a close action which the       *)
(* dialog remembered may be missing.                                       *)
RadioIsStored ==
    running /\ ~moved => /\ page.close \in {"Unset", ini[folder].close}
                         /\ page.strategy = ini[folder].strategy

(* A folder has one identity for ever, through migrations, restarts and    *)
(* changes of the data folder.                                             *)
OneIdentity == [][\A f \in Folders : ini[f].id # NoId => ini'[f].id = ini[f].id]_vars

(* While the page shows, a peer loses a flag only by a tick in the list    *)
(* that is on display; and the same is true of its messages, if its        *)
(* strategy, its own or else the default, is Persistent: with SessionOnly  *)
(* they go when the peer does.                                             *)
Ticked(l) == IF Pressed /\ Displayed = l THEN lists[l].ticked ELSE {}

OnlyTicked ==
    [][running /\ page.shown =>
          /\ flags[used].saved \ flags'[used].saved \subseteq Ticked("saved")
          /\ flags[used].favorite \ flags'[used].favorite \subseteq Ticked("favorite")
          /\ flags[used].blocked \ flags'[used].blocked \subseteq Ticked("blocked")
          /\ \A p \in histories[used] \ histories'[used] :
                StrategyOf(p) = "Persistent" => p \in Ticked("history")]_vars
=============================================================================
