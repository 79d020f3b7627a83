# YukiSend in TLA+

YukiSend is a peer-to-peer chat and file transfer program for a local network
(C++ and Qt).  Every instance is one process with one event loop; it finds the
others by UDP beacons, chats over one TCP connection per peer and streams files
over another.  This directory models the parts that are hard to get right:
what two programs agree on by messages while either of them may fail, restart,
lose sight of the other or be used faster than expected; and what one program
keeps in several places at once, in its stores, its preferences and the copies
its widgets show.

Paths below are relative to the repository.

## The system

| part | state | operations | depends on |
|---|---|---|---|
| `App` (`src/app`) | `m_pendingOffers` (offers not answered), `m_pendingInbound` (an entry per Accept), `m_inboundIdMap` (data connection to entry), `m_onlinePeerIds`, `m_fingerprintPrompted` | send a message, file, folder or image; accept, accept to, deny, request again; route frames; flush the outbox; block, save, favour; delete history | everything below |
| `TransferClient` | files still to send, the open file, what was sent of it, its socket | `sendFile`, `sendFolder`, `sendCurrentHeader`, `sendNextChunk`, hash watcher, errors | App's slots |
| `TransferServer` | an `IncomingTransfer` per connection: buffer, file, digest | `onReadyRead`, `finishFile`, `abortTransfer`, end of connection | App's slots |
| `ChatClient`, `ChatServer`, `MessageChannel` | a `PeerConn` per address with a queue; the id a connection was bound to | `send`, connect, fail, disconnect; `Hello`; framing | App's `routeIncoming` |
| `Discovery` | peers with the time they were last heard | announce, goodbye, expire, rename | App's `peersChanged` slot |
| `ChatStore`, `OutboxStore`, `PeerStore`, `UnreadStore` | SQLite tables: rows of messages, queued frames, saved, favourite, blocked and trusted peers; a counter per peer | insert, update, delete, query | called by App and the widgets |
| `AppSettings` | the registry, which names the data folder; the ini file in it with the identity and the preferences | read, write, migrate from older versions | called by everything, at each access anew |
| `MainWindow`, `PeerListWidget`, `PeerPanel` | the open chat, the list with its filter and selection, the copy of a peer's flags in the panel | clicks and App's signals | App |
| `ChatView`, `MessageDelegate` | the messages shown, their row offsets, the scroll offset, a `FolderTreeState` per folder, a `ThumbCache` | append, update, scroll, expand, paint | App's signals, the disk |
| `ChatInputBar`, `SearchBar` | a text with cursor and, in the first, a selection; a pasted image | keys, mouse, clipboard, input method | `MainWindow` |
| `SettingsPage`, `CloseDialog`, `TrayIcon` | the radio buttons and four lists with check boxes, copies of what is stored | clicks, closing, minimizing | `AppSettings`, the stores |
| navigation bar, image viewer, theme, utilities | none that another part reads | painting, layout, formatting | widgets |

The parts talk by direct calls and by Qt signals delivered in the same thread;
only the SHA-256 of a file to be sent is computed on another thread.  What is
concurrent is therefore: two programs, the kernels between them, functors
posted to an event loop, timers, and nested event loops of dialogs.

What is hard, and what makes each part correct:

* **Offers.**  Two stores number their rows independently, so ids cross the
  wire twice.  Correct is: a connection is matched to the Accept it answers, an
  entry has one owner, no late signal moves a row that was denied or finished,
  no data before consent, and an accepted offer gets its connection, which
  completes it or is known to have been cut off.
* **Streams.**  The client advances by `bytesWritten`, posted functors and the
  watcher, in any order.  Correct is: the stream never gets out of step, what is
  buffered is bounded, no wake-up is lost, Done means that everything arrived
  intact, and both ends are freed when the connection ends.
* **Chat link.**  Outbox, queue, connection and reconnection.  Correct is: no
  duplicates, no reordering, every message under its sender's id, nothing stored
  while blocked, nothing held back or forgotten.
* **Presence and trust.**  Beacons are lost and late, dialogs run a nested event
  loop inside the handler that opened them.  Correct is: a peer that stays is
  not dropped, history goes only when it should, nobody untrusted is seen
  without a prompt.
* **The window.**  Selection against a list rebuilt by every beacon, with a chat
  open or hidden while messages arrive.  Correct is: the highlighted row is the
  open chat, the chat misses nothing, and what arrives for a chat that is not
  the open one is counted.
* **Text fields.**  Cursor and selection are indices into a text that any key may
  shorten.  Correct is: an edit changes the text where the cursor or the
  selection is, and nowhere else.
* **The open chat.**  Row offsets, trees and thumbnails are caches of messages that
  transfers update.  Correct is: no old layout, no blurred preview of a picture
  that became complete in view, every entry of a tree once and in order.
* **Saved files.**  Connections choose names in one directory by a test and a later
  opening.  Correct is: what was received whole stays whole, as far as no other
  file gives way to its name.
* **Preferences.**  The data folder is looked up at each access and may change.
  Correct is: a folder has one identity, the page shows what is stored, and only
  what is ticked is removed, but for the messages of peers whose strategy,
  their own or the default, lets them go when the peer does.

`PROJECT.json` lists these hazards at their lines with the properties that
cover them.

## Modules

`ChatRows` - the rows of one peer in `ChatStore`: `AddMessage` appends,
`UpdateMessage` overwrites status *and* path (as the SQL does), `ClearPeer`
deletes.  A deleted row keeps its place since ids are never reused.

`FileOffer` - the life of offers between the Apps `S` (offers) and `R`
(receives).  One action for each click (`SendOffer`, `AcceptTransfer`,
`DenyTransfer`, `RequestAgain`, `DeleteHistory`), for each frame
(`RouteFileRequest`, `RouteFileAccept`, `RouteFileReject`, `RouteRequestAgain`),
for each signal of `TransferClient` and `TransferServer` (`WriteFile`,
`FinishSending`, `ClientFails`; `BeginFile`, `EndFile`, `RejectFile`,
`FinishBatch`, `XferFails`), and for the environment (`PeerAppears` with
`flushOutbox`, `PeerDropped` with `clearSession`, `LoseFrames`, `RestartS`,
`RestartR`).  A data connection is a record with both its ends; what happens
between a file's first and last byte is left to `TransferStream`.  A connection
may be `cut` at R with nothing failing once S has deleted its client: the end of
the stream is then lost in the socket's buffer, as `TransferStream.Delete` has it.

`Consent` - the abstract specification of an offer: it is offered, refused or
granted, and streamed only after it was granted.  `FileOffer` implements it
under the mapping `Phase`, which reads the phase off R's rows and the data
connections (`DataOnlyByConsent`).

`TransferStream` - one data connection in detail: the client's event queue
(`posted`), Qt's write buffer (`txbuf`), the kernels (`net`), the receiver's
frame reader and App's slots on both sides.  Data is counted in chunks; files
may shrink, grow or change while they are read.  A link that breaks is `broken`
for both sides, or `lost`: then R, which never writes and has neither a keepalive
nor a time limit, hears nothing of it.

`ChatLink` - text messages from `A` to `B`: the outbox, a `PeerConn` per
address, connections with the identity B has bound to them, B's store.  The
other direction is another instance, because `ChatServer` never writes.

`Presence` - how one App sees and trusts its peers: the datagrams in
`Discovery`'s socket, its records with their age, the slot of `peersChanged`
with the prompts it remembers, and the dialogs `MainWindow` opens from that
slot.  `calls` is the stack of slots that wait for a dialog, each with the rest
of the list of peers it read before; `Answer` resumes the innermost.  Qt does
not emit `readyRead`, or a timer's `timeout`, while a slot of the same signal
is running, so a dialog opened by a beacon stops the reading of beacons and
leaves the expire timer going.  The result of a dialog is read after the dialog
was deleted (`WA_DeleteOnClose`): it is any result.  Time is counted in periods
of the two timers.

`PeerTable` - the table `saved_peers` with its three flags and the queries on it,
for the modules that follow.

`Window` - the main window: one action for every click, key in the search bar and
signal of App that changes the list (`peers`, `filter`, `selected`), the open
chat (`current`, `view`, `chat`), the badges (`unread`) or the panel.  A slot of
`peersChanged` rebuilds the list within the step that caused it, whether that was
Discovery, a button of the panel, a dialog or the settings page.  Messages are
the positions at which they were stored; `seen` is a history variable.  The list
on display is a set of entries; an entry's row is the number of those that do not
come after it (`Row`), which is where the code's sort puts it.

`LineEdit` - the abstract specification of a text field: what is put in or taken
out is at the selection or next to the cursor.  `TextInput` - the input bar and
the search bar, every key with its early returns, the mouse, the clipboard with
text or an image, and the input method.  Both fields implement `LineEdit`
(`Edits`), the search bar with an anchor that is always at its cursor.

`FolderTree`, `ThumbCache` - the two data structures of a chat as operators:
expanding, collapsing and paging directories and the rows that result; a cache
with few slots in memory, evicted by age to disk.  `ChatView` composes them with
the messages of the open chat, their layout and scrolling, and the updates that
transfers bring.  Its `Paint` is `paintEvent`, which fills both caches on demand.

`Saving` - several connections of the `TransferServer` that save files in one
directory: the choice of a name, truncation, chunks, the digest, removal,
connections that break off, and the user who deletes files, also while they are
being received (which a platform may refuse or allow), and puts files there.
`promised` are the files that must stay: complete, under a `Plain` name (one that
is not the other name of a file), and `Settled` (no connection was left with a
deleted file of that name).  Its
`SavingInit`, `SavingNext` and `SavingSpec` have names of their own because
`Storage_proofs` extends it together with `Settings`.

`Settings` - the preferences in the registry and in the ini files of the data
folders, the page that edits them, the dialog on closing and the tray; and which
peers have messages, with the default strategy and the peers' own (`own`,
`StrategyOf`), by which those go when a peer drops out.  `page` and `lists` are
the page's copies.

`MC...` - the values of the constants, and the properties of the documentation
that the code does not have.

`FileOffer_proofs`, `ChatLink_proofs`, `TransferStream_proofs`, `Presence_proofs`,
`Window_proofs`, `TextInput_proofs`, `ChatView_proofs`, `Storage_proofs` - the
theorems; the last has those of `Saving` and `Settings`.

The models meet at App: `FileOffer` takes for a step what
`TransferStream` does between two signals, and frames that `ChatLink` shows to
arrive in order, once, or not at all when a connection breaks.  Both take for a
step of the environment (`PeerAppears`, `PeersChanged`, `PeerDropped`) what
`Presence` shows of a peer that comes and goes; so does `Window`.  `Window` and
`ChatView` share `ChatView::setMessages`, `appendMessage` and `updateMessage`:
the first has which messages the view holds and when, for all peers, the second
what it does with them.  `Saving` has all connections with their names on disk,
`TransferStream` one connection with everything that arrives on it.

## What the runs check

| run | instance | shows |
|---|---|---|
| `offer` | two offers of any kind, one fault | types, `EntryOwnedOnce`, `EntriesAccepted`, `EchoMatches`, `MatchedWithoutFaults`, both lifecycles, the refinement of `Consent`, `AcceptedEnds` (without a failure, an accepted offer is Done or was cut off by the deletion of S's client) |
| `stream` | six batches (none, empty files, directories, up to five chunks), two faults, room for one chunk in the kernels | `NeverGarbled`, `DoneIsComplete`, `ClientEnds`, `ServerEnds` |
| `link` | three messages, two addresses, two faults | `AtMostOnce`, `InOrder`, `Identified`, `OutboxDrained`, `BlockedStoresNothing`, `SentArrives` |
| `presence` | two peers, two fingerprints or none, one lost beacon, silent departure or restart | `EveryoneAsked` (who is seen with an untrusted fingerprint has a prompt that is remembered, and a prompt shows the fingerprint seen when it opens), `OnlineIsRecorded`, `GoneIsDropped`, `StayingIsSeen` |
| `window` | two peers, two messages, one flag or strategy changed by the user | `HighlightIsOpen`, `UnseenIsBadged`, `ChatComplete` |
| `text` | a blank and a reserved letter, texts of three characters, searches of two | `Edits`: both fields implement `LineEdit` |
| `view` | three images and one slot, or a folder of three levels shown an entry at a time, or one that is scanned | `ThumbFresh`, `TreeShown`, `LayoutFresh`, and in `TypeOK` the limits of the cache and of what a directory shows |
| `saving` | two names, one the other name of the other, two connections, four files of up to two chunks | `PlainKept` |
| `settings` | two data folders, keys of an older version, two peers, two changes | `RadioIsStored`, `OneIdentity`, `OnlyTicked` |

Runs that are expected to fail show where the code departs from what its
comments say:

| run | the claim | what happens |
|---|---|---|
| `offer_steal` | connections match their Accept whatever the order (`TransferClient.h:13-14`) | a connection without an entry of its own takes another's, whose message is then Done without its data |
| `presence_alive` | only peers that have not announced for 30 s are expired (`architecture.md:71-72`) | no beacon is read while a dialog is open, and running peers are expired |
| `settings_identity` | another data folder takes effect after a restart, and the identity is stable (`AppSettings.h:23`, `38`) | the next Hello carries the identity of the new folder, the beacons that of the old one |

The other findings in `PROJECT.json` were met while modelling and are described
there without a run: among them that the answer to an offer erases its path and a
later RequestAgain finds nothing; that a second Accept moves the rest of the
first folder; that the end of a batch may be lost with its client, so that an
accepted offer need not complete although nothing fails; that a receiver waits
for ever for a sender that vanished without a word; that a known peer is not
asked about again when its fingerprint changes within 30 s; that a flushed
message stays Pending; that four letters cannot be typed into the search
bar; that of two truncated directories ending at the same row only one can be
shown further; that the third file of a name overwrites the second, and a second
`photo.jpg` a `photo_1.jpg`; that a failed digest removes another transfer's file
after its own was deleted; that a complete picture is drawn blurred when its
chat is opened again; and that a selection of text stays, by its index, when
another chat is opened.  Where such a behaviour is reachable in a model the model
has it, and the properties say, in their comments and in their formulas, what
holds nevertheless.

### Bounds

* `MaxOffers`, `MaxMessages` bound what users do.  Two offers are the least that
  can be mixed up; with three messages one can be queued, one on its way and one
  sent.  Each offer makes at most two connections (its Accept, and one
  RequestAgain, after which the path is gone): `Tids`.
* `MaxFaults` bounds failures of any kind, restarts, dropouts and deletions of
  history, each of which may happen at any moment.  One is enough to separate
  every pair of steps; the streams and the link have two, for a failure of each
  end.
* `FolderFiles = 2`: a folder can be half received.
* `KernelRoom = 1`, files up to five chunks: the buffer's limit of two chunks is
  reached with the kernels full.
* `Expire = 1` period (six in the code): the age only has to be able to pass the
  limit, before and after a beacon.  `InboxSize = 2`, one datagram for each peer,
  so that the socket overflows as soon as it is not read for two periods.
* `MaxFaults = 1` in `presence`: a lost beacon, a departure (after which the
  peer may come back with another fingerprint) or a restart; dialogs, expiry
  and late answers are not faults and are unbounded.
* `window`: two peers are the least of which one can be above the other; with two
  messages one chat can have both or each chat one; a filter matches nobody, one
  or both.  Clicks, presence and the settings page are unbounded, flags and
  strategies change once (`MaxEdits`).
* `text`: in three characters a selection can be at the start, in the middle, at
  the end or everything; the commit of an input method has one or two.
* `view`: `BulkSize = 1` and `Slots = 1` truncate every directory and evict at every
  second picture (20 and 50 in the code).  One unit of height is a tree row, and
  the view is one unit high, so that a message can be above, in and below it.
* `saving`: of the two names one is the other name of the other, so one is plain
  and one is not; four files are the least with which a name, its other name and
  both once more are used; two chunks make a file that is partly written.
* `settings`: two changes, so that one can be made by the dialog or the panel and
  one on the page, or the folder be changed there and back.
* The proofs have none of these bounds.

### Fairness

Only what the event loops and kernels do is fair: a frame that has arrived is
routed, a connection that can go on does, a socket connects or reports an
error, a posted functor runs.  Users, presence and faults are not.  The code
justifies it: Qt delivers posted functors and socket notifications in turn, and
the handlers on the way of an offer, a stream or a message do not block.  Where
a slot runs a nested event loop, that loop delivers the same events: fingerprint
dialogs, whose effect on `Discovery`'s own signals `Presence` has; the file
dialogs of `MainWindow.cpp:167-183` and `195-201`, `closeEvent` and
`browseForDataFolder`.  The last four are one step in the models, taken when
they return: what runs meanwhile is taken to run before.  For the slots that
read `m_currentPeer` again after a file dialog that is an abstraction the code
does not quite justify, and a finding says so (`MainWindow.cpp:173`).  In
`Presence` the timers of running programs fire and what the event loop may
handle it handles, before the period is over; a dialog need never be answered.
`StayingIsSeen` is excused where dialogs keep being opened: each can outlast
the expiry of the peer it is about, and the full socket can then hold only the
beacons that open the next one (found with two faults and without the excuse).
The modules of the widgets and of saving state safety only: what happens there is
begun by the user or by a connection, and every step is complete in itself.
`AcceptedEnds` and `SentArrives` are excused by any fault; that S deletes its
client early is none, and `AcceptedEnds` names the connection it cut off.
`ClientEnds` and `ServerEnds` hold whatever fails, except after a file has become
shorter while it is read, when client and server do wait for ever; and
`ServerEnds` except when the link is `lost`: only a connection that is closed or
broken comes to an end at R (`PeerClosed`), and R waits for ever for a sender
that is gone without a word.

### Left out on purpose

* `m_outboundClients` is written and never read.
* Frames that reach App through `ChatClient` (`isPeerId == false`,
  `m_deferredFrames`): no peer writes on a connection it has accepted.
* Text messages and plain files for an offline peer that is not saved: the code
  does nothing with them.  (A folder or an image is stored as offered and not
  sent, which `FileOffer` has, and a finding: `App.cpp:355`.)
* Slots that are suspended by a file dialog or by `CloseDialog`, see Fairness.
* Changes of a peer's name, address or port: `Presence` keeps its fingerprint.
* The late `transferFinished` of a client that has failed: `TransferStream` has
  it, `FileOffer` does not.
* In the window: the positions of the panel while it slides, and clicks in the
  200 ms in which it slides out; notifications; names of peers.
* In the open chat: the selection of text, what the mouse hovers over, the overlay
  of a drop, the image viewer, a window that is resized, pixels.
* In a folder's tree: names that differ in case only, whose order is any.
* In the text fields: which position a pixel belongs to.
* Among the preferences: the display name, the download folder and launching at
  startup, which are read and written like those that are modelled.
* In saving: the directories that a folder's entries name, and the free space
  beyond that there may be none; on Windows a file that is open cannot be
  removed, elsewhere it can, by the program and by the user, and `Saving` has both.
* Frame lengths beyond `MaxFrameBytes`, JSON that does not parse, senders of
  older versions without a `transferMsgId`.

## What is proved

For every value of the constants that satisfies the named assumptions
(`BoundsAssumption`, `KindsAssumption`, `BatchesAssumption`, `DirsAssumption`,
`AddrsAssumption`, `PrintsAssumption`, `PeersAssumption`, `FiltersAssumption`,
`CharsAssumption`, `LengthsAssumption`, `NamesAssumption`, `SizesAssumption`,
`FoldersAssumption`, `EditsAssumption`, `StoresAssumption`, `HeightAssumption`,
`SlotsAssumption`):

| theorem | property | argument |
|---|---|---|
| `TypeCorrect` | `TypeOK` | inductive by itself, one lemma per group of actions |
| `OwnedOnce`, `EntriesStand` | `EntryOwnedOnce`, `EntriesAccepted` | inductive together with `TypeOK` (`EntriesInv`): an Accept may add an entry because its row was waiting, and every entry's row is transferring, so the row has none yet |
| `ReceiverMoves` | `ReceiverLifecycle` | from `EntriesInv`: progress and completion change the rows of entries only |
| `EchoCorrect` | `EchoMatches` | `EchoInv` adds that every reply on the wire carries a pair of ids that belong together and that R's rows name offers that exist |
| `ConsentCorrect` | `DataOnlyByConsent` | every step of `FileOffer` is a step of `Consent` or a stutter under `Phase`; needs `EchoInv` to know that a connection's offer has been granted |
| `OneConnectionEach` | (none) | `LifeInv` adds to `EchoInv`: offers travel in the order in which they were made (`Rising`); a row of the receiver is answered once, by an Accept or a Deny, and asked for again at most once after that (`RepliesOrdered`); an offer that is still waiting has its first status and no connection (`Unanswered`), and one with a connection has given up its path (`Carried`), so no second Accept finds anything to send |
| `SenderMoves` | `SenderLifecycle` | from `LifeInv`: the answer that moves a row was the first, and what a connection reports finds the row it left |
| `MatchedProperly` | `MatchedWithoutFaults` | `MatchInv` adds to `LifeInv`, while nothing has failed (`Matching`): an offer that has been asked for is pending at S, one that was answered has given up its path; each Accept on the wire has its entry pending at R; a connection takes the entry of the id it declares and has it until it ends or is cut off (`Carries`); a row is Done by a connection that has ended.  It says which entry, not in which directory the files are put: see the finding about `App.cpp:869` |
| `LinkTyped` | `TypeOK` | `LinkInv` adds that a connected socket's connection exists |
| `DrainedWhileSeen` | `OutboxDrained` | with `LinkInv` |
| `SenderIdentified`, `BlockedIgnored` | `Identified`, `BlockedStoresNothing` | `IdInv`: on every connection the next frame is the Hello or the connection is bound to A, so no frame is ever taken under an address |
| `StoredOnce` | `AtMostOnce` | `OneCopy`: a row is in one place only, once: the outbox, the queue for an address, a connection or B's store; every step moves rows from one to another or loses them |
| `StoredInOrder` | `InOrder` | `OrderInv`: while nothing has failed there is one lane from A to B (store, connection, queue, outbox); each part of it is rising, and everything in a part is older than everything in those behind it.  Needs `OutboxDrained`: what is sent while B is seen is not behind something in the outbox |
| `StreamTyped` | `TypeOK` of `TransferStream` | with `Phases` and `InTurn`: the states in which the client's calls may find it |
| `StreamInStep` | `NeverGarbled` | `InStep`: from where the receiver reads to where the client writes, the items on their way form a path along the wire of the batch, each frame moving the cursor one step.  `Phases` says where the client writes: what is posted, hashed and sent in each of its states.  A file that grew is the one way off the path |
| `StreamDoneComplete` | `DoneIsComplete` | `DoneAtEnd`: the end of the batch is read at the end of the path, where all files have been taken and none was rejected |
| `PresenceTyped`, `AllAsked`, `OnlineTrue` | `TypeOK` of `Presence`, `EveryoneAsked`, `OnlineIsRecorded` | only a slot of readyRead ever waits for a dialog, since expiry leaves nobody new to ask about, so one dialog at most is open and the expire timer is never silent; the peer the dialog is about stays among those asked as long as it has a record, so an answer, whatever it is read as, leaves nobody unasked (`NobodyMissed`); when the timer has fired no age is above `Expire`.  `EveryoneAsked` adds that whoever a step makes it necessary to ask about is among those asked with the fingerprint shown (`StepShown`): the slot asks from the records of that very step |
| `WindowTyped` | `TypeOK` of `Window` | a badge counts no more than was stored (`Counted`); rows number the list on display without gaps, so the highlighted one has an entry |
| `HighlightTrue` | `HighlightIsOpen` | `Listed`: the list is always the one that Discovery's peers and the flags call for, so a rebuild finds the entry of the open chat by its id; `Highlit`: if a row is highlighted, its entry is the open chat's |
| `BadgesCount` | `UnseenIsBadged` | inductive with `Counted`: each step adds as much to the count as to the unseen, or deletes them |
| `OpenChatComplete` | `ChatComplete` | inductive with `TypeOK`; a chat that is closed is filled anew when it opens |
| `FieldsTyped` | `TypeOK` of `TextInput` | inductive by itself; the anchor of the input bar may be beyond its text when that is empty, and only then |
| `EditsCorrect` | `Edits` | every step of `TextInput` is a step or a stutter of `LineEdit` for the input bar and for the search bar, by lemmas that relate `remove` and `insert` to the parts before and after the selection |
| `ViewTyped` | `TypeOK` of `ChatView` | `TreeOK`: what the clicks keep of a tree; `CacheOK`: the thumbnails in memory are those listed, each once.  That the lines of a tree are finitely many is an induction over the depth of its paths |
| `ThumbsFresh` | `ThumbFresh` | `Clear`: neither in memory nor on disk is there a blurred picture of a message that the view holds as complete.  It becomes complete only when its status changes (`RowsOK`: a row that is Done has lost its picture's path, so a chat that is opened holds none, and the theorem says nothing of its pictures), and then both copies go |
| `TreesShown` | `TreeShown` | from `TreeOK` alone: the lines of a tree fit (`Fits`: their entries are those visible from its root, one above the other, and whatever is cut short has its sentinel).  What is visible from a directory is the directory and what is visible from each entry within its limit (`VisSplit`), so the blocks of the entries can be joined one after the other (`FitsJoin`, `FitsMore`), and no directory is the deepest whose block does not fit (`LinesFit`).  Of a run of sentinels the last one is drawn, and what is drawn before it is the last row below each directory of the run (`VisibleFits`) |
| `RowsLaidOut` | `LayoutFresh` | every message with a snapshot has its tree since the last layout (`Snapshots`), so painting adds only trees that were scanned, and changes none |
| `SavingTyped`, `PlainFilesKept` | `SavingTypeOK`, `PlainKept` | the invariant adds that what was promised under a name is on disk, that no connection has such a path, open or deleted, and that of a file in progress under a plain name every chunk received is its own |
| `SettingsTyped`, `RadiosTrue` | `TypeOK` of `Settings`, `RadioIsStored` | while the program runs its folder has an identity and, unless the folder was changed, the page's close action is unset (remembered by the dialog, and not shown) or the stored one; so no migration writes over it |
| `IdentityKept` | `OneIdentity` | by `TypeOK`: every step writes an identity only where there is none |
| `UntickedKept` | `OnlyTicked` | by `TypeOK`: the steps that take a flag away while the page shows go by the list on display, and the only other step that takes messages is the one of a peer that drops out with `SessionOnly` |

The proof modules start with lemmas about sequences, tables and the operators of
the model, then have a lemma for each action or group of actions, and the
theorems last.

What a recursive function computes is proved by induction over numbers, which
`ChatView_proofs` derives from the well-foundedness of `<`: `Smallest` takes the
smallest number at which a claim fails, `Upwards` and `Iterate` follow.  From
these come what `FlattenSeq` appends, the ranks that sort a directory, the lines
of a tree, the row offsets, and the thumbnails that one `paintEvent` fetches.

Every safety property that a run checks is proved.  Only model-checked: the
liveness properties, which are beyond the prover.

## Plan

1. `FileOffer`, `TransferStream`, `ChatLink`, `Presence`, the window, text fields,
   open chat, saving and preferences: modelled and checked.
2. Every safety property of the runs: proved.
3. To add: the retention of history and saved peers to `Presence`; the slots of
   `Window` that a file dialog suspends; the selection of text in `ChatView`.

## Not modelled

* `NavBar`, `MediaViewer`, theme and animations: layout, painting and the
  forwarding of clicks.  They keep no state that another part reads.
* `FileUtils`, `ImageUtils`, `StartupHelper`: pure input and output.
* `MessageChannel`'s reassembly of frames from bytes: frames arrive whole and in
  order in `ChatLink`, and `TransferStream` has the framing of the data
  connection, where getting out of step is possible.
