------------------------------ MODULE ChatView ------------------------------
(***************************************************************************)
(* ChatView: the messages of the open chat, their layout and scrolling,    *)
(* the folder trees shown in them (FolderTree) and the thumbnails of the   *)
(* images (MessageDelegateRenderer with ThumbCache).                       *)
(*                                                                         *)
(* The rows are those of ChatStore; a message that App updates is written  *)
(* there and told to the view, whose own copies can differ.  Heights are   *)
(* in units of one tree row, and a click hits what is drawn under it.      *)
(***************************************************************************)
EXTENDS FolderTree, ThumbCache, ChatRows

CONSTANTS Peers,     \* the other instances, as numbers from 1 on
          Stores,    \* the offers that may be stored, sequences of [peer, kind, out, preview,
                     \* tree, path]: some with a preview, or a snapshot of a folder
          OnDisk,    \* what a scan of a folder finds
          Height,    \* of each kind of row, of a progress bar, and of the view itself
          MaxTexts,  \* bound on text messages
          MaxClears  \* bound on files that disappear

ASSUME StoresAssumption ==
    /\ Peers \subseteq Nat \ {0} /\ MaxTexts \in Nat /\ IsTree(OnDisk)
    /\ \A o \in Stores :
          /\ o \in Seq(ToSet(o))
          /\ \A i \in DOMAIN o : /\ o[i].peer \in Peers /\ o[i].kind \in {"Text", "Image", "Folder"}
                                 /\ IsTree(o[i].tree) /\ o[i].path \in {NoPath, "local"}

ASSUME HeightAssumption ==
    /\ {"Text", "Image", "Folder", "bar", "view", "near", "step"} \subseteq DOMAIN Height
    /\ \A h \in DOMAIN Height : Height[h] \in Nat

VARIABLES offers,           \* what never changes of the offers
          rows,             \* ChatStore, by id
          gone,             \* messages whose file or folder is not on disk
          peer, view,       \* m_peer (0: none), m_messages
          trees,            \* m_treestates
          offsets, scroll,  \* m_rowOffsets, m_scrollOffset
          cache

layoutVars == <<trees, offsets, scroll>>
vars == <<offers, rows, gone, peer, view, layoutVars, cache>>

Ids == DOMAIN rows
OfKind(kind) == {i \in DOMAIN offers : offers[i].kind = kind}
LocalPath == "local"
Statuses == {"WaitingAccept", "Transferring", "Done", "Denied", "RequestAgain"}

(* What never changes of a message.                                        *)
Kind(i) == IF i \in DOMAIN offers THEN offers[i].kind ELSE "Text"
Snapshot(i) == offers[i].tree

NewRow(p, status, path) == [peer |-> p, status |-> status, path |-> path, deleted |-> FALSE]
Copy == [id : Nat, status : Statuses, path : {NoPath, LocalPath}]

(* messages(): the rows of peer p, oldest first.                           *)
Messages(p) ==
    LET Found(i) == <<[id |-> i, status |-> rows[i].status, path |-> rows[i].path]>>
    IN FlattenSeq([i \in Ids |-> IF rows[i].peer = p THEN Found(i) ELSE <<>>])

-----------------------------------------------------------------------------
(* Trees and layout.                                                       *)

(* treeFor: the snapshot that came with the offer, or else, once a path is *)
(* known, what is there on disk.                                           *)
HasTree(m) == /\ Kind(m.id) = "Folder"
              /\ Snapshot(m.id) # Nothing \/ (m.path # NoPath /\ m.id \notin gone)

NewTree(m) == IF Snapshot(m.id) # Nothing THEN TreeOf(Snapshot(m.id), NoPath)
              ELSE TreeOf(OnDisk, m.path)

(* The trees after treeFor was called for the messages in list.            *)
Ensured(tr, list) ==
    LET found == {k \in DOMAIN list : HasTree(list[k])}
        Message(i) == CHOOSE m \in ToSet(list) : m.id = i
    IN [i \in DOMAIN tr \union {list[k].id : k \in found} |->
            IF i \in DOMAIN tr THEN tr[i] ELSE NewTree(Message(i))]

RowHeight(m, tr) ==
    LET bar == IF m.status = "Transferring" THEN Height.bar ELSE 0
    IN IF Kind(m.id) = "Folder"
       THEN Height.Folder + bar + (IF m.id \in DOMAIN tr THEN Len(Visible(tr[m.id])) ELSE 0)
       ELSE Height[Kind(m.id)]

Offsets(list, tr) ==
    LET top[k \in 1..Len(list)] == IF k = 1 THEN 0 ELSE top[k - 1] + RowHeight(list[k - 1], tr)
    IN top

MaxScroll(list, tr, tops) ==
    IF list = <<>> THEN 0
    ELSE LET end == tops[Len(list)] + RowHeight(list[Len(list)], tr)
         IN IF end > Height.view THEN end - Height.view ELSE 0

(* rebuildLayout of what the view holds now.                               *)
Rebuild(list, tr) == trees' = Ensured(tr, list) /\ offsets' = Offsets(list, trees')

ScrollToBottom == scroll' = MaxScroll(view', trees', offsets')

Init == /\ offers \in Stores
        /\ rows = [i \in DOMAIN offers |-> NewRow(offers[i].peer, "WaitingAccept", offers[i].path)] /\ gone = {}
        /\ peer = 0 /\ view = <<>> /\ trees = <<>> /\ offsets = <<>> /\ scroll = 0
        /\ cache = EmptyCache(OfKind("Image"))

(* MainWindow shows the chat of p: setPeer, setMessages.                   *)
ShowPeer(p) ==
    /\ peer' = p /\ view' = Messages(p)
    /\ cache' = ClearMemory(cache)
    /\ Rebuild(view', <<>>) /\ ScrollToBottom
    /\ UNCHANGED <<offers, rows, gone>>

(* A text is stored, and appended if its chat is open: appendMessage.      *)
AppendMessage(p) ==
    LET i == Len(rows) + 1
        atBottom == scroll >= MaxScroll(view, trees, offsets) - Height.near
    IN /\ Len(rows) < Len(offers) + MaxTexts
       /\ rows' = AddMessage(rows, NewRow(p, "Done", NoPath))
       /\ IF p = peer
          THEN /\ view' = Append(view, [id |-> i, status |-> "Done", path |-> NoPath])
               /\ trees' = Ensured(trees, view) /\ offsets' = Offsets(view', trees')
               /\ IF atBottom THEN ScrollToBottom ELSE UNCHANGED scroll
          ELSE UNCHANGED <<view, layoutVars>>
       /\ UNCHANGED <<offers, gone, peer, cache>>

-----------------------------------------------------------------------------
(* App updates a message.                                                  *)

(* updateMessage: an empty path is not taken over.                         *)
NewCopy(m, status, path) == [m EXCEPT !.status = status, !.path = IF path = NoPath THEN @ ELSE path]

(* updateMessage on the k-th message: a thumbnail goes when the transfer   *)
(* is complete, and so does a tree of another root.                        *)
UpdateView(k, status, path) ==
    LET old == view[k]
        new == NewCopy(old, status, path)
        stale == Kind(new.id) = "Folder" /\ status = "Done" /\ new.path # NoPath
                    /\ new.id \in DOMAIN trees /\ trees[new.id].rootPath # new.path
    IN /\ view' = [view EXCEPT ![k] = new]
       /\ cache' = IF Kind(new.id) = "Image" /\ old.status # "Done" /\ status = "Done"
                   THEN Invalidate(cache, new.id) ELSE cache
       /\ Rebuild(view', [i \in DOMAIN trees \ {j \in {new.id} : stale} |-> trees[i]])

(* messageUpdated, for the chat that is open.                              *)
MessageUpdated(i, status, path) ==
    /\ rows' = UpdateMessage(rows, i, status, path)
    /\ IF \E k \in DOMAIN view : view[k].id = i
       THEN \E k \in DOMAIN view : view[k].id = i /\ UpdateView(k, status, path)
       ELSE UNCHANGED <<view, trees, offsets, cache>>
    /\ UNCHANGED <<offers, gone, peer, scroll>>

(* The user's answers: App passes on the row it read.                      *)
Answered(i) ==
    /\ ~offers[i].out
    /\ \E status \in CASE rows[i].status = "WaitingAccept" -> {"Transferring", "Denied"}
                       [] rows[i].status \in {"Done", "Denied"} -> {"RequestAgain"}
                       [] OTHER -> {} :
          MessageUpdated(i, status, rows[i].path)

(* The transfer of i begins or goes on, one of its files is complete, or   *)
(* all of them are.  Only a received folder comes with a path at the end.  *)
Progress(i) == /\ offers[i].out \/ rows[i].status = "Transferring"
               /\ MessageUpdated(i, "Transferring", NoPath)

FileFinished(i) == /\ ~offers[i].out /\ Kind(i) # "Folder" /\ rows[i].status = "Transferring"
                   /\ MessageUpdated(i, "Transferring", LocalPath)

BatchFinished(i) ==
    /\ rows[i].status = "Transferring"
    /\ MessageUpdated(i, "Done", IF Kind(i) = "Folder" /\ ~offers[i].out
                                 THEN LocalPath ELSE NoPath)

Refused(i) == offers[i].out /\ rows[i].status = "WaitingAccept" /\ MessageUpdated(i, "Denied", NoPath)

(* The file or the folder of a message is deleted.                         *)
FileGone(i) ==
    /\ Cardinality(gone) < MaxClears /\ i \notin gone
    /\ gone' = gone \union {i}
    /\ UNCHANGED <<offers, rows, peer, view, layoutVars, cache>>

-----------------------------------------------------------------------------
(* What the user does in the view.                                         *)

Wheel(d) ==
    LET max == MaxScroll(view, trees, offsets)
        to == scroll + d
    IN /\ scroll' = IF to < 0 THEN 0 ELSE AtMost(to, max)
       /\ UNCHANGED <<offers, rows, gone, peer, view, trees, offsets, cache>>

ScrollButton ==
    /\ scroll < MaxScroll(view, trees, offsets) - Height.near
    /\ scroll' = MaxScroll(view, trees, offsets)
    /\ UNCHANGED <<offers, rows, gone, peer, view, trees, offsets, cache>>

(* Mutant: the rows below stay where they were.                            *)
ClickLineOnly(k, line) ==
    LET i == view[k].id
    IN /\ i \in DOMAIN trees /\ line \in ToSet(Visible(trees[i]))
       /\ line.more \/ line.path = Root \/ line.path \in trees[i].dirs
       /\ trees' = [trees EXCEPT ![i] = IF line.more THEN LoadMore(@, line.path)
                                        ELSE Toggle(@, line.path)]
       /\ UNCHANGED <<offers, rows, gone, peer, view, offsets, scroll, cache>>

(* A click on a directory of the k-th message, or on a sentinel.           *)
ClickLine(k, line) ==
    LET i == view[k].id
    IN /\ i \in DOMAIN trees /\ line \in ToSet(Visible(trees[i]))
       /\ line.more \/ line.path = Root \/ line.path \in trees[i].dirs
       /\ Rebuild(view, [trees EXCEPT ![i] = IF line.more THEN LoadMore(@, line.path)
                                             ELSE Toggle(@, line.path)])
       /\ UNCHANGED <<offers, rows, gone, peer, view, scroll, cache>>

(* thumbnail(): from the cache, else from the complete file, else from the *)
(* preview that came with the offer.                                       *)
Source(m) == IF m.status = "Done" /\ m.path # NoPath
             THEN IF m.id \in gone THEN NoImage ELSE "sharp"
             ELSE IF offers[m.id].preview THEN "blurred" ELSE NoImage

Thumbnail(c, m) == LET got == Get(c, m.id)
                   IN IF got.mem[m.id] # NoImage THEN got ELSE Put(got, m.id, Source(m))

(* paintEvent: treeFor for the rows down to the first one below the view,  *)
(* and thumbnails for the images in it.                                    *)
Paint ==
    LET below == {k \in DOMAIN view : offsets[k] > scroll + Height.view}
        last == IF below = {} THEN Len(view) ELSE CHOOSE k \in below : \A j \in below : k <= j
        images == {k \in DOMAIN view \ below : /\ Kind(view[k].id) = "Image"
                                              /\ offsets[k] + RowHeight(view[k], trees) >= scroll}
        drawn[k \in 0..last] == IF k = 0 THEN cache
                                ELSE IF k \in images THEN Thumbnail(drawn[k - 1], view[k])
                                ELSE drawn[k - 1]
    IN /\ trees' = Ensured(trees, SubSeq(view, 1, last))
       /\ cache' = drawn[last]
       /\ UNCHANGED <<offers, rows, gone, peer, view, offsets, scroll>>

Next == \/ \E p \in Peers : ShowPeer(p) \/ AppendMessage(p)
        \/ \E i \in DOMAIN offers : Answered(i) \/ Progress(i) \/ FileFinished(i)
                                        \/ BatchFinished(i) \/ Refused(i) \/ FileGone(i)
        \/ \E d \in {-Height.step, Height.step} : Wheel(d)
        \/ ScrollButton
        \/ \E k \in DOMAIN view : \E i \in {view[k].id} \intersect DOMAIN trees :
              \E line \in ToSet(Visible(trees[i])) : ClickLine(k, line)
        \/ Paint

Spec == Init /\ [][Next]_vars

-----------------------------------------------------------------------------
(* Every part of the view has its type: the memory of the cache holds at   *)
(* most Slots thumbnails, each listed once in the order of use, and no     *)
(* directory shows more entries than it has (ThumbCache.cpp, FolderTreeState.cpp). *)
TypeOK ==
    /\ offers \in Stores /\ DOMAIN rows \in {1..n : n \in Len(offers)..(Len(offers) + MaxTexts)}
    /\ \A i \in Ids : rows[i].status \in Statuses /\ rows[i].path \in {NoPath, LocalPath}
    /\ gone \subseteq DOMAIN offers /\ peer \in Peers \union {0}
    /\ view \in Seq(Copy) /\ \A k \in DOMAIN view : rows[view[k].id].peer = peer
    /\ DOMAIN trees \subseteq OfKind("Folder") /\ scroll \in Nat
    /\ \A i \in DOMAIN trees :
          /\ trees[i].expanded \subseteq {Root} \union trees[i].dirs
          /\ trees[i].expanded \subseteq DOMAIN trees[i].revealed
          /\ \A d \in DOMAIN trees[i].revealed :
                trees[i].revealed[d] \in 0..Len(Children(trees[i], d))
    /\ cache.mem \in [OfKind("Image") -> Images \union {NoImage}]
    /\ cache.disk \in [OfKind("Image") -> Images \union {NoImage}]
    /\ IsInjective(cache.order) /\ Len(cache.order) <= Slots
    /\ ToSet(cache.order) = {i \in DOMAIN cache.mem : cache.mem[i] # NoImage}

(* A picture that becomes complete while its chat is open is not drawn     *)
(* from the blurred preview that was made for the offer, as long as the    *)
(* view still holds the path of its file, whatever left the memory for the *)
(* disk and came back before (updateMessage, thumbnail, ThumbCache).  That *)
(* every complete picture is drawn sharp is NOT so: the store has lost the *)
(* path when the batch ends (App.cpp:158-165), so in a chat that is opened *)
(* again a complete picture has none and is drawn from the preview.        *)
ThumbFresh ==
    \A k \in DOMAIN view :
        (/\ Kind(view[k].id) = "Image"
         /\ view[k].status = "Done" /\ view[k].path # NoPath)
            => Get(cache, view[k].id).mem[view[k].id] # "blurred"

(* The lines of a tree are the entries below expanded directories that are *)
(* within what each directory shows, every entry once and in the order of  *)
(* the tree; and where a directory shows less than it has, the last line   *)
(* below it is followed by a sentinel, its own or that of a directory      *)
(* around it (rebuild, appendRows, and the walk of draw and hitTestAction). *)
TreeShown ==
    \A t \in {trees[i] : i \in DOMAIN trees} :
        LET lines == Visible(t)
            entries == {k \in DOMAIN lines : ~lines[k].more}
        IN /\ {lines[k].path : k \in entries} = Shown(t)
           /\ \A j, k \in entries : j < k => Above(t, lines[j].path, lines[k].path)
           /\ \A d \in t.expanded \intersect Shown(t) :
                 t.revealed[d] < Len(Children(t, d)) =>
                    \E k \in DOMAIN lines :
                        /\ lines[k].more /\ Under(d, lines[k].path)
                        /\ Under(lines[k - 1].path, d)
                        /\ \A j \in entries : j > k => ~Under(lines[j].path, d)

(* Where a message is drawn and hit agrees with the heights of the         *)
(* messages above it, for all whose height does not hang on a scan of the  *)
(* disk: no change of a message, a tree or the chat leaves an old layout   *)
(* behind (rebuildLayout, messageAt, paintEvent).                          *)
LayoutFresh ==
    /\ Len(offsets) = Len(view)
    /\ \A k \in 1..(Len(view) - 1) :
          (Kind(view[k].id) # "Folder" \/ Snapshot(view[k].id) # Nothing)
            => offsets[k + 1] - offsets[k] = RowHeight(view[k], trees)
=============================================================================
