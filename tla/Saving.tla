------------------------------- MODULE Saving -------------------------------
(***************************************************************************)
(* Where TransferServer puts the files it receives: several connections,   *)
(* each with one file after another, choose names in one directory and     *)
(* write chunk by chunk, as their data arrives.  TransferStream says what  *)
(* arrives on one connection; here only its size, and whether the digest   *)
(* matches in the end, are left.                                           *)
(*                                                                         *)
(* The files are numbered as they are begun.  What a path holds is, for    *)
(* each chunk, the file that wrote it last: a file is intact where all its *)
(* chunks are its own.                                                     *)
(***************************************************************************)
EXTENDS Integers, FiniteSets

CONSTANTS Names,      \* what senders call their files
          Other,      \* [Names -> paths]: the name with _1 before its suffix
          Transfers,  \* connections
          MaxFiles,   \* bound on files begun
          MaxChunks   \* bound on the size of a file

ASSUME SizesAssumption == MaxFiles \in Nat /\ MaxChunks \in Nat \ {0}

VARIABLES disk,     \* what each path holds
          xfer,     \* the IncomingTransfers
          begun,    \* files begun
          promised  \* files that the user was told of, or had, and has not deleted, under
                    \* names and at times that make them safe: see Settled (history)

savingVars == <<disk, xfer, begun, promised>>

Paths == Names \union {Other[n] : n \in Names}
NoFile == <<>>
NoPath == "none"

ASSUME NamesAssumption == NoPath \notin Paths

(* The other name of a file may be a name that a sender gives, too: a      *)
(* photo_1.jpg beside a photo.jpg.  These are the names that no file gives *)
(* way to.                                                                 *)
Plain == Names \ {Other[n] : n \in Names}

Own == 0        \* the number of what was there before
Empty == -1     \* of a chunk nobody has written since the file was truncated

Contents == [1..MaxChunks -> {Empty, Own} \union (1..MaxFiles)]
Truncated == [k \in 1..MaxChunks |-> Empty]
Idle == [path |-> NoPath, file |-> 0, size |-> 0, got |-> 0, linked |-> FALSE]

Exists(p) == disk[p] # NoFile
Receiving(x) == xfer[x].path # NoPath
Open(p) == {x \in Transfers : xfer[x].path = p /\ xfer[x].linked}

(* What the file of number n and so many chunks looks like.                *)
Whole(n, size) == [k \in 1..MaxChunks |-> IF k <= size THEN n ELSE Empty]

SavingInit ==
    /\ disk \in [Paths -> {NoFile, Whole(Own, MaxChunks)}]
    /\ xfer = [x \in Transfers |-> Idle] /\ begun = 0
    /\ promised = {[path |-> p, file |-> Own, size |-> MaxChunks] :
                      p \in {q \in Plain : Exists(q)}}

(* Mutant: the name is always the sender's.                                *)
SavePathPlain(n) == n

(* A name that is taken gives way to its other name, taken or not.         *)
SavePath(n) == IF Exists(n) THEN Other[n] ELSE n

(* Nobody else writes or removes what one of xs may leave at p: p is plain, *)
(* and none of the other connections still receives a file of that name,   *)
(* which would be one that was deleted meanwhile.                          *)
Settled(p, xs) == p \in Plain /\ \A y \in Transfers \ xs : xfer[y].path # p

(* finishFile of t, which x has received, when the disk is d: the digest   *)
(* matches; or else the path is removed, whatever file has that name now,  *)
(* which may fail while another connection has it open.                    *)
KeepFile(x, t, d) ==
    /\ disk' = d /\ xfer' = [xfer EXCEPT ![x] = Idle]
    /\ promised' = promised \union
          {[path |-> p, file |-> t.file, size |-> t.size] :
              p \in {q \in {t.path} : t.linked /\ Settled(q, {x})}}

RejectFile(x, t, d) ==
    LET rest == Open(t.path) \ {x}
    IN /\ \/ /\ disk' = [d EXCEPT ![t.path] = NoFile]
             /\ xfer' = [y \in Transfers |->
                            IF y = x THEN Idle
                            ELSE IF y \in rest THEN [xfer[y] EXCEPT !.linked = FALSE]
                            ELSE xfer[y]]
          \/ rest # {} /\ disk' = d /\ xfer' = [xfer EXCEPT ![x] = Idle]
       /\ UNCHANGED promised

FinishFile(x, t, d) == KeepFile(x, t, d) \/ RejectFile(x, t, d)

(* A header with a name and a size: the file is opened and truncated, and  *)
(* an empty one is complete.                                               *)
BeginFile(x, n, size) ==
    LET t == [path |-> SavePath(n), file |-> begun + 1, size |-> size, got |-> 0,
              linked |-> TRUE]
        d == [disk EXCEPT ![t.path] = Truncated]
    IN /\ ~Receiving(x) /\ begun < MaxFiles /\ begun' = begun + 1
       /\ IF size = 0 THEN FinishFile(x, t, d)
          ELSE disk' = d /\ xfer' = [xfer EXCEPT ![x] = t] /\ UNCHANGED promised

(* A chunk is written where the file is; one that was removed from the     *)
(* directory goes on without a name.                                       *)
WriteChunk(x) ==
    LET t == xfer[x]
        d == IF t.linked THEN [disk EXCEPT ![t.path] = [@ EXCEPT ![t.got + 1] = t.file]]
             ELSE disk
    IN /\ Receiving(x) /\ UNCHANGED begun
       /\ IF t.got + 1 = t.size THEN FinishFile(x, t, d)
          ELSE disk' = d /\ xfer' = [xfer EXCEPT ![x].got = @ + 1] /\ UNCHANGED promised

(* abortTransfer: what has arrived stays.                                  *)
Abort(x) ==
    /\ Receiving(x)
    /\ xfer' = [xfer EXCEPT ![x] = Idle]
    /\ UNCHANGED <<disk, begun, promised>>

(* The user deletes a file, also, where the platform lets it happen, one   *)
(* that is being received; or puts one where there is none.                *)
UserDeletes(p) ==
    /\ Exists(p)
    /\ disk' = [disk EXCEPT ![p] = NoFile]
    /\ xfer' = [x \in Transfers |->
                   IF x \in Open(p) THEN [xfer[x] EXCEPT !.linked = FALSE] ELSE xfer[x]]
    /\ promised' = {f \in promised : f.path # p}
    /\ UNCHANGED begun

UserPuts(p) ==
    /\ ~Exists(p)
    /\ disk' = [disk EXCEPT ![p] = Whole(Own, MaxChunks)]
    /\ promised' = promised \union
          {[path |-> q, file |-> Own, size |-> MaxChunks] : q \in {r \in {p} : Settled(r, {})}}
    /\ UNCHANGED <<xfer, begun>>

SavingNext ==
    \/ \E x \in Transfers :
          \/ \E n \in Names, size \in 0..MaxChunks : BeginFile(x, n, size)
          \/ WriteChunk(x) \/ Abort(x)
    \/ \E p \in Paths : UserDeletes(p) \/ UserPuts(p)

SavingSpec == SavingInit /\ [][SavingNext]_savingVars

-----------------------------------------------------------------------------
(* The paths, the transfers and the bounds.                                *)
SavingTypeOK ==
    /\ disk \in [Paths -> Contents \union {NoFile}]
    /\ xfer \in [Transfers -> [path : Paths \union {NoPath}, file : 0..MaxFiles,
                               size : 0..MaxChunks, got : 0..MaxChunks,
                               linked : BOOLEAN]]
    /\ begun \in 0..MaxFiles
    /\ promised \subseteq [path : Plain, file : 0..MaxFiles, size : 0..MaxChunks]

(* A file that was received under the name its sender gave it, or that was *)
(* there under such a name before, stays whole until the user deletes it:  *)
(* no transfer that runs beside it, is repeated, fails its digest or       *)
(* breaks off truncates it, writes into it or removes it                   *)
(* (TransferServer.cpp:58-89, 183-194).  That is so of a name no other     *)
(* file gives way to, and of a file that was complete when no connection   *)
(* was left with a deleted file of the same name: another photo.jpg        *)
(* truncates a photo_1.jpg, and the digest of the deleted file may fail    *)
(* and remove the new one.                                                 *)
PlainKept == \A f \in promised : disk[f.path] = Whole(f.file, f.size)
=============================================================================
