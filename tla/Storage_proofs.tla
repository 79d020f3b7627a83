---------------------------- MODULE Storage_proofs ---------------------------
(***************************************************************************)
(* Proofs about what the program keeps in folders of its own: the files it *)
(* receives (Saving), for any names, connections, files and sizes, and its *)
(* preferences (Settings), for any folders, peers and numbers of changes.  *)
(***************************************************************************)
EXTENDS Saving, Settings, TLAPS

-----------------------------------------------------------------------------
(* Saving: types, and that files under plain names are kept.               *)

Xfer == [path : Paths \union {NoPath}, file : 0..MaxFiles, size : 0..MaxChunks,
         got : 0..MaxChunks, linked : BOOLEAN]

Promise == [path : Plain, file : 0..MaxFiles, size : 0..MaxChunks]

(* A connection that receives is not at the end of its file, and a path it *)
(* is linked to exists.                                                    *)
Midway == \A x \in Transfers : Receiving(x) =>
             xfer[x].got < xfer[x].size /\ (xfer[x].linked => Exists(xfer[x].path))

(* Under a plain name one connection at most receives a file that is still *)
(* there, and it is there as far as it has come.                           *)
Alone == \A x, y \in Transfers :
            /\ xfer[x].path \in Plain /\ xfer[y].path = xfer[x].path
            /\ xfer[x].linked /\ xfer[y].linked
            => x = y

Growing == \A x \in Transfers : xfer[x].path \in Plain /\ xfer[x].linked =>
              disk[xfer[x].path] = Whole(xfer[x].file, xfer[x].got)

(* Where something is promised nobody receives, a deleted file or another. *)
Quiescent == \A f \in promised : \A x \in Transfers : xfer[x].path # f.path

SavedInv == SavingTypeOK /\ Midway /\ Alone /\ Growing /\ Quiescent /\ PlainKept

(* x has received so many chunks of t, and with them the disk is d.        *)
Ready(x, t, d, got) ==
    /\ t \in Xfer /\ t.path # NoPath /\ d \in [Paths -> Contents \union {NoFile}]
    /\ \A p \in Paths : p # t.path => d[p] = disk[p]
    /\ \A p \in Paths : disk[p] # NoFile => d[p] # NoFile
    /\ t.linked => d[t.path] # NoFile
    /\ ~t.linked => d = disk
    /\ \A f \in promised : f.path # t.path
    /\ t.path \in Plain /\ t.linked =>
          /\ d[t.path] = Whole(t.file, got)
          /\ \A y \in Transfers : xfer[y].path = t.path /\ xfer[y].linked => y = x

-----------------------------------------------------------------------------
(* A file that has begun is a file.                                        *)
LEMMA WholeFacts ==
  ASSUME NEW n \in 0..MaxFiles, NEW size \in Int
  PROVE  Whole(n, size) \in Contents /\ Whole(n, size) # NoFile
<1>1. Whole(n, size) \in Contents
  BY SizesAssumption DEF Whole, Contents, Empty, Own
<1>2. DOMAIN Whole(n, size) # DOMAIN NoFile
  BY SizesAssumption DEF Whole, NoFile
<1> QED BY <1>1, <1>2

LEMMA TruncatedFacts ==
  /\ Truncated \in Contents /\ Truncated # NoFile
  /\ \A n \in 0..MaxFiles : Truncated = Whole(n, 0)
<1>1. Truncated \in Contents
  BY DEF Truncated, Contents
<1>2. DOMAIN Truncated # DOMAIN NoFile
  BY SizesAssumption DEF Truncated, NoFile
<1>3. \A n \in 0..MaxFiles : Truncated = Whole(n, 0)
  BY SizesAssumption DEF Truncated, Whole
<1> QED BY <1>1, <1>2, <1>3

LEMMA WholeGrows ==
  ASSUME NEW n \in 0..MaxFiles, NEW got \in 0..MaxChunks, got < MaxChunks
  PROVE  [Whole(n, got) EXCEPT ![got + 1] = n] = Whole(n, got + 1)
<1> DEFINE w == [Whole(n, got) EXCEPT ![got + 1] = n]
<1>1. got + 1 \in 1..MaxChunks
  BY SizesAssumption
<1>2. \A k \in 1..MaxChunks : w[k] = IF k = got + 1 THEN n ELSE IF k <= got THEN n ELSE Empty
  BY <1>1, SizesAssumption DEF Whole
<1>3. \A k \in 1..MaxChunks : w[k] = IF k <= got + 1 THEN n ELSE Empty
  BY <1>2, SizesAssumption
<1>4. w = [k \in 1..MaxChunks |-> w[k]]
  BY DEF Whole
<1> QED BY <1>3, <1>4 DEF Whole

LEMMA PathFacts ==
  /\ Plain \subseteq Names /\ Plain \subseteq Paths /\ Names \subseteq Paths
  /\ \A n \in Names : Other[n] \in Paths \ Plain
BY DEF Paths, Plain

LEMMA IdleFacts == Idle \in Xfer /\ Idle.path = NoPath /\ NoPath \notin Plain
BY NamesAssumption, SizesAssumption DEF Idle, Xfer, Paths, Plain

LEMMA TypeFacts ==
  SavingTypeOK =>
      /\ disk \in [Paths -> Contents \union {NoFile}] /\ xfer \in [Transfers -> Xfer]
      /\ begun \in 0..MaxFiles /\ promised \subseteq Promise
BY DEF SavingTypeOK, Xfer, Promise

-----------------------------------------------------------------------------
LEMMA SavingInitInv == SavingInit => SavedInv
<1> SUFFICES ASSUME SavingInit PROVE SavedInv
  OBVIOUS
<1>1. 0 \in 0..MaxFiles /\ MaxChunks \in 0..MaxChunks /\ MaxChunks \in Int
  BY SizesAssumption
<1>2. Whole(Own, MaxChunks) \in Contents /\ Whole(Own, MaxChunks) # NoFile
  BY <1>1, WholeFacts DEF Own
<1>3. SavingTypeOK
  BY <1>1, <1>2, IdleFacts, SizesAssumption DEF SavingInit, SavingTypeOK, Xfer, Own
<1>4. Midway /\ Alone /\ Growing /\ Quiescent
  BY IdleFacts DEF SavingInit, Midway, Alone, Growing, Quiescent, Receiving
<1>5. PlainKept
  BY PathFacts DEF SavingInit, PlainKept, Exists
<1> QED BY <1>3, <1>4, <1>5 DEF SavedInv

(* The two outcomes of a file.                                             *)
LEMMA KeepInv ==
  ASSUME SavedInv, NEW x \in Transfers, NEW t, NEW d, Ready(x, t, d, t.size), begun' \in 0..MaxFiles,
         KeepFile(x, t, d)
  PROVE  SavedInv'
<1> USE IdleFacts, TypeFacts
<1> DEFINE news == {[path |-> p, file |-> t.file, size |-> t.size] :
                       p \in {q \in {t.path} : t.linked /\ Settled(q, {x})}}
<1>1. /\ disk' = d /\ xfer' = [xfer EXCEPT ![x] = Idle] /\ promised' = promised \union news
  BY DEF KeepFile
<1>2. /\ xfer \in [Transfers -> Xfer] /\ promised \subseteq Promise
  BY DEF SavedInv
<1>3. \A f \in news :
         /\ f \in Promise /\ f.path = t.path /\ f.file = t.file /\ f.size = t.size
         /\ t.path \in Plain /\ t.linked
         /\ \A y \in Transfers \ {x} : xfer[y].path # t.path
  BY DEF Ready, Xfer, Promise, Settled
<1> HIDE DEF news
<1>4. SavingTypeOK'
  BY <1>1, <1>2, <1>3 DEF Ready, SavingTypeOK, Xfer, Promise
<1>5. /\ xfer'[x] = Idle
      /\ \A y \in Transfers : y # x => xfer'[y] = xfer[y]
  BY <1>1, <1>2
<1>6. Midway'
  <2> SUFFICES ASSUME NEW y \in Transfers, xfer'[y].path # NoPath
               PROVE  /\ xfer'[y].got < xfer'[y].size
                      /\ xfer'[y].linked => disk'[xfer'[y].path] # NoFile
    BY DEF Midway, Receiving, Exists
  <2>1. y # x /\ xfer'[y] = xfer[y]
    BY <1>5
  <2>2. xfer[y].path \in Paths
    BY <2>1, <1>2 DEF Xfer
  <2> QED BY <2>1, <2>2, <1>1 DEF SavedInv, Midway, Receiving, Exists, Ready
<1>7. Alone'
  BY <1>5 DEF SavedInv, Alone
<1>8. Growing'
  <2> SUFFICES ASSUME NEW y \in Transfers, xfer'[y].path \in Plain, xfer'[y].linked
               PROVE  disk'[xfer'[y].path] = Whole(xfer'[y].file, xfer'[y].got)
    BY DEF Growing, Whole
  <2>1. y # x /\ xfer'[y] = xfer[y] /\ disk[xfer[y].path] = Whole(xfer[y].file, xfer[y].got)
    BY <1>5 DEF SavedInv, Growing
  <2>2. d[xfer[y].path] = disk[xfer[y].path]
    BY <2>1, PathFacts DEF Ready
  <2> QED BY <2>1, <2>2, <1>1
<1>9. Quiescent'
  <2> SUFFICES ASSUME NEW f \in promised', NEW y \in Transfers
               PROVE  xfer'[y].path # f.path
    BY DEF Quiescent
  <2>1. f \in Promise /\ f.path \in Plain
    BY <1>1, <1>2, <1>3 DEF Promise
  <2> QED BY <2>1, <1>1, <1>3, <1>5 DEF SavedInv, Quiescent
<1>10. PlainKept'
  <2> SUFFICES ASSUME NEW f \in promised'
               PROVE  disk'[f.path] = Whole(f.file, f.size)
    BY DEF PlainKept, Whole
  <2>1. CASE f \in news
    BY <2>1, <1>1, <1>3 DEF Ready
  <2>2. CASE f \in promised
    <3>1. f.path \in Paths /\ disk[f.path] = Whole(f.file, f.size) /\ f.path # t.path
      BY <2>2, <1>2, PathFacts DEF SavedInv, PlainKept, Promise, Ready
    <3> QED BY <3>1, <1>1 DEF Ready
  <2> QED BY <2>1, <2>2, <1>1
<1> QED BY <1>4, <1>6, <1>7, <1>8, <1>9, <1>10 DEF SavedInv

LEMMA RejectInv ==
  ASSUME SavedInv, NEW x \in Transfers, NEW t, NEW d, Ready(x, t, d, t.size), begun' \in 0..MaxFiles,
         RejectFile(x, t, d)
  PROVE  SavedInv'
<1> USE IdleFacts, TypeFacts
<1> DEFINE rest == Open(t.path) \ {x}
<1>1. promised' = promised /\ xfer \in [Transfers -> Xfer] /\ promised \subseteq Promise
  BY DEF RejectFile, SavedInv
<1>3. PICK gone \in SUBSET rest :
         /\ disk' \in {d, [d EXCEPT ![t.path] = NoFile]}
         /\ \/ gone = rest /\ disk' = [d EXCEPT ![t.path] = NoFile]
            \/ gone = {} /\ disk' = d
         /\ xfer' = [y \in Transfers |-> IF y = x THEN Idle
                                         ELSE IF y \in gone THEN [xfer[y] EXCEPT !.linked = FALSE]
                                         ELSE xfer[y]]
  <2>1. CASE disk' = d /\ xfer' = [xfer EXCEPT ![x] = Idle] /\ rest # {}
    <3>1. xfer' = [y \in Transfers |-> IF y = x THEN Idle ELSE xfer[y]]
      BY <2>1, <1>1
    <3>2. xfer' = [y \in Transfers |-> IF y = x THEN Idle
                                      ELSE IF y \in {} THEN [xfer[y] EXCEPT !.linked = FALSE]
                                      ELSE xfer[y]]
      BY <3>1
    <3> WITNESS {} \in SUBSET rest
    <3> QED BY <2>1, <3>2
  <2>2. CASE /\ disk' = [d EXCEPT ![t.path] = NoFile]
             /\ xfer' = [y \in Transfers |-> IF y = x THEN Idle
                                             ELSE IF y \in rest THEN [xfer[y] EXCEPT !.linked = FALSE]
                                             ELSE xfer[y]]
    <3> WITNESS rest \in SUBSET rest
    <3> QED BY <2>2
  <2> QED BY <2>1, <2>2 DEF RejectFile
<1>4. /\ xfer'[x] = Idle
      /\ \A y \in Transfers \ {x} :
            /\ xfer'[y] \in Xfer /\ xfer'[y].path = xfer[y].path
            /\ xfer'[y].got = xfer[y].got /\ xfer'[y].size = xfer[y].size
            /\ xfer'[y].file = xfer[y].file
            /\ xfer'[y].linked = (xfer[y].linked /\ y \notin gone)
  <2>1. xfer'[x] = Idle
    BY <1>3
  <2>2. ASSUME NEW y \in Transfers \ {x}
        PROVE  /\ xfer'[y] \in Xfer /\ xfer'[y].path = xfer[y].path
               /\ xfer'[y].got = xfer[y].got /\ xfer'[y].size = xfer[y].size
               /\ xfer'[y].file = xfer[y].file
               /\ xfer'[y].linked = (xfer[y].linked /\ y \notin gone)
    <3>1. xfer[y] \in Xfer
      BY <1>1
    <3>2. CASE y \in gone
      <4>1. xfer'[y] = [xfer[y] EXCEPT !.linked = FALSE]
        BY <1>3, <3>2
      <4> QED BY <4>1, <3>1, <3>2 DEF Xfer
    <3>3. CASE y \notin gone
      <4>1. xfer'[y] = xfer[y]
        BY <1>3, <3>3
      <4> QED BY <4>1, <3>1, <3>3 DEF Xfer
    <3> QED BY <3>2, <3>3
  <2> QED BY <2>1, <2>2
<1>5. SavingTypeOK'
  <2>1. disk' \in [Paths -> Contents \union {NoFile}]
    BY <1>3 DEF Ready
  <2>2. \A y \in Transfers : xfer'[y] \in Xfer
    BY <1>4
  <2>3. xfer' \in [Transfers -> Xfer]
    BY <1>3, <2>2
  <2> QED BY <1>1, <2>1, <2>3 DEF SavingTypeOK, Xfer, Promise
<1>6. ASSUME NEW p \in Paths, p # t.path PROVE disk'[p] = disk[p]
  BY <1>3, <1>6 DEF Ready
<1>7. Midway'
  <2> SUFFICES ASSUME NEW y \in Transfers, xfer'[y].path # NoPath
               PROVE  /\ xfer'[y].got < xfer'[y].size
                      /\ xfer'[y].linked => disk'[xfer'[y].path] # NoFile
    BY DEF Midway, Receiving, Exists
  <2>1. y # x /\ xfer[y].path \in Paths /\ xfer[y].got < xfer[y].size
    BY <1>1, <1>4 DEF Xfer, SavedInv, Midway, Receiving
  <2>2. ASSUME xfer'[y].linked PROVE disk'[xfer'[y].path] # NoFile
    <3>1. xfer[y].linked /\ y \notin gone /\ disk[xfer[y].path] # NoFile
      BY <2>1, <2>2, <1>4 DEF SavedInv, Midway, Receiving, Exists
    <3>2. CASE xfer[y].path # t.path
      BY <3>1, <3>2, <2>1, <1>4, <1>6
    <3>3. CASE xfer[y].path = t.path
      <4>1. y \in rest
        BY <3>1, <3>3, <2>1 DEF Open
      <4> QED BY <4>1, <3>1, <3>3, <2>1, <1>3, <1>4 DEF Ready
    <3> QED BY <3>2, <3>3
  <2> QED BY <2>1, <2>2, <1>4
<1>8. Alone'
  <2> SUFFICES ASSUME NEW y \in Transfers, NEW z \in Transfers,
                      xfer'[y].path \in Plain, xfer'[z].path = xfer'[y].path,
                      xfer'[y].linked, xfer'[z].linked
               PROVE  y = z
    BY DEF Alone
  <2> QED BY <1>4 DEF SavedInv, Alone
<1>9. Growing'
  <2> SUFFICES ASSUME NEW y \in Transfers, xfer'[y].path \in Plain, xfer'[y].linked
               PROVE  disk'[xfer'[y].path] = Whole(xfer'[y].file, xfer'[y].got)
    BY DEF Growing, Whole
  <2>1. /\ y # x /\ y \notin gone /\ xfer[y].path \in Plain /\ xfer[y].linked
        /\ xfer'[y].path = xfer[y].path /\ xfer'[y].file = xfer[y].file
        /\ xfer'[y].got = xfer[y].got
    BY <1>4
  <2>2. disk[xfer[y].path] = Whole(xfer[y].file, xfer[y].got)
    BY <2>1 DEF SavedInv, Growing
  <2>3. disk'[xfer[y].path] = disk[xfer[y].path]
    <3>1. CASE xfer[y].path # t.path
      BY <2>1, <3>1, <1>6, PathFacts
    <3>2. CASE xfer[y].path = t.path
      <4>1. y \in rest /\ ~t.linked
        BY <2>1, <3>2 DEF Open, Ready
      <4> QED BY <4>1, <2>1, <1>3 DEF Ready
    <3> QED BY <3>1, <3>2
  <2>4. Whole(xfer'[y].file, xfer'[y].got) = Whole(xfer[y].file, xfer[y].got)
    BY <2>1
  <2> QED BY <2>1, <2>2, <2>3, <2>4
<1>10. Quiescent'
  <2> SUFFICES ASSUME NEW f \in promised, NEW y \in Transfers
               PROVE  xfer'[y].path # f.path
    BY <1>1 DEF Quiescent
  <2>1. f.path \in Plain
    BY <1>1 DEF Promise
  <2> QED BY <2>1, <1>4 DEF SavedInv, Quiescent
<1>11. PlainKept'
  <2> SUFFICES ASSUME NEW f \in promised
               PROVE  disk'[f.path] = Whole(f.file, f.size)
    BY <1>1 DEF PlainKept, Whole
  <2>1. f.path \in Paths /\ disk[f.path] = Whole(f.file, f.size) /\ f.path # t.path
    BY <1>1, PathFacts DEF SavedInv, PlainKept, Promise, Ready
  <2> QED BY <2>1, <1>6
<1> QED BY <1>5, <1>7, <1>8, <1>9, <1>10, <1>11 DEF SavedInv

LEMMA FinishInv ==
  ASSUME SavedInv, NEW x \in Transfers, NEW t, NEW d, Ready(x, t, d, t.size), begun' \in 0..MaxFiles,
         FinishFile(x, t, d)
  PROVE  SavedInv'
BY KeepInv, RejectInv DEF FinishFile

-----------------------------------------------------------------------------
(* More is to come.                                                        *)
LEMMA GoesOnInv ==
  ASSUME SavedInv, NEW x \in Transfers, NEW t, NEW d, Ready(x, t, d, t.got), t.got < t.size,
         begun' \in 0..MaxFiles, disk' = d, xfer' = [xfer EXCEPT ![x] = t],
         UNCHANGED promised
  PROVE  SavedInv'
<1> USE IdleFacts, TypeFacts
<1>1. /\ xfer \in [Transfers -> Xfer] /\ promised \subseteq Promise
  BY DEF SavedInv
<1>2. /\ xfer'[x] = t
      /\ \A y \in Transfers : y # x => xfer'[y] = xfer[y]
  BY <1>1
<1>3. SavingTypeOK'
  BY <1>1 DEF Ready, SavingTypeOK, Xfer, Promise
<1>4. Midway'
  <2> SUFFICES ASSUME NEW y \in Transfers, xfer'[y].path # NoPath
               PROVE  /\ xfer'[y].got < xfer'[y].size
                      /\ xfer'[y].linked => disk'[xfer'[y].path] # NoFile
    BY DEF Midway, Receiving, Exists
  <2>1. CASE y = x
    BY <2>1, <1>2 DEF Ready
  <2>2. CASE y # x
    <3>1. xfer[y].path \in Paths
      BY <2>2, <1>1, <1>2 DEF Xfer
    <3> QED BY <2>2, <3>1, <1>2 DEF SavedInv, Midway, Receiving, Exists, Ready
  <2> QED BY <2>1, <2>2
<1>5. Alone'
  <2> SUFFICES ASSUME NEW y \in Transfers, NEW z \in Transfers,
                      xfer'[y].path \in Plain, xfer'[z].path = xfer'[y].path,
                      xfer'[y].linked, xfer'[z].linked
               PROVE  y = z
    BY DEF Alone
  <2>1. CASE y = x \/ z = x
    BY <2>1, <1>2 DEF Ready
  <2>2. CASE y # x /\ z # x
    BY <2>2, <1>2 DEF SavedInv, Alone
  <2> QED BY <2>1, <2>2
<1>6. ASSUME NEW p \in Paths, p # t.path PROVE disk'[p] = disk[p]
  BY <1>6 DEF Ready
<1>7. Growing'
  <2> SUFFICES ASSUME NEW y \in Transfers, xfer'[y].path \in Plain, xfer'[y].linked
               PROVE  disk'[xfer'[y].path] = Whole(xfer'[y].file, xfer'[y].got)
    BY DEF Growing, Whole
  <2>1. CASE y = x
    BY <2>1, <1>2 DEF Ready
  <2>2. CASE y # x
    <3>1. xfer'[y] = xfer[y] /\ disk[xfer[y].path] = Whole(xfer[y].file, xfer[y].got)
      BY <2>2, <1>2 DEF SavedInv, Growing
    <3>2. disk'[xfer[y].path] = disk[xfer[y].path]
      <4>1. CASE xfer[y].path # t.path
        BY <3>1, <4>1, <1>6, PathFacts
      <4>2. CASE xfer[y].path = t.path
        BY <2>2, <3>1, <4>2 DEF Ready
      <4> QED BY <4>1, <4>2
    <3> QED BY <3>1, <3>2
  <2> QED BY <2>1, <2>2
<1>8. Quiescent'
  BY <1>2 DEF SavedInv, Quiescent, Ready
<1>9. PlainKept'
  <2> SUFFICES ASSUME NEW f \in promised
               PROVE  disk'[f.path] = Whole(f.file, f.size)
    BY DEF PlainKept, Whole
  <2>1. f.path \in Paths /\ disk[f.path] = Whole(f.file, f.size) /\ f.path # t.path
    BY <1>1, PathFacts DEF SavedInv, PlainKept, Promise, Ready
  <2> QED BY <2>1, <1>6
<1> QED BY <1>3, <1>4, <1>5, <1>7, <1>8, <1>9 DEF SavedInv

-----------------------------------------------------------------------------
LEMMA BeginInv ==
  ASSUME SavedInv, NEW x \in Transfers, NEW n \in Names, NEW size \in 0..MaxChunks,
         BeginFile(x, n, size)
  PROVE  SavedInv'
<1> USE IdleFacts, TypeFacts
<1> DEFINE t == [path |-> SavePath(n), file |-> begun + 1, size |-> size, got |-> 0,
                 linked |-> TRUE]
           d == [disk EXCEPT ![t.path] = Truncated]
<1>1. /\ xfer \in [Transfers -> Xfer] /\ promised \subseteq Promise
      /\ disk \in [Paths -> Contents \union {NoFile}] /\ begun \in 0..MaxFiles
  BY DEF SavedInv
<1>2. /\ ~Receiving(x) /\ begun' = begun + 1 /\ begun' \in 0..MaxFiles
  BY <1>1, SizesAssumption DEF BeginFile
<1>3. t.path \in Paths /\ (t.path \in Plain => t.path = n /\ ~Exists(n)) /\ t.path # NoPath
  <2>1. CASE Exists(n)
    BY <2>1, PathFacts, NamesAssumption DEF SavePath
  <2>2. CASE ~Exists(n)
    BY <2>2, PathFacts, NamesAssumption DEF SavePath
  <2> QED BY <2>1, <2>2
<1>4. t \in Xfer
  BY <1>2, <1>3, SizesAssumption DEF Xfer
<1>5. /\ d \in [Paths -> Contents \union {NoFile}] /\ d[t.path] = Truncated
      /\ \A p \in Paths : p # t.path => d[p] = disk[p]
      /\ \A p \in Paths : disk[p] # NoFile => d[p] # NoFile
  BY <1>1, <1>3, TruncatedFacts
<1>6. /\ \A y \in Transfers : xfer[y].path = t.path /\ xfer[y].linked => t.path \notin Plain
      /\ \A f \in promised : f.path # t.path
  <2>1. ASSUME NEW y \in Transfers, xfer[y].path = t.path, xfer[y].linked, t.path \in Plain
        PROVE  FALSE
    <3>1. Receiving(y)
      BY <2>1, <1>3 DEF Receiving
    <3> QED BY <2>1, <3>1, <1>3 DEF SavedInv, Midway
  <2>2. ASSUME NEW f \in promised, f.path = t.path PROVE FALSE
    <3>1. disk[f.path] = Whole(f.file, f.size) /\ f.path \in Plain
      BY <2>2, <1>1 DEF SavedInv, PlainKept, Promise
    <3>2. f.file \in 0..MaxFiles /\ f.size \in Int
      BY <1>1, <2>2, SizesAssumption DEF Promise
    <3> QED BY <2>2, <3>1, <3>2, <1>3, WholeFacts DEF Exists
  <2> QED BY <2>1, <2>2
<1>7. Truncated = Whole(t.file, 0)
  BY <1>4, TruncatedFacts DEF Xfer
<1>8. Ready(x, t, d, 0)
  BY <1>3, <1>4, <1>5, <1>6, <1>7, TruncatedFacts DEF Ready
<1>9. CASE size = 0
  <2>1. FinishFile(x, t, d) /\ t.size = 0
    BY <1>9 DEF BeginFile
  <2>2. Ready(x, t, d, t.size)
    BY <1>8, <2>1
  <2> HIDE DEF t, d
  <2> QED BY <2>1, <2>2, <1>2, FinishInv
<1>10. CASE size # 0
  <2>1. /\ disk' = d /\ xfer' = [xfer EXCEPT ![x] = t] /\ UNCHANGED promised
        /\ t.got = 0 /\ t.got < t.size
    BY <1>10, SizesAssumption DEF BeginFile
  <2>2. Ready(x, t, d, t.got)
    BY <1>8, <2>1
  <2> HIDE DEF t, d
  <2> QED BY <2>1, <2>2, <1>2, GoesOnInv
<1> QED BY <1>9, <1>10

LEMMA WriteInv ==
  ASSUME SavedInv, NEW x \in Transfers, WriteChunk(x)
  PROVE  SavedInv'
<1> USE IdleFacts, TypeFacts
<1> DEFINE t == xfer[x]
           d == IF t.linked THEN [disk EXCEPT ![t.path] = [@ EXCEPT ![t.got + 1] = t.file]]
                ELSE disk
           more == [t EXCEPT !.got = @ + 1]
<1>1. /\ xfer \in [Transfers -> Xfer] /\ t \in Xfer /\ promised \subseteq Promise
      /\ disk \in [Paths -> Contents \union {NoFile}] /\ begun' \in 0..MaxFiles
  BY DEF SavedInv, WriteChunk
<1>2. t.path \in Paths /\ t.path # NoPath /\ t.got < t.size /\ (t.linked => Exists(t.path))
  BY <1>1 DEF WriteChunk, Receiving, SavedInv, Midway, Xfer
<1>3. t.got + 1 \in 0..MaxChunks /\ t.got + 1 <= t.size /\ t.got < MaxChunks
  BY <1>1, <1>2, SizesAssumption DEF Xfer
<1>4. ASSUME t.linked
      PROVE  [disk[t.path] EXCEPT ![t.got + 1] = t.file] \in Contents
  <2>1. disk[t.path] \in Contents
    BY <1>1, <1>2, <1>4 DEF Exists
  <2>2. t.file \in 0..MaxFiles /\ (t.file = 0 \/ t.file \in 1..MaxFiles)
    BY <1>1, SizesAssumption DEF Xfer
  <2> QED BY <2>1, <2>2 DEF Contents, Own
<1>5. \A c \in Contents : c # NoFile
  <2>1. ASSUME NEW c \in Contents PROVE DOMAIN c # DOMAIN NoFile
    BY SizesAssumption DEF Contents, NoFile
  <2> QED BY <2>1
<1>6. /\ d \in [Paths -> Contents \union {NoFile}]
      /\ \A p \in Paths : p # t.path => d[p] = disk[p]
      /\ \A p \in Paths : disk[p] # NoFile => d[p] # NoFile
      /\ t.linked => d[t.path] = [disk[t.path] EXCEPT ![t.got + 1] = t.file]
  BY <1>1, <1>2, <1>4, <1>5
<1>7. /\ ~t.linked => d = disk
      /\ \A f \in promised : f.path # t.path
      /\ t.path \in Plain /\ t.linked =>
            /\ d[t.path] = Whole(t.file, t.got + 1)
            /\ \A y \in Transfers : xfer[y].path = t.path /\ xfer[y].linked => y = x
  <2>1. ASSUME t.path \in Plain, t.linked
        PROVE  d[t.path] = Whole(t.file, t.got + 1)
    <3>1. disk[t.path] = Whole(t.file, t.got)
      BY <2>1 DEF SavedInv, Growing
    <3>2. [Whole(t.file, t.got) EXCEPT ![t.got + 1] = t.file] = Whole(t.file, t.got + 1)
      BY <1>1, <1>3, WholeGrows DEF Xfer
    <3> QED BY <2>1, <3>1, <3>2, <1>6
  <2>2. \A f \in promised : f.path # t.path
    BY DEF SavedInv, Quiescent
  <2>3. t.path \in Plain /\ t.linked =>
           \A y \in Transfers : xfer[y].path = t.path /\ xfer[y].linked => y = x
    BY DEF SavedInv, Alone
  <2> QED BY <2>1, <2>2, <2>3
<1>8. t.linked => d[t.path] # NoFile
  BY <1>2, <1>6 DEF Exists
<1>9. CASE t.got + 1 = t.size
  <2>1. FinishFile(x, t, d)
    BY <1>9 DEF WriteChunk
  <2>2. Ready(x, t, d, t.size)
    BY <1>1, <1>2, <1>6, <1>7, <1>8, <1>9 DEF Ready
  <2> HIDE DEF t, d
  <2> QED BY <2>1, <2>2, <1>1, FinishInv
<1>10. CASE t.got + 1 # t.size
  <2>1. /\ disk' = d /\ xfer' = [xfer EXCEPT ![x] = more] /\ UNCHANGED promised
    BY <1>10, <1>1 DEF WriteChunk
  <2>2. /\ more \in Xfer /\ more.path = t.path /\ more.file = t.file /\ more.size = t.size
        /\ more.got = t.got + 1 /\ more.linked = t.linked
    BY <1>1, <1>3 DEF Xfer
  <2>3. more.got < more.size
    BY <2>2, <1>1, <1>3, <1>10, SizesAssumption DEF Xfer
  <2>4. Ready(x, more, d, more.got)
    <3> HIDE DEF more, d
    <3> QED BY <2>2, <1>1, <1>2, <1>6, <1>7, <1>8 DEF Ready
  <2> HIDE DEF t, d, more
  <2> QED BY <2>1, <2>3, <2>4, <1>1, GoesOnInv
<1> QED BY <1>9, <1>10

LEMMA AbortInv ==
  ASSUME SavedInv, NEW x \in Transfers, Abort(x)
  PROVE  SavedInv'
<1> USE IdleFacts, TypeFacts
<1>1. /\ xfer \in [Transfers -> Xfer] /\ xfer' = [xfer EXCEPT ![x] = Idle]
      /\ UNCHANGED <<disk, begun, promised>>
  BY DEF SavedInv, Abort
<1>2. \A y \in Transfers : xfer'[y] = Idle \/ xfer'[y] = xfer[y]
  BY <1>1
<1>3. SavingTypeOK'
  BY <1>1 DEF SavedInv, SavingTypeOK, Xfer
<1>4. Midway' /\ Alone'
  BY <1>1, <1>2 DEF SavedInv, Midway, Alone, Receiving, Exists
<1>5. Growing'
  BY <1>1, <1>2 DEF SavedInv, Growing, Whole
<1>6. Quiescent'
  <2>1. \A f \in promised : f.path \in Plain
    BY DEF SavedInv, Promise
  <2> QED BY <2>1, <1>1, <1>2 DEF SavedInv, Quiescent
<1>7. PlainKept'
  BY <1>1 DEF SavedInv, PlainKept, Whole
<1> QED BY <1>3, <1>4, <1>5, <1>6, <1>7 DEF SavedInv

LEMMA UserInv ==
  ASSUME SavedInv, NEW p \in Paths, UserDeletes(p) \/ UserPuts(p)
  PROVE  SavedInv'
<1> USE IdleFacts, TypeFacts
<1>1. /\ disk \in [Paths -> Contents \union {NoFile}] /\ xfer \in [Transfers -> Xfer]
      /\ promised \subseteq Promise /\ UNCHANGED begun
  BY DEF SavedInv, UserDeletes, UserPuts
<1>2. 0 \in 0..MaxFiles /\ MaxChunks \in 0..MaxChunks /\ MaxChunks \in Int
  BY SizesAssumption
<1>3. Whole(Own, MaxChunks) \in Contents
  BY <1>2, WholeFacts DEF Own
<1>4. PICK c \in {NoFile, Whole(Own, MaxChunks)} : disk' = [disk EXCEPT ![p] = c]
  BY DEF UserDeletes, UserPuts
<1>5. /\ xfer' \in [Transfers -> Xfer]
      /\ \A y \in Transfers :
            /\ xfer'[y].path = xfer[y].path /\ xfer'[y].file = xfer[y].file
            /\ xfer'[y].got = xfer[y].got /\ xfer'[y].size = xfer[y].size
            /\ xfer'[y].linked => xfer[y].linked /\ xfer[y].path # p
  <2>1. CASE UserDeletes(p)
    <3>1. xfer' = [y \in Transfers |-> IF y \in Open(p) THEN [xfer[y] EXCEPT !.linked = FALSE]
                                       ELSE xfer[y]]
      BY <2>1 DEF UserDeletes
    <3>2. ASSUME NEW y \in Transfers
          PROVE  /\ xfer'[y] \in Xfer
                 /\ xfer'[y].path = xfer[y].path /\ xfer'[y].file = xfer[y].file
                 /\ xfer'[y].got = xfer[y].got /\ xfer'[y].size = xfer[y].size
                 /\ xfer'[y].linked => xfer[y].linked /\ xfer[y].path # p
      <4>1. xfer[y] \in Xfer
        BY <1>1
      <4>2. CASE y \in Open(p)
        <5>1. xfer'[y] = [xfer[y] EXCEPT !.linked = FALSE]
          BY <3>1, <4>2
        <5> QED BY <5>1, <4>1 DEF Xfer
      <4>3. CASE y \notin Open(p)
        <5>1. xfer'[y] = xfer[y]
          BY <3>1, <4>3
        <5> QED BY <5>1, <4>1, <4>3 DEF Xfer, Open
      <4> QED BY <4>2, <4>3
    <3> QED BY <3>1, <3>2
  <2>2. CASE UserPuts(p)
    <3>1. xfer' = xfer /\ ~Exists(p)
      BY <2>2 DEF UserPuts
    <3>2. ASSUME NEW y \in Transfers, xfer[y].path = p PROVE ~xfer[y].linked
      <4>1. Receiving(y)
        BY <3>2, NamesAssumption DEF Receiving
      <4> QED BY <3>1, <3>2, <4>1 DEF SavedInv, Midway
    <3> QED BY <3>1, <3>2, <1>1
  <2> QED BY <2>1, <2>2
<1>6. \A f \in promised' :
         /\ f \in Promise
         /\ \/ f \in promised /\ f.path # p
            \/ /\ f.path = p /\ disk'[p] = Whole(f.file, f.size)
               /\ \A y \in Transfers : xfer[y].path # p
  <2>1. CASE UserDeletes(p)
    BY <2>1, <1>1 DEF UserDeletes
  <2>2. CASE UserPuts(p)
    <3>1. ASSUME NEW f \in promised PROVE f.path # p
      <4>1. disk[f.path] = Whole(f.file, f.size) /\ f.file \in 0..MaxFiles /\ f.size \in Int
        BY <1>1, SizesAssumption DEF SavedInv, PlainKept, Promise
      <4> QED BY <4>1, <2>2, WholeFacts DEF UserPuts, Exists
    <3>2. disk'[p] = Whole(Own, MaxChunks)
      BY <2>2, <1>1 DEF UserPuts
    <3>3. ASSUME NEW f \in promised', f \notin promised
          PROVE  /\ f = [path |-> p, file |-> Own, size |-> MaxChunks] /\ p \in Plain
                 /\ \A y \in Transfers : xfer[y].path # p
      BY <2>2, <3>3 DEF UserPuts, Settled
    <3> QED BY <3>1, <3>2, <3>3, <1>1, <1>2 DEF Promise, Own
  <2> QED BY <2>1, <2>2
<1>7. SavingTypeOK'
  <2>1. disk' \in [Paths -> Contents \union {NoFile}]
    BY <1>1, <1>3, <1>4
  <2>2. promised' \subseteq Promise
    BY <1>6
  <2> QED BY <2>1, <2>2, <1>1, <1>5 DEF SavedInv, SavingTypeOK, Promise, Xfer
<1>8. ASSUME NEW q \in Paths, q # p PROVE disk'[q] = disk[q]
  BY <1>4, <1>1, <1>8
<1>9. Midway'
  <2> SUFFICES ASSUME NEW y \in Transfers, xfer'[y].path # NoPath
               PROVE  /\ xfer'[y].got < xfer'[y].size
                      /\ xfer'[y].linked => disk'[xfer'[y].path] # NoFile
    BY DEF Midway, Receiving, Exists
  <2>1. xfer[y].path \in Paths /\ xfer[y].path # NoPath
    BY <1>1, <1>5 DEF Xfer
  <2> QED BY <2>1, <1>5, <1>8 DEF SavedInv, Midway, Receiving, Exists
<1>10. Alone'
  BY <1>5 DEF SavedInv, Alone
<1>11. Growing'
  <2> SUFFICES ASSUME NEW y \in Transfers, xfer'[y].path \in Plain, xfer'[y].linked
               PROVE  disk'[xfer'[y].path] = Whole(xfer'[y].file, xfer'[y].got)
    BY DEF Growing, Whole
  <2>1. /\ xfer[y].path # p /\ xfer[y].path \in Plain
        /\ disk[xfer[y].path] = Whole(xfer[y].file, xfer[y].got)
    BY <1>5 DEF SavedInv, Growing
  <2>2. Whole(xfer'[y].file, xfer'[y].got) = Whole(xfer[y].file, xfer[y].got)
    BY <1>5
  <2> QED BY <2>1, <2>2, <1>5, <1>8, PathFacts
<1>12. Quiescent'
  BY <1>5, <1>6 DEF SavedInv, Quiescent
<1>13. PlainKept'
  <2> SUFFICES ASSUME NEW f \in promised'
               PROVE  disk'[f.path] = Whole(f.file, f.size)
    BY DEF PlainKept, Whole
  <2>1. CASE f \in promised /\ f.path # p
    <3>1. f.path \in Paths /\ disk[f.path] = Whole(f.file, f.size)
      BY <2>1, <1>1, PathFacts DEF SavedInv, PlainKept, Promise
    <3> QED BY <2>1, <3>1, <1>8
  <2>2. CASE f.path = p /\ disk'[p] = Whole(f.file, f.size)
    BY <2>2
  <2> QED BY <2>1, <2>2, <1>6
<1> QED BY <1>7, <1>9, <1>10, <1>11, <1>12, <1>13 DEF SavedInv

LEMMA SavingStepInv == SavedInv /\ [SavingNext]_savingVars => SavedInv'
<1> SUFFICES ASSUME SavedInv, [SavingNext]_savingVars PROVE SavedInv'
  OBVIOUS
<1>1. ASSUME NEW x \in Transfers, NEW n \in Names, NEW size \in 0..MaxChunks,
             BeginFile(x, n, size)
      PROVE  SavedInv'
  BY <1>1, BeginInv
<1>2. ASSUME NEW x \in Transfers, WriteChunk(x) \/ Abort(x)
      PROVE  SavedInv'
  BY <1>2, WriteInv, AbortInv
<1>3. ASSUME NEW p \in Paths, UserDeletes(p) \/ UserPuts(p)
      PROVE  SavedInv'
  BY <1>3, UserInv
<1>4. CASE UNCHANGED savingVars
  BY <1>4 DEF savingVars, SavedInv, SavingTypeOK, Midway, Alone, Growing, Quiescent, PlainKept,
               Receiving, Exists, Whole
<1> QED BY <1>1, <1>2, <1>3, <1>4 DEF SavingNext

-----------------------------------------------------------------------------
LEMMA SavingInvariance == SavingSpec => []SavedInv
BY SavingInitInv, SavingStepInv, PTL DEF SavingSpec

(* The state of the receiving connections and of the directory has its     *)
(* type, for any number of connections, names and files.                   *)
THEOREM SavingTyped == SavingSpec => []SavingTypeOK
<1>1. SavedInv => SavingTypeOK
  BY DEF SavedInv
<1> QED BY <1>1, SavingInvariance, PTL

(* A file under a name that no other gives way to stays whole until the    *)
(* user deletes it, once no connection is left with a deleted file of that *)
(* name (TransferServer.cpp:58-89, 183-194).                               *)
THEOREM PlainFilesKept == SavingSpec => []PlainKept
<1>1. SavedInv => PlainKept
  BY DEF SavedInv
<1> QED BY <1>1, SavingInvariance, PTL

-----------------------------------------------------------------------------
(* Settings: types, the radio buttons, the identity of a folder, and what  *)
(* the page removes.                                                       *)

(* A program that has started has an identity in its folder, and the       *)
(* dialog is open only where nothing has been decided.                     *)
Identified == running /\ ~moved => ini[folder].id # NoId

Undecided == /\ asking # NoDialog => running
             /\ asking # NoDialog /\ ~moved => ini[folder].close = "Unset"

Truthful == RadioIsStored /\ Identified /\ Undecided
Inv == TypeOK /\ Truthful

Legacy == [id : Nat, close : CloseActions]

Owns == [Folders -> [Peers -> Strategies \union {NotSet}]]
ListsOK(ls) == ls \in [Lists -> CheckList] /\ \A l \in Lists : ls[l].ticked \subseteq ls[l].rows

(* What every step keeps of the identities, and what it leaves in place    *)
(* unless it is ticked.                                                    *)
IdsKept == \A f \in Folders : ini[f].id # NoId => ini'[f].id = ini[f].id

TickedOnly ==
    running /\ page.shown =>
       /\ flags[used].saved \ flags'[used].saved \subseteq Ticked("saved")
       /\ flags[used].favorite \ flags'[used].favorite \subseteq Ticked("favorite")
       /\ flags[used].blocked \ flags'[used].blocked \subseteq Ticked("blocked")
       /\ \A p \in histories[used] \ histories'[used] :
             StrategyOf(p) = "Persistent" => p \in Ticked("history")

-----------------------------------------------------------------------------
(* AppSettings.                                                            *)
LEMMA MigrateFacts ==
  ASSUME TypeOK, NEW f \in Folders
  PROVE  /\ MigrateOnce(f) \in Ini /\ LegacyAfter(f) \in Legacy /\ SelfId(f) \in Nat \ {NoId}
         /\ MigrateOnce(f).strategy = ini[f].strategy
         /\ ini[f].id # NoId => MigrateOnce(f) = ini[f]
<1>1. /\ ini[f] \in Ini /\ legacy \in Legacy /\ created \in Nat
  BY DEF TypeOK, Legacy
<1>2. NoKeys \in Legacy
  BY DEF NoKeys, Legacy, NoId, CloseActions
<1>3. MigrateOnce(f) \in Ini /\ MigrateOnce(f).strategy = ini[f].strategy
  <2>1. CASE ini[f].id # NoId \/ legacy.id = NoId
    BY <2>1, <1>1 DEF MigrateOnce
  <2>2. CASE ini[f].id = NoId /\ legacy.id # NoId
    <3> DEFINE close == IF legacy.close = "Unset" THEN ini[f].close ELSE legacy.close
    <3>1. close \in CloseActions /\ legacy.id \in Nat
      BY <1>1 DEF Ini, Legacy
    <3>2. MigrateOnce(f) = [ini[f] EXCEPT !.id = legacy.id, !.close = close]
      BY <2>2 DEF MigrateOnce
    <3> HIDE DEF close
    <3> QED BY <3>1, <3>2, <1>1 DEF Ini
  <2> QED BY <2>1, <2>2
<1>4. LegacyAfter(f) \in Legacy
  BY <1>1, <1>2 DEF LegacyAfter
<1>5. SelfId(f) \in Nat \ {NoId}
  BY <1>1, <1>3 DEF SelfId, NoId, Ini
<1>6. ini[f].id # NoId => MigrateOnce(f) = ini[f]
  BY DEF MigrateOnce
<1> QED BY <1>3, <1>4, <1>5, <1>6

LEMMA ReadFacts ==
  ASSUME TypeOK, NEW f \in Folders, ReadSelfId(f)
  PROVE  /\ ini' \in [Folders -> Ini] /\ legacy' \in Legacy /\ created' \in Nat
         /\ IdsKept /\ ini'[f].id # NoId /\ (ini[f].id # NoId => ini' = ini)
<1>1. /\ MigrateOnce(f) \in Ini /\ LegacyAfter(f) \in Legacy /\ SelfId(f) \in Nat \ {NoId}
      /\ ini[f].id # NoId => MigrateOnce(f) = ini[f]
  BY MigrateFacts
<1>2. /\ ini \in [Folders -> Ini] /\ created \in Nat
  BY DEF TypeOK
<1> DEFINE new == [MigrateOnce(f) EXCEPT !.id = SelfId(f)]
<1>3. new \in Ini /\ new.id = SelfId(f)
  BY <1>1 DEF Ini
<1>4. ini' = [ini EXCEPT ![f] = new] /\ legacy' = LegacyAfter(f) /\ created' \in Nat
  BY <1>2 DEF ReadSelfId
<1>5. ASSUME ini[f].id # NoId PROVE new = ini[f]
  BY <1>1, <1>2, <1>5 DEF SelfId, Ini
<1> HIDE DEF new
<1> QED BY <1>1, <1>2, <1>3, <1>4, <1>5 DEF IdsKept

-----------------------------------------------------------------------------
(* The page's lists.                                                       *)
LEMMA TableFacts ==
  ASSUME NEW table \in Tables(Peers), NEW p \in Peers, NEW on \in BOOLEAN
  PROVE  /\ SetSaved(table, p, on) \in Tables(Peers)
         /\ SetFavorite(table, p, on) \in Tables(Peers)
         /\ SetBlocked(table, p, on) \in Tables(Peers)
         /\ \A t \in Tabs : Listed(table, t) \subseteq Peers
<1>1. \A set \in SUBSET Peers : Put(set, p, on) \in SUBSET Peers
  BY DEF Put
<1>2. /\ table.saved \in SUBSET Peers /\ table.favorite \in SUBSET Peers
      /\ table.blocked \in SUBSET Peers
  BY DEF Tables
<1>3. SetSaved(table, p, on) \in Tables(Peers)
  BY <1>1, <1>2 DEF SetSaved, Tables
<1>4. SetBlocked(table, p, on) \in Tables(Peers)
  BY <1>1, <1>2 DEF SetBlocked, Tables
<1>5. SetFavorite(table, p, on) \in Tables(Peers)
  <2> DEFINE saved == IF on THEN table.saved \union {p} ELSE table.saved
             favorite == Put(table.favorite, p, on)
  <2>1. saved \in SUBSET Peers /\ favorite \in SUBSET Peers
    BY <1>1, <1>2
  <2>2. SetFavorite(table, p, on) = [table EXCEPT !.favorite = favorite, !.saved = saved]
    BY DEF SetFavorite
  <2> HIDE DEF saved, favorite
  <2> QED BY <2>1, <2>2 DEF Tables
<1>6. \A t \in Tabs : Listed(table, t) \subseteq Peers
  BY <1>2 DEF Listed, Tabs, SavedPeers, FavoritePeers, BlockedPeers
<1> QED BY <1>3, <1>4, <1>5, <1>6

LEMMA LoadedFacts ==
  ASSUME NEW ids \in SUBSET Peers
  PROVE  Loaded(ids) \in CheckList /\ Loaded(ids).ticked = {} /\ Loaded(ids).rows = ids
BY DEF Loaded, CheckList

LEMMA OneListFacts ==
  ASSUME TypeOK, NEW l \in Lists, NEW c \in CheckList, c.ticked \subseteq c.rows
  PROVE  ListsOK([lists EXCEPT ![l] = c])
BY DEF TypeOK, ListsOK

LEMMA TickFacts ==
  ASSUME TypeOK, NEW l \in Lists, NEW ticked \in SUBSET lists[l].rows
  PROVE  ListsOK([lists EXCEPT ![l].ticked = ticked])
<1>1. lists \in [Lists -> CheckList] /\ lists[l] \in CheckList
  BY DEF TypeOK
<1> DEFINE c == [lists[l] EXCEPT !.ticked = ticked]
<1>2. c \in CheckList /\ c.ticked \subseteq c.rows
  BY <1>1 DEF CheckList
<1>3. [lists EXCEPT ![l].ticked = ticked] = [lists EXCEPT ![l] = c]
  BY <1>1
<1> HIDE DEF c
<1> QED BY <1>2, <1>3, OneListFacts

LEMMA RefreshFacts ==
  ASSUME TypeOK
  PROVE  /\ RefreshHistory => ListsOK(lists')
         /\ \A table \in Tables(Peers) : RefreshPeers(table) => ListsOK(lists')
<1>1. ASSUME RefreshHistory PROVE ListsOK(lists')
  <2>1. histories[used] \in SUBSET Peers /\ "history" \in Lists
    BY DEF TypeOK, Lists
  <2> QED BY <1>1, <2>1, LoadedFacts, OneListFacts DEF RefreshHistory
<1>2. ASSUME NEW table \in Tables(Peers), RefreshPeers(table) PROVE ListsOK(lists')
  <2>1. \A t \in Tabs : Listed(table, t) \in SUBSET Peers
    BY DEF Listed, Tabs, SavedPeers, FavoritePeers, BlockedPeers, Tables
  <2>2. \A l \in Lists : lists[l] \in CheckList /\ lists[l].ticked \subseteq lists[l].rows
    BY DEF TypeOK
  <2>3. \A l \in Lists : lists'[l] \in CheckList /\ lists'[l].ticked \subseteq lists'[l].rows
    BY <1>2, <2>1, <2>2, LoadedFacts DEF RefreshPeers
  <2>4. lists' = [l \in Lists |-> lists'[l]]
    BY <1>2 DEF RefreshPeers
  <2> QED BY <2>3, <2>4 DEF ListsOK
<1> QED BY <1>1, <1>2

LEMMA DisplayedFacts ==
  ASSUME TypeOK
  PROVE  /\ Displayed \in Lists \union {"none"}
         /\ Displayed \in Tabs => Displayed = page.tab
BY DEF TypeOK, Page, Displayed, Lists, Tabs, Categories

-----------------------------------------------------------------------------
LEMMA InitInv == Init => Inv
<1> SUFFICES ASSUME Init PROVE Inv
  OBVIOUS
<1>1. ini \in [Folders -> Ini]
  <2>1. PICK id \in {NoId, 2} : ini = [f \in Folders |-> IF f = Home THEN [NoIni EXCEPT !.id = id]
                                                         ELSE NoIni]
    BY DEF Init
  <2>2. NoIni \in Ini /\ [NoIni EXCEPT !.id = id] \in Ini
    BY DEF NoIni, NoId, Ini, CloseActions, Strategies
  <2> QED BY <2>1, <2>2
<1>2. legacy \in Legacy
  BY DEF Init, NoKeys, NoId, Legacy, CloseActions
<1>3. /\ flags \in [Folders -> Tables(Peers)] /\ histories \in [Folders -> SUBSET Peers]
      /\ own \in Owns
  BY DEF Init, NoFlags, Tables, Owns
<1>4. ListsOK(lists)
  BY LoadedFacts DEF Init, ListsOK
<1>5. page \in Page /\ asking \in [open : BOOLEAN, quit : BOOLEAN, remember : BOOLEAN]
  BY DEF Init, Page, NoDialog, Categories, Tabs, CloseActions, Strategies
<1>6. TypeOK
  <2>1. /\ running \in BOOLEAN /\ visible \in BOOLEAN /\ moved \in BOOLEAN
        /\ folder \in Folders /\ used \in Folders /\ effective \in Strategies
    BY FoldersAssumption DEF Init, Strategies
  <2>2. created \in Nat /\ announced \in Nat /\ greeted \in Nat /\ edits \in 0..MaxEdits
    BY EditsAssumption DEF Init, NoId
  <2> QED BY <1>1, <1>2, <1>3, <1>4, <1>5, <2>1, <2>2 DEF TypeOK, Legacy, ListsOK, Owns
<1>7. Truthful
  BY DEF Init, Truthful, RadioIsStored, Identified, Undecided
<1> QED BY <1>6, <1>7 DEF Inv

(* Most steps change nothing that the page must be true about.             *)
LEMMA Quiet ==
  ASSUME Truthful, UNCHANGED <<running, folder, moved, ini, asking>>,
         page'.close = page.close, page'.strategy = page.strategy
  PROVE  Truthful'
BY DEF Truthful, RadioIsStored, Identified, Undecided

(* What a step may do to the lists, the flags, the histories and the page  *)
(* when it leaves the preferences alone.                                   *)
LEMMA StoresInv ==
  ASSUME Inv, UNCHANGED <<running, visible, prefVars, idVars, effective, asking>>,
         flags' \in [Folders -> Tables(Peers)], histories' \in [Folders -> SUBSET Peers],
         own' \in Owns, ListsOK(lists'), page' \in Page, page'.close = page.close,
         page'.strategy = page.strategy, edits' \in 0..MaxEdits
  PROVE  Inv'
<1>1. TypeOK'
  BY DEF Inv, TypeOK, ListsOK, Owns, prefVars, idVars
<1>2. Truthful'
  BY Quiet DEF Inv, prefVars
<1> QED BY <1>1, <1>2 DEF Inv

LEMMA EditFacts == TypeOK /\ Edit => edits' \in 0..MaxEdits
BY EditsAssumption DEF TypeOK, Edit

LEMMA HistoriesFacts ==
  ASSUME TypeOK, NEW set \in SUBSET Peers
  PROVE  [histories EXCEPT ![used] = set] \in [Folders -> SUBSET Peers]
BY DEF TypeOK

LEMMA FlagsFacts ==
  ASSUME TypeOK, NEW table \in Tables(Peers)
  PROVE  [flags EXCEPT ![used] = table] \in [Folders -> Tables(Peers)]
BY DEF TypeOK

LEMMA Same ==
  TypeOK => /\ flags \in [Folders -> Tables(Peers)] /\ histories \in [Folders -> SUBSET Peers]
            /\ ListsOK(lists) /\ page \in Page /\ edits \in 0..MaxEdits
            /\ flags[used] \in Tables(Peers) /\ histories[used] \in SUBSET Peers
            /\ own \in Owns
BY DEF TypeOK, ListsOK, Owns

LEMMA MessageStoredInv ==
  ASSUME Inv, NEW p \in Peers, MessageStored(p)
  PROVE  Inv'
<1>1. TypeOK /\ histories[used] \union {p} \in SUBSET Peers
  BY Same DEF Inv
<1>2. histories' = [histories EXCEPT ![used] = histories[used] \union {p}]
  BY DEF MessageStored
<1>3. histories' \in [Folders -> SUBSET Peers] /\ edits' \in 0..MaxEdits
  BY <1>1, <1>2, HistoriesFacts, EditFacts DEF MessageStored
<1> QED BY <1>1, <1>3, Same, StoresInv DEF MessageStored

LEMMA SessionEndsInv ==
  ASSUME Inv, NEW p \in Peers, SessionEnds(p)
  PROVE  Inv'
<1>1. TypeOK /\ histories[used] \ {p} \in SUBSET Peers
  BY Same DEF Inv
<1>2. histories' = [histories EXCEPT ![used] = histories[used] \ {p}]
  BY DEF SessionEnds
<1>3. histories' \in [Folders -> SUBSET Peers]
  BY <1>1, <1>2, HistoriesFacts
<1> QED BY <1>1, <1>3, Same, StoresInv DEF SessionEnds

LEMMA SetStrategyInv ==
  ASSUME Inv, NEW p \in Peers, NEW s \in Strategies, SetPeerStrategy(p, s)
  PROVE  Inv'
<1>1. TypeOK /\ own \in Owns /\ histories[used] \ {p} \in SUBSET Peers
  BY Same DEF Inv
<1>2. histories' = [histories EXCEPT ![used] = histories[used] \ {p}] \/ histories' = histories
  BY DEF SetPeerStrategy
<1>3. histories' \in [Folders -> SUBSET Peers] /\ edits' \in 0..MaxEdits
  BY <1>1, <1>2, HistoriesFacts, EditFacts, Same DEF SetPeerStrategy
<1>4. own' \in Owns
  BY <1>1 DEF SetPeerStrategy, Owns
<1> QED BY <1>1, <1>3, <1>4, Same, StoresInv DEF SetPeerStrategy

LEMMA FlaggedInv ==
  ASSUME Inv, NEW p \in Peers, FlaggedElsewhere(p)
  PROVE  Inv'
<1>1. TypeOK /\ flags[used] \in Tables(Peers)
  BY Same DEF Inv
<1>2. PICK table \in Tables(Peers) : flags' = [flags EXCEPT ![used] = table]
  <2>1. CASE flags' = [flags EXCEPT ![used] = SetBlocked(@, p, TRUE)]
    BY <2>1, <1>1, TableFacts
  <2>2. CASE \E on \in BOOLEAN, set \in {"saved", "favorite", "blocked"} :
                flags' = [flags EXCEPT ![used] =
                             CASE set = "saved" -> SetSaved(@, p, on)
                               [] set = "favorite" -> SetFavorite(@, p, on)
                               [] set = "blocked" -> SetBlocked(@, p, on)]
    <3>1. PICK on \in BOOLEAN, set \in {"saved", "favorite", "blocked"} :
             flags' = [flags EXCEPT ![used] =
                             CASE set = "saved" -> SetSaved(@, p, on)
                               [] set = "favorite" -> SetFavorite(@, p, on)
                               [] set = "blocked" -> SetBlocked(@, p, on)]
      BY <2>2
    <3>2. CASE set = "saved"
      BY <3>1, <3>2, <1>1, TableFacts
    <3>3. CASE set = "favorite"
      BY <3>1, <3>3, <1>1, TableFacts
    <3>4. CASE set = "blocked"
      BY <3>1, <3>4, <1>1, TableFacts
    <3> QED BY <3>2, <3>3, <3>4
  <2> QED BY <2>1, <2>2 DEF FlaggedElsewhere
<1>3. flags' \in [Folders -> Tables(Peers)] /\ edits' \in 0..MaxEdits
  BY <1>1, <1>2, FlagsFacts, EditFacts DEF FlaggedElsewhere
<1> QED BY <1>1, <1>3, Same, StoresInv DEF FlaggedElsewhere

LEMMA PageChangedInv == ASSUME Inv, PageChanged PROVE Inv'
<1>1. TypeOK /\ page \in Page /\ flags[used] \in Tables(Peers)
  BY Same DEF Inv
<1>2. ListsOK(lists')
  BY <1>1, Same, RefreshFacts DEF PageChanged
<1>3. page' \in Page /\ page'.close = page.close /\ page'.strategy = page.strategy
  BY <1>1 DEF PageChanged, Page
<1> QED BY <1>1, <1>2, <1>3, Same, StoresInv DEF PageChanged, storeVars

LEMMA CategoryInv == ASSUME Inv, NEW c \in Categories, SelectCategory(c) PROVE Inv'
<1>1. TypeOK /\ page \in Page /\ flags[used] \in Tables(Peers)
  BY Same DEF Inv
<1>2. ListsOK(lists')
  BY <1>1, Same, RefreshFacts DEF SelectCategory
<1>3. page' \in Page /\ page'.close = page.close /\ page'.strategy = page.strategy
  BY <1>1 DEF SelectCategory, Page
<1> QED BY <1>1, <1>2, <1>3, Same, StoresInv DEF SelectCategory, storeVars

LEMMA TabInv == ASSUME Inv, NEW t \in Tabs, SelectTab(t) PROVE Inv'
<1>1. TypeOK /\ page \in Page
  BY Same DEF Inv
<1>2. page' \in Page /\ page'.close = page.close /\ page'.strategy = page.strategy
  BY <1>1 DEF SelectTab, Page
<1> QED BY <1>1, <1>2, Same, StoresInv DEF SelectTab, storeVars

LEMMA TicksInv ==
  ASSUME Inv, CheckAll \/ \E p \in Peers : Tick(p)
  PROVE  Inv'
<1>1. TypeOK
  BY DEF Inv
<1>2. PICK l \in Lists : \E ticked \in SUBSET lists[l].rows :
         lists' = [lists EXCEPT ![l].ticked = ticked]
  <2>1. CASE CheckAll
    <3>1. Displayed \in Lists
      BY <2>1 DEF CheckAll
    <3> DEFINE all == IF AllChecked(Displayed) THEN {} ELSE lists[Displayed].rows
    <3>2. all \in SUBSET lists[Displayed].rows
      OBVIOUS
    <3>3. lists' = [lists EXCEPT ![Displayed].ticked = all]
      BY <2>1 DEF CheckAll
    <3> HIDE DEF all
    <3> QED BY <3>1, <3>2, <3>3
  <2>2. ASSUME NEW p \in Peers, Tick(p)
        PROVE  \E l \in Lists : \E ticked \in SUBSET lists[l].rows :
                  lists' = [lists EXCEPT ![l].ticked = ticked]
    <3>1. Displayed \in Lists /\ p \in lists[Displayed].rows
      BY <2>2 DEF Tick
    <3> DEFINE set == Put(lists[Displayed].ticked, p, p \notin lists[Displayed].ticked)
    <3>2. set \in SUBSET lists[Displayed].rows
      BY <1>1, <3>1 DEF TypeOK, Put
    <3>3. lists' = [lists EXCEPT ![Displayed].ticked = set]
      BY <2>2, <1>1, <3>1 DEF Tick, TypeOK
    <3> HIDE DEF set
    <3> QED BY <3>1, <3>2, <3>3
  <2> QED BY <2>1, <2>2
<1>3. ListsOK(lists')
  BY <1>1, <1>2, TickFacts
<1>4. UNCHANGED <<running, visible, prefVars, idVars, storeVars, asking, page, edits>>
  BY DEF CheckAll, Tick
<1> QED BY <1>1, <1>3, <1>4, Same, StoresInv DEF storeVars

LEMMA DeleteInv ==
  ASSUME Inv, DeletePressed
  PROVE  Inv'
<1>1. TypeOK /\ histories[used] \ lists["history"].ticked \in SUBSET Peers
  BY Same DEF Inv
<1>2. histories' = [histories EXCEPT ![used] = histories[used] \ lists["history"].ticked]
  BY DEF DeletePressed
<1>3. histories' \in [Folders -> SUBSET Peers]
  BY <1>1, <1>2, HistoriesFacts
<1>4. Loaded({}) \in CheckList /\ Loaded({}).ticked = {} /\ "history" \in Lists
  BY LoadedFacts DEF Lists
<1>5. ListsOK(lists')
  BY <1>1, <1>4, OneListFacts DEF DeletePressed
<1> QED BY <1>1, <1>3, <1>5, Same, StoresInv DEF DeletePressed

LEMMA RemoveFacts ==
  ASSUME TypeOK, NEW t \in Tabs
  PROVE  /\ RemoveTicked(t) \in Tables(Peers)
         /\ flags[used].saved \ RemoveTicked(t).saved
               \subseteq (IF t = "saved" THEN lists[t].ticked ELSE {})
         /\ flags[used].favorite \ RemoveTicked(t).favorite
               \subseteq (IF t = "favorite" THEN lists[t].ticked ELSE {})
         /\ flags[used].blocked \ RemoveTicked(t).blocked
               \subseteq (IF t = "blocked" THEN lists[t].ticked ELSE {})
<1> DEFINE old == flags[used]
           Left(set, name) == IF t = name THEN set \ lists[t].ticked ELSE set
           saved == Left(old.saved, "saved")
           favorite == Left(old.favorite, "favorite")
           blocked == Left(old.blocked, "blocked")
<1>1. old \in Tables(Peers)
  BY Same
<1>2. /\ saved \in SUBSET Peers /\ favorite \in SUBSET Peers /\ blocked \in SUBSET Peers
  BY <1>1 DEF Tables
<1>3. RemoveTicked(t) = [old EXCEPT !.saved = saved, !.favorite = favorite, !.blocked = blocked]
  BY DEF RemoveTicked
<1>4. /\ RemoveTicked(t) \in Tables(Peers) /\ RemoveTicked(t).saved = saved
      /\ RemoveTicked(t).favorite = favorite /\ RemoveTicked(t).blocked = blocked
  <2> HIDE DEF saved, favorite, blocked, old
  <2> QED BY <1>1, <1>2, <1>3 DEF Tables
<1> QED BY <1>4

LEMMA RemoveInv ==
  ASSUME Inv, RemovePressed
  PROVE  Inv'
<1>1. TypeOK /\ page.tab \in Tabs
  BY Same DEF Inv, Page
<1>2. RemoveTicked(page.tab) \in Tables(Peers)
  BY <1>1, RemoveFacts
<1>3. flags' \in [Folders -> Tables(Peers)]
  BY <1>1, <1>2, FlagsFacts DEF RemovePressed
<1>4. ListsOK(lists')
  BY <1>1, <1>2, RefreshFacts DEF RemovePressed
<1> QED BY <1>1, <1>3, <1>4, Same, StoresInv DEF RemovePressed

-----------------------------------------------------------------------------
(* The steps that change the preferences.                                  *)
LEMMA StartInv == Inv /\ Start => Inv'
<1> SUFFICES ASSUME Inv, Start PROVE Inv'
  OBVIOUS
<1>1. TypeOK /\ folder \in Folders
  BY DEF Inv, TypeOK
<1>2. /\ ini' \in [Folders -> Ini] /\ legacy' \in Legacy /\ created' \in Nat
      /\ ini'[folder].id # NoId
  BY <1>1, ReadFacts DEF Start
<1>3. SelfId(folder) \in Nat
  BY <1>1, MigrateFacts
<1>4. ListsOK(lists')
  BY LoadedFacts DEF Start, ListsOK
<1>5. ini'[folder].close \in CloseActions /\ ini'[folder].strategy \in Strategies
  BY <1>1, <1>2 DEF Ini
<1>6. page' \in Page
  BY <1>5 DEF Start, Page, Categories, Tabs
<1>7. TypeOK'
  <2>1. /\ running' \in BOOLEAN /\ visible' \in BOOLEAN /\ moved' \in BOOLEAN
        /\ folder' \in Folders /\ used' \in Folders /\ effective' \in Strategies
    BY <1>1 DEF Start, Strategies
  <2>2. announced' \in Nat /\ greeted' \in Nat
    BY <1>3 DEF Start
  <2>3. UNCHANGED <<own, flags, histories, asking, edits>>
    BY DEF Start
  <2>4. /\ flags' \in [Folders -> Tables(Peers)] /\ histories' \in [Folders -> SUBSET Peers]
        /\ asking' \in [open : BOOLEAN, quit : BOOLEAN, remember : BOOLEAN]
        /\ edits' \in 0..MaxEdits /\ own' \in [Folders -> [Peers -> Strategies \union {NotSet}]]
    BY <1>1, <2>3 DEF TypeOK
  <2> QED BY <1>2, <1>4, <1>6, <2>1, <2>2, <2>4 DEF TypeOK, Legacy, ListsOK
<1>8. asking' = NoDialog
  BY DEF Inv, Truthful, Undecided, Start
<1>9. Truthful'
  BY <1>2, <1>8 DEF Start, Truthful, RadioIsStored, Identified, Undecided, NoDialog
<1> QED BY <1>7, <1>9 DEF Inv

LEMMA HelloInv == Inv /\ Hello => Inv'
<1> SUFFICES ASSUME Inv, Hello PROVE Inv'
  OBVIOUS
<1>1. TypeOK /\ folder \in Folders
  BY DEF Inv, TypeOK
<1>2. /\ ini' \in [Folders -> Ini] /\ legacy' \in Legacy /\ created' \in Nat
      /\ ini'[folder].id # NoId /\ (ini[folder].id # NoId => ini' = ini)
  BY <1>1, ReadFacts DEF Hello
<1>3. SelfId(folder) \in Nat
  BY <1>1, MigrateFacts
<1>4. TypeOK'
  BY <1>1, <1>2, <1>3 DEF Hello, TypeOK, Legacy, storeVars
<1>5. ASSUME ~moved, running PROVE ini' = ini
  BY <1>2, <1>5 DEF Inv, Truthful, Identified
<1>6. Truthful'
  BY <1>2, <1>5 DEF Hello, Inv, Truthful, RadioIsStored, Identified, Undecided
<1> QED BY <1>4, <1>6 DEF Inv

(* A key of the folder in use is written.                                  *)
LEMMA SetFacts ==
  ASSUME TypeOK
  PROVE  /\ \A a \in CloseActions : SetCloseAction(a) =>
               /\ ini' \in [Folders -> Ini] /\ IdsKept /\ ini'[folder].close = a
               /\ ini'[folder].id = ini[folder].id /\ ini'[folder].strategy = ini[folder].strategy
         /\ \A s \in Strategies : SetDefaultStrategy(s) =>
               /\ ini' \in [Folders -> Ini] /\ IdsKept /\ ini'[folder].strategy = s
               /\ ini'[folder].id = ini[folder].id /\ ini'[folder].close = ini[folder].close
<1>1. ini \in [Folders -> Ini] /\ folder \in Folders /\ ini[folder] \in Ini
  BY DEF TypeOK
<1>2. ASSUME NEW a \in CloseActions, SetCloseAction(a)
      PROVE  /\ ini' \in [Folders -> Ini] /\ IdsKept /\ ini'[folder].close = a
             /\ ini'[folder].id = ini[folder].id /\ ini'[folder].strategy = ini[folder].strategy
  <2> DEFINE new == [ini[folder] EXCEPT !.close = a]
  <2>1. new \in Ini /\ new.close = a /\ new.id = ini[folder].id
        /\ new.strategy = ini[folder].strategy
    BY <1>1 DEF Ini
  <2>2. ini' = [ini EXCEPT ![folder] = new]
    BY <1>2 DEF SetCloseAction
  <2> HIDE DEF new
  <2> QED BY <1>1, <2>1, <2>2 DEF IdsKept
<1>3. ASSUME NEW s \in Strategies, SetDefaultStrategy(s)
      PROVE  /\ ini' \in [Folders -> Ini] /\ IdsKept /\ ini'[folder].strategy = s
             /\ ini'[folder].id = ini[folder].id /\ ini'[folder].close = ini[folder].close
  <2> DEFINE new == [ini[folder] EXCEPT !.strategy = s]
  <2>1. new \in Ini /\ new.strategy = s /\ new.id = ini[folder].id
        /\ new.close = ini[folder].close
    BY <1>1 DEF Ini
  <2>2. ini' = [ini EXCEPT ![folder] = new]
    BY <1>3 DEF SetDefaultStrategy
  <2> HIDE DEF new
  <2> QED BY <1>1, <2>1, <2>2 DEF IdsKept
<1> QED BY <1>2, <1>3

LEMMA RadiosInv ==
  ASSUME Inv,
         \/ \E action \in CloseActions : CloseRadio(action)
         \/ \E s \in Strategies : StrategyRadio(s)
         \/ \E f \in Folders : BrowseForDataFolder(f)
  PROVE  Inv'
<1>1. TypeOK /\ page \in Page
  BY Same DEF Inv
<1>2. ASSUME NEW action \in CloseActions, CloseRadio(action) PROVE Inv'
  <2>1. /\ ini' \in [Folders -> Ini] /\ ini'[folder].close = action
        /\ ini'[folder].id = ini[folder].id /\ ini'[folder].strategy = ini[folder].strategy
    BY <1>1, <1>2, SetFacts DEF CloseRadio
  <2>2. page' \in Page /\ page'.close = action /\ page'.strategy = page.strategy
    BY <1>1, <1>2 DEF CloseRadio, Page
  <2>3. edits' \in 0..MaxEdits /\ asking = NoDialog
    BY <1>1, <1>2, EditFacts DEF CloseRadio, Pressed
  <2>4. TypeOK'
    BY <1>1, <1>2, <2>1, <2>2, <2>3 DEF CloseRadio, TypeOK, storeVars, idVars
  <2>5. Truthful'
    BY <1>2, <2>1, <2>2, <2>3 DEF CloseRadio, Inv, Truthful, RadioIsStored, Identified, Undecided
  <2> QED BY <2>4, <2>5 DEF Inv
<1>3. ASSUME NEW s \in Strategies, StrategyRadio(s) PROVE Inv'
  <2>1. /\ ini' \in [Folders -> Ini] /\ ini'[folder].strategy = s
        /\ ini'[folder].id = ini[folder].id /\ ini'[folder].close = ini[folder].close
    BY <1>1, <1>3, SetFacts DEF StrategyRadio
  <2>2. page' \in Page /\ page'.close = page.close /\ page'.strategy = s
    BY <1>1, <1>3 DEF StrategyRadio, Page
  <2>3. edits' \in 0..MaxEdits /\ asking = NoDialog
    BY <1>1, <1>3, EditFacts DEF StrategyRadio, Pressed
  <2>4. TypeOK'
    BY <1>1, <1>3, <2>1, <2>2, <2>3 DEF StrategyRadio, TypeOK, idVars
  <2>5. Truthful'
    BY <1>3, <2>1, <2>2, <2>3
       DEF StrategyRadio, Inv, Truthful, RadioIsStored, Identified, Undecided
  <2> QED BY <2>4, <2>5 DEF Inv
<1>4. ASSUME NEW f \in Folders, BrowseForDataFolder(f) PROVE Inv'
  <2>1. edits' \in 0..MaxEdits /\ asking = NoDialog
    BY <1>1, <1>4, EditFacts DEF BrowseForDataFolder, Pressed
  <2>2. moved' \in BOOLEAN
    BY <1>4 DEF BrowseForDataFolder
  <2>3. TypeOK'
    BY <1>1, <1>4, <2>1, <2>2 DEF BrowseForDataFolder, TypeOK, idVars, storeVars
  <2>4. ASSUME ~moved' PROVE ~moved /\ folder' = folder
    BY <1>4, <2>4 DEF BrowseForDataFolder
  <2>5. Truthful'
    BY <1>4, <2>1, <2>4
       DEF BrowseForDataFolder, Inv, Truthful, RadioIsStored, Identified, Undecided
  <2> QED BY <2>3, <2>5 DEF Inv
<1> QED BY <1>2, <1>3, <1>4

-----------------------------------------------------------------------------
(* Closing the window.                                                     *)
LEMMA CloseFacts ==
  ASSUME TypeOK, NEW action, Close(action)
  PROVE  running' \in BOOLEAN /\ visible' \in BOOLEAN /\ (running' => running)
BY DEF Close, TypeOK

LEMMA CloseEventInv == Inv /\ CloseEvent => Inv'
<1> SUFFICES ASSUME Inv, CloseEvent PROVE Inv'
  OBVIOUS
<1>1. TypeOK /\ folder \in Folders /\ ini \in [Folders -> Ini] /\ running /\ asking = NoDialog
  BY DEF Inv, TypeOK, CloseEvent
<1>2. /\ MigrateOnce(folder) \in Ini /\ LegacyAfter(folder) \in Legacy
      /\ ini[folder].id # NoId => MigrateOnce(folder) = ini[folder]
  BY <1>1, MigrateFacts
<1>3. /\ ini' \in [Folders -> Ini] /\ legacy' \in Legacy /\ ini'[folder] = MigrateOnce(folder)
      /\ UNCHANGED <<folder, created, moved, idVars, storeVars, page, lists, edits>>
  BY <1>1, <1>2 DEF CloseEvent
<1>4. /\ running' \in BOOLEAN /\ visible' \in BOOLEAN
      /\ asking' \in [open : BOOLEAN, quit : BOOLEAN, remember : BOOLEAN]
      /\ asking' = NoDialog \/ (running' /\ ini'[folder].close = "Unset")
  <2>1. CASE Asks
    <3>1. asking' = [NoDialog EXCEPT !.open = TRUE] /\ UNCHANGED <<running, visible>>
      BY <2>1 DEF CloseEvent
    <3> QED BY <2>1, <3>1, <1>1, <1>3 DEF Asks, NoDialog, TypeOK
  <2>2. CASE ~Asks
    <3>1. Close(MigrateOnce(folder).close) /\ UNCHANGED asking
      BY <2>2 DEF CloseEvent
    <3> QED BY <3>1, <1>1, CloseFacts DEF TypeOK
  <2> QED BY <2>1, <2>2
<1>5. TypeOK'
  BY <1>1, <1>3, <1>4 DEF TypeOK, Legacy, idVars, storeVars
<1>6. ASSUME ~moved PROVE ini'[folder] = ini[folder] /\ ini[folder].id # NoId
  BY <1>1, <1>2, <1>3, <1>6 DEF Inv, Truthful, Identified
<1>7. Truthful'
  BY <1>1, <1>3, <1>4, <1>6 DEF Inv, Truthful, RadioIsStored, Identified, Undecided
<1> QED BY <1>5, <1>7 DEF Inv

LEMMA DialogInv == Inv /\ (DialogPressed \/ DialogCloses) => Inv'
<1> SUFFICES ASSUME Inv, DialogPressed \/ DialogCloses PROVE Inv'
  OBVIOUS
<1>1. TypeOK /\ folder \in Folders /\ ini \in [Folders -> Ini] /\ running
  BY DEF Inv, TypeOK, DialogPressed, DialogCloses
<1>2. CASE DialogPressed
  <2>1. asking' \in [open : BOOLEAN, quit : BOOLEAN, remember : BOOLEAN]
    BY <1>1, <1>2 DEF DialogPressed, TypeOK
  <2>2. asking # NoDialog
        /\ UNCHANGED <<running, visible, prefVars, idVars, storeVars, page, lists, edits>>
    BY <1>2 DEF DialogPressed
  <2>3. TypeOK'
    BY <1>1, <2>1, <2>2 DEF TypeOK, prefVars, idVars, storeVars
  <2>4. Truthful'
    BY <2>2 DEF Inv, Truthful, RadioIsStored, Identified, Undecided, prefVars
  <2> QED BY <2>3, <2>4 DEF Inv
<1>3. CASE DialogCloses
  <2> DEFINE choice == IF asking.quit THEN "Quit" ELSE "MinimizeToTray"
  <2>1. /\ asking # NoDialog /\ asking' = NoDialog /\ Close(choice)
        /\ IF asking.remember THEN SetCloseAction(choice) ELSE UNCHANGED ini
        /\ UNCHANGED <<folder, legacy, created, moved, idVars, storeVars, page, lists, edits>>
    BY <1>3 DEF DialogCloses
  <2>2. choice \in CloseActions
    BY DEF CloseActions
  <2> HIDE DEF choice
  <2>3. /\ running' \in BOOLEAN /\ visible' \in BOOLEAN
    BY <1>1, <2>1, CloseFacts
  <2>4. /\ ini' \in [Folders -> Ini] /\ ini'[folder].id = ini[folder].id
        /\ ini'[folder].strategy = ini[folder].strategy
    BY <1>1, <2>1, <2>2, SetFacts
  <2>5. TypeOK'
    BY <1>1, <2>1, <2>3, <2>4 DEF TypeOK, idVars, storeVars, NoDialog
  <2>6. ASSUME ~moved PROVE page.close = "Unset"
    BY <1>1, <2>1, <2>6 DEF Inv, Truthful, RadioIsStored, Undecided
  <2>7. Truthful'
    BY <1>1, <2>1, <2>4, <2>6 DEF Inv, Truthful, RadioIsStored, Identified, Undecided
  <2> QED BY <2>5, <2>7 DEF Inv
<1> QED BY <1>2, <1>3

LEMMA WindowInv == Inv /\ (Minimized \/ ShowRequested \/ TrayQuit) => Inv'
<1> SUFFICES ASSUME Inv, Minimized \/ ShowRequested \/ TrayQuit PROVE Inv'
  OBVIOUS
<1>1. /\ running' \in BOOLEAN /\ visible' \in BOOLEAN /\ (running' => running)
      /\ running' \/ asking = NoDialog
      /\ UNCHANGED <<prefVars, idVars, storeVars, asking, page, lists, edits>>
  <2>1. running \in BOOLEAN /\ visible \in BOOLEAN
    BY DEF Inv, TypeOK
  <2>2. CASE Minimized
    BY <2>1, <2>2 DEF Minimized
  <2>3. CASE ShowRequested
    BY <2>1, <2>3 DEF ShowRequested
  <2>4. CASE TrayQuit
    BY <2>1, <2>4 DEF TrayQuit
  <2> QED BY <2>2, <2>3, <2>4
<1>2. TypeOK'
  BY <1>1 DEF Inv, TypeOK, prefVars, idVars, storeVars
<1>3. Truthful'
  BY <1>1 DEF Inv, Truthful, RadioIsStored, Identified, Undecided, prefVars
<1> QED BY <1>2, <1>3 DEF Inv

LEMMA StepInv == Inv /\ [Next]_vars => Inv'
<1> SUFFICES ASSUME Inv, [Next]_vars PROVE Inv'
  OBVIOUS
<1>1. CASE Start \/ Hello
  BY <1>1, StartInv, HelloInv
<1>2. ASSUME NEW p \in Peers, MessageStored(p) \/ SessionEnds(p) \/ FlaggedElsewhere(p) \/ Tick(p)
      PROVE  Inv'
  BY <1>2, MessageStoredInv, SessionEndsInv, FlaggedInv, TicksInv
<1>3. CASE PageChanged
  BY <1>3, PageChangedInv
<1>4. ASSUME NEW c \in Categories, SelectCategory(c) PROVE Inv'
  BY <1>4, CategoryInv
<1>5. ASSUME NEW t \in Tabs, SelectTab(t) PROVE Inv'
  BY <1>5, TabInv
<1>6. CASE CheckAll \/ DeletePressed \/ RemovePressed
  BY <1>6, TicksInv, DeleteInv, RemoveInv
<1>7. ASSUME NEW action \in CloseActions, CloseRadio(action) PROVE Inv'
  BY <1>7, RadiosInv
<1>8. ASSUME NEW s \in Strategies, StrategyRadio(s) PROVE Inv'
  BY <1>8, RadiosInv
<1>9. ASSUME NEW f \in Folders, BrowseForDataFolder(f) PROVE Inv'
  BY <1>9, RadiosInv
<1>10. CASE CloseEvent \/ DialogPressed \/ DialogCloses
  BY <1>10, CloseEventInv, DialogInv
<1>11. CASE Minimized \/ ShowRequested \/ TrayQuit
  BY <1>11, WindowInv
<1>12. CASE UNCHANGED vars
  BY <1>12 DEF vars, prefVars, idVars, storeVars, Inv, TypeOK, Truthful, RadioIsStored, Identified,
               Undecided
<1>13. ASSUME NEW p \in Peers, NEW s \in Strategies, SetPeerStrategy(p, s) PROVE Inv'
  BY <1>13, SetStrategyInv
<1> QED BY <1>1, <1>2, <1>3, <1>4, <1>5, <1>6, <1>7, <1>8, <1>9, <1>10, <1>11, <1>12, <1>13 DEF Next

-----------------------------------------------------------------------------
(* What a step keeps.                                                      *)
LEMMA StepKeepsIds == TypeOK /\ [Next]_vars => IdsKept
<1> SUFFICES ASSUME TypeOK, [Next]_vars PROVE IdsKept
  OBVIOUS
<1>1. folder \in Folders /\ ini \in [Folders -> Ini]
  BY DEF TypeOK
<1>2. CASE Start \/ Hello
  BY <1>1, <1>2, ReadFacts DEF Start, Hello
<1>3. ASSUME NEW action \in CloseActions, CloseRadio(action) PROVE IdsKept
  BY <1>3, SetFacts DEF CloseRadio
<1>4. ASSUME NEW s \in Strategies, StrategyRadio(s) PROVE IdsKept
  BY <1>4, SetFacts DEF StrategyRadio
<1>5. CASE CloseEvent
  <2>1. ini' = [ini EXCEPT ![folder] = MigrateOnce(folder)]
    BY <1>5 DEF CloseEvent
  <2> QED BY <1>1, <2>1, MigrateFacts DEF IdsKept
<1>6. CASE DialogCloses
  <2>1. CASE asking.remember
    <3> DEFINE choice == IF asking.quit THEN "Quit" ELSE "MinimizeToTray"
    <3>1. SetCloseAction(choice) /\ choice \in CloseActions
      BY <1>6, <2>1 DEF DialogCloses, CloseActions
    <3> HIDE DEF choice
    <3> QED BY <3>1, SetFacts
  <2>2. CASE ~asking.remember
    BY <1>6, <2>2 DEF DialogCloses, IdsKept
  <2> QED BY <2>1, <2>2
<1>7. ASSUME UNCHANGED ini PROVE IdsKept
  BY <1>7 DEF IdsKept
<1>8. ASSUME NEW p \in Peers, MessageStored(p) \/ SessionEnds(p) \/ FlaggedElsewhere(p) \/ Tick(p)
      PROVE  UNCHANGED ini
  BY <1>8 DEF MessageStored, SessionEnds, FlaggedElsewhere, Tick, prefVars
<1>9. ASSUME NEW c \in Categories, SelectCategory(c) PROVE UNCHANGED ini
  BY <1>9 DEF SelectCategory, prefVars
<1>10. ASSUME NEW t \in Tabs, SelectTab(t) PROVE UNCHANGED ini
  BY <1>10 DEF SelectTab, prefVars
<1>11. ASSUME NEW f \in Folders, BrowseForDataFolder(f) PROVE UNCHANGED ini
  BY <1>11 DEF BrowseForDataFolder
<1>12. ASSUME \/ PageChanged \/ CheckAll \/ DeletePressed \/ RemovePressed \/ DialogPressed
              \/ Minimized \/ ShowRequested \/ TrayQuit \/ UNCHANGED vars
       PROVE  UNCHANGED ini
  BY <1>12 DEF PageChanged, CheckAll, DeletePressed, RemovePressed, DialogPressed, Minimized,
               ShowRequested, TrayQuit, vars, prefVars
<1>13. ASSUME NEW p \in Peers, NEW s \in Strategies, SetPeerStrategy(p, s) PROVE UNCHANGED ini
  BY <1>13 DEF SetPeerStrategy, prefVars
<1> QED BY <1>2, <1>3, <1>4, <1>5, <1>6, <1>7, <1>8, <1>9, <1>10, <1>11, <1>12, <1>13 DEF Next

LEMMA StepKeepsUnticked == TypeOK /\ [Next]_vars => TickedOnly
<1> SUFFICES ASSUME TypeOK, [Next]_vars, running, page.shown PROVE TickedOnly
  BY DEF TickedOnly
<1>1. /\ used \in Folders /\ flags \in [Folders -> Tables(Peers)]
      /\ histories \in [Folders -> SUBSET Peers] /\ flags[used] \in Tables(Peers)
      /\ page.tab \in Tabs
  BY Same DEF TypeOK, Page
<1>2. ASSUME UNCHANGED <<flags, histories>> PROVE TickedOnly
  BY <1>2 DEF TickedOnly
<1>3. ASSUME NEW p \in Peers, MessageStored(p) PROVE TickedOnly
  BY <1>1, <1>3 DEF MessageStored, TickedOnly
<1>4. ASSUME NEW p \in Peers, SessionEnds(p) PROVE TickedOnly
  <2>1. /\ histories' = [histories EXCEPT ![used] = histories[used] \ {p}] /\ UNCHANGED flags
        /\ StrategyOf(p) = "SessionOnly"
    BY <1>4 DEF SessionEnds
  <2>2. \A q \in histories[used] \ histories'[used] : q = p
    BY <1>1, <2>1
  <2> QED BY <2>1, <2>2 DEF TickedOnly
<1>5. ASSUME NEW p \in Peers, FlaggedElsewhere(p) PROVE TickedOnly
  <2>1. flags' = [flags EXCEPT ![used] = SetBlocked(flags[used], p, TRUE)] /\ UNCHANGED histories
    BY <1>5 DEF FlaggedElsewhere, PanelShows
  <2>2. flags'[used] = [flags[used] EXCEPT !.blocked = flags[used].blocked \union {p}]
    BY <1>1, <2>1 DEF SetBlocked, Put
  <2> QED BY <1>1, <2>1, <2>2 DEF Tables, TickedOnly
<1>6. CASE DeletePressed
  <2>1. histories' = [histories EXCEPT ![used] = histories[used] \ lists["history"].ticked]
        /\ UNCHANGED flags /\ Ticked("history") = lists["history"].ticked
    BY <1>6 DEF DeletePressed, Ticked
  <2> QED BY <1>1, <2>1 DEF TickedOnly
<1>7. CASE RemovePressed
  <2>1. flags'[used] = RemoveTicked(page.tab) /\ UNCHANGED histories
    BY <1>1, <1>7 DEF RemovePressed
  <2>2. Ticked(page.tab) = lists[page.tab].ticked
    BY <1>7, DisplayedFacts DEF RemovePressed, Ticked
  <2> QED BY <1>1, <2>1, <2>2, RemoveFacts DEF TickedOnly
<1>8. ASSUME NEW p \in Peers, Tick(p) PROVE UNCHANGED <<flags, histories>>
  BY <1>8 DEF Tick, storeVars
<1>9. ASSUME NEW c \in Categories, SelectCategory(c) PROVE UNCHANGED <<flags, histories>>
  BY <1>9 DEF SelectCategory, storeVars
<1>10. ASSUME NEW t \in Tabs, SelectTab(t) PROVE UNCHANGED <<flags, histories>>
  BY <1>10 DEF SelectTab, storeVars
<1>11. ASSUME NEW f \in Folders, BrowseForDataFolder(f) PROVE UNCHANGED <<flags, histories>>
  BY <1>11 DEF BrowseForDataFolder, storeVars
<1>12. ASSUME NEW action \in CloseActions, CloseRadio(action) PROVE UNCHANGED <<flags, histories>>
  BY <1>12 DEF CloseRadio, storeVars
<1>13. ASSUME NEW s \in Strategies, StrategyRadio(s) PROVE UNCHANGED <<flags, histories>>
  BY <1>13 DEF StrategyRadio
<1>14. ASSUME \/ Start \/ Hello \/ PageChanged \/ CheckAll \/ CloseEvent \/ DialogPressed
              \/ DialogCloses \/ Minimized \/ ShowRequested \/ TrayQuit \/ UNCHANGED vars
       PROVE  UNCHANGED <<flags, histories>>
  BY <1>14 DEF Start, Hello, PageChanged, CheckAll, CloseEvent, DialogPressed, DialogCloses,
               Minimized, ShowRequested, TrayQuit, vars, storeVars
<1>15. ASSUME NEW p \in Peers, NEW s \in Strategies, SetPeerStrategy(p, s) PROVE FALSE
  BY <1>15 DEF SetPeerStrategy, PanelShows
<1> QED BY <1>2, <1>3, <1>4, <1>5, <1>6, <1>7, <1>8, <1>9, <1>10, <1>11, <1>12, <1>13, <1>14, <1>15
     DEF Next

-----------------------------------------------------------------------------
LEMMA Invariance == Spec => []Inv
BY InitInv, StepInv, PTL DEF Spec

(* The preferences, the stores and the page have their type, for any       *)
(* folders, peers and changes.                                             *)
THEOREM SettingsTyped == Spec => []TypeOK
<1>1. Inv => TypeOK
  BY DEF Inv
<1> QED BY <1>1, Invariance, PTL

(* The radio buttons show what is stored, but for a close action that the  *)
(* dialog remembered, until the data folder is changed                     *)
(* (SettingsPage.cpp:352-359, AppSettings.cpp:90-104,                      *)
(* MainWindow.cpp:394-412).                                                *)
THEOREM RadiosTrue == Spec => []RadioIsStored
<1>1. Inv => RadioIsStored
  BY DEF Inv, Truthful
<1> QED BY <1>1, Invariance, PTL

(* A folder keeps its identity (AppSettings.cpp:29-75).                    *)
THEOREM IdentityKept == Spec => OneIdentity
<1>1. Inv /\ [Next]_vars => [IdsKept]_vars
  BY StepKeepsIds DEF Inv
<1>2. Spec => [][IdsKept]_vars
  BY <1>1, Invariance, PTL DEF Spec
<1> QED BY <1>2 DEF OneIdentity, IdsKept

(* The page removes what is ticked where it shows, and nothing else is     *)
(* lost meanwhile but the messages of peers that are SessionOnly           *)
(* (SettingsPage.cpp:1097-1139, MainWindow.cpp:330-355,                    *)
(* ChatStore.cpp:130-132, 204-211).                                        *)
THEOREM UntickedKept == Spec => OnlyTicked
<1>1. Inv /\ [Next]_vars => [TickedOnly]_vars
  BY StepKeepsUnticked DEF Inv
<1>2. Spec => [][TickedOnly]_vars
  BY <1>1, Invariance, PTL DEF Spec
<1> QED BY <1>2 DEF OnlyTicked, TickedOnly
=============================================================================
