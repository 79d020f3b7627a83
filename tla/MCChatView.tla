----------------------------- MODULE MCChatView -----------------------------
(***************************************************************************)
(* The instance of ChatView that TLC checks: three images, two of them     *)
(* offered with a preview; a folder with a snapshot; or one that was sent  *)
(* before there were snapshots.  Bulks of one entry and one slot of memory *)
(* make truncated directories and evictions common.                        *)
(***************************************************************************)
EXTENDS ChatView

Folder == [paths |-> {<<1>>, <<1, 1>>, <<1, 1, 1>>, <<1, 1, 2>>, <<1, 2>>, <<2>>, <<3>>},
           dirs |-> {<<1>>, <<1, 1>>}]

Found == [paths |-> {<<1>>, <<1, 1>>, <<1, 2>>}, dirs |-> {<<1>>}]

Offer(p, kind, out, preview, tree, path) ==
    [peer |-> p, kind |-> kind, out |-> out, preview |-> preview, tree |-> tree, path |-> path]

MCStores == { << Offer(1, "Image", FALSE, TRUE, Nothing, NoPath),
                 Offer(2, "Image", FALSE, TRUE, Nothing, NoPath),
                 Offer(1, "Image", TRUE, FALSE, Nothing, LocalPath) >>,
              << Offer(1, "Folder", FALSE, FALSE, Folder, NoPath) >>,
              << Offer(1, "Folder", TRUE, FALSE, Nothing, LocalPath) >> }

MCHeight == [Text |-> 1, Image |-> 2, Folder |-> 1, bar |-> 1, view |-> 1, near |-> 1, step |-> 1]
=============================================================================
