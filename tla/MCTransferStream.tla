-------------------------- MODULE MCTransferStream --------------------------
(***************************************************************************)
(* The instance of TransferStream that TLC checks.                         *)
(***************************************************************************)
EXTENDS TransferStream

Dir == [dir |-> TRUE, size |-> 0]
File(size) == [dir |-> FALSE, size |-> size]

MixedBatches == {<<>>, <<File(2)>>, <<File(1), File(1)>>, <<Dir, File(1), File(0)>>,
                 <<File(4), Dir>>, <<File(5)>>}
=============================================================================
