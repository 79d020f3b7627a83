------------------------------ MODULE LineEdit ------------------------------
(***************************************************************************)
(* What a one-line text field promises: a text, a cursor and an anchor in  *)
(* it, and between the two the selection.  Text is put in and taken out    *)
(* only where the selection is, or next to the cursor when there is none.  *)
(***************************************************************************)
EXTENDS Integers, Sequences

CONSTANT Texts   \* what can be typed, pasted or composed at once

VARIABLES text, cursor, anchor

fieldVars == <<text, cursor, anchor>>

From == IF anchor < cursor THEN anchor ELSE cursor
To == IF anchor < cursor THEN cursor ELSE anchor
Before == SubSeq(text, 1, From)
After == SubSeq(text, To + 1, Len(text))

(* What is selected gives way to s, and the cursor stands behind it.       *)
Replace(s) == /\ text' = Before \o s \o After
              /\ cursor' = From + Len(s) /\ anchor' = cursor'

EraseLeft == /\ anchor = cursor /\ cursor > 0
             /\ text' = SubSeq(text, 1, cursor - 1) \o After
             /\ cursor' = cursor - 1 /\ anchor' = cursor'

EraseRight == /\ anchor = cursor /\ cursor < Len(text)
              /\ text' = Before \o SubSeq(text, cursor + 2, Len(text))
              /\ UNCHANGED <<cursor, anchor>>

Place(i) == cursor' = i /\ anchor' \in {i, anchor} /\ UNCHANGED text

SelectAll == cursor' = Len(text) /\ anchor' = 0 /\ UNCHANGED text

Clear == text' = <<>> /\ cursor' = 0 /\ anchor' = 0

Init == text = <<>> /\ cursor = 0 /\ anchor = 0

Next == \/ \E s \in Texts \union {<<>>} : Replace(s)
        \/ EraseLeft \/ EraseRight
        \/ \E i \in 0..Len(text) : Place(i)
        \/ SelectAll \/ Clear

Spec == Init /\ [][Next]_fieldVars
=============================================================================
